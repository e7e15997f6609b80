--------------------------- MODULE MCAgentSessions ---------------------------
(***************************************************************************)
(* Small instances of the two parts of the agent that keep a map of        *)
(* sessions, the session broker and the RDS supervisor, under the fairness *)
(* of their goroutines.  They share no variable: a behaviour follows one   *)
(* of them, and the other rests in its initial state, in which fairness    *)
(* asks nothing of it.                                                     *)
(***************************************************************************)
EXTENDS SessionBroker, RDSSupervisor

VARIABLE part

SessionsInit == part \in {"broker", "rds"} /\ Init /\ SupervisorInit

SessionsNext ==
  \/ part = "broker" /\ Next /\ UNCHANGED <<part, supervisorVars>>
  \/ part = "rds" /\ SupervisorNext /\ UNCHANGED <<part, vars>>

SessionsSpec ==
  /\ SessionsInit /\ [][SessionsNext]_<<part, vars, supervisorVars>>
  /\ Fairness /\ SupervisorFairness
=============================================================================
