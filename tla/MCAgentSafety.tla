---------------------------- MODULE MCAgentSafety ----------------------------
(***************************************************************************)
(* Small instances of two parts of the agent of which only safety is       *)
(* asked, the session broker and the spool on disk.  They share no         *)
(* variable: a behaviour follows one of them.                              *)
(***************************************************************************)
EXTENDS SessionBroker, DiskSpool, TLC

VARIABLE part

SafetyInit == part \in {"broker", "spool"} /\ Init /\ SpoolInit

SafetyNext ==
  \/ part = "broker" /\ Next /\ UNCHANGED <<part, diskVars>>
  \/ part = "spool" /\ SpoolNext /\ UNCHANGED <<part, vars>>

SafetySpec == SafetyInit /\ [][SafetyNext]_<<part, vars, diskVars>>

\* workerSession objects are interchangeable, and so are the spool's sessions: they tie
\* in age only when empty, and empty directories go or stay together.
SafetySymmetry == Permutations(Inc) \cup Permutations(Sessions)
=============================================================================
