----------------------------- MODULE MCAgentHost -----------------------------
(***************************************************************************)
(* Small instances of three parts of the agent's host: the service with    *)
(* its enrolment; the update manager where the policy lets the user leave  *)
(* the client, so that the watchdog does nothing; and, for fewer update    *)
(* messages, the update manager with the watchdog at work.  A behaviour    *)
(* follows one part, and the variables of the others rest in their initial *)
(* state, in which fairness asks nothing of them.                          *)
(***************************************************************************)
EXTENDS AgentService, ClientWatchdog

VARIABLE part

WatchdogMsgs == 2  \* bound: update messages beside the watchdog

\* The part that rests has one initial state.
HostInit ==
  /\ part \in {"service", "update", "watchdog"} /\ ServiceInit /\ Init
  /\ (part = "watchdog") = (policy = "forbidden")
  /\ part # "service" => regUrl = NoUrl /\ regToken = NoUrl

HostNext ==
  \/ part = "service" /\ ServiceNext /\ UNCHANGED <<part, vars>>
  \/ part = "update" /\ (UpdateStep \/ LockAges) /\ UNCHANGED <<part, serviceVars>>
  \/ part = "watchdog" /\ Next /\ msgs' <= WatchdogMsgs /\ UNCHANGED <<part, serviceVars>>

HostSpec ==
  /\ HostInit /\ [][HostNext]_<<part, serviceVars, vars>>
  /\ ServiceFairness /\ Fairness
=============================================================================
