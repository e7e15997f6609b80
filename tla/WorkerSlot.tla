------------------------------ MODULE WorkerSlot ------------------------------
(***************************************************************************)
(* What the worker of the logon tile promises to the rest of the tile: a   *)
(* slot for one job.  A job is started for somebody where no other one     *)
(* runs, what it grants is granted to that one, and a job that was         *)
(* cancelled grants nothing any more.  CredentialTile implements it.       *)
(***************************************************************************)
CONSTANTS
  Holders,   \* for whom a job may be started
  Nobody     \* no holder

VARIABLES
  phase,     \* "idle", "running", "cancelled" or "ended"
  holder,    \* for whom the job was started, or Nobody
  grant      \* for whom the second factor is confirmed, or Nobody

slotVars == <<phase, holder, grant>>

Init == phase = "idle" /\ holder = Nobody /\ grant = Nobody

Start(h) == phase \in {"idle", "ended"} /\ phase' = "running" /\ holder' = h /\ grant' = grant

\* What a running job finds out; it may go on, to tell of it.
Grant == phase = "running" /\ grant' = holder /\ UNCHANGED <<phase, holder>>

Cancel == phase = "running" /\ phase' = "cancelled" /\ UNCHANGED <<holder, grant>>

End == phase \in {"running", "cancelled"} /\ phase' = "ended" /\ UNCHANGED <<holder, grant>>

\* The thread of an ended job is given back.
Reap == phase = "ended" /\ phase' = "idle" /\ holder' = Nobody /\ grant' = grant

\* A confirmation is withdrawn, whatever runs.
Withdraw == grant' = Nobody /\ UNCHANGED <<phase, holder>>

Next == (\E h \in Holders : Start(h)) \/ Grant \/ Cancel \/ End \/ Reap \/ Withdraw

Spec == Init /\ [][Next]_slotVars
=============================================================================
