---------------------------- MODULE RDSSupervisor ----------------------------
(***************************************************************************)
(* The supervisor of RDP recordings on a terminal server                   *)
(* (rds_supervisor.go, rds_supervisor_windows.go) with its callers: the    *)
(* service's session-change events, the periodic SyncActiveSessions and    *)
(* the policies Core sends back (rdp_session_start_ack).                   *)
(*                                                                         *)
(* A recording is one activeRDSSession with its goroutine.  Several acks   *)
(* for one Windows session may be under way, since a logon is announced    *)
(* again and again until the session is in the map.                        *)
(***************************************************************************)
EXTENDS Integers, FiniteSets

CONSTANTS
  Wts,        \* Windows session ids
  Recs,       \* recordings
  NoRec,
  MaxStarts,  \* bound: rdp_session_start messages under way per session
  MaxLogons   \* bound: logons

ASSUME SupervisorAssumption ==
  /\ Wts # {} /\ NoRec \notin Recs /\ MaxStarts \in Nat /\ MaxLogons \in Nat

VARIABLES
  os,          \* the user's RDP session: "gone" or "active" (external)
  logons,      \* logons so far
  notices,     \* sessions whose logoff notification is not yet handled
  snap,        \* what EnumerateAllWTSSessions last returned to a sync
  starts,      \* rdp_session_start messages Core has not answered
  recorded,    \* the map s.sessions: Wts -> Recs or NoRec
  rpc,          \* "free", "policy", "apply", "starting", "recording", "ended"
  wts,         \* the Windows session of each recording
  ctx,         \* context of each recording: "live" or "done"
  closer,      \* who closes it: "none", "cancel", "complete", "done"
  completions, \* Complete calls per recording
  told,        \* recordings whose rdp_session_end was sent
  service      \* "running" or "stopped" (StopAll has run)

supervisorVars == <<os, logons, notices, snap, starts, recorded, rpc, wts, ctx, closer,
          completions, told, service>>
envVars == <<os, logons, notices, snap>>
recVars == <<rpc, wts, ctx, closer, completions, told>>

SupervisorInit ==
  /\ os = [w \in Wts |-> "gone"] /\ logons = 0 /\ notices = {} /\ snap = {}
  /\ starts = [w \in Wts |-> 0]
  /\ recorded = [w \in Wts |-> NoRec]
  /\ rpc = [r \in Recs |-> "free"]
  /\ wts = [r \in Recs |-> CHOOSE w \in Wts : TRUE]
  /\ ctx = [r \in Recs |-> "live"]
  /\ closer = [r \in Recs |-> "none"]
  /\ completions = [r \in Recs |-> 0] /\ told = {}
  /\ service = "running"

-----------------------------------------------------------------------------
(* Windows (external).                                                     *)

UserLogsOn(w) ==
  /\ os[w] = "gone" /\ logons < MaxLogons
  /\ os' = [os EXCEPT ![w] = "active"] /\ logons' = logons + 1
  /\ UNCHANGED <<notices, snap, starts, recorded, recVars, service>>

\* Logoff or disconnect; the notification is handled later.
UserLeaves(w) ==
  /\ os[w] = "active"
  /\ os' = [os EXCEPT ![w] = "gone"] /\ notices' = notices \cup {w}
  /\ UNCHANGED <<logons, snap, starts, recorded, recVars, service>>

-----------------------------------------------------------------------------
(* Session events and SyncActiveSessions.                                  *)

\* Announce a session that is not in the map, after a logon event or because
\* a sync found it.
HandleSessionLogon(w) ==
  /\ service = "running"
  /\ os[w] = "active" \/ w \in snap
  /\ recorded[w] = NoRec /\ starts[w] < MaxStarts
  /\ starts' = [starts EXCEPT ![w] = @ + 1]
  /\ UNCHANGED <<envVars, recorded, recVars, service>>

Enumerate ==
  /\ service = "running"
  /\ snap' = {w \in Wts : os[w] = "active"} /\ snap' # snap
  /\ UNCHANGED <<os, logons, notices, starts, recorded, recVars, service>>

\* The locked part: take the entry out of the map.
TakeEntry(w) ==
  /\ recorded[w] # NoRec
  /\ recorded' = [recorded EXCEPT ![w] = NoRec]
  /\ closer' = [closer EXCEPT ![recorded[w]] = "cancel"]

\* Mutant: the entry stays until the recording has ended.
HandleSessionLogoffLate(w) ==
  /\ service = "running" /\ w \in notices
  /\ notices' = notices \ {w}
  /\ \/ /\ recorded[w] # NoRec
        /\ closer' = [closer EXCEPT ![recorded[w]] = "cancel"]
        /\ UNCHANGED recorded
     \/ recorded[w] = NoRec /\ UNCHANGED <<recorded, closer>>
  /\ UNCHANGED <<os, logons, snap, starts, rpc, wts, ctx, completions, told, service>>

\* The logoff notification.
HandleSessionLogoff(w) ==
  /\ service = "running" /\ w \in notices
  /\ notices' = notices \ {w}
  /\ \/ TakeEntry(w)
     \/ recorded[w] = NoRec /\ UNCHANGED <<recorded, closer>>
  /\ UNCHANGED <<os, logons, snap, starts, rpc, wts, ctx, completions, told, service>>

\* A sync finds an entry that was not in its enumeration.
SyncStale(w) ==
  /\ service = "running" /\ w \notin snap
  /\ TakeEntry(w)
  /\ UNCHANGED <<envVars, starts, rpc, wts, ctx, completions, told, service>>

\* Mutant: the context is not cancelled.
CancelRecordingNot(r) ==
  /\ closer[r] = "cancel"
  /\ closer' = [closer EXCEPT ![r] = "complete"]
  /\ UNCHANGED <<envVars, starts, recorded, rpc, wts, ctx, completions, told, service>>

CancelRecording(r) ==
  /\ closer[r] = "cancel"
  /\ ctx' = [ctx EXCEPT ![r] = "done"]
  /\ closer' = [closer EXCEPT ![r] = "complete"]
  /\ UNCHANGED <<envVars, starts, recorded, rpc, wts, completions, told, service>>

\* Complete, then rdp_session_end (StopAll sends none).
CompleteRecording(r) ==
  /\ closer[r] = "complete"
  /\ completions' = [completions EXCEPT ![r] = @ + 1]
  /\ closer' = [closer EXCEPT ![r] = "done"]
  /\ told' = IF service = "running" THEN told \cup {r} ELSE told
  /\ UNCHANGED <<envVars, starts, recorded, rpc, wts, ctx, service>>

-----------------------------------------------------------------------------
(* ApplySessionPolicy and runSessionRecording.                             *)

\* Core answers a start with a policy to record, handled in a new goroutine.
PolicyAck(w, r) ==
  /\ starts[w] > 0 /\ rpc[r] = "free" /\ service = "running"
  /\ starts' = [starts EXCEPT ![w] = @ - 1]
  /\ rpc' = [rpc EXCEPT ![r] = "policy"]
  /\ wts' = [wts EXCEPT ![r] = w]
  /\ UNCHANGED <<envVars, recorded, ctx, closer, completions, told, service>>

\* The start is lost, or Core does not want a recording.
StartUnanswered(w) ==
  /\ starts[w] > 0
  /\ starts' = [starts EXCEPT ![w] = @ - 1]
  /\ UNCHANGED <<envVars, recorded, recVars, service>>

\* The first locked part: is the session in the map?
ApplyCheck(r) ==
  /\ rpc[r] = "policy"
  /\ rpc' = [rpc EXCEPT ![r] = IF recorded[wts[r]] = NoRec THEN "apply" ELSE "ended"]
  /\ UNCHANGED <<envVars, starts, recorded, wts, ctx, closer, completions, told, service>>

\* The second one, after the client was made: put it into the map.
ApplyRegister(r) ==
  /\ rpc[r] = "apply"
  /\ recorded' = [recorded EXCEPT ![wts[r]] = r]
  /\ rpc' = [rpc EXCEPT ![r] = "starting"]
  /\ UNCHANGED <<envVars, starts, wts, ctx, closer, completions, told, service>>

\* The capture worker connects to the pipe.
WorkerConnects(r) ==
  /\ rpc[r] = "starting" /\ ctx[r] = "live"
  /\ rpc' = [rpc EXCEPT ![r] = "recording"]
  /\ UNCHANGED <<envVars, starts, recorded, wts, ctx, closer, completions, told, service>>

\* Mutant: the deferred function does nothing.
DeferredDeleteNot(r) == UNCHANGED recorded

\* The deferred function removes the recording's own entry only.
DeferredDelete(r) ==
  recorded' = [recorded EXCEPT ![wts[r]] = IF @ = r THEN NoRec ELSE @]

\* The goroutine returns: launch failed, the worker is gone, or ctx is done.
RecordingEnds(r) ==
  /\ rpc[r] \in {"starting", "recording"}
  /\ rpc' = [rpc EXCEPT ![r] = "ended"]
  /\ DeferredDelete(r)
  /\ UNCHANGED <<envVars, starts, wts, ctx, closer, completions, told, service>>

\* The worker scope of the control connection is cancelled, after an outage
\* longer than the grace period: every context derived from it is done.
CancelWorkerScope ==
  /\ \E r \in Recs : rpc[r] # "free" /\ ctx[r] = "live"
  /\ ctx' = [r \in Recs |-> IF rpc[r] = "free" THEN ctx[r] ELSE "done"]
  /\ UNCHANGED <<envVars, starts, recorded, rpc, wts, closer, completions, told, service>>

\* The service stops; its context was cancelled before the deferred StopAll.
StopAll ==
  /\ service = "running" /\ service' = "stopped"
  /\ recorded' = [w \in Wts |-> NoRec]
  /\ closer' = [r \in Recs |-> IF \E w \in Wts : recorded[w] = r THEN "cancel" ELSE closer[r]]
  /\ ctx' = [r \in Recs |-> "done"]
  /\ UNCHANGED <<envVars, starts, rpc, wts, completions, told>>

SupervisorNext ==
  \/ \E w \in Wts :
       \/ UserLogsOn(w) \/ UserLeaves(w) \/ HandleSessionLogon(w) \/ HandleSessionLogoff(w)
       \/ SyncStale(w) \/ StartUnanswered(w)
       \/ \E r \in Recs : PolicyAck(w, r)
  \/ Enumerate \/ CancelWorkerScope \/ StopAll
  \/ \E r \in Recs :
       \/ CancelRecording(r) \/ CompleteRecording(r) \/ ApplyCheck(r) \/ ApplyRegister(r)
       \/ WorkerConnects(r) \/ RecordingEnds(r)

\* The sync ticker, the event loop and the goroutines run; a done context ends
\* a recording.  Core answers a start that is sent again and again.
SupervisorFairness ==
  /\ WF_supervisorVars(Enumerate)
  /\ \A w \in Wts : /\ WF_supervisorVars(HandleSessionLogon(w)) /\ WF_supervisorVars(HandleSessionLogoff(w))
                    /\ WF_supervisorVars(SyncStale(w))
                    /\ SF_supervisorVars(\E r \in Recs : PolicyAck(w, r))
  /\ \A r \in Recs : /\ WF_supervisorVars(CancelRecording(r)) /\ WF_supervisorVars(CompleteRecording(r))
                     /\ WF_supervisorVars(ApplyCheck(r)) /\ WF_supervisorVars(ApplyRegister(r))
                     /\ WF_supervisorVars(ctx[r] = "done" /\ RecordingEnds(r))

SupervisorSpec == SupervisorInit /\ [][SupervisorNext]_supervisorVars
FairSupervisorSpec == SupervisorSpec /\ SupervisorFairness

-----------------------------------------------------------------------------
\* The types of the map and of the recordings.
SupervisorTypeOK ==
  /\ os \in [Wts -> {"gone", "active"}] /\ logons \in Nat
  /\ notices \subseteq Wts /\ snap \subseteq Wts
  /\ starts \in [Wts -> Nat]
  /\ recorded \in [Wts -> Recs \cup {NoRec}]
  /\ rpc \in [Recs -> {"free", "policy", "apply", "starting", "recording", "ended"}]
  /\ wts \in [Recs -> Wts]
  /\ ctx \in [Recs -> {"live", "done"}]
  /\ closer \in [Recs -> {"none", "cancel", "complete", "done"}]
  /\ completions \in [Recs -> Nat] /\ told \subseteq Recs
  /\ service \in {"running", "stopped"}

\* The map holds recordings that run: a recording that has ended is in no
\* entry, so it never keeps its session from being recorded again.
NoDeadRecording ==
  \A w \in Wts : recorded[w] # NoRec =>
    /\ rpc[recorded[w]] \in {"starting", "recording"}
    /\ wts[recorded[w]] = w

\* However logoffs, syncs and StopAll meet, a recording is completed once,
\* and Core hears of its end once it is.
CompletedOnce ==
  \A r \in Recs : completions[r] <= 1 /\ (r \in told => completions[r] = 1)

\* A session that stays active is recorded in the end, or there was no
\* recording left (the bound) or the service stopped.
ActiveSessionsRecorded ==
  \A w \in Wts :
    os[w] = "active" ~>
      (\/ os[w] = "gone" \/ service = "stopped" \/ \A r \in Recs : rpc[r] # "free"
       \/ \E r \in Recs : wts[r] = w /\ rpc[r] \in {"starting", "recording"})

\* A recording taken out of the map is completed and ends.
ClosedRecordingsEnd ==
  \A r \in Recs : closer[r] = "cancel" ~> (closer[r] = "done" /\ rpc[r] = "ended")

\* "StopAll stops all active recording sessions." (rds_supervisor.go:213):
\* after it, every recording that was started is being closed.
StopAllStopsAll ==
  service = "stopped" =>
    \A r \in Recs : rpc[r] = "recording" => closer[r] # "none"
=============================================================================
