---------------------------- MODULE ClientWatchdog ----------------------------
(***************************************************************************)
(* The watchdog service (windows/service/service.cpp) together with the    *)
(* update manager.  Where the policy forbids leaving the client            *)
(* application, the watchdog starts it again in every active session, but  *)
(* stays out of the way of an installation, which it recognises by         *)
(* upgrading.lock; a lock older than 15 minutes is taken away.  One turn   *)
(* of its loop is one step: it takes milliseconds, the script waits for    *)
(* seconds after the lock is written.                                      *)
(***************************************************************************)
EXTENDS UpdateManager

CONSTANT Sess  \* Windows sessions

VARIABLES
  app,         \* the client of each session: "up" or "down"
  active,      \* each session: "active" or "away"
  cooldown,    \* lastLaunch: "over" or "running" (60 s)
  policy,      \* AllowExit: "allowed" or "forbidden"
  age,         \* of the lock: "fresh" or "stale"
  worker,      \* another process of the same executable in each session,
               \* such as a link-host worker: "up" or "down"
  lost         \* "yes" once a pending script lost its protection (history)

watchdogVars == <<app, active, cooldown, policy, age, worker, lost>>
vars == <<updateVars, watchdogVars>>

Init ==
  /\ UpdateInit
  /\ app = [s \in Sess |-> "up"] /\ active = [s \in Sess |-> "active"]
  /\ cooldown = [s \in Sess |-> "over"] /\ age = "fresh" /\ lost = "no"
  /\ worker = [s \in Sess |-> "down"]
  /\ policy \in {"allowed", "forbidden"}

-----------------------------------------------------------------------------
\* AppRunningInSession: any process of the installed executable counts.
AppRunning(s) == app[s] = "up" \/ worker[s] = "up"

\* Sessions the loop starts the client in.
Missing == {s \in Sess : active[s] = "active" /\ ~AppRunning(s) /\ cooldown[s] = "over"}

\* Mutant: a lock is never taken away.
LockHonouredForEver == lock = "there"

\* The lock keeps the watchdog away unless it is stale.
LockHonoured == lock = "there" /\ age = "fresh"

\* A script on its way to the end of an installation.
Pending == \E t \in Tasks : script[t] \in {"waiting", "installing"}

\* No lock, or one that is too old: it is removed, and if that fails the loop
\* goes on all the same.  History: the script has been there for too long.
LockTooOld ==
  /\ ~LockHonoured
  /\ lock' \in {"none", lock}
  /\ lost' = IF Pending /\ age = "stale" THEN "yes" ELSE lost

\* The lock cannot be looked at, which the loop takes for no lock.
LockUnseen ==
  /\ lock = "there" /\ UNCHANGED lock
  /\ lost' = IF Pending THEN "yes" ELSE lost

\* The turn's sessions.  Without a list of processes a session's client is
\* taken for running; a launch may fail, the cooldown starts anyway.
ServeSessions ==
  /\ \E tried \in SUBSET Missing :
       /\ cooldown' = [s \in Sess |-> IF s \in tried THEN "running" ELSE cooldown[s]]
       /\ \E launched \in SUBSET tried :
            app' = [s \in Sess |-> IF s \in launched THEN "up" ELSE app[s]]
  /\ age' = IF lock' = "none" THEN "fresh" ELSE age
  /\ UNCHANGED <<status, pc, kind, ver, files, script, msgs, restarts, active, policy, worker>>

\* One turn of WorkerLoop.
WorkerLoop == policy = "forbidden" /\ (LockTooOld \/ LockUnseen) /\ ServeSessions

\* A turn that sees the lock and in which session s is launched, for fairness.
Relaunch(s) ==
  policy = "forbidden" /\ LockTooOld /\ ServeSessions /\ s \in Missing /\ app'[s] = "up"

CooldownOver(s) ==
  /\ cooldown[s] = "running" /\ cooldown' = [cooldown EXCEPT ![s] = "over"]
  /\ UNCHANGED <<updateVars, app, active, policy, age, worker, lost>>

LockAges ==
  /\ lock = "there" /\ age = "fresh" /\ age' = "stale"
  /\ UNCHANGED <<updateVars, app, active, cooldown, policy, worker, lost>>

\* The client crashes or is killed (external).
ClientDies(s) ==
  /\ app[s] = "up" /\ app' = [app EXCEPT ![s] = "down"]
  /\ UNCHANGED <<updateVars, active, cooldown, policy, age, worker, lost>>

\* The user leaves or comes back (external).
SessionChanges(s) ==
  /\ active' = [active EXCEPT ![s] = IF @ = "active" THEN "away" ELSE "active"]
  /\ UNCHANGED <<updateVars, app, cooldown, policy, age, worker, lost>>

\* Another process of the executable starts or ends (external).
WorkerChanges(s) ==
  /\ worker' = [worker EXCEPT ![s] = IF @ = "up" THEN "down" ELSE "up"]
  /\ UNCHANGED <<updateVars, app, active, cooldown, policy, age, lost>>

\* taskkill ends the processes of the executable in every session.
TaskKill ==
  app' = [s \in Sess |-> "down"] /\ worker' = [s \in Sess |-> "down"]

\* Installations overlap and the first one to end removes the lock of all, or
\* a script starts without a lock.
Unprotected ==
  \E t \in Tasks :
    /\ lock' = "none"
    /\ \/ script[t] = "installing" /\ script'[t] = "done"
       \/ script[t] # "waiting" /\ script'[t] = "waiting"

\* A step of the update manager: taskkill may fail, and writing the lock makes
\* it fresh, unless that fails.
UpdateStep ==
  /\ UpdateNext
  /\ \/ \E t \in Tasks : script[t] = "waiting" /\ script'[t] = "installing" /\ TaskKill
     \/ UNCHANGED <<app, worker>>
  /\ \/ age' = IF lock' = "none" THEN "fresh" ELSE age
     \/ age' = "fresh" /\ \E t \in Tasks : pc[t] = "launch" /\ pc'[t] = "idle" /\ lock' = "there"
  /\ lost' = IF Unprotected /\ Pending' THEN "yes" ELSE lost
  /\ UNCHANGED <<active, cooldown, policy>>

Next ==
  \/ UpdateStep \/ WorkerLoop \/ LockAges
  \/ \E s \in Sess :
       CooldownOver(s) \/ ClientDies(s) \/ SessionChanges(s) \/ WorkerChanges(s)

\* The loop turns every 15 seconds, time passes, and a launch that is tried
\* again and again succeeds.
Fairness ==
  /\ WF_vars(LockAges)
  /\ \A s \in Sess : WF_vars(CooldownOver(s)) /\ SF_vars(Relaunch(s))

Spec == Init /\ [][Next]_vars
FairSpec == Spec /\ Fairness

-----------------------------------------------------------------------------
Installing == \E t \in Tasks : script[t] = "installing"

\* "the client is present in every active session" (service.cpp:5): whatever
\* scripts, crashes and stale locks do, a missing client is started again,
\* unless another process of its executable is taken for it.
ClientReturns ==
  \A s \in Sess :
    (policy = "forbidden" /\ app[s] = "down" /\ active[s] = "active")
      ~> (app[s] = "up" \/ active[s] = "away" \/ worker[s] = "up")

\* "while an update is being installed do not interfere" (service.cpp:197):
\* the watchdog starts no client during an installation, the second one
\* included, unless the lock failed the script: it could not be written or
\* looked at, got too old, or went with an overlapping script.
NoInterference ==
  [][(\A s \in Sess : app[s] = "down" /\ app'[s] = "up" => ~Installing) \/ lost' = "yes"]_vars
=============================================================================
