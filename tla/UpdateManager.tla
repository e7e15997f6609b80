----------------------------- MODULE UpdateManager -----------------------------
(***************************************************************************)
(* Remote updates of the host (update_manager.go, update_manager_windows.go*)
(* and the update_stage and update_apply messages of the broker's Handler).*)
(*                                                                         *)
(* Every message runs in a goroutine of its own; StageUpdate and           *)
(* ApplyUpdate hold the lock only to read or set the status.  ApplyUpdate  *)
(* starts a detached script that outlives the agent: it waits, kills the   *)
(* client application, installs and removes upgrading.lock.                *)
(***************************************************************************)
EXTENDS Integers, FiniteSets

CONSTANTS
  Tasks,       \* goroutines of update messages
  Versions,    \* versions the server names
  None,
  MaxMsgs,     \* bound: update messages
  MaxRestarts  \* bound: restarts of the agent

ASSUME UpdateAssumption == MaxMsgs \in Nat /\ MaxRestarts \in Nat

VARIABLES
  status,     \* UpdateManager.status
  pc,         \* where each goroutine is
  kind,       \* the message it handles: "stage" or "apply"
  ver,        \* the version it names
  tmp,        \* ligament_<version>.msi.tmp
  cache,      \* ligament_<version>.msi
  origin,     \* who put it there: "stage", "apply" or "none" (history)
  lock,       \* upgrading.lock: "none" or "there"
  script,     \* the detached script a goroutine started
  msgs, restarts

files == <<tmp, cache, origin>>
updateVars == <<status, pc, kind, ver, files, lock, script, msgs, restarts>>

\* What a package file can hold: the announced package, another one (its
\* checksum differs) or the beginning of one.
Contents == {"none", "partial", "right", "wrong"}

UpdateInit ==
  /\ status = "idle" /\ lock = "none"
  /\ pc = [t \in Tasks |-> "idle"] /\ kind = [t \in Tasks |-> "stage"]
  /\ ver = [t \in Tasks |-> None]
  /\ tmp = [v \in Versions |-> "none"] /\ cache = [v \in Versions |-> "none"]
  /\ origin = [v \in Versions |-> "none"]
  /\ script = [t \in Tasks |-> "none"]
  /\ msgs = 0 /\ restarts = 0

-----------------------------------------------------------------------------
\* The Handler starts a goroutine for update_stage or update_apply.
UpdateMessage(t, k, v) ==
  /\ pc[t] = "idle" /\ script[t] = "none" /\ msgs < MaxMsgs
  /\ msgs' = msgs + 1
  /\ kind' = [kind EXCEPT ![t] = k] /\ ver' = [ver EXCEPT ![t] = v]
  /\ pc' = [pc EXCEPT ![t] = IF k = "stage" THEN "stage" ELSE "stat"]
  /\ UNCHANGED <<status, files, lock, script, restarts>>

\* ApplyUpdate: a package that is not in the cache is staged first.
Stat(t) ==
  /\ pc[t] = "stat"
  /\ pc' = [pc EXCEPT ![t] = IF cache[ver[t]] = "none" THEN "stage" ELSE "apply"]
  /\ UNCHANGED <<status, kind, ver, files, lock, script, msgs, restarts>>

\* Mutant: an installation does not keep a download from starting.
BusyStagingOnly == status = "staging"

\* "update already in progress".
Busy == status \in {"staging", "applying"}

Stage(t) ==
  /\ pc[t] = "stage"
  /\ IF Busy
     THEN pc' = [pc EXCEPT ![t] = "idle"] /\ UNCHANGED status
     ELSE pc' = [pc EXCEPT ![t] = "create"] /\ status' = "staging"
  /\ UNCHANGED <<kind, ver, files, lock, script, msgs, restarts>>

\* fail, after which StageUpdate returns.
Fail(t) == status' = "failed" /\ pc' = [pc EXCEPT ![t] = "failed"]

\* No URL, no answer or no file, in this order; then an empty file is there.
Create(t) ==
  /\ pc[t] = "create"
  /\ \/ /\ status' = "failed" /\ pc' = [pc EXCEPT ![t] = "idle"] /\ UNCHANGED tmp
     \/ /\ tmp' = [tmp EXCEPT ![ver[t]] = "partial"]
        /\ pc' = [pc EXCEPT ![t] = "read"] /\ UNCHANGED status
  /\ UNCHANGED <<kind, ver, cache, origin, lock, script, msgs, restarts>>

\* The loop that copies the body: to its end, or to an error.
Download(t) ==
  /\ pc[t] = "read"
  /\ \/ /\ \E c \in {"right", "wrong"} : tmp' = [tmp EXCEPT ![ver[t]] = c]
        /\ pc' = [pc EXCEPT ![t] = "verify"] /\ UNCHANGED status
     \/ Fail(t) /\ UNCHANGED tmp
  /\ UNCHANGED <<kind, ver, cache, origin, lock, script, msgs, restarts>>

\* update_stage brings the checksum, ApplyUpdate passes an empty one.
Mismatch(t) == kind[t] = "stage" /\ tmp[ver[t]] # "right"

\* Verify the checksum and rename the file into the cache, if it is there.
Verify(t) ==
  /\ pc[t] = "verify"
  /\ \/ Fail(t) /\ UNCHANGED <<cache, origin, tmp>>
     \/ /\ ~Mismatch(t) /\ tmp[ver[t]] # "none"
        /\ cache' = [cache EXCEPT ![ver[t]] = tmp[ver[t]]]
        /\ origin' = [origin EXCEPT ![ver[t]] = kind[t]]
        /\ tmp' = [tmp EXCEPT ![ver[t]] = "none"]
        /\ pc' = [pc EXCEPT ![t] = "staged"] /\ UNCHANGED status
  /\ UNCHANGED <<kind, ver, lock, script, msgs, restarts>>

Staged(t) ==
  /\ pc[t] = "staged"
  /\ status' = "staged"
  /\ pc' = [pc EXCEPT ![t] = "renamed"]
  /\ UNCHANGED <<kind, ver, files, lock, script, msgs, restarts>>

\* The deferred function removes the temporary file by its name, after the
\* status has let the next download in (a file that is open may stay), and
\* StageUpdate returns.
RemoveTemp(t) ==
  /\ pc[t] \in {"failed", "renamed"}
  /\ \E c \in {"none", tmp[ver[t]]} : tmp' = [tmp EXCEPT ![ver[t]] = c]
  /\ pc' = [pc EXCEPT ![t] = IF pc[t] = "renamed" /\ kind[t] = "apply" THEN "apply" ELSE "idle"]
  /\ UNCHANGED <<status, kind, ver, cache, origin, lock, script, msgs, restarts>>

\* ApplyUpdate sets the status whatever it is.
Apply(t) ==
  /\ pc[t] = "apply"
  /\ status' = "applying"
  /\ pc' = [pc EXCEPT ![t] = "launch"]
  /\ UNCHANGED <<kind, ver, files, lock, script, msgs, restarts>>

\* executeInstallerDetached: the lock file, which may fail to be written, then
\* the script all the same, which may fail to start; nothing is undone then.
Launch(t) ==
  /\ pc[t] = "launch"
  /\ lock' \in {"there", lock}
  /\ \/ script' = [script EXCEPT ![t] = "waiting"]
     \/ UNCHANGED script
  /\ pc' = [pc EXCEPT ![t] = "idle"]
  /\ UNCHANGED <<status, kind, ver, files, msgs, restarts>>

\* Mutant: the script removes the lock before the installer, not after it.
ScriptInstallsUnlocked(t) ==
  /\ script[t] = "waiting"
  /\ script' = [script EXCEPT ![t] = "installing"] /\ lock' = "none"
  /\ UNCHANGED <<status, pc, kind, ver, files, msgs, restarts>>

\* The script after its delay: taskkill and msiexec.
ScriptInstalls(t) ==
  /\ script[t] = "waiting"
  /\ script' = [script EXCEPT ![t] = "installing"]
  /\ UNCHANGED <<status, pc, kind, ver, files, lock, msgs, restarts>>

\* msiexec is done: del upgrading.lock, which may fail.
ScriptEnds(t) ==
  /\ script[t] = "installing"
  /\ script' = [script EXCEPT ![t] = "done"] /\ lock' \in {"none", lock}
  /\ UNCHANGED <<status, pc, kind, ver, files, msgs, restarts>>

\* The agent is restarted, by the installer or otherwise: NewUpdateManager.
Restart ==
  /\ restarts < MaxRestarts
  /\ restarts' = restarts + 1
  /\ status' = "idle" /\ pc' = [t \in Tasks |-> "idle"]
  /\ UNCHANGED <<kind, ver, files, lock, script, msgs>>

UpdateNext ==
  \/ Restart
  \/ \E t \in Tasks :
       \/ \E k \in {"stage", "apply"}, v \in Versions : UpdateMessage(t, k, v)
       \/ Stat(t) \/ Stage(t) \/ Create(t) \/ Download(t) \/ Verify(t) \/ Staged(t)
       \/ RemoveTemp(t) \/ Apply(t) \/ Launch(t) \/ ScriptInstalls(t) \/ ScriptEnds(t)

UpdateSpec == UpdateInit /\ [][UpdateNext]_updateVars

-----------------------------------------------------------------------------
\* The types of the manager's fields, of its files and of its goroutines.
TypeOK ==
  /\ status \in {"idle", "staging", "staged", "failed", "applying"}
  /\ pc \in [Tasks -> {"idle", "stat", "stage", "create", "read", "verify", "staged", "failed",
                       "renamed", "apply", "launch"}]
  /\ kind \in [Tasks -> {"stage", "apply"}] /\ ver \in [Tasks -> Versions \cup {None}]
  /\ tmp \in [Versions -> Contents] /\ cache \in [Versions -> Contents]
  /\ origin \in [Versions -> {"none", "stage", "apply"}]
  /\ lock \in {"none", "there"}
  /\ script \in [Tasks -> {"none", "waiting", "installing", "done"}]
  /\ msgs \in Nat /\ restarts \in Nat

Downloading(t) == pc[t] \in {"create", "read", "verify", "staged"}

\* Although ApplyUpdate overwrites the status of a download in progress, no
\* two goroutines of one agent download at a time: the temporary file of a
\* version has one writer.
OneDownload == \A t, u \in Tasks : Downloading(t) /\ Downloading(u) => t = u

\* "downloads the package and compares its SHA-256" (update_manager.go:40):
\* whatever fails or is restarted, a package in the cache is complete, and one
\* that update_stage put there is the announced package.
CacheVerified ==
  \A v \in Versions : cache[v] # "partial" /\ (origin[v] = "stage" => cache[v] = "right")
=============================================================================
