------------------------------- MODULE DebugLog -------------------------------
(***************************************************************************)
(* The diagnostic log of the Windows client (windows/runner/debug_log.cpp, *)
(* debug_log.h).  The processes of one kind, windows of the user or        *)
(* workers of the agent, share a file and a backup of it.  Whoever has the *)
(* file open has it alone; a full file is copied to the backup and then    *)
(* emptied.  Any step may fail, and a process may be ended in between      *)
(* (RunnerStart does that to others).                                      *)
(*                                                                         *)
(* Lines are numbered in the order they are written; what they say is left *)
(* out, and every line is one unit of size.                                *)
(***************************************************************************)
EXTENDS Integers, Sequences, SequencesExt

CONSTANTS
  Loggers,    \* processes that write to the file
  MaxLines,   \* kMaxBytes, in lines
  MaxWritten  \* bound of the model: lines written

ASSUME LogAssumption == MaxLines \in Nat /\ MaxWritten \in Nat

Acls == {"private", "readable", "writable"}  \* who may use an object besides the system

VARIABLES
  isWorker,   \* Mode: TRUE for workers of the agent
  machineOn,  \* DebugLogsEnabled of the machine
  userOn,     \* the same of the user
  parentAcl,  \* of the directory of the program
  logsAcl,    \* of its Logs directory
  ready,      \* the processes that have called Initialize
  writer,     \* who has the current file open, or "nobody"
  lpc,        \* where: "idle", "checked", "rotate", "copy", "write", "flush"
  current,    \* the lines of the file
  backup,     \* the lines of the backup
  written     \* all lines ever written, oldest first (history)

logVars == <<isWorker, machineOn, userOn, parentAcl, logsAcl, ready, writer, lpc, current, backup, written>>

LogInit ==
  /\ isWorker \in BOOLEAN /\ machineOn = FALSE /\ userOn = TRUE
  /\ parentAcl \in {"readable", "writable"} /\ logsAcl \in Acls
  /\ ready = {} /\ writer = "nobody" /\ lpc = "idle"
  /\ current = <<>> /\ backup = <<>> /\ written = <<>>

\* Initialize.
LogInitialize(p) ==
  /\ p \notin ready /\ ready' = ready \cup {p}
  /\ UNCHANGED <<isWorker, machineOn, userOn, parentAcl, logsAcl, writer, lpc, current, backup, written>>

\* ReadEnabled: the machine's setting, else that of the user.
ReadEnabled == machineOn \/ userOn

\* DecideSecurity: a parent others can write to is refused; the Logs directory must be
\* private, or others may at most read it: then it is made private.
DecideSecurity(use, acl) ==
  CASE use = "parent" -> IF acl # "writable" THEN "accept" ELSE "reject"
    [] acl = "private" -> "accept"
    [] OTHER -> IF use = "log_directory" /\ acl # "writable" THEN "tighten" ELSE "reject"

\* CheckHandle of both directories; only workers look at rights.
Trusted ==
  isWorker => /\ DecideSecurity("parent", parentAcl) = "accept"
              /\ DecideSecurity("log_directory", logsAcl) # "reject"

\* The beginning of Append: the directories are checked, the file is opened alone.
OpenAlone(p) ==
  /\ writer = "nobody" /\ Trusted /\ Len(written) < MaxWritten
  /\ logsAcl' = IF isWorker THEN "private" ELSE logsAcl
  /\ writer' = p /\ lpc' = "checked"

\* Write: nothing unless the log is on.
Write(p) ==
  /\ p \in ready /\ ReadEnabled /\ OpenAlone(p)
  /\ UNCHANGED <<isWorker, machineOn, userOn, parentAcl, ready, current, backup, written>>

\* SetEnabled: the setting is stored, then a line tells of it, if that can be.
SetEnabled(p, on) ==
  /\ p \in ready /\ ~isWorker /\ userOn' = on
  /\ \/ /\ (IF on THEN TRUE ELSE ReadEnabled) /\ OpenAlone(p)
     \/ /\ ~(IF on THEN TRUE ELSE ReadEnabled) \/ writer # "nobody" \/ ~Trusted
        /\ UNCHANGED <<logsAcl, writer, lpc>>
  /\ UNCHANGED <<isWorker, machineOn, parentAcl, ready, current, backup, written>>

\* An administrator sets it for the machine (external).
MachineSets ==
  /\ machineOn' = ~machineOn
  /\ UNCHANGED <<isWorker, userOn, parentAcl, logsAcl, ready, writer, lpc, current, backup, written>>

-----------------------------------------------------------------------------
(* The rest of Append, by the one writer.                                  *)

\* There is no room for one more line.
Full == Len(current) > MaxLines - 1

CheckSize ==
  /\ lpc = "checked" /\ lpc' = IF Full THEN "rotate" ELSE "write"
  /\ UNCHANGED <<current, backup, written>>

\* Rotate: the backup is emptied,
RotateBegin ==
  /\ lpc = "rotate" /\ lpc' = "copy" /\ backup' = <<>>
  /\ UNCHANGED <<current, written>>

\* gets what the file has, piece by piece,
RotateCopy ==
  /\ lpc = "copy" /\ Len(backup) < Len(current)
  /\ backup' = Append(backup, current[Len(backup) + 1])
  /\ UNCHANGED <<lpc, current, written>>

\* Mutant: the last piece is left out.
CopiedMost == Len(backup) >= Len(current) - 1

Copied == Len(backup) >= Len(current)

\* and only then the file is emptied.
RotateEnd ==
  /\ lpc = "copy" /\ Copied /\ lpc' = "write" /\ current' = <<>>
  /\ UNCHANGED <<backup, written>>

\* Line: what it says and its level are left out, it is known by its number.
Line == Len(written) + 1

\* WriteAll of the line.  Where WriteFile breaks off, or the process ends in it, a
\* piece of the line stays in the file: it is counted as a line, of which it has the number.
AppendLine ==
  /\ lpc = "write" /\ lpc' = "flush"
  /\ current' = Append(current, Line) /\ written' = Append(written, Line)
  /\ UNCHANGED backup

WriterStep ==
  /\ CheckSize \/ RotateBegin \/ RotateCopy \/ RotateEnd \/ AppendLine
  /\ UNCHANGED <<isWorker, machineOn, userOn, parentAcl, logsAcl, ready, writer>>

\* Append returns: done, or any call of it failed; the handles are closed.
CloseLog ==
  /\ writer # "nobody" /\ writer' = "nobody" /\ lpc' = "idle"
  /\ UNCHANGED <<isWorker, machineOn, userOn, parentAcl, logsAcl, ready, current, backup, written>>

\* A process ends, in the middle of a write too.
LoggerDies(p) ==
  /\ p \in ready /\ ready' = ready \ {p}
  /\ IF writer = p THEN writer' = "nobody" /\ lpc' = "idle" ELSE UNCHANGED <<writer, lpc>>
  /\ UNCHANGED <<isWorker, machineOn, userOn, parentAcl, logsAcl, current, backup, written>>

LogNext ==
  \/ \E p \in Loggers : LogInitialize(p) \/ Write(p) \/ LoggerDies(p)
  \/ \E p \in Loggers, on \in BOOLEAN : SetEnabled(p, on)
  \/ MachineSets \/ WriterStep \/ CloseLog

-----------------------------------------------------------------------------
\* The newest lines, as many as one file holds.
Newest == {i \in 1 .. Len(written) : i > Len(written) - MaxLines}

\* Wherever a writer stopped, in a rotation too, each of the newest lines, or what could
\* be written of it, is in the file or in its backup.
LinesKept == \A i \in Newest : written[i] \in Range(current) \cup Range(backup)
=============================================================================
