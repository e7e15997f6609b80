------------------------- MODULE WindowsRunnerProofs -------------------------
(***************************************************************************)
(* Safety of the native side of the Windows client, for any keys, length   *)
(* of the queue, screens, buffers, processes that log and lines a file     *)
(* holds.                                                                  *)
(*                                                                         *)
(* Each part has an inductive invariant of its own.  The secure desktop:   *)
(* what the worker knows of its desktop is right unless the name could not *)
(* be read, and what it is about to inject was permitted when it looked    *)
(* (DesktopInv).  The log: the file holds the last lines, and of the       *)
(* newest those it does not hold are in the backup (LogInv).  The keys:    *)
(* the queue and the event in the worker's hands apart (KeyInv), with the  *)
(* lemmas on what an overflow leaves of a queue: a subsequence with all    *)
(* the releases.                                                           *)
(***************************************************************************)
EXTENDS WindowsRunner, TLAPS, WellFoundedInduction, FiniteSetTheorems

-----------------------------------------------------------------------------
(* The secure desktop.                                                     *)

\* The thread is on a secure desktop only if it knows, unless the name could not be read.
DesktopKnown == ~unnamed /\ desk \in Secure => secure

\* What goes to a secure desktop without the permission had it when it was tested.
TestedBefore == pc = "send" /\ secure /\ ~scope => withdrawn

DesktopInv == DesktopKnown /\ TestedBefore /\ leaked = FALSE

\* Every step of the input keeps it.
LEMMA DesktopStep == DesktopInv /\ InputNext => DesktopInv'
<1> SUFFICES ASSUME DesktopInv, InputNext PROVE DesktopInv'
  OBVIOUS
<1> USE DEF DesktopInv, DesktopKnown, TestedBefore, deskVars, scopeVars, queueVars, keyVars
<1>1. CASE \E k \in Keys : SendKey(k)
  BY <1>1 DEF SendKey, Enqueue
<1>2. CASE \E t \in {Move, Sas} : SendOther(t)
  BY <1>2 DEF SendOther, Enqueue
<1>3. CASE SetDesktopScope
  BY <1>3 DEF SetDesktopScope
<1>4. CASE DesktopSwitches \/ TakeTask
  BY <1>4 DEF DesktopSwitches, TakeTask
<1>5. CASE Attach
  <2>1. UNCHANGED <<scopeVars, leaked>> /\ (pc' = "send" => ~(secure' /\ ~scope))
    BY <1>5 DEF Attach, NextFor
  <2>2. DesktopKnown'
    BY <1>5 DEF Attach, AttachCurrentInputDesktop
  <2> QED BY <2>1, <2>2
<1>6. CASE RefuseTask
  BY <1>6 DEF RefuseTask, Finish, Discard
<1>7. CASE Execute
  <2>1. leaked' = FALSE
    BY <1>7 DEF Execute, ExecuteSendSas, Inject
  <2> QED BY <1>7, <2>1 DEF Execute, Finish
<1> QED BY <1>1, <1>2, <1>3, <1>4, <1>5, <1>6, <1>7 DEF InputNext, WorkerLoop

\* An event of the operator gets into a secure desktop only if the session might control it
\* when the worker looked, after the attachment, wherever the switch of the desktops falls;
\* the rest is an event overtaken by the withdrawal, and a desktop without a name.
THEOREM SecureDesktopSafe == RunnerSpec => []SecureDesktopUntouched
<1>1. RunnerInit => DesktopInv
  BY DEF RunnerInit, InputInit, DesktopInv, DesktopKnown, TestedBefore, Secure, Nothing
<1>2. DesktopInv /\ [RunnerNext]_runnerVars => DesktopInv'
  <2> SUFFICES ASSUME DesktopInv, [RunnerNext]_runnerVars PROVE DesktopInv'
    OBVIOUS
  <2>1. CASE UNCHANGED <<pc, deskVars, scopeVars, leaked>>
    BY <2>1 DEF DesktopInv, DesktopKnown, TestedBefore, deskVars, scopeVars
  <2>2. CASE HookNext \/ CaptureNext
    <3>1. UNCHANGED <<pc, deskVars, scopeVars, leaked>>
      BY <2>2 DEF HookNext, CaptureNext, InstallInputBlock, RemoveInputBlock, HooksSet, LocalKey,
         CaptureDesktop, queueVars, keyVars
    <3> QED BY <2>1, <3>1
  <2> QED BY <2>1, <2>2, DesktopStep DEF RunnerNext, runnerVars, inputVars, queueVars, keyVars,
             othersOfLog, othersOfStart, othersOfBridge
<1>3. DesktopInv => SecureDesktopUntouched
  BY DEF DesktopInv, SecureDesktopUntouched
<1> QED BY <1>1, <1>2, <1>3, PTL DEF RunnerSpec

-----------------------------------------------------------------------------
(* The capture.                                                            *)

\* A quotient is no larger than what its divisor was multiplied by.
LEMMA QuotientBound ==
  ASSUME NEW a \in Nat, NEW b \in Nat \ {0}, NEW c \in Nat, a <= c * b
  PROVE  a \div b \in Nat /\ a \div b <= c
<1> DEFINE q == a \div b
<1>1. q \in Nat /\ b * q <= a
  BY Z3
<1>2. CASE q >= c + 1
  <2>1. b * q >= b * (c + 1)
    BY <1>1, <1>2, Z3
  <2>2. b * (c + 1) = c * b + b
    BY Z3
  <2> QED BY <1>1, <2>1, <2>2
<1> QED BY <1>1, <1>2

\* What TargetSize returns is within a limit that has both parts.
LEMMA TargetFits ==
  ASSUME NEW size \in (Nat \ {0}) \X (Nat \ {0}), NEW max \in Nat \X Nat, max[1] > 0, max[2] > 0
  PROVE  TargetSize(size, max)[1] <= max[1] /\ TargetSize(size, max)[2] <= max[2]
<1> DEFINE w == (size[1] * max[2]) \div size[2]
           h == (size[2] * max[1]) \div size[1]
<1>0. /\ size[1] \in Nat \ {0} /\ size[2] \in Nat \ {0} /\ max[1] \in Nat \ {0} /\ max[2] \in Nat \ {0}
      /\ size[1] * max[2] \in Nat /\ size[2] * max[1] \in Nat
  OBVIOUS
<1>1. ASSUME max[1] * size[2] <= max[2] * size[1] PROVE h <= max[2]
  BY <1>0, <1>1, QuotientBound
<1>2. ASSUME ~(max[1] * size[2] <= max[2] * size[1]) PROVE w <= max[1]
  BY <1>0, <1>2, QuotientBound
<1>3. h \in Int /\ w \in Int
  BY <1>0
<1> QED BY <1>0, <1>1, <1>2, <1>3 DEF TargetSize

\* Every capture returns a picture that fits, or an error code.
LEMMA CaptureStep == CaptureNext => CaptureFits'
<1> SUFFICES ASSUME NEW size \in ScreenSizes, NEW max \in MaxSizes, CaptureDesktop(size, max)
             PROVE  CaptureFits'
  BY DEF CaptureNext
<1> DEFINE target == TargetSize(size, max)
<1>1. ASSUME NEW c \in CaptureFailures \cup {-4}, shot' = [NoShot EXCEPT !.code = c] PROVE CaptureFits'
  BY <1>1 DEF CaptureFits, NoShot, CaptureFailures
<1>2. ASSUME ~TooLarge(target), EncodeFrame(target, max) PROVE CaptureFits'
  <2>1. PixelBytes(target) <= BufferSize
    <3>1. size[1] \in Nat /\ size[2] \in Nat /\ max[1] \in Nat /\ max[2] \in Nat /\ size[1] # 0 /\ size[2] # 0
      BY InputAssumption
    <3>2. target[1] \in Int /\ target[2] \in Int
      BY <3>1 DEF TargetSize
    <3> HIDE DEF target
    <3> QED BY <1>2, <3>2, InputAssumption DEF TooLarge, PixelBytes
  <2>2. max[1] > 0 /\ max[2] > 0 => target[1] <= max[1] /\ target[2] <= max[2]
    BY TargetFits, InputAssumption
  <2> HIDE DEF target
  <2>3. PICK jpeg \in {BufferSize \div 2, BufferSize + 1} :
          shot' = [code |-> 0, max |-> max, size |-> target,
                   bytes |-> IF jpeg <= BufferSize THEN jpeg ELSE PixelBytes(target)]
    BY <1>2 DEF EncodeFrame
  <2> QED BY <2>1, <2>2, <2>3 DEF CaptureFits
<1> QED BY <1>1, <1>2 DEF CaptureDesktop

\* A picture that is returned fits the caller's buffer and the size asked for, for every
\* size of the screen.
THEOREM PictureFits == RunnerSpec => []CaptureFits
<1>1. RunnerInit => CaptureFits
  BY DEF RunnerInit, InputInit, CaptureFits, NoShot
<1>2. CaptureFits /\ [RunnerNext]_runnerVars => CaptureFits'
  <2>1. CaptureFits /\ UNCHANGED shot => CaptureFits'
    BY DEF CaptureFits
  <2>2. InputNext \/ HookNext => UNCHANGED shot
    BY DEF InputNext, HookNext, SendKey, SendOther, SetDesktopScope, WorkerLoop, TakeTask, Attach,
       RefuseTask, Execute, Finish, DesktopSwitches, InstallInputBlock, RemoveInputBlock, HooksSet, LocalKey
  <2> QED BY <2>1, <2>2, CaptureStep DEF RunnerNext, runnerVars, inputVars, othersOfLog, othersOfStart,
             othersOfBridge
<1> QED BY <1>1, <1>2, PTL DEF RunnerSpec

-----------------------------------------------------------------------------
(* The log.                                                                *)

\* Lines are known by their numbers, and the file holds the last ones in their order.
Numbered ==
  /\ written \in Seq(Nat) /\ current \in Seq(Nat) /\ backup \in Seq(Nat)
  /\ \A i \in 1 .. Len(written) : written[i] = i
  /\ Len(current) <= Len(written)
  /\ \A i \in 1 .. Len(current) : current[i] = Len(written) - Len(current) + i

\* A rotation is for a file that holds all of the newest lines by itself; the backup is a
\* beginning of it while it is copied.
Rotating ==
  /\ lpc \in {"rotate", "copy"} => Len(current) >= MaxLines
  /\ lpc = "copy" => /\ Len(backup) <= Len(current)
                     /\ \A i \in 1 .. Len(backup) : backup[i] = current[i]

\* Of the newest lines those that are not in the file any more are in the backup.
OlderInBackup ==
  \A n \in 1 .. Len(written) - Len(current) :
    n > Len(written) - MaxLines => \E i \in 1 .. Len(backup) : backup[i] = n

LogInv == Numbered /\ Rotating /\ OlderInBackup

\* Nothing is lost where the invariant holds.
LEMMA LogInvKeeps == LogInv => LinesKept
<1> SUFFICES ASSUME LogInv, NEW n \in Newest
             PROVE  written[n] \in Range(current) \cup Range(backup)
  BY DEF LinesKept
<1>1. n \in 1 .. Len(written) /\ n > Len(written) - MaxLines /\ written[n] = n
  BY DEF Newest, LogInv, Numbered
<1>2. CASE n <= Len(written) - Len(current)
  <2>1. n \in 1 .. Len(written) - Len(current)
    BY <1>1, <1>2 DEF LogInv, Numbered
  <2>2. PICK i \in 1 .. Len(backup) : backup[i] = n
    BY <1>1, <2>1 DEF LogInv, OlderInBackup
  <2> QED BY <1>1, <2>2 DEF LogInv, Numbered, Range
<1>3. CASE ~(n <= Len(written) - Len(current))
  <2> DEFINE i == n - (Len(written) - Len(current))
  <2>1. i \in 1 .. Len(current) /\ current[i] = n
    <3>1. Len(written) \in Nat /\ Len(current) \in Nat
      BY DEF LogInv, Numbered
    <3>2. i \in 1 .. Len(current) /\ Len(written) - Len(current) + i = n
      BY ONLY <1>1, <1>3, <3>1
    <3> HIDE DEF i
    <3> QED BY <3>2 DEF LogInv, Numbered
  <2> QED BY <1>1, <2>1 DEF LogInv, Numbered, Range
<1> QED BY <1>2, <1>3

\* A step that leaves the files alone and begins no rotation keeps it.
LEMMA FilesAlone ==
  ASSUME LogInv, UNCHANGED <<current, backup, written>>,
         lpc' = lpc \/ lpc' \notin {"rotate", "copy"}
  PROVE  LogInv'
BY DEF LogInv, Numbered, Rotating, OlderInBackup

\* The rest of Append.
LEMMA WriterKeeps == LogInv /\ WriterStep => LogInv'
<1> SUFFICES ASSUME LogInv, WriterStep PROVE LogInv'
  OBVIOUS
<1> USE LogAssumption
<1>1. CASE CheckSize
  BY <1>1 DEF CheckSize, Full, LogInv, Numbered, Rotating, OlderInBackup
<1>2. CASE RotateBegin
  BY <1>2 DEF RotateBegin, LogInv, Numbered, Rotating, OlderInBackup
<1>3. CASE RotateCopy
  <2> DEFINE piece == current[Len(backup) + 1]
  <2>1. /\ lpc = "copy" /\ lpc' = "copy" /\ Len(backup) < Len(current) /\ backup' = Append(backup, piece)
        /\ current' = current /\ written' = written
    BY <1>3 DEF RotateCopy
  <2>2. piece \in Nat /\ Len(backup) + 1 \in 1 .. Len(current)
    BY <2>1 DEF LogInv, Numbered
  <2> HIDE DEF piece
  <2>3. /\ backup' \in Seq(Nat) /\ Len(backup') = Len(backup) + 1 /\ backup'[Len(backup) + 1] = piece
        /\ \A i \in 1 .. Len(backup) : backup'[i] = backup[i]
    BY <2>1, <2>2 DEF LogInv, Numbered
  <2>4. Numbered' /\ OlderInBackup'
    BY <2>1, <2>3 DEF LogInv, Numbered, OlderInBackup, Rotating
  <2>5. Rotating'
    <3>1. Len(current) >= MaxLines /\ Len(backup') <= Len(current)
      BY <2>1, <2>2, <2>3 DEF LogInv, Rotating, Numbered
    <3>2. ASSUME NEW i \in 1 .. Len(backup') PROVE backup'[i] = current[i]
      <4>1. i \in 1 .. Len(backup) \/ i = Len(backup) + 1
        BY <2>3 DEF LogInv, Numbered
      <4>2. CASE i \in 1 .. Len(backup)
        BY <2>1, <2>3, <4>2 DEF LogInv, Rotating
      <4> QED BY <2>3, <4>1, <4>2 DEF piece
    <3> QED BY <2>1, <3>1, <3>2 DEF Rotating
  <2> QED BY <2>4, <2>5 DEF LogInv
<1>4. CASE RotateEnd
  <2>1. /\ lpc = "copy" /\ lpc' = "write" /\ Len(backup) >= Len(current) /\ current' = <<>>
        /\ backup' = backup /\ written' = written
    BY <1>4 DEF RotateEnd, Copied
  <2>2. Numbered' /\ Rotating'
    BY <2>1 DEF LogInv, Numbered, Rotating
  <2>3. ASSUME NEW n \in 1 .. Len(written), n > Len(written) - MaxLines
        PROVE  \E i \in 1 .. Len(backup) : backup[i] = n
    <3> DEFINE i == n - (Len(written) - Len(current))
    <3>1. Len(backup) = Len(current) /\ Len(current) >= MaxLines
      BY <2>1 DEF LogInv, Numbered, Rotating
    <3>2. i \in 1 .. Len(current) /\ current[i] = n
      <4>1. Len(written) \in Nat /\ Len(current) \in Nat /\ Len(current) <= Len(written)
        BY DEF LogInv, Numbered
      <4>2. i \in 1 .. Len(current)
        BY <2>3, <3>1, <4>1
      <4>3. current[i] = Len(written) - Len(current) + i
        BY <4>2 DEF LogInv, Numbered
      <4> QED BY <4>1, <4>2, <4>3
    <3>3. backup[i] = current[i]
      BY <2>1, <3>1, <3>2 DEF LogInv, Rotating
    <3> QED BY <3>1, <3>2, <3>3
  <2>4. OlderInBackup'
    <3>1. Len(written') - Len(current') = Len(written)
      BY <2>1 DEF LogInv, Numbered
    <3> QED BY <2>1, <2>3, <3>1 DEF OlderInBackup
  <2> QED BY <2>2, <2>4 DEF LogInv
<1>5. CASE AppendLine
  <2>1. /\ lpc' = "flush" /\ current' = Append(current, Len(written) + 1)
        /\ written' = Append(written, Len(written) + 1) /\ backup' = backup
    BY <1>5 DEF AppendLine, Line
  <2>2. /\ written' \in Seq(Nat) /\ Len(written') = Len(written) + 1
        /\ written'[Len(written) + 1] = Len(written) + 1
        /\ \A i \in 1 .. Len(written) : written'[i] = written[i]
        /\ current' \in Seq(Nat) /\ Len(current') = Len(current) + 1
        /\ current'[Len(current) + 1] = Len(written) + 1
        /\ \A i \in 1 .. Len(current) : current'[i] = current[i]
    BY <2>1 DEF LogInv, Numbered
  <2>3. Numbered'
    <3>0. Len(written) \in Nat /\ Len(current) \in Nat /\ Len(current) <= Len(written)
      BY DEF LogInv, Numbered
    <3>1. ASSUME NEW i \in 1 .. Len(written') PROVE written'[i] = i
      <4>1. i \in 1 .. Len(written) \/ i = Len(written) + 1
        BY <2>2, <3>0
      <4> QED BY <2>2, <4>1 DEF LogInv, Numbered
    <3>2. ASSUME NEW i \in 1 .. Len(current') PROVE current'[i] = Len(written') - Len(current') + i
      <4>1. i \in 1 .. Len(current) \/ i = Len(current) + 1
        BY <2>2, <3>0
      <4>2. CASE i \in 1 .. Len(current)
        <5>1. current'[i] = Len(written) - Len(current) + i
          BY <2>2, <4>2 DEF LogInv, Numbered
        <5> QED BY <2>2, <3>0, <5>1
      <4> QED BY <2>2, <3>0, <4>1, <4>2
    <3>3. Len(current') <= Len(written') /\ backup' \in Seq(Nat)
      BY <2>1, <2>2, <3>0 DEF LogInv, Numbered
    <3> QED BY <2>2, <3>1, <3>2, <3>3 DEF Numbered
  <2>4. Rotating' /\ OlderInBackup'
    <3>0. Len(written) \in Nat /\ Len(current) \in Nat
      BY DEF LogInv, Numbered
    <3>1. Len(written') - Len(current') = Len(written) - Len(current)
      BY <2>2, <3>0
    <3>2. \A n \in Int : n > Len(written') - MaxLines => n > Len(written) - MaxLines
      BY <2>2, <3>0
    <3>3. Rotating'
      BY <2>1 DEF Rotating
    <3>4. OlderInBackup'
      <4> SUFFICES ASSUME NEW n \in 1 .. Len(written') - Len(current'), n > Len(written') - MaxLines
                   PROVE  \E i \in 1 .. Len(backup) : backup[i] = n
        BY <2>1 DEF OlderInBackup
      <4>1. n \in 1 .. Len(written) - Len(current) /\ n > Len(written) - MaxLines
        BY <3>0, <3>1, <3>2
      <4> QED BY <4>1 DEF LogInv, OlderInBackup
    <3> QED BY <3>3, <3>4
  <2> QED BY <2>3, <2>4 DEF LogInv
<1> QED BY <1>1, <1>2, <1>3, <1>4, <1>5 DEF WriterStep

\* Wherever a writer stops or dies, in the middle of a rotation too, each of the newest
\* lines is in the file or in its backup.
THEOREM NewestLinesKept == RunnerSpec => []LinesKept
<1>1. RunnerInit => LogInv
  BY LogAssumption DEF RunnerInit, LogInit, LogInv, Numbered, Rotating, OlderInBackup
<1>2. LogInv /\ [RunnerNext]_runnerVars => LogInv'
  <2> SUFFICES ASSUME LogInv, [RunnerNext]_runnerVars PROVE LogInv'
    OBVIOUS
  <2>1. CASE UNCHANGED logVars
    BY <2>1, FilesAlone DEF logVars
  <2>2. CASE LogNext
    <3>1. CASE WriterStep
      BY <3>1, WriterKeeps
    <3>2. CASE ~WriterStep
      BY <2>2, <3>2, FilesAlone DEF LogNext, LogInitialize, Write, LoggerDies, SetEnabled, OpenAlone,
         MachineSets, CloseLog
    <3> QED BY <3>1, <3>2
  <2> QED BY <2>1, <2>2 DEF RunnerNext, runnerVars, othersOfInput, othersOfStart, othersOfBridge
<1> QED BY <1>1, <1>2, LogInvKeeps, PTL DEF RunnerSpec

-----------------------------------------------------------------------------
(* The queue of events.                                                    *)

Event == [kind : {"none", "move", "sas", "down", "up"}, key : Keys \cup {Nothing}]

\* Nothing in s is about k; what comes last for k in s is its release.
Silent(s, k)  == \A i \in 1 .. Len(s) : s[i].key # k
Settled(s, k) ==
  \A i \in 1 .. Len(s) :
    s[i].key = k /\ (\A j \in 1 .. Len(s) : s[j].key = k => j <= i) => IsUp(s[i])

\* r is what is left of s, in its order, and has all of its releases.
KeepsReleases(s, r) ==
  \E e \in [1 .. Len(r) -> 1 .. Len(s)] :
    /\ \A n \in 1 .. Len(r) : r[n] = s[e[n]]
    /\ \A m, n \in 1 .. Len(r) : m < n => e[m] < e[n]
    /\ \A i \in 1 .. Len(s) : IsUp(s[i]) => \E n \in 1 .. Len(r) : e[n] = i

\* The places of a sequence that are not empty have a last one.
LEMMA LastPlace ==
  ASSUME NEW n \in Nat, NEW S \in SUBSET (1 .. n), S # {}
  PROVE  \E x \in S : \A y \in S : y <= x
<1> DEFINE Above == {b \in Nat : \A y \in S : y <= b}
<1>1. n \in Above
  OBVIOUS
<1>2. PICK x \in Above : \A y \in Above : ~(<<y, x>> \in OpToRel(<, Nat))
  BY <1>1, NatLessThanWellFounded, WFMin
<1>3. x \in Nat /\ \A y \in Above : ~(y < x)
  BY <1>2 DEF OpToRel
<1>4. CASE x \in S
  BY <1>4
<1>5. CASE x \notin S
  <2>1. \A y \in S : y \in Nat /\ y >= 1 /\ y < x
    BY <1>3, <1>5
  <2>2. x - 1 \in Nat
    <3>1. PICK y \in S : TRUE
      OBVIOUS
    <3>2. y \in Nat /\ y >= 1 /\ y < x
      BY <2>1
    <3> QED BY <1>3, <3>2
  <2>3. x - 1 \in Above
    BY <1>3, <2>1, <2>2
  <2> QED BY <1>3, <2>3
<1> QED BY <1>4, <1>5

\* The places of the kept entries are numbered through by how many precede them.
LEMMA RankBijective ==
  ASSUME NEW n \in Nat, NEW kept \in SUBSET (1 .. n)
  PROVE  /\ Cardinality(kept) \in Nat
         /\ \A i \in kept : Cardinality(kept \cap 1 .. i) \in 1 .. Cardinality(kept)
         /\ \A i, j \in kept : i < j => Cardinality(kept \cap 1 .. i) < Cardinality(kept \cap 1 .. j)
         /\ \A m \in 1 .. Cardinality(kept) : \E i \in kept : Cardinality(kept \cap 1 .. i) = m
<1>1. IsFiniteSet(kept) /\ Cardinality(kept) \in Nat
  <2>1. IsFiniteSet(1 .. n)
    BY FS_Interval
  <2>2. IsFiniteSet(kept)
    BY <2>1, FS_Subset
  <2> QED BY <2>2, FS_CardinalityType
<1>2. ASSUME NEW i \in kept
      PROVE  /\ IsFiniteSet(kept \cap 1 .. i)
             /\ Cardinality(kept \cap 1 .. i) \in 1 .. Cardinality(kept)
  <2>1. i \in kept \cap 1 .. i
    OBVIOUS
  <2>2. /\ IsFiniteSet(kept \cap 1 .. i) /\ Cardinality(kept \cap 1 .. i) <= Cardinality(kept)
    <3>1. kept \cap 1 .. i \in SUBSET kept
      OBVIOUS
    <3> QED BY <1>1, <3>1, FS_Subset
  <2>3. Cardinality(kept \cap 1 .. i) \in Nat
    BY <2>2, FS_CardinalityType
  <2>4. Cardinality(kept \cap 1 .. i) # 0
    BY <2>1, <2>2, FS_EmptySet
  <2> QED BY <1>1, <2>2, <2>3, <2>4
<1>3. ASSUME NEW i \in kept, NEW j \in kept, i < j
      PROVE  Cardinality(kept \cap 1 .. i) < Cardinality(kept \cap 1 .. j)
  <2>1. kept \cap 1 .. i \in SUBSET (kept \cap 1 .. j)
    BY <1>3
  <2>2. j \in kept \cap 1 .. j /\ j \notin kept \cap 1 .. i
    BY <1>3
  <2>3. kept \cap 1 .. i # kept \cap 1 .. j
    BY <2>2
  <2>4. /\ Cardinality(kept \cap 1 .. i) <= Cardinality(kept \cap 1 .. j)
        /\ Cardinality(kept \cap 1 .. i) # Cardinality(kept \cap 1 .. j)
    BY <1>2, <2>1, <2>3, FS_Subset
  <2>5. Cardinality(kept \cap 1 .. i) \in Int /\ Cardinality(kept \cap 1 .. j) \in Int
    BY <1>1, <1>2
  <2> QED BY <2>4, <2>5
<1> DEFINE rank == [i \in kept |-> Cardinality(kept \cap 1 .. i)]
           ranks == 1 .. Cardinality(kept)
<1>4. rank \in Injection(kept, ranks)
  <2>1. rank \in [kept -> ranks]
    BY <1>2
  <2>2. ASSUME NEW i \in kept, NEW j \in kept, rank[i] = rank[j] PROVE i = j
    <3>1. i \in Int /\ j \in Int /\ Cardinality(kept \cap 1 .. i) = Cardinality(kept \cap 1 .. j)
      BY <2>2
    <3>2. ~(i < j) /\ ~(j < i)
      BY <1>1, <1>2, <1>3, <3>1
    <3> QED BY <3>1, <3>2
  <2> HIDE DEF rank, ranks
  <2> QED BY <2>1, <2>2 DEF Injection, IsInjective
<1>5. IsFiniteSet(ranks) /\ Cardinality(ranks) = Cardinality(kept)
  BY <1>1, FS_Interval
<1>6. rank \in Surjection(kept, ranks)
  <2> HIDE DEF rank, ranks
  <2> QED BY <1>4, <1>5, FS_Injection
<1>7. \A m \in ranks : \E i \in kept : rank[i] = m
  <2> HIDE DEF rank, ranks
  <2> QED BY <1>6 DEF Surjection
<1> QED BY <1>1, <1>2, <1>3, <1>7

\* Taking away entries that are no releases keeps the order and the releases.
LEMMA WithoutKeeps ==
  ASSUME NEW q \in Seq(Event), NEW places, \A i \in places \cap 1 .. Len(q) : ~IsUp(q[i])
  PROVE  Without(q, places) \in Seq(Event) /\ KeepsReleases(q, Without(q, places))
<1> DEFINE kept == 1 .. Len(q) \ places
           size == Cardinality(kept)
           e == [n \in 1 .. size |-> CHOOSE i \in kept : Cardinality(kept \cap 1 .. i) = n]
           r == [n \in 1 .. size |-> q[e[n]]]
<1>1. /\ size \in Nat
      /\ \A i \in kept : Cardinality(kept \cap 1 .. i) \in 1 .. size
      /\ \A i, j \in kept : i < j => Cardinality(kept \cap 1 .. i) < Cardinality(kept \cap 1 .. j)
      /\ \A n \in 1 .. size : \E i \in kept : Cardinality(kept \cap 1 .. i) = n
  <2>1. Len(q) \in Nat /\ kept \in SUBSET (1 .. Len(q))
    OBVIOUS
  <2> QED BY <2>1, RankBijective
<1>2. ASSUME NEW n \in 1 .. size PROVE e[n] \in kept /\ Cardinality(kept \cap 1 .. e[n]) = n
  BY <1>1
<1>3. Without(q, places) = r
  BY DEF Without
<1>4. kept \subseteq 1 .. Len(q) /\ \A i \in 1 .. Len(q) : IsUp(q[i]) => i \in kept
  OBVIOUS
<1>5. ASSUME NEW n \in 1 .. size PROVE e[n] \in 1 .. Len(q) /\ e[n] \in Int
  <2>1. e[n] \in kept
    BY <1>2
  <2> HIDE DEF e
  <2> QED BY <2>1
<1>6. e \in [1 .. size -> 1 .. Len(q)]
  <2>1. \A n \in 1 .. size : e[n] \in 1 .. Len(q)
    BY <1>5
  <2> HIDE DEF size, kept
  <2> QED BY <2>1
<1> HIDE DEF e, size, kept
<1>7. r \in Seq(Event) /\ Len(r) = size
  BY <1>1, <1>6
<1>8. ASSUME NEW m \in 1 .. size, NEW n \in 1 .. size, m < n PROVE e[m] < e[n]
  <2>1. /\ e[m] \in Int /\ e[n] \in Int /\ e[m] \in kept /\ e[n] \in kept
        /\ Cardinality(kept \cap 1 .. e[m]) = m /\ Cardinality(kept \cap 1 .. e[n]) = n
    BY <1>2, <1>5
  <2>2. CASE e[n] < e[m]
    <3>1. n < m
      BY <1>1, <2>1, <2>2
    <3> QED BY <1>8, <3>1
  <2>3. CASE e[n] = e[m]
    BY <1>8, <2>1, <2>3
  <2> QED BY <2>1, <2>2, <2>3
<1>9. ASSUME NEW i \in 1 .. Len(q), IsUp(q[i]) PROVE \E n \in 1 .. size : e[n] = i
  <2>1. i \in kept
    BY <1>4, <1>9
  <2>2. PICK n \in 1 .. size : n = Cardinality(kept \cap 1 .. i)
    BY <1>1, <2>1
  <2>3. e[n] \in kept /\ Cardinality(kept \cap 1 .. e[n]) = n /\ e[n] \in Int
    BY <1>2, <1>5
  <2>4. CASE e[n] < i
    <3>1. Cardinality(kept \cap 1 .. e[n]) < Cardinality(kept \cap 1 .. i)
      BY <1>1, <2>1, <2>3, <2>4
    <3> QED BY <2>2, <2>3, <3>1
  <2>5. CASE i < e[n]
    <3>1. Cardinality(kept \cap 1 .. i) < Cardinality(kept \cap 1 .. e[n])
      BY <1>1, <2>1, <2>3, <2>5
    <3> QED BY <2>2, <2>3, <3>1
  <2> QED BY <2>3, <2>4, <2>5
<1>10. KeepsReleases(q, r)
  BY <1>6, <1>7, <1>8, <1>9 DEF KeepsReleases
<1> QED BY <1>3, <1>7, <1>10

\* What is kept says the same of every key whose last entry is a release.
LEMMA KeepsSettled ==
  ASSUME NEW s \in Seq(Event), NEW r \in Seq(Event), KeepsReleases(s, r), NEW k, Settled(s, k)
  PROVE  Settled(r, k) /\ (Silent(r, k) => Silent(s, k))
<1>1. PICK e \in [1 .. Len(r) -> 1 .. Len(s)] :
        /\ \A n \in 1 .. Len(r) : r[n] = s[e[n]]
        /\ \A m, n \in 1 .. Len(r) : m < n => e[m] < e[n]
        /\ \A i \in 1 .. Len(s) : IsUp(s[i]) => \E n \in 1 .. Len(r) : e[n] = i
  BY DEF KeepsReleases
<1>2. CASE Silent(s, k)
  BY <1>1, <1>2 DEF Silent, Settled
<1>3. CASE ~Silent(s, k)
  <2> DEFINE P == {i \in 1 .. Len(s) : s[i].key = k}
  <2>1. PICK x \in P : \A y \in P : y <= x
    <3>1. Len(s) \in Nat /\ P \in SUBSET (1 .. Len(s)) /\ P # {}
      BY <1>3 DEF Silent
    <3> HIDE DEF P
    <3> QED BY <3>1, LastPlace
  <2>2. IsUp(s[x])
    BY <2>1 DEF Settled
  <2>3. PICK n \in 1 .. Len(r) : e[n] = x
    BY <1>1, <2>1, <2>2
  <2>4. r[n].key = k /\ IsUp(r[n])
    BY <1>1, <2>1, <2>2, <2>3
  <2>5. ASSUME NEW m \in 1 .. Len(r), r[m].key = k, \A j \in 1 .. Len(r) : r[j].key = k => j <= m
        PROVE  IsUp(r[m])
    <3>1. n <= m /\ e[m] \in P
      <4>1. n <= m
        BY <2>4, <2>5
      <4>2. e[m] \in 1 .. Len(s) /\ s[e[m]] = r[m]
        BY <1>1
      <4> QED BY <2>5, <4>1, <4>2
    <3>2. e[m] <= x
      BY <2>1, <3>1
    <3>3. ~(n < m)
      <4>1. e[n] \in Int /\ e[m] \in Int
        <5>1. e[n] \in 1 .. Len(s) /\ e[m] \in 1 .. Len(s)
          BY ONLY <1>1, Zenon
        <5> QED BY ONLY <5>1
      <4>2. n < m => e[n] < e[m]
        BY ONLY <1>1
      <4> HIDE DEF P
      <4> QED BY <2>3, <3>2, <4>1, <4>2
    <3>4. m = n
      BY <3>1, <3>3
    <3> QED BY <2>4, <3>4
  <2> QED BY <2>4, <2>5 DEF Settled, Silent
<1> QED BY <1>2, <1>3

\* An overflow takes no release.
LEMMA MakeRoomKeeps ==
  ASSUME NEW q \in Seq(Event)
  PROVE  /\ MakeRoom(q) \in Seq(Event)
         /\ \A k : Settled(q, k) =>
              /\ Settled(MakeRoom(q), k)
              /\ Silent(MakeRoom(q), k) => Silent(q, k)
<1> DEFINE r == DropOldest(q, Moves(q))
<1>1. r \in Seq(Event) /\ KeepsReleases(q, r)
  <2>1. \A i \in Moves(q) \cap 1 .. Len(q) : ~IsUp(q[i])
    BY DEF Moves, IsMove, IsUp
  <2> QED BY <2>1, WithoutKeeps DEF DropOldest
<1> HIDE DEF r
<1>2. DropOldest(r, NotUps(r)) \in Seq(Event) /\ KeepsReleases(r, DropOldest(r, NotUps(r)))
  <2>1. \A i \in NotUps(r) \cap 1 .. Len(r) : ~IsUp(r[i])
    BY DEF NotUps
  <2> QED BY <1>1, <2>1, WithoutKeeps DEF DropOldest
<1>3. MakeRoom(q) = DropOldest(r, NotUps(r))
  BY DEF MakeRoom, r
<1> QED BY <1>1, <1>2, <1>3, KeepsSettled

\* The inductive invariant: as NoStuckKey, with the event in the worker's hands apart from
\* the queue.  A worker that waits has none.
TaskFree == pc \in {"off", "wait"} => task = NoTask

Released(k) ==
  /\ Settled(queue, k)
  /\ Silent(queue, k) => IF task.key = k THEN IsUp(task) ELSE k \in held => k \in missed

KeyInv ==
  /\ queue \in Seq(Event) /\ task \in Event /\ TaskFree
  /\ \A k \in Keys \ pressed : Released(k)
  /\ \A k \in LocalKeys \ fingers : k \in held => k \in missed

\* It says what NoStuckKey says.
LEMMA KeyInvReleases == KeyInv => NoStuckKey
<1> SUFFICES ASSUME KeyInv PROVE NoStuckKey
  OBVIOUS
<1>1. /\ Len(queue) \in Nat /\ Len(OnItsWay) = Len(queue) + 1 /\ OnItsWay[1] = task
      /\ \A i \in 1 .. Len(queue) : i + 1 \in 1 .. Len(OnItsWay) /\ OnItsWay[i + 1] = queue[i]
  BY DEF KeyInv, OnItsWay
<1> SUFFICES ASSUME NEW k \in Keys \ pressed
             PROVE  /\ Pending(k) = {} /\ k \in held => k \in missed
                    /\ \A i \in Pending(k) : (\A j \in Pending(k) : j <= i) => IsUp(OnItsWay[i])
  BY DEF KeyInv, NoStuckKey
<1>2. Released(k)
  BY DEF KeyInv
<1>3. ASSUME Pending(k) = {}, k \in held PROVE k \in missed
  <2>1. 1 \in 1 .. Len(OnItsWay)
    BY <1>1
  <2>2. task.key # k
    BY <1>1, <1>3, <2>1 DEF Pending
  <2>3. Silent(queue, k)
    BY <1>1, <1>3 DEF Pending, Silent
  <2> QED BY <1>2, <1>3, <2>2, <2>3 DEF Released
<1>4. ASSUME NEW i \in Pending(k), \A j \in Pending(k) : j <= i PROVE IsUp(OnItsWay[i])
  <2>1. i \in 1 .. Len(queue) + 1 /\ OnItsWay[i].key = k
    BY <1>1 DEF Pending
  <2>2. \A j \in 1 .. Len(queue) : queue[j].key = k => j + 1 \in Pending(k)
    BY <1>1 DEF Pending
  <2>3. CASE i = 1
    <3>1. Silent(queue, k)
      BY <1>1, <1>4, <2>2, <2>3 DEF Silent
    <3> QED BY <1>1, <1>2, <2>1, <2>3, <3>1 DEF Released
  <2>4. CASE i # 1
    <3>1. PICK m \in 1 .. Len(queue) : i = m + 1
      BY <1>1, <2>1, <2>4
    <3>2. queue[m].key = k /\ OnItsWay[i] = queue[m]
      BY <1>1, <2>1, <3>1
    <3>3. \A j \in 1 .. Len(queue) : queue[j].key = k => j <= m
      BY <1>1, <1>4, <2>2, <3>1
    <3> QED BY <1>2, <3>2, <3>3 DEF Released, Settled
  <2> QED BY <2>3, <2>4
<1> QED BY <1>3, <1>4

\* An event is queued: what was said of the other keys stays, and a release comes last.
LEMMA EnqueueKeeps ==
  ASSUME queue \in Seq(Event), NEW t \in Event, Enqueue(t)
  PROVE  /\ queue' \in Seq(Event)
         /\ \A k : k # t.key /\ Settled(queue, k) =>
              /\ Settled(queue', k)
              /\ Silent(queue', k) => Silent(queue, k)
         /\ IsUp(t) => Settled(queue', t.key) /\ ~Silent(queue', t.key)
<1>1. CASE queue' = queue /\ IsMove(t)
  BY <1>1 DEF IsMove, IsUp
<1>2. CASE queue' = Append(MakeRoom(queue), t)
  <2> DEFINE r == MakeRoom(queue)
  <2>1. /\ r \in Seq(Event)
        /\ \A k : Settled(queue, k) => Settled(r, k) /\ (Silent(r, k) => Silent(queue, k))
    BY MakeRoomKeeps
  <2> HIDE DEF r
  <2>2. /\ queue' \in Seq(Event) /\ Len(queue') = Len(r) + 1 /\ queue'[Len(r) + 1] = t
        /\ \A i \in 1 .. Len(r) : queue'[i] = r[i]
        /\ Len(r) \in Nat
    BY <1>2, <2>1 DEF r
  <2>3. \A i \in 1 .. Len(queue') : i \in 1 .. Len(r) \/ i = Len(r) + 1
    BY <2>2
  <2>4. Len(r) + 1 \in 1 .. Len(queue') /\ \A i \in 1 .. Len(r) : i \in 1 .. Len(queue')
    BY <2>2
  <2>5. ASSUME NEW k, k # t.key, Settled(r, k) PROVE Settled(queue', k) /\ (Silent(queue', k) => Silent(r, k))
    BY <2>2, <2>3, <2>4, <2>5 DEF Settled, Silent
  <2>6. ASSUME IsUp(t) PROVE Settled(queue', t.key) /\ ~Silent(queue', t.key)
    <3>1. ~Silent(queue', t.key)
      BY <2>2, <2>4 DEF Silent
    <3>2. ASSUME NEW i \in 1 .. Len(queue'),
                 \A j \in 1 .. Len(queue') : queue'[j].key = t.key => j <= i
          PROVE  IsUp(queue'[i])
      <4>1. Len(r) + 1 <= i
        BY <2>2, <2>4, <3>2
      <4>2. i = Len(r) + 1
        BY <2>2, <2>3, <4>1
      <4> QED BY <2>2, <2>6, <4>2
    <3> QED BY <3>1, <3>2 DEF Settled
  <2> QED BY <2>1, <2>2, <2>5, <2>6
<1> QED BY <1>1, <1>2 DEF Enqueue

\* The operator's events.
LEMMA SendKeeps ==
  ASSUME KeyInv, (\E k \in Keys : SendKey(k)) \/ (\E t \in {Move, Sas} : SendOther(t))
  PROVE  KeyInv'
<1>1. ASSUME NEW t \in Event, Enqueue(t), UNCHANGED <<task, held, missed, fingers>>,
             \A k \in Keys \ pressed' : (k \in Keys \ pressed /\ k # t.key) \/ (k = t.key /\ IsUp(t))
      PROVE  KeyInv'
  <2>1. /\ queue' \in Seq(Event)
        /\ \A k : k # t.key /\ Settled(queue, k) =>
             Settled(queue', k) /\ (Silent(queue', k) => Silent(queue, k))
        /\ IsUp(t) => Settled(queue', t.key) /\ ~Silent(queue', t.key)
    BY <1>1, EnqueueKeeps DEF KeyInv
  <2>2. TaskFree'
    BY <1>1 DEF Enqueue, KeyInv, TaskFree
  <2>3. ASSUME NEW k \in Keys \ pressed' PROVE Released(k)'
    <3>1. CASE k \in Keys \ pressed /\ k # t.key
      BY <1>1, <2>1, <3>1 DEF KeyInv, Released
    <3>2. CASE k = t.key /\ IsUp(t)
      BY <2>1, <3>2 DEF Released
    <3> QED BY <1>1, <3>1, <3>2
  <2> QED BY <1>1, <2>1, <2>2, <2>3 DEF KeyInv
<1>2. ASSUME NEW k \in Keys, SendKey(k) PROVE KeyInv'
  <2>1. Press(k) \in Event /\ Release(k) \in Event /\ Press(k).key = k /\ Release(k).key = k /\ IsUp(Release(k))
    BY DEF Press, Release, Event, IsUp
  <2>2. CASE k \in pressed
    BY <1>1, <1>2, <2>1, <2>2 DEF SendKey, hookVars
  <2>3. CASE k \notin pressed
    BY <1>1, <1>2, <2>1, <2>3 DEF SendKey, hookVars
  <2> QED BY <2>2, <2>3
<1>3. ASSUME NEW t \in {Move, Sas}, SendOther(t) PROVE KeyInv'
  <2>1. t \in Event /\ t.key \notin Keys
    BY InputAssumption DEF Move, Sas, Event, Nothing
  <2> QED BY <1>1, <1>3, <2>1 DEF SendOther, keyVars, hookVars
<1> QED BY <1>2, <1>3

\* The worker: what it takes is still on its way, and what it carries out is done or missed.
LEMMA WorkerKeeps == ASSUME KeyInv, WorkerLoop PROVE KeyInv'
<1>0. NoTask \in Event /\ NoTask.key \notin Keys /\ NoTask.key \notin LocalKeys
  BY InputAssumption DEF NoTask, Event, Nothing
<1>1. CASE TakeTask
  <2>0. UNCHANGED <<held, missed, pressed, fingers>> /\ pc' = "attach" /\ task = NoTask
    BY <1>1 DEF TakeTask, keyVars, hookVars, KeyInv, TaskFree
  <2>1. CASE queue = <<>> /\ task' = NoTask /\ queue' = queue
    BY <2>0, <2>1 DEF KeyInv, Released, TaskFree
  <2>2. CASE queue # <<>> /\ task' = Head(queue) /\ queue' = Tail(queue)
    <3>1. /\ Len(queue) \in Nat /\ Len(queue) >= 1 /\ queue' \in Seq(Event) /\ task' \in Event
          /\ task' = queue[1] /\ Len(queue') = Len(queue) - 1
          /\ \A i \in 1 .. Len(queue') : queue'[i] = queue[i + 1]
      BY <2>2 DEF KeyInv
    <3>2. ASSUME NEW k \in Keys \ pressed PROVE Released(k)'
      <4>1. Settled(queue, k) /\ (Silent(queue, k) => (k \in held => k \in missed))
        BY <1>0, <2>0 DEF KeyInv, Released
      <4>2. Settled(queue', k)
        <5> SUFFICES ASSUME NEW i \in 1 .. Len(queue'), queue'[i].key = k,
                            \A j \in 1 .. Len(queue') : queue'[j].key = k => j <= i
                     PROVE  IsUp(queue'[i])
          BY DEF Settled
        <5>1. i + 1 \in 1 .. Len(queue) /\ queue[i + 1] = queue'[i]
          BY <3>1
        <5>2. ASSUME NEW j \in 1 .. Len(queue), queue[j].key = k PROVE j <= i + 1
          <6>1. CASE j = 1
            BY <3>1, <6>1
          <6>2. CASE j # 1
            <7>1. j - 1 \in 1 .. Len(queue') /\ queue'[j - 1] = queue[j]
              BY <3>1, <6>2
            <7> QED BY <3>1, <5>2, <7>1
          <6> QED BY <6>1, <6>2
        <5> QED BY <4>1, <5>1, <5>2 DEF Settled
      <4>3. ASSUME Silent(queue', k)
            PROVE  IF task'.key = k THEN IsUp(task') ELSE k \in held => k \in missed
        <5>1. ASSUME NEW j \in 1 .. Len(queue), queue[j].key = k PROVE j = 1
          <6>1. CASE j # 1
            <7>1. j - 1 \in 1 .. Len(queue') /\ queue'[j - 1] = queue[j]
              BY <3>1, <6>1
            <7> QED BY <4>3, <5>1, <7>1 DEF Silent
          <6> QED BY <6>1
        <5>2. CASE task'.key = k
          <6>1. 1 \in 1 .. Len(queue) /\ queue[1].key = k
            BY <3>1, <5>2
          <6> QED BY <3>1, <4>1, <5>1, <5>2, <6>1 DEF Settled
        <5>3. CASE task'.key # k
          BY <3>1, <4>1, <5>1, <5>3 DEF Silent
        <5> QED BY <5>2, <5>3
      <4> QED BY <2>0, <4>2, <4>3 DEF Released
    <3> QED BY <2>0, <3>1, <3>2 DEF KeyInv, TaskFree
  <2> QED BY <1>1, <2>1, <2>2 DEF TakeTask
<1>2. CASE Attach
  BY <1>2 DEF Attach, NextFor, KeyInv, TaskFree, Released, keyVars, hookVars
<1>3. CASE RefuseTask \/ Execute
  <2>0. /\ queue' = queue /\ pressed' = pressed /\ fingers' = fingers /\ task' = NoTask
        /\ task.key \notin LocalKeys
    BY <1>3, InputAssumption DEF RefuseTask, Execute, Finish, hookVars, KeyInv, Event, Nothing
  <2>1. \A k : (k # task.key \/ IsUp(task)) /\ (k \in held /\ k # task.key => k \in missed)
               => (k \in held' => k \in missed')
    BY <1>3 DEF RefuseTask, Execute, Discard, ExecuteSendSas, Inject, IsUp
  <2>2. ASSUME NEW k \in Keys \ pressed PROVE Released(k)'
    <3>1. Released(k)
      BY DEF KeyInv
    <3>2. Silent(queue, k) => (k \in held' => k \in missed')
      BY <2>1, <3>1 DEF Released
    <3> QED BY <1>0, <2>0, <3>1, <3>2 DEF Released
  <2>3. \A k \in LocalKeys \ fingers : k \in held' => k \in missed'
    BY <2>0, <2>1 DEF KeyInv
  <2> QED BY <1>0, <2>0, <2>2, <2>3 DEF KeyInv, TaskFree
<1> QED BY <1>1, <1>2, <1>3 DEF WorkerLoop

\* The hooks and the local user.
LEMMA HooksKeep == ASSUME KeyInv, HookNext PROVE KeyInv'
<1>1. CASE InstallInputBlock \/ RemoveInputBlock \/ HooksSet
  BY <1>1 DEF InstallInputBlock, RemoveInputBlock, HooksSet, keyVars, queueVars, KeyInv, TaskFree, Released
<1>2. ASSUME NEW k \in LocalKeys, LocalKey(k) PROVE KeyInv'
  <2>1. UNCHANGED <<queue, pc, task, pressed>> /\ k \notin Keys
    BY <1>2, InputAssumption DEF LocalKey, queueVars
  <2>2. \A l : l # k => /\ l \in held' <=> l \in held
                        /\ l \in missed' <=> l \in missed
                        /\ l \in fingers' <=> l \in fingers
    BY <1>2 DEF LocalKey
  <2>3. k \in held' /\ k \notin fingers' => k \in missed'
    BY <1>2 DEF LocalKey
  <2> QED BY <2>1, <2>2, <2>3 DEF KeyInv, TaskFree, Released
<1> QED BY <1>1, <1>2 DEF HookNext

\* A key that was let go does not stay down, for every size of the queue and whatever an
\* overflow drops, unless its release met a desktop that may not or could not get it; and
\* a key of the local user stays down only if the hook swallowed its release.
THEOREM KeysReleased == RunnerSpec => []NoStuckKey
<1>1. RunnerInit => KeyInv
  <2> SUFFICES ASSUME RunnerInit PROVE KeyInv
    OBVIOUS
  <2>1. queue = <<>> /\ task = NoTask /\ held = {}
    BY DEF RunnerInit, InputInit
  <2>2. task \in Event
    BY <2>1 DEF NoTask, Event, Nothing
  <2>3. \A k \in Keys : Released(k)
    BY <2>1, InputAssumption DEF Released, Settled, Silent, NoTask, Nothing
  <2> QED BY <2>1, <2>2, <2>3 DEF KeyInv, TaskFree
<1>2. KeyInv /\ [RunnerNext]_runnerVars => KeyInv'
  <2> SUFFICES ASSUME KeyInv, [RunnerNext]_runnerVars PROVE KeyInv'
    OBVIOUS
  <2>1. CASE UNCHANGED <<queue, pc, task, held, missed, pressed, fingers>>
    BY <2>1 DEF KeyInv, TaskFree, Released
  <2>2. CASE SetDesktopScope \/ DesktopSwitches \/ CaptureNext
    <3>1. UNCHANGED <<queue, pc, task, held, missed, pressed, fingers>>
      BY <2>2 DEF SetDesktopScope, DesktopSwitches, CaptureNext, CaptureDesktop, queueVars, keyVars, hookVars
    <3> QED BY <2>1, <3>1
  <2>3. CASE UNCHANGED inputVars
    BY <2>1, <2>3 DEF inputVars, queueVars, keyVars, hookVars
  <2>4. CASE InputNext
    <3>1. CASE (\E k \in Keys : SendKey(k)) \/ (\E t \in {Move, Sas} : SendOther(t))
      BY <3>1, SendKeeps
    <3>2. CASE WorkerLoop
      BY <3>2, WorkerKeeps
    <3> QED BY <2>2, <2>4, <3>1, <3>2 DEF InputNext
  <2> QED BY <2>2, <2>3, <2>4, HooksKeep DEF RunnerNext, runnerVars, othersOfLog, othersOfStart, othersOfBridge
<1> QED BY <1>1, <1>2, KeyInvReleases, PTL DEF RunnerSpec
=============================================================================
