------------------------------ MODULE DiskSpool ------------------------------
(***************************************************************************)
(* The disk spool shared by the recordings of a host (spool.go).           *)
(*                                                                         *)
(* WriteBatch writes a temporary file and renames it; a crash of the       *)
(* service may come in between.  Every write ends with the quota, which    *)
(* removes whole session directories, oldest first.  The quota looks at no *)
(* error: a directory it cannot read counts nothing and is passed over,    *)
(* one it cannot remove counts as removed.                                 *)
(***************************************************************************)
EXTENDS Integers, FiniteSets
LOCAL INSTANCE FiniteSetsExt
LOCAL INSTANCE SequencesExt

CONSTANTS
  Sessions,   \* session ids
  Sizes,      \* sizes of a chunk file
  Indexes,    \* batch indexes
  MaxBytes,   \* maxBytes, the quota
  MaxClock    \* bound: writes

ASSUME SpoolAssumption ==
  /\ Sizes \subseteq Nat \ {0} /\ Indexes \subseteq Nat
  /\ MaxBytes \in Nat /\ MaxClock \in Nat

VARIABLES
  dirs,      \* session directories that exist
  files,     \* files of each session: [index, kind, size, time], kind "tmp" or "chunk"
  clock,     \* file times
  writing,   \* WriteBatch between write and rename: [session, file], or {}
  unread,    \* history: directories the quota of this step could not read
  stuck      \* history: directories it removed, but not wholly

diskVars == <<dirs, files, clock, writing, unread, stuck>>

SpoolInit ==
  /\ dirs = {} /\ files = [s \in Sessions |-> {}]
  /\ clock = 0 /\ writing = {} /\ unread = {} /\ stuck = {}

Bytes(F) == MapThenSumSet(LAMBDA f : f.size, F)
BytesOf(fs, D) == MapThenSumSet(LAMBDA s : Bytes(fs[s]), D)

\* The time of the oldest file; an empty directory has the zero time.
Oldest(F) == IF F = {} THEN 0 ELSE Min({f.time : f \in F})

-----------------------------------------------------------------------------
(* The quota, enforceQuotaLocked.  Info reads no disk on Windows and does  *)
(* not fail.                                                               *)

\* Mutant: the directories are not sorted.
ByAgeUnsorted(fs, seen) == SetToSeq(seen)

\* The directories that were read, oldest first.
ByAge(fs, seen) == SetToSortSeq(seen, LAMBDA a, b : Oldest(fs[a]) < Oldest(fs[b]))

\* The directories that are removed when they are gone through in the given order: each
\* but protect, while those before it were not enough.
Evicted(fs, protect, order) ==
  {order[i] : i \in {i \in DOMAIN order :
     /\ order[i] # protect
     /\ LET gone == {order[j] : j \in 1..(i - 1)} \ {protect} IN
        BytesOf(fs, {order[j] : j \in DOMAIN order} \ gone) > MaxBytes}}

\* Any directory may be unreadable (all, if the base is), and of one whose removal fails
\* any files may be left.
enforceQuotaLocked(fs, protect) ==
  \E bad \in SUBSET dirs :
    LET evicted == Evicted(fs, protect, ByAge(fs, dirs \ bad)) IN
    \E failed \in SUBSET evicted :
      \E rest \in SUBSET UNION {fs[x] : x \in failed} :
        /\ dirs' = (dirs \ evicted) \cup failed
        /\ files' = [x \in Sessions |-> IF x \in evicted THEN fs[x] \cap rest ELSE fs[x]]
        /\ unread' = bad /\ stuck' = failed

-----------------------------------------------------------------------------
(* The operations; each holds the mutex.                                   *)

\* Writing or renaming to a name replaces the file that has it.
Put(F, file) == {f \in F : <<f.index, f.kind>> # <<file.index, file.kind>>} \cup {file}

\* A step without the quota.
NoQuota == unread' = {} /\ stuck' = {}

\* Mutant: the chunk is written in place.
WriteInPlace(s, i, size) ==
  /\ writing = {} /\ clock < MaxClock
  /\ clock' = clock + 1 /\ NoQuota
  /\ LET file == [index |-> i, kind |-> "tmp", size |-> size, time |-> clock + 1] IN
     /\ files' = [files EXCEPT ![s] = {f \in Put(@, file) : f.index = i => f.kind = "tmp"}]
     /\ writing' = {[session |-> s, file |-> file]}
  /\ dirs' = dirs \cup {s}

\* WriteBatch: make the directory and write the temporary file.
WriteTemp(s, i, size) ==
  /\ writing = {} /\ clock < MaxClock
  /\ clock' = clock + 1 /\ NoQuota
  /\ LET file == [index |-> i, kind |-> "tmp", size |-> size, time |-> clock + 1] IN
     /\ files' = [files EXCEPT ![s] = Put(@, file)]
     /\ writing' = {[session |-> s, file |-> file]}
  /\ dirs' = dirs \cup {s}

\* The rename, which replaces a chunk of the same index, then the quota.
CommitChunk ==
  \E w \in writing :
    LET chunk == [w.file EXCEPT !.kind = "chunk"] IN
    /\ enforceQuotaLocked([files EXCEPT ![w.session] = Put(@ \ {w.file}, chunk)], w.session)
    /\ writing' = {} /\ UNCHANGED clock

\* The rename fails: the temporary file is removed, unless that fails too.
CommitFails ==
  \E w \in writing :
    /\ files' \in {[files EXCEPT ![w.session] = @ \ {w.file}], files}
    /\ writing' = {}
    /\ NoQuota /\ UNCHANGED <<dirs, clock>>

\* The write fails, or the service dies before the rename; the file stays.
Crash ==
  /\ writing # {} /\ writing' = {}
  /\ NoQuota /\ UNCHANGED <<dirs, files, clock>>

\* ReadPendingBatches sees whole chunks only.
ChunksOf(s) == {f \in files[s] : f.kind = "chunk"}

RemoveBatch(s, f) ==
  /\ writing = {} /\ f \in ChunksOf(s)
  /\ files' = [files EXCEPT ![s] = @ \ {f}]
  /\ NoQuota /\ UNCHANGED <<dirs, clock, writing>>

\* RemoveSession, which may fail with some of the files removed.
RemoveSession(s) ==
  /\ writing = {} /\ s \in dirs
  /\ \/ dirs' = dirs \ {s} /\ files' = [files EXCEPT ![s] = {}]
     \/ dirs' = dirs /\ \E rest \in SUBSET files[s] : files' = [files EXCEPT ![s] = rest]
  /\ NoQuota /\ UNCHANGED <<clock, writing>>

SpoolNext ==
  \/ \E s \in Sessions, i \in Indexes, z \in Sizes : WriteTemp(s, i, z)
  \/ CommitChunk \/ CommitFails \/ Crash
  \/ \E s \in Sessions : RemoveSession(s) \/ \E f \in files[s] : RemoveBatch(s, f)

SpoolSpec == SpoolInit /\ [][SpoolNext]_diskVars

-----------------------------------------------------------------------------
File == [index : Indexes, kind : {"tmp", "chunk"}, size : Sizes, time : 1..MaxClock]

\* After a write what the quota could read and did not remove is within the
\* quota, or is the writer's, whatever temporary files a crash has left behind.
\* It removes the oldest sessions only, never the writer's, and none more than
\* needed.  A directory whose removal failed was given up all the same: it may
\* have lost files, and no other is removed in its place.
QuotaKept ==
  [][CommitChunk => \E w \in writing :
       LET gone == (dirs \ dirs') \cup stuck'
           kept == dirs' \ (stuck' \cup unread') IN
       /\ BytesOf(files', kept) <= MaxBytes \/ kept \subseteq {w.session}
       /\ w.session \notin gone
       /\ \A s \in gone :
            /\ \A t \in kept \ {w.session} : Oldest(files[s]) <= Oldest(files[t])
            /\ \E u \in gone : BytesOf(files', kept) + Bytes(files[u]) > MaxBytes
       /\ \A s \in unread' \ {w.session} : files'[s] = files[s]]_diskVars

\* A write, whole, interrupted or failed, never loses a committed chunk of the
\* session that writes, except the one it replaces with a whole one.
OwnChunksKept ==
  [][\A s \in Sessions :
       writing' # writing /\ (\E w \in writing \cup writing' : w.session = s)
         => \A f \in ChunksOf(s) :
              \E g \in files'[s] : g.kind = "chunk" /\ g.index = f.index]_diskVars
=============================================================================
