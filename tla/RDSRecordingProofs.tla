------------------------- MODULE RDSRecordingProofs --------------------------
(***************************************************************************)
(* The recordings of RDS sessions: the map of the supervisor, for any      *)
(* number of Windows sessions and recordings, and the spool on disk.       *)
(*                                                                         *)
(* NoDeadRecording is almost inductive.  CompletedOnce is not: it needs    *)
(* that a recording in the map has no closer yet (TakeEntry would start a  *)
(* second one), that one which is not yet registered has none either, and  *)
(* that a closer completes exactly when it is done.                        *)
(*                                                                         *)
(* The spool keeps the chunks of the session that writes: the quota spares *)
(* it, and what is being written is temporary until it is renamed.         *)
(***************************************************************************)
EXTENDS RDSSupervisor, DiskSpool, TLAPS

MappedUnclosed == \A w \in Wts : recorded[w] # NoRec => closer[recorded[w]] = "none"

UnregisteredUnclosed ==
  \A r \in Recs : rpc[r] \in {"free", "policy", "apply"} => closer[r] = "none"

CompletedByCloser ==
  \A r \in Recs : /\ completions[r] = IF closer[r] = "done" THEN 1 ELSE 0
                  /\ r \in told => closer[r] = "done"

IndInv ==
  /\ SupervisorTypeOK
  /\ NoDeadRecording
  /\ MappedUnclosed
  /\ UnregisteredUnclosed
  /\ CompletedByCloser

USE SupervisorAssumption DEF SupervisorAssumption, envVars, recVars

\* The supervisor starts with an empty map.
LEMMA InitIndInv == SupervisorInit => IndInv
  <1> SUFFICES ASSUME SupervisorInit PROVE IndInv
    OBVIOUS
  <1>1. SupervisorTypeOK
    BY DEF SupervisorInit, SupervisorTypeOK
  <1>2. NoDeadRecording /\ MappedUnclosed /\ UnregisteredUnclosed /\ CompletedByCloser
    BY DEF SupervisorInit, NoDeadRecording, MappedUnclosed, UnregisteredUnclosed, CompletedByCloser
  <1> QED BY <1>1, <1>2 DEF IndInv

\* Taking an entry out of the map gives its recording its only closer.
LEMMA TakeEntryIndInv ==
  ASSUME IndInv, NEW w \in Wts, TakeEntry(w),
         UNCHANGED <<rpc, wts, ctx, completions, told, service, starts, os, logons, snap>>,
         notices' \subseteq Wts
  PROVE  IndInv'
  <1> DEFINE r == recorded[w]
  <1>1. r \in Recs /\ closer[r] = "none" /\ rpc[r] \in {"starting", "recording"} /\ wts[r] = w
    BY DEF TakeEntry, IndInv, SupervisorTypeOK, NoDeadRecording, MappedUnclosed
  <1>2. /\ recorded' = [recorded EXCEPT ![w] = NoRec]
        /\ closer' = [closer EXCEPT ![r] = "cancel"]
    BY DEF TakeEntry
  <1> HIDE DEF r
  <1>3. SupervisorTypeOK'
    BY <1>1, <1>2 DEF IndInv, SupervisorTypeOK
  <1>4. NoDeadRecording'
    BY <1>1, <1>2 DEF IndInv, SupervisorTypeOK, NoDeadRecording
  <1>5. MappedUnclosed'
    BY <1>1, <1>2 DEF IndInv, SupervisorTypeOK, NoDeadRecording, MappedUnclosed
  <1>6. UnregisteredUnclosed'
    BY <1>1, <1>2 DEF IndInv, SupervisorTypeOK, UnregisteredUnclosed
  <1>7. CompletedByCloser'
    BY <1>1, <1>2 DEF IndInv, SupervisorTypeOK, CompletedByCloser
  <1> QED BY <1>3, <1>4, <1>5, <1>6, <1>7 DEF IndInv

\* Steps that leave the map, the recordings' places and their closers alone.
LEMMA FrameIndInv ==
  ASSUME IndInv, SupervisorTypeOK', UNCHANGED <<recorded, rpc, wts, closer, completions, told>>
  PROVE  IndInv'
  BY DEF IndInv, NoDeadRecording, MappedUnclosed, UnregisteredUnclosed, CompletedByCloser

\* Every step preserves the invariant.
LEMMA NextIndInv == IndInv /\ [SupervisorNext]_supervisorVars => IndInv'
  <1> SUFFICES ASSUME IndInv, [SupervisorNext]_supervisorVars PROVE IndInv'
    OBVIOUS
  <1>1. ASSUME NEW w \in Wts, UserLogsOn(w) \/ UserLeaves(w) \/ HandleSessionLogon(w)
                              \/ StartUnanswered(w)
        PROVE  IndInv'
    <2>1. UNCHANGED <<recorded, rpc, wts, closer, completions, told>>
      BY <1>1 DEF UserLogsOn, UserLeaves, HandleSessionLogon, StartUnanswered
    <2>2. SupervisorTypeOK'
      BY <1>1 DEF UserLogsOn, UserLeaves, HandleSessionLogon, StartUnanswered, IndInv, SupervisorTypeOK
    <2> QED BY <2>1, <2>2, FrameIndInv
  <1>2. ASSUME NEW w \in Wts, HandleSessionLogoff(w) PROVE IndInv'
    <2>1. notices' \subseteq Wts
      BY <1>2 DEF HandleSessionLogoff, IndInv, SupervisorTypeOK
    <2>2. CASE TakeEntry(w)
      BY <1>2, <2>1, <2>2, TakeEntryIndInv DEF HandleSessionLogoff
    <2>3. CASE ~TakeEntry(w)
      <3>1. UNCHANGED <<recorded, rpc, wts, closer, completions, told>>
        BY <1>2, <2>3 DEF HandleSessionLogoff
      <3>2. SupervisorTypeOK'
        BY <1>2, <2>1, <3>1 DEF HandleSessionLogoff, IndInv, SupervisorTypeOK
      <3> QED BY <3>1, <3>2, FrameIndInv
    <2> QED BY <2>2, <2>3
  <1>3. ASSUME NEW w \in Wts, SyncStale(w) PROVE IndInv'
    <2>1. notices' \subseteq Wts
      BY <1>3 DEF SyncStale, IndInv, SupervisorTypeOK
    <2> QED BY <1>3, <2>1, TakeEntryIndInv DEF SyncStale
  <1>4. ASSUME NEW w \in Wts, NEW r \in Recs, PolicyAck(w, r) PROVE IndInv'
    <2> USE <1>4 DEF PolicyAck
    <2>1. SupervisorTypeOK'
      BY DEF IndInv, SupervisorTypeOK
    <2>2. NoDeadRecording' /\ MappedUnclosed'
      BY DEF IndInv, SupervisorTypeOK, NoDeadRecording, MappedUnclosed
    <2>3. UnregisteredUnclosed' /\ CompletedByCloser'
      BY DEF IndInv, SupervisorTypeOK, UnregisteredUnclosed, CompletedByCloser
    <2> QED BY <2>1, <2>2, <2>3 DEF IndInv
  <1>5. CASE Enumerate
    <2>1. SupervisorTypeOK'
      BY <1>5 DEF Enumerate, IndInv, SupervisorTypeOK
    <2> QED BY <1>5, <2>1, FrameIndInv DEF Enumerate
  <1>6. CASE CancelWorkerScope
    <2>1. SupervisorTypeOK'
      BY <1>6 DEF CancelWorkerScope, IndInv, SupervisorTypeOK
    <2> QED BY <1>6, <2>1, FrameIndInv DEF CancelWorkerScope
  <1>7. CASE StopAll
    <2> USE <1>7 DEF StopAll
    <2>1. SupervisorTypeOK'
      BY DEF IndInv, SupervisorTypeOK
    <2>2. NoDeadRecording' /\ MappedUnclosed'
      BY DEF IndInv, SupervisorTypeOK, NoDeadRecording, MappedUnclosed
    <2>3. ASSUME NEW r \in Recs, NEW w \in Wts, recorded[w] = r
          PROVE  closer[r] = "none" /\ rpc[r] \in {"starting", "recording"}
      BY <2>3 DEF IndInv, SupervisorTypeOK, NoDeadRecording, MappedUnclosed
    <2>4. UnregisteredUnclosed'
      BY <2>3 DEF IndInv, SupervisorTypeOK, UnregisteredUnclosed
    <2>5. CompletedByCloser'
      BY <2>3 DEF IndInv, SupervisorTypeOK, CompletedByCloser
    <2> QED BY <2>1, <2>2, <2>4, <2>5 DEF IndInv
  <1>8. ASSUME NEW r \in Recs, CancelRecording(r) PROVE IndInv'
    <2> USE <1>8 DEF CancelRecording
    <2>1. SupervisorTypeOK'
      BY DEF IndInv, SupervisorTypeOK
    <2>2. NoDeadRecording' /\ MappedUnclosed'
      BY DEF IndInv, SupervisorTypeOK, NoDeadRecording, MappedUnclosed
    <2>3. UnregisteredUnclosed' /\ CompletedByCloser'
      BY DEF IndInv, SupervisorTypeOK, UnregisteredUnclosed, CompletedByCloser
    <2> QED BY <2>1, <2>2, <2>3 DEF IndInv
  <1>9. ASSUME NEW r \in Recs, CompleteRecording(r) PROVE IndInv'
    <2> USE <1>9 DEF CompleteRecording
    <2>1. SupervisorTypeOK'
      BY DEF IndInv, SupervisorTypeOK
    <2>2. NoDeadRecording' /\ MappedUnclosed'
      BY DEF IndInv, SupervisorTypeOK, NoDeadRecording, MappedUnclosed
    <2>3. UnregisteredUnclosed'
      BY DEF IndInv, SupervisorTypeOK, UnregisteredUnclosed
    <2>4. CompletedByCloser'
      BY DEF IndInv, SupervisorTypeOK, CompletedByCloser
    <2> QED BY <2>1, <2>2, <2>3, <2>4 DEF IndInv
  <1>10. ASSUME NEW r \in Recs, ApplyCheck(r) \/ WorkerConnects(r) PROVE IndInv'
    <2> USE <1>10 DEF ApplyCheck, WorkerConnects
    <2>1. SupervisorTypeOK'
      BY DEF IndInv, SupervisorTypeOK
    <2>2. NoDeadRecording' /\ MappedUnclosed'
      BY DEF IndInv, SupervisorTypeOK, NoDeadRecording, MappedUnclosed
    <2>3. UnregisteredUnclosed' /\ CompletedByCloser'
      BY DEF IndInv, SupervisorTypeOK, UnregisteredUnclosed, CompletedByCloser
    <2> QED BY <2>1, <2>2, <2>3 DEF IndInv
  <1>11. ASSUME NEW r \in Recs, ApplyRegister(r) PROVE IndInv'
    <2> USE <1>11 DEF ApplyRegister
    <2>1. SupervisorTypeOK'
      BY DEF IndInv, SupervisorTypeOK
    <2>2. NoDeadRecording' /\ MappedUnclosed'
      BY DEF IndInv, SupervisorTypeOK, NoDeadRecording, MappedUnclosed, UnregisteredUnclosed
    <2>3. UnregisteredUnclosed' /\ CompletedByCloser'
      BY DEF IndInv, SupervisorTypeOK, UnregisteredUnclosed, CompletedByCloser
    <2> QED BY <2>1, <2>2, <2>3 DEF IndInv
  <1>12. ASSUME NEW r \in Recs, RecordingEnds(r) PROVE IndInv'
    <2> USE <1>12 DEF RecordingEnds, DeferredDelete
    <2>1. SupervisorTypeOK'
      BY DEF IndInv, SupervisorTypeOK
    <2>2. NoDeadRecording' /\ MappedUnclosed'
      BY DEF IndInv, SupervisorTypeOK, NoDeadRecording, MappedUnclosed
    <2>3. UnregisteredUnclosed' /\ CompletedByCloser'
      BY DEF IndInv, SupervisorTypeOK, UnregisteredUnclosed, CompletedByCloser
    <2> QED BY <2>1, <2>2, <2>3 DEF IndInv
  <1>13. CASE UNCHANGED supervisorVars
    BY <1>13 DEF supervisorVars, IndInv, SupervisorTypeOK, NoDeadRecording, MappedUnclosed,
       UnregisteredUnclosed, CompletedByCloser
  <1> QED
    BY <1>1, <1>2, <1>3, <1>4, <1>5, <1>6, <1>7, <1>8, <1>9, <1>10, <1>11, <1>12, <1>13
    DEF SupervisorNext

\* Type correctness of the supervisor.
THEOREM TypeCorrect == SupervisorSpec => []SupervisorTypeOK
  <1>1. IndInv => SupervisorTypeOK
    BY DEF IndInv
  <1> QED BY InitIndInv, NextIndInv, <1>1, PTL DEF SupervisorSpec

\* The map holds only recordings whose goroutine runs, each under the session
\* it records: runSessionRecording's deferred delete is enough.
THEOREM MapIsAlive == SupervisorSpec => []NoDeadRecording
  <1>1. IndInv => NoDeadRecording
    BY DEF IndInv
  <1> QED BY InitIndInv, NextIndInv, <1>1, PTL DEF SupervisorSpec

\* A recording is completed at most once, by whoever took it out of the map.
THEOREM CompletedAtMostOnce == SupervisorSpec => []CompletedOnce
  <1>1. IndInv => CompletedOnce
    BY DEF IndInv, CompletedByCloser, CompletedOnce
  <1> QED BY InitIndInv, NextIndInv, <1>1, PTL DEF SupervisorSpec

-----------------------------------------------------------------------------
(* The spool on disk.                                                      *)

\* The file that is being written is temporary.
WritingTemp ==
  /\ writing \subseteq
       [session : Sessions,
        file : [index : Indexes, kind : {"tmp"}, size : Sizes, time : Nat]]
  /\ \A v, w \in writing : v = w
  /\ DOMAIN files = Sessions /\ clock \in Nat

\* The quota spares the files of the session that writes, whatever it could read and
\* remove.
LEMMA WriterSurvives ==
  ASSUME NEW fs, NEW s \in Sessions, enforceQuotaLocked(fs, s)
  PROVE  files'[s] = fs[s]
<1>1. \A order : s \notin Evicted(fs, s, order)
  BY Zenon DEF Evicted
<1>2. PICK evicted, rest : /\ s \notin evicted
                           /\ files' = [x \in Sessions |->
                                         IF x \in evicted THEN fs[x] \cap rest ELSE fs[x]]
  BY <1>1, Zenon DEF enforceQuotaLocked
<1> QED BY <1>2

\* Every step of the spool keeps WritingTemp.
LEMMA WritingStep == WritingTemp /\ [SpoolNext]_diskVars => WritingTemp'
<1> SUFFICES ASSUME WritingTemp, [SpoolNext]_diskVars PROVE WritingTemp'
  OBVIOUS
<1>1. ASSUME NEW s \in Sessions, NEW i \in Indexes, NEW z \in Sizes, WriteTemp(s, i, z)
      PROVE  WritingTemp'
  BY <1>1 DEF WriteTemp, WritingTemp
<1>2. ASSUME CommitChunk PROVE WritingTemp'
  <2>1. \A fs, s : enforceQuotaLocked(fs, s) => DOMAIN files' = Sessions
    BY DEF enforceQuotaLocked
  <2>2. writing' = {} /\ DOMAIN files' = Sessions /\ clock' = clock
    BY <1>2, <2>1, Zenon DEF CommitChunk
  <2> QED BY <2>2 DEF WritingTemp
<1>3. CASE CommitFails \/ Crash \/ UNCHANGED diskVars
  BY <1>3 DEF CommitFails, Crash, NoQuota, diskVars, WritingTemp
<1>4. CASE \E s \in Sessions : RemoveSession(s) \/ \E f \in files[s] : RemoveBatch(s, f)
  BY <1>4 DEF RemoveSession, RemoveBatch, NoQuota, WritingTemp
<1> QED BY <1>1, <1>2, <1>3, <1>4 DEF SpoolNext

\* Putting a file keeps every chunk, or puts a chunk in its place.
LEMMA PutKeepsChunks ==
  ASSUME NEW F, NEW file, NEW f \in F, f.kind = "chunk"
  PROVE  \E g \in Put(F, file) : \/ g = f
                                 \/ g = file /\ file.kind = "chunk" /\ file.index = f.index
BY DEF Put

\* A write, whole, interrupted or failed, loses no committed chunk of its own session but
\* the one it replaces with a whole one, for every quota and every state of the disk.
THEOREM OwnChunksSafe == SpoolSpec => OwnChunksKept
<1> DEFINE Kept == \A s \in Sessions :
                     writing' # writing /\ (\E w \in writing \cup writing' : w.session = s)
                       => \A f \in ChunksOf(s) :
                            \E g \in files'[s] : g.kind = "chunk" /\ g.index = f.index
<1>1. ASSUME WritingTemp, SpoolNext PROVE Kept
  <2> SUFFICES ASSUME NEW s \in Sessions, writing' # writing,
                      \E w \in writing \cup writing' : w.session = s,
                      NEW f \in files[s], f.kind = "chunk"
               PROVE  \E g \in files'[s] : g.kind = "chunk" /\ g.index = f.index
    BY DEF ChunksOf
  <2>1. ASSUME NEW t \in Sessions, NEW i \in Indexes, NEW z \in Sizes, WriteTemp(t, i, z)
        PROVE  f \in files'[s]
    <3> DEFINE file == [index |-> i, kind |-> "tmp", size |-> z, time |-> clock + 1]
    <3>1. files' = [files EXCEPT ![t] = Put(files[t], file)]
      BY <2>1 DEF WriteTemp
    <3>2. f \in files[t] => f \in Put(files[t], file)
      BY DEF Put
    <3> QED BY <1>1, <3>1, <3>2 DEF WritingTemp
  <2>2. ASSUME CommitChunk
        PROVE  \E g \in files'[s] : g.kind = "chunk" /\ g.index = f.index
    <3> DEFINE chunk(w) == [w.file EXCEPT !.kind = "chunk"]
    <3>1. PICK w \in writing :
            /\ enforceQuotaLocked(
                 [files EXCEPT ![w.session] = Put(files[w.session] \ {w.file}, chunk(w))], w.session)
            /\ writing' = {}
      BY <2>2 DEF CommitChunk
    <3>2. w.session = s
      BY <1>1, <3>1 DEF WritingTemp
    <3> DEFINE renamed == [files EXCEPT ![s] = Put(files[s] \ {w.file}, chunk(w))]
    <3>3. enforceQuotaLocked(renamed, s)
      BY <3>1, <3>2
    <3>4. files'[s] = renamed[s]
      <4> HIDE DEF renamed
      <4> QED BY <3>3, WriterSurvives
    <3>5. files'[s] = Put(files[s] \ {w.file}, chunk(w))
      BY <1>1, <3>4 DEF WritingTemp
    <3>6. f \in files[s] \ {w.file}
      BY <1>1, <3>1 DEF WritingTemp
    <3>7. chunk(w).kind = "chunk"
      BY <1>1, <3>1 DEF WritingTemp
    <3> HIDE DEF chunk
    <3> QED BY <3>5, <3>6, <3>7, PutKeepsChunks
  <2>3. ASSUME CommitFails PROVE f \in files'[s]
    BY <1>1, <2>3 DEF CommitFails, WritingTemp
  <2>4. CASE Crash
    BY <2>4 DEF Crash
  <2>5. CASE \E t \in Sessions : RemoveSession(t) \/ \E d \in files[t] : RemoveBatch(t, d)
    BY <2>5 DEF RemoveSession, RemoveBatch
  <2> QED BY <1>1, <2>1, <2>2, <2>3, <2>4, <2>5 DEF SpoolNext
<1>2. SpoolInit => WritingTemp
  BY DEF SpoolInit, WritingTemp
<1>3. WritingTemp /\ [SpoolNext]_diskVars => [Kept]_diskVars
  BY <1>1
<1> HIDE DEF Kept
<1>4. SpoolSpec => [][Kept]_diskVars
  BY <1>2, <1>3, WritingStep, PTL DEF SpoolSpec
<1> QED BY <1>4 DEF Kept, OwnChunksKept
=============================================================================
