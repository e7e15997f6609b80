------------------------- MODULE RecorderClientProofs -------------------------
(***************************************************************************)
(* No accepted frame or event is lost: for every size, limit and number of *)
(* items.  The two goroutines share the chunk files without a lock; what   *)
(* makes their drains safe is that an index is used once, so that the file *)
(* a goroutine removes holds what it has just delivered.                   *)
(***************************************************************************)
EXTENDS RecorderClient, TLAPS, WellFoundedInduction, SequenceTheorems

Chunk == [index : Nat, items : SUBSET Nat]

Locations == {"idle", "flush", "post", "spool", "read", "drain", "close", "complete", "done",
              "exited"}

\* The types the argument needs (sizes are not among them).
Shape ==
  /\ seq \in Nat /\ index \in Nat
  /\ frames \in Seq([seq : Nat, payload : Nat]) /\ events \in Seq(Nat)
  /\ chunks \subseteq Chunk
  /\ pc \in [Procs -> Locations] /\ phase \in [Procs -> {"flush", "drain"}]
  /\ batch \in [Procs -> SUBSET Nat] /\ todo \in [Procs -> SUBSET Chunk]
  /\ accepted \subseteq Nat /\ delivered \subseteq Nat

\* A goroutine has a batch in hand only between taking and spooling it.
EmptyHanded == \A p \in Procs : pc[p] \notin {"post", "spool"} => batch[p] = {}

\* An index names one chunk, on disk and in what a goroutine has read.
IndexUnique ==
  /\ \A c \in chunks : c.index <= index
  /\ \A c, d \in chunks : c.index = d.index => c = d
  /\ \A p \in Procs : \A c \in todo[p] :
       c.index <= index /\ \A d \in chunks : c.index = d.index => c = d

\* Complete answers once.
OkIsDone == outcome = "ok" => pc["completer"] = "done"

Inv == Shape /\ EmptyHanded /\ IndexUnique /\ NothingVanishes

-----------------------------------------------------------------------------
(* The operators of Flush.                                                 *)

\* A set of numbers that is not empty has a least one.
LEMMA FirstIn == ASSUME NEW S \in SUBSET Nat, S # {} PROVE First(S) \in S
<1>1. \E x \in S : \A y \in S : ~(<<y, x>> \in OpToRel(<, Nat))
  BY NatLessThanWellFounded, WFMin
<1>2. PICK x \in S : \A y \in S : ~(<<y, x>> \in OpToRel(<, Nat))
  BY <1>1
<1>3. \A y \in S : x <= y
  <2> SUFFICES ASSUME NEW y \in S PROVE x <= y
    OBVIOUS
  <2>1. ~(y < x)
    BY <1>2 DEF OpToRel
  <2> QED BY <2>1
<1> QED BY <1>3 DEF First

\* A batch takes no more than there is.
LEMMA TakenInRange ==
  ASSUME Shape
  PROVE  /\ FramesTaken \in 0..Len(frames)
         /\ \A b : EventsTaken(b) \in 0..Len(events)
<1>1. Len(frames) \in Nat /\ Len(events) \in Nat
  BY LenProperties DEF Shape
<1>2. FramesTaken \in 0..Len(frames)
  <2> DEFINE S == {n \in 0..Len(frames) : n = Len(frames) \/ (n >= 1 /\ FrameBytes(n + 1) > MaxBatch)}
  <2>1. Len(frames) \in S /\ S \subseteq 0..Len(frames)
    BY <1>1
  <2>2. S \in SUBSET Nat /\ S # {}
    BY <2>1, <1>1
  <2> HIDE DEF S
  <2>3. First(S) \in S
    BY <2>2, FirstIn
  <2>4. First(S) \in 0..Len(frames)
    BY <2>1, <2>3
  <2> QED BY <2>4 DEF S, FramesTaken
<1>3. ASSUME NEW b PROVE EventsTaken(b) \in 0..Len(events)
  <2> DEFINE S == {n \in 0..Len(events) : n = Len(events) \/ (n >= 1 /\ b + 2 * (n + 1) > MaxBatch)}
  <2>1. Len(events) \in S /\ S \subseteq 0..Len(events)
    BY <1>1
  <2>2. S \in SUBSET Nat /\ S # {}
    BY <2>1, <1>1
  <2> HIDE DEF S
  <2>3. First(S) \in S
    BY <2>2, FirstIn
  <2>4. First(S) \in 0..Len(events)
    BY <2>1, <2>3
  <2> QED BY <2>4 DEF S, EventsTaken
<1> QED BY <1>2, <1>3

\* Every element of a sequence is in its first k elements or in the rest.
LEMMA HeadOrRest ==
  ASSUME NEW T, NEW s \in Seq(T), NEW k \in 0..Len(s)
  PROVE  /\ SubSeq(s, k + 1, Len(s)) \in Seq(T)
         /\ \A i \in DOMAIN s : i \in 1..k \/ \E j \in DOMAIN SubSeq(s, k + 1, Len(s)) :
                                               SubSeq(s, k + 1, Len(s))[j] = s[i]
<1> DEFINE r == SubSeq(s, k + 1, Len(s))
<1>1. Len(s) \in Nat /\ DOMAIN s = 1..Len(s) /\ \A i \in 1..Len(s) : s[i] \in T
  BY LenProperties, ElementOfSeq
<1>2. /\ r \in Seq(T) /\ Len(r) = IF k + 1 <= Len(s) THEN Len(s) - (k + 1) + 1 ELSE 0
      /\ \A i \in 1..(Len(s) - (k + 1) + 1) : r[i] = s[(k + 1) + i - 1]
  BY <1>1, SubSeqProperties
<1>3. DOMAIN r = 1..(Len(s) - k)
  BY <1>1, <1>2, LenProperties
<1>4. ASSUME NEW i \in DOMAIN s, i \notin 1..k PROVE \E j \in DOMAIN r : r[j] = s[i]
  <2>1. i - k \in 1..(Len(s) - k) /\ (k + 1) + (i - k) - 1 = i
    BY <1>1, <1>4
  <2>2. r[i - k] = s[i]
    BY <1>1, <1>2, <2>1
  <2> QED BY <1>3, <2>1, <2>2
<1> QED BY <1>2, <1>4

\* Appending adds one element and loses none.
LEMMA AppendKeeps ==
  ASSUME NEW T, NEW s \in Seq(T), NEW e \in T
  PROVE  /\ Append(s, e) \in Seq(T)
         /\ \A i \in DOMAIN s : i \in DOMAIN Append(s, e) /\ Append(s, e)[i] = s[i]
         /\ Len(s) + 1 \in DOMAIN Append(s, e) /\ Append(s, e)[Len(s) + 1] = e
BY AppendProperties, LenProperties

-----------------------------------------------------------------------------
(* The invariant.                                                          *)

\* A new client has nothing.
LEMMA InitInv == Init => Inv
<1> SUFFICES ASSUME Init PROVE Inv
  OBVIOUS
<1>1. Shape
  BY DEF Init, Shape, Procs, Locations
<1> QED BY <1>1 DEF Init, Inv, EmptyHanded, IndexUnique, NothingVanishes

\* The queue grows by the item that is accepted.
LEMMA EnqueueStep ==
  ASSUME Inv, EnqueueEvent \/ \E k \in Kinds, d \in Payloads, t \in Titles : EnqueueFrame(k, d, t)
  PROVE  Inv'
<1>1. CASE EnqueueEvent
  <2>0. /\ seq + 1 \in Nat /\ events \in Seq(Nat)
        /\ \/ events' = Append(events, seq + 1) /\ accepted' = accepted \cup {seq + 1}
           \/ events' = events /\ accepted' = accepted
    BY <1>1 DEF EnqueueEvent, Inv, Shape
  <2>1. /\ Append(events, seq + 1) \in Seq(Nat)
        /\ \A i \in DOMAIN events : i \in DOMAIN Append(events, seq + 1)
                                    /\ Append(events, seq + 1)[i] = events[i]
        /\ Len(events) + 1 \in DOMAIN Append(events, seq + 1)
        /\ Append(events, seq + 1)[Len(events) + 1] = seq + 1
    BY <2>0, AppendKeeps
  <2>2. /\ events' \in Seq(Nat)
        /\ \A i \in DOMAIN events : i \in DOMAIN events' /\ events'[i] = events[i]
    BY <2>0, <2>1
  <2>3. \/ accepted' = accepted
        \/ /\ accepted' = accepted \cup {seq + 1}
           /\ \E i \in DOMAIN events' : events'[i] = seq + 1
    BY <2>0, <2>1
  <2> USE <1>1 DEF EnqueueEvent
  <2>4. Pending \subseteq Pending' /\ accepted' \subseteq accepted \cup Pending'
    <3>1. frames' = frames
      OBVIOUS
    <3> HIDE DEF EnqueueEvent
    <3>2. \A i \in DOMAIN events : events[i] \in Pending'
      BY <2>2, Zenon DEF Pending
    <3>3. \A i \in DOMAIN frames : frames[i].seq \in Pending'
      BY <3>1, Zenon DEF Pending
    <3>4. (\E i \in DOMAIN events' : events'[i] = seq + 1) => seq + 1 \in Pending'
      BY Zenon DEF Pending
    <3>5. accepted' \subseteq accepted \cup Pending'
      BY <2>3, <3>4, Zenon
    <3>6. Pending \subseteq Pending'
      BY <3>2, <3>3, Zenon DEF Pending
    <3> QED BY <3>5, <3>6
  <2>5. Shape'
    <3>1. accepted' \subseteq Nat /\ seq' \in Nat
      BY <2>0 DEF Inv, Shape
    <3>2. UNCHANGED <<frames, index, chunks, pc, phase, batch, todo, delivered>>
      BY DEF spoolVars
    <3> HIDE DEF EnqueueEvent
    <3> QED BY <2>2, <3>1, <3>2 DEF Inv, Shape
  <2>6. EmptyHanded' /\ IndexUnique'
    BY DEF Inv, EmptyHanded, IndexUnique, spoolVars
  <2>7. NothingVanishes'
    BY <2>4 DEF Inv, NothingVanishes, InFlight, Items, spoolVars
  <2> QED BY <2>5, <2>6, <2>7 DEF Inv
<1>2. ASSUME NEW k \in Kinds, NEW d \in Payloads, NEW t \in Titles, EnqueueFrame(k, d, t)
      PROVE  Inv'
  <2> DEFINE g == [seq |-> seq + 1, payload |-> d]
             T == [seq : Nat, payload : Nat]
  <2>0. /\ seq + 1 \in Nat /\ g \in T /\ frames \in Seq(T) /\ g.seq = seq + 1
        /\ \/ frames' = Append(frames, g) /\ accepted' = accepted \cup {seq + 1}
           \/ frames' = frames /\ accepted' = accepted
    BY <1>2, RecorderAssumption DEF EnqueueFrame, Inv, Shape
  <2> HIDE DEF g, T
  <2>1. /\ Append(frames, g) \in Seq(T)
        /\ \A i \in DOMAIN frames : i \in DOMAIN Append(frames, g) /\ Append(frames, g)[i] = frames[i]
        /\ Len(frames) + 1 \in DOMAIN Append(frames, g) /\ Append(frames, g)[Len(frames) + 1] = g
    BY <2>0, AppendKeeps
  <2>2. /\ frames' \in Seq(T)
        /\ \A i \in DOMAIN frames : i \in DOMAIN frames' /\ frames'[i] = frames[i]
    BY <2>0, <2>1
  <2>3. \/ accepted' = accepted
        \/ /\ accepted' = accepted \cup {seq + 1}
           /\ \E i \in DOMAIN frames' : frames'[i].seq = seq + 1
    BY <2>0, <2>1
  <2> USE <1>2 DEF EnqueueFrame, T
  <2>4. Pending \subseteq Pending' /\ accepted' \subseteq accepted \cup Pending'
    <3>1. events' = events
      OBVIOUS
    <3> HIDE DEF EnqueueFrame
    <3>2. \A i \in DOMAIN frames : frames[i].seq \in Pending'
      BY <2>2, Zenon DEF Pending
    <3>3. \A i \in DOMAIN events : events[i] \in Pending'
      BY <3>1, Zenon DEF Pending
    <3>4. (\E i \in DOMAIN frames' : frames'[i].seq = seq + 1) => seq + 1 \in Pending'
      BY Zenon DEF Pending
    <3>5. accepted' \subseteq accepted \cup Pending'
      BY <2>3, <3>4, Zenon
    <3>6. Pending \subseteq Pending'
      BY <3>2, <3>3, Zenon DEF Pending
    <3> QED BY <3>5, <3>6
  <2>5. Shape'
    <3>1. accepted' \subseteq Nat /\ seq' \in Nat
      BY <2>0 DEF Inv, Shape
    <3>2. UNCHANGED <<events, index, chunks, pc, phase, batch, todo, delivered>>
      BY DEF spoolVars
    <3> HIDE DEF EnqueueFrame
    <3> QED BY <2>2, <3>1, <3>2 DEF Inv, Shape, T
  <2>6. EmptyHanded' /\ IndexUnique'
    BY DEF Inv, EmptyHanded, IndexUnique, spoolVars
  <2>7. NothingVanishes'
    BY <2>4 DEF Inv, NothingVanishes, InFlight, Items, spoolVars
  <2> QED BY <2>5, <2>6, <2>7 DEF Inv
<1> QED BY <1>1, <1>2

\* A batch moves from the queue into the hands of a goroutine that has none.
LEMMA TakeStep == ASSUME Inv, NEW p \in Procs, FlushTake(p) PROVE Inv'
<1> USE DEF FlushTake
<1>1. CASE frames = <<>> /\ events = <<>>
  <2>1. Shape' /\ EmptyHanded' /\ IndexUnique'
    BY <1>1 DEF Inv, Shape, EmptyHanded, IndexUnique, spoolVars, Locations
  <2>2. NothingVanishes'
    BY <1>1 DEF Inv, NothingVanishes, Pending, InFlight, Items, spoolVars
  <2> QED BY <2>1, <2>2 DEF Inv
<1>2. CASE ~(frames = <<>> /\ events = <<>>)
  <2>1. PICK f, e : /\ f \in 0..Len(frames) /\ e \in 0..Len(events)
                    /\ batch' = [batch EXCEPT ![p] = {frames[i].seq : i \in 1..f}
                                                    \cup {events[i] : i \in 1..e}]
                    /\ frames' = SubSeq(frames, f + 1, Len(frames))
                    /\ events' = SubSeq(events, e + 1, Len(events))
    BY <1>2, TakenInRange DEF Inv
  <2>0. frames \in Seq([seq : Nat, payload : Nat]) /\ events \in Seq(Nat) /\ p \in DOMAIN batch
    BY DEF Inv, Shape
  <2> HIDE DEF FlushTake
  <2>2. /\ frames' \in Seq([seq : Nat, payload : Nat])
        /\ \A i \in DOMAIN frames : i \in 1..f \/ \E j \in DOMAIN frames' : frames'[j] = frames[i]
    <3>1. /\ SubSeq(frames, f + 1, Len(frames)) \in Seq([seq : Nat, payload : Nat])
          /\ \A i \in DOMAIN frames : i \in 1..f \/ \E j \in DOMAIN SubSeq(frames, f + 1, Len(frames)) :
                                               SubSeq(frames, f + 1, Len(frames))[j] = frames[i]
      BY <2>0, <2>1, HeadOrRest, Zenon
    <3> QED BY <2>1, <3>1, Zenon
  <2>3. /\ events' \in Seq(Nat)
        /\ \A i \in DOMAIN events : i \in 1..e \/ \E j \in DOMAIN events' : events'[j] = events[i]
    <3>1. /\ SubSeq(events, e + 1, Len(events)) \in Seq(Nat)
          /\ \A i \in DOMAIN events : i \in 1..e \/ \E j \in DOMAIN SubSeq(events, e + 1, Len(events)) :
                                               SubSeq(events, e + 1, Len(events))[j] = events[i]
      BY <2>0, <2>1, HeadOrRest, Zenon
    <3> QED BY <2>1, <3>1, Zenon
  <2>4. batch[p] = {}
    BY DEF Inv, EmptyHanded, FlushTake
  <2>5. Pending \subseteq Pending' \cup batch'[p]
    <3>1. batch'[p] = {frames[i].seq : i \in 1..f} \cup {events[i] : i \in 1..e}
      BY <2>0, <2>1
    <3>2. \A i \in DOMAIN frames : frames[i].seq \in Pending' \cup batch'[p]
      BY <2>2, <3>1, Zenon DEF Pending
    <3>3. \A i \in DOMAIN events : events[i] \in Pending' \cup batch'[p]
      BY <2>3, <3>1, Zenon DEF Pending
    <3> QED BY <3>2, <3>3, Zenon DEF Pending
  <2>6. InFlight \subseteq InFlight' /\ batch'[p] \subseteq InFlight'
    BY <2>1, <2>4 DEF InFlight, Inv, Shape
  <2>7. /\ \A i \in 1..f : frames[i].seq \in Nat
        /\ \A i \in 1..e : events[i] \in Nat
    <3>1. Len(frames) \in Nat /\ Len(events) \in Nat
      BY <2>0, LenProperties
    <3>2. \A i \in 1..f : i \in 1..Len(frames)
      BY <2>1, <3>1
    <3>3. \A i \in 1..e : i \in 1..Len(events)
      BY <2>1, <3>1
    <3>4. \A i \in 1..Len(frames) : frames[i] \in [seq : Nat, payload : Nat]
      BY <2>0, ElementOfSeq
    <3>5. \A i \in 1..Len(events) : events[i] \in Nat
      BY <2>0, ElementOfSeq
    <3> QED BY <3>2, <3>3, <3>4, <3>5
  <2>8. batch' \in [Procs -> SUBSET Nat]
    <3>1. {frames[i].seq : i \in 1..f} \cup {events[i] : i \in 1..e} \in SUBSET Nat
      BY <2>7
    <3> QED BY <2>1, <3>1 DEF Inv, Shape
  <2> USE DEF FlushTake
  <2>9. Shape' /\ EmptyHanded' /\ IndexUnique'
    <3>1. pc' \in [Procs -> Locations]
      BY <2>1 DEF Inv, Shape, Locations
    <3>2. Shape'
      BY <2>2, <2>3, <2>8, <3>1 DEF Inv, Shape, spoolVars
    <3>3. EmptyHanded'
      BY <2>1 DEF Inv, Shape, EmptyHanded
    <3>4. IndexUnique'
      BY DEF Inv, IndexUnique, spoolVars
    <3> QED BY <3>2, <3>3, <3>4
  <2>10. NothingVanishes'
    BY <2>5, <2>6 DEF Inv, NothingVanishes, Items, spoolVars
  <2> QED BY <2>9, <2>10 DEF Inv
<1> QED BY <1>1, <1>2

\* A batch moves from a goroutine to the recorder or to a new chunk.
LEMMA PostStep == ASSUME Inv, NEW p \in Procs, PostOk(p) \/ PostFail(p) \/ Spool(p) PROVE Inv'
<1> USE DEF queueVars, spoolVars
<1>1. CASE PostOk(p)
  <2>1. Shape' /\ EmptyHanded' /\ IndexUnique'
    BY <1>1 DEF PostOk, Inv, Shape, EmptyHanded, IndexUnique, Locations
  <2>2. InFlight \subseteq InFlight' \cup delivered'
    BY <1>1 DEF PostOk, InFlight, Inv, Shape
  <2>3. NothingVanishes'
    BY <1>1, <2>2 DEF PostOk, Inv, NothingVanishes, Pending, Items
  <2> QED BY <2>1, <2>3 DEF Inv
<1>2. CASE PostFail(p)
  <2>0. delivered' \subseteq Nat /\ delivered \subseteq delivered'
    BY <1>2 DEF PostFail, Inv, Shape
  <2>1. Shape' /\ EmptyHanded' /\ IndexUnique'
    BY <1>2, <2>0 DEF PostFail, Inv, Shape, EmptyHanded, IndexUnique, Locations
  <2>2. NothingVanishes'
    BY <1>2 DEF PostFail, Inv, NothingVanishes, Pending, InFlight, Items
  <2> QED BY <2>1, <2>2 DEF Inv
<1>3. CASE Spool(p)
  <2> DEFINE c == [index |-> index + 1, items |-> batch[p]]
  <2>1. c \in Chunk /\ index + 1 \in Nat
    BY DEF Inv, Shape, Chunk
  <2>2. pc' \in [Procs -> Locations] /\ phase' \in [Procs -> {"flush", "drain"}]
    BY <1>3 DEF Spool, FlushReturn, Inv, Shape, Locations
  <2>3. Shape'
    BY <1>3, <2>1, <2>2 DEF Spool, Inv, Shape
  <2>4. EmptyHanded'
    BY <1>3 DEF Spool, FlushReturn, Inv, Shape, EmptyHanded
  <2>5. \A d \in Chunk : d.index \in Nat
    BY DEF Chunk
  <2>6. IndexUnique'
    <3>1. \A d \in chunks : d.index <= index /\ d.index # c.index
      BY <2>5 DEF Inv, Shape, IndexUnique
    <3>2. \A q \in Procs : \A d \in todo[q] : d.index <= index /\ d.index # c.index
      BY <2>5 DEF Inv, Shape, IndexUnique
    <3>3. chunks' \subseteq chunks \cup {c} /\ index' = index + 1 /\ todo' = todo
      BY <1>3 DEF Spool
    <3>4. \A d \in chunks' : d.index <= index'
      BY <2>5, <3>1, <3>3 DEF Inv, Shape
    <3>5. \A d, g \in chunks' : d.index = g.index => d = g
      BY <3>1, <3>3 DEF Inv, IndexUnique
    <3>6. \A q \in Procs : \A d \in todo'[q] :
            d.index <= index' /\ \A g \in chunks' : d.index = g.index => d = g
      BY <2>5, <3>2, <3>3 DEF Inv, Shape, IndexUnique
    <3> QED BY <3>4, <3>5, <3>6 DEF IndexUnique
  <2>7. spool' = "intact" => InFlight \subseteq InFlight' \cup Items(chunks')
    <3>1. \A q \in Procs \ {p} : batch'[q] = batch[q]
      BY <1>3 DEF Spool, Inv, Shape
    <3>2. spool' = "intact" => batch[p] \subseteq Items(chunks')
      <4>1. spool' = "intact" => c \in chunks'
        BY <1>3 DEF Spool
      <4>2. c.items = batch[p]
        OBVIOUS
      <4> QED BY <4>1, <4>2 DEF Items
    <3> QED BY <3>1, <3>2 DEF InFlight
  <2>8. Items(chunks) \subseteq Items(chunks')
    BY <1>3 DEF Spool, Items
  <2>9. NothingVanishes'
    BY <1>3, <2>7, <2>8 DEF Spool, Inv, NothingVanishes, Pending
  <2> QED BY <2>3, <2>4, <2>6, <2>9 DEF Inv
<1> QED BY <1>1, <1>2, <1>3

\* A chunk goes only when its items have been delivered.
LEMMA DrainStep ==
  ASSUME Inv, NEW p \in Procs, ReadPendingBatches(p) \/ DrainOk(p) \/ DrainFail(p)
  PROVE  Inv'
<1> USE DEF queueVars, spoolVars
<1>1. CASE ReadPendingBatches(p)
  <2>1. Shape' /\ EmptyHanded'
    BY <1>1 DEF ReadPendingBatches, FlushReturn, Inv, Shape, EmptyHanded, Locations
  <2>2. IndexUnique'
    BY <1>1 DEF ReadPendingBatches, Inv, Shape, IndexUnique
  <2>3. NothingVanishes'
    BY <1>1 DEF ReadPendingBatches, Inv, NothingVanishes, Pending, InFlight, Items
  <2> QED BY <2>1, <2>2, <2>3 DEF Inv
<1>2. CASE DrainOk(p)
  <2>1. PICK c \in todo[p] :
          /\ delivered' = delivered \cup c.items
          /\ chunks' = {d \in chunks : d.index # c.index}
          /\ todo' = [todo EXCEPT ![p] = @ \ {c}]
          /\ IF todo[p] = {c} THEN FlushReturn(p) ELSE UNCHANGED <<pc, phase>>
    BY <1>2 DEF DrainOk
  <2>2. c \in Chunk /\ c.items \subseteq Nat
    BY DEF Inv, Shape, Chunk
  <2>3. Shape'
    BY <1>2, <2>1, <2>2 DEF DrainOk, FlushReturn, Inv, Shape, Locations
  <2>4. EmptyHanded'
    BY <1>2, <2>1 DEF DrainOk, FlushReturn, Inv, Shape, EmptyHanded
  <2>5. IndexUnique'
    BY <1>2, <2>1 DEF DrainOk, Inv, Shape, IndexUnique
  <2>6. Items(chunks) \subseteq Items(chunks') \cup delivered'
    <3>1. \A d \in chunks : d \in chunks' \/ d = c
      BY <2>1 DEF Inv, IndexUnique
    <3> QED BY <2>1, <3>1 DEF Items
  <2>7. NothingVanishes'
    BY <1>2, <2>1, <2>6 DEF DrainOk, Inv, NothingVanishes, Pending, InFlight
  <2> QED BY <2>3, <2>4, <2>5, <2>7 DEF Inv
<1>3. CASE DrainFail(p)
  <2>1. \A c \in todo[p] : c.items \subseteq Nat
    BY DEF Inv, Shape, Chunk
  <2>2. delivered' \subseteq Nat /\ delivered \subseteq delivered'
    BY <1>3, <2>1 DEF DrainFail, Inv, Shape
  <2>3. Shape' /\ EmptyHanded'
    BY <1>3, <2>2 DEF DrainFail, FlushReturn, Inv, Shape, EmptyHanded, Locations
  <2>4. IndexUnique'
    BY <1>3 DEF DrainFail, Inv, Shape, IndexUnique
  <2>5. NothingVanishes'
    BY <1>3, <2>2 DEF DrainFail, Inv, NothingVanishes, Pending, InFlight, Items
  <2> QED BY <2>3, <2>4, <2>5 DEF Inv
<1> QED BY <1>1, <1>2, <1>3

\* The ticker, the reader, the logoff, the completion and the quota.
LEMMA OtherStep ==
  ASSUME Inv, OkIsDone,
         \/ Tick \/ FlusherExits \/ ReaderReturns \/ CancelWorkerScope
         \/ Logoff \/ Close \/ CompleteOk \/ CompleteFail \/ Evicted
  PROVE  Inv'
<1> USE DEF queueVars, spoolVars, Procs
<1>1. Shape'
  BY DEF Tick, FlusherExits, ReaderReturns, CancelWorkerScope, Logoff, Close, CompleteOk,
         CompleteFail, Evicted, Inv, Shape, Locations
<1>2. EmptyHanded'
  BY DEF Tick, FlusherExits, ReaderReturns, CancelWorkerScope, Logoff, Close, CompleteOk,
         CompleteFail, Evicted, Inv, Shape, EmptyHanded, Locations
<1>3. IndexUnique'
  BY DEF Tick, FlusherExits, ReaderReturns, CancelWorkerScope, Logoff, Close, CompleteOk,
         CompleteFail, Evicted, Inv, IndexUnique
<1>4. NothingVanishes'
  <2>1. Pending' = Pending /\ InFlight' = InFlight /\ delivered' = delivered /\ accepted' = accepted
    BY DEF Tick, FlusherExits, ReaderReturns, CancelWorkerScope, Logoff, Close, CompleteOk,
           CompleteFail, Evicted, Pending, InFlight
  <2>2. \/ outcome' = "ok" \/ spool' # "intact"
        \/ chunks' = chunks /\ spool' = spool /\ outcome # "ok"
        \/ chunks' = chunks /\ spool' = spool /\ outcome' = outcome
    <3>1. CASE CompleteOk
      BY <3>1 DEF CompleteOk
    <3>2. CASE CompleteFail
      BY <3>2 DEF CompleteFail, OkIsDone
    <3>3. CASE Evicted
      BY <3>3 DEF Evicted
    <3>4. CASE Tick \/ FlusherExits \/ ReaderReturns \/ CancelWorkerScope \/ Logoff \/ Close
      BY <3>4 DEF Tick, FlusherExits, ReaderReturns, CancelWorkerScope, Logoff, Close
    <3> QED BY <3>1, <3>2, <3>3, <3>4
  <2> QED BY <2>1, <2>2 DEF Inv, NothingVanishes
<1> QED BY <1>1, <1>2, <1>3, <1>4 DEF Inv

\* A goroutine that takes a step is not the completer that is done.
LEMMA OkStep == ASSUME Inv, OkIsDone, [Next]_vars PROVE OkIsDone'
<1> USE DEF OkIsDone, queueVars, spoolVars
<1>0. pc \in [Procs -> Locations]
  BY DEF Inv, Shape
<1>1. CASE EnqueueEvent \/ Evicted \/ UNCHANGED vars
          \/ \E k \in Kinds, d \in Payloads, t \in Titles : EnqueueFrame(k, d, t)
  BY <1>1 DEF EnqueueEvent, Evicted, EnqueueFrame, vars
<1>2. CASE Tick \/ FlusherExits \/ ReaderReturns \/ CancelWorkerScope \/ Logoff \/ Close
  BY <1>0, <1>2 DEF Tick, FlusherExits, ReaderReturns, CancelWorkerScope, Logoff, Close, Procs
<1>3. CASE CompleteOk \/ CompleteFail
  BY <1>0, <1>3 DEF CompleteOk, CompleteFail, Procs
<1>4. ASSUME NEW p \in Procs, FlushTake(p) \/ PostOk(p) \/ PostFail(p) \/ Spool(p)
                              \/ ReadPendingBatches(p) \/ DrainOk(p) \/ DrainFail(p)
      PROVE  OkIsDone'
  <2>1. pc[p] # "done" /\ outcome' = outcome
    BY <1>4 DEF FlushTake, PostOk, PostFail, Spool, ReadPendingBatches, DrainOk, DrainFail
  <2>2. \A q \in Procs \ {p} : pc'[q] = pc[q]
    BY <1>0, <1>4 DEF FlushTake, PostOk, PostFail, Spool, ReadPendingBatches, DrainOk, DrainFail,
                      FlushReturn
  <2> QED BY <2>1, <2>2 DEF Procs
<1> QED BY <1>1, <1>2, <1>3, <1>4 DEF Next

\* Steps of others.
LEMMA StutterStep == Inv /\ UNCHANGED vars => Inv'
<1> SUFFICES ASSUME Inv, UNCHANGED vars PROVE Inv'
  OBVIOUS
<1>1. Shape' /\ EmptyHanded' /\ IndexUnique'
  BY DEF Inv, Shape, EmptyHanded, IndexUnique, vars, queueVars, spoolVars
<1>2. NothingVanishes'
  BY DEF Inv, NothingVanishes, Pending, InFlight, Items, vars, queueVars, spoolVars
<1> QED BY <1>1, <1>2 DEF Inv

\* The invariant, and Complete answers once.
LEMMA InductiveInvariant == Spec => [](Inv /\ OkIsDone)
<1>1. (Inv /\ OkIsDone) /\ [Next]_vars => (Inv /\ OkIsDone)'
  BY EnqueueStep, TakeStep, PostStep, DrainStep, OtherStep, StutterStep, OkStep DEF Next
<1>2. Init => Inv /\ OkIsDone
  BY InitInv DEF Init, OkIsDone
<1> QED BY <1>1, <1>2, PTL DEF Spec

\* Type correctness of the queue, the spool and both goroutines.
THEOREM TypeCorrect == Spec => []Shape
BY InductiveInvariant, PTL DEF Inv

\* No outage, lost answer, concurrent drain or logoff loses an accepted item
\* before the session has been completed.
THEOREM AcceptedNotLost == Spec => []NothingVanishes
BY InductiveInvariant, PTL DEF Inv
=============================================================================
