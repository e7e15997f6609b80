---------------------------- MODULE RecorderClient ----------------------------
(***************************************************************************)
(* The recorder client of one RDP session (recorder_client.go) and the     *)
(* session's directory in the disk spool.                                  *)
(*                                                                         *)
(* The capture reader (rds_supervisor_windows.go) enqueues frames and      *)
(* events; a ticker goroutine, the flusher, calls Flush; on logoff the     *)
(* supervisor cancels the session's context and calls Complete, which      *)
(* flushes too.  Flusher and completer run the same code at the same time. *)
(* When the reader returns the ticker stops with it, and the supervisor    *)
(* forgets the recording: from then on nobody completes it.                *)
(*                                                                         *)
(* Sizes are in units of 128 bytes, the code's allowance for a frame.  An  *)
(* item is its sequence number; a batch is the set of its items.           *)
(***************************************************************************)
EXTENDS Integers, Sequences, FiniteSets

CONSTANTS
  Payloads,   \* sizes of an encoded frame
  Titles,     \* sizes of a window title and process name
  Kinds,      \* frame kinds
  MaxBatch,   \* MaxBatchBytes
  MaxQueue,   \* MaxQueueBytes
  MaxItems    \* bound: sequence numbers drawn

ASSUME RecorderAssumption ==
  /\ Payloads \subseteq Nat /\ Titles \subseteq Nat
  /\ MaxBatch \in Nat /\ MaxQueue \in Nat /\ MaxItems \in Nat

Procs == {"flusher", "completer"}

VARIABLES
  seq,        \* seqCounter
  frames,     \* pendingFrames: <<[seq, payload]>>
  events,     \* pendingEvents: <<seq>>
  queued,     \* queuedBytes
  closed,     \* "open" or "closed"
  ctx,        \* the session's context: "live" or "done"
  reader,     \* runSessionRecording: "reading", or "gone", out of the supervisor's map
  index,      \* spoolIndex
  chunks,     \* chunk files of the session: [index, items]
  pc,         \* where each goroutine is
  phase,      \* of Complete: "flush", then "drain" (the flusher: "flush")
  batch,      \* items each goroutine is posting
  bytes,      \* currentBytes of that batch
  todo,       \* chunks each goroutine has read and not yet posted
  outcome,    \* Complete: "none", "ok" or "error"
  accepted,   \* items EnqueueFrame and EnqueueEvent took (history)
  delivered,  \* items the recorder service has (external)
  spool       \* "intact", or "lossy" once a chunk was not written or evicted

queueVars == <<seq, frames, events, queued, accepted>>
spoolVars == <<index, chunks, spool>>
vars == <<queueVars, closed, ctx, reader, spoolVars, pc, phase, batch, bytes, todo, outcome,
          delivered>>

Init ==
  /\ seq = 0 /\ frames = <<>> /\ events = <<>> /\ queued = 0
  /\ closed = "open" /\ ctx = "live" /\ reader = "reading"
  /\ index = 0 /\ chunks = {} /\ spool = "intact"
  /\ pc = [p \in Procs |-> "idle"]
  /\ phase = [p \in Procs |-> "flush"]
  /\ batch = [p \in Procs |-> {}]
  /\ bytes = [p \in Procs |-> 0]
  /\ todo = [p \in Procs |-> {}]
  /\ outcome = "none" /\ accepted = {} /\ delivered = {}

-----------------------------------------------------------------------------
(* The queue.                                                              *)

\* A worker's frame: a periodic frame that does not fit is dropped, its
\* sequence number is gone.
EnqueueFrame(kind, payload, title) ==
  /\ reader = "reading" /\ seq < MaxItems
  /\ seq' = seq + 1
  /\ LET approxSize == payload + title + 1
         full == queued + approxSize > MaxQueue /\ kind = "periodic" IN
     IF closed = "closed" \/ full
     THEN UNCHANGED <<frames, queued, accepted>>
     ELSE /\ frames' = Append(frames, [seq |-> seq + 1, payload |-> payload])
          /\ queued' = queued + approxSize
          /\ accepted' = accepted \cup {seq + 1}
  /\ UNCHANGED <<events, closed, ctx, reader, spoolVars, pc, phase, batch, bytes, todo,
                 outcome, delivered>>

EnqueueEvent ==
  /\ reader = "reading" /\ seq < MaxItems
  /\ seq' = seq + 1
  /\ IF closed = "closed"
     THEN UNCHANGED <<events, queued, accepted>>
     ELSE /\ events' = Append(events, seq + 1)
          /\ queued' = queued + 2
          /\ accepted' = accepted \cup {seq + 1}
  /\ UNCHANGED <<frames, closed, ctx, reader, spoolVars, pc, phase, batch, bytes, todo,
                 outcome, delivered>>

\* The bytes of a batch of the first k frames.
FrameBytes(k) ==
  LET sum[i \in 0..k] == IF i = 0 THEN 1 ELSE sum[i - 1] + frames[i].payload + 1
  IN  sum[k]

First(S) == CHOOSE n \in S : \A m \in S : n <= m

\* How many frames go into a batch: the loop ends with the queue, or, after
\* the first frame, before a frame that does not fit.
FramesTaken ==
  First({n \in 0..Len(frames) : n = Len(frames) \/ (n >= 1 /\ FrameBytes(n + 1) > MaxBatch)})

\* And how many events, after frames of size b.
EventsTaken(b) ==
  First({n \in 0..Len(events) : n = Len(events) \/ (n >= 1 /\ b + 2 * (n + 1) > MaxBatch)})

QueuedAfter(b) == IF queued < b THEN 0 ELSE queued - b

-----------------------------------------------------------------------------
(* Flush, drainSpool and Complete.                                         *)

\* Mutant: Complete drains again and again.
FlushReturnLoops(p) ==
  /\ pc' = [pc EXCEPT ![p] = IF p = "flusher" THEN "idle" ELSE "read"]
  /\ UNCHANGED phase

\* Flush returns: to the ticker, or to Complete, which drains once more and
\* then posts the completion.
FlushReturn(p) ==
  /\ pc' = [pc EXCEPT ![p] =
              IF p = "flusher" THEN "idle"
              ELSE IF phase[p] = "flush" THEN "read" ELSE "complete"]
  /\ phase' = [phase EXCEPT ![p] = IF p = "flusher" THEN "flush" ELSE "drain"]

\* The ticker fires, while the reader runs; select may choose it although ctx is done.
Tick ==
  /\ pc["flusher"] = "idle" /\ reader = "reading"
  /\ pc' = [pc EXCEPT !["flusher"] = "flush"]
  /\ UNCHANGED <<queueVars, closed, ctx, reader, spoolVars, phase, batch, bytes, todo,
                 outcome, delivered>>

FlusherExits ==
  /\ pc["flusher"] = "idle" /\ ctx = "done"
  /\ pc' = [pc EXCEPT !["flusher"] = "exited"]
  /\ UNCHANGED <<queueVars, closed, ctx, reader, spoolVars, phase, batch, bytes, todo,
                 outcome, delivered>>

\* The locked part of Flush: take a batch, or go on to the spool.
FlushTake(p) ==
  /\ pc[p] = "flush"
  /\ IF frames = <<>> /\ events = <<>>
     THEN /\ pc' = [pc EXCEPT ![p] = "read"]
          /\ UNCHANGED <<frames, events, queued, batch, bytes>>
     ELSE LET f == FramesTaken
              e == EventsTaken(FrameBytes(f)) IN
          /\ batch' = [batch EXCEPT ![p] = {frames[i].seq : i \in 1..f}
                                           \cup {events[i] : i \in 1..e}]
          /\ bytes' = [bytes EXCEPT ![p] = FrameBytes(f) + 2 * e]
          /\ frames' = SubSeq(frames, f + 1, Len(frames))
          /\ events' = SubSeq(events, e + 1, Len(events))
          /\ queued' = QueuedAfter(FrameBytes(f) + 2 * e)
          /\ pc' = [pc EXCEPT ![p] = "post"]
  /\ UNCHANGED <<seq, accepted, closed, ctx, reader, spoolVars, phase, todo, outcome,
                 delivered>>

\* A request under a cancelled context does not succeed.
Cancelled(p) == p = "flusher" /\ ctx = "done"

\* The live batch is acknowledged; the spool is drained next.
PostOk(p) ==
  /\ pc[p] = "post" /\ ~Cancelled(p)
  /\ delivered' = delivered \cup batch[p]
  /\ batch' = [batch EXCEPT ![p] = {}] /\ bytes' = [bytes EXCEPT ![p] = 0]
  /\ pc' = [pc EXCEPT ![p] = "read"]
  /\ UNCHANGED <<queueVars, closed, ctx, reader, spoolVars, phase, todo, outcome>>

\* No acknowledgement: the request or its answer is lost.
PostFail(p) ==
  /\ pc[p] = "post"
  /\ \E got \in {{}, batch[p]} : delivered' = delivered \cup got
  /\ pc' = [pc EXCEPT ![p] = "spool"]
  /\ UNCHANGED <<queueVars, closed, ctx, reader, spoolVars, phase, batch, bytes, todo,
                 outcome>>

\* WriteBatch; when it fails, both failure policies give the batch up.
Spool(p) ==
  /\ pc[p] = "spool"
  /\ index' = index + 1
  /\ \/ /\ chunks' = chunks \cup {[index |-> index + 1, items |-> batch[p]]}
        /\ UNCHANGED spool
     \/ /\ spool' = "lossy"
        /\ UNCHANGED chunks
  /\ batch' = [batch EXCEPT ![p] = {}] /\ bytes' = [bytes EXCEPT ![p] = 0]
  /\ FlushReturn(p)
  /\ UNCHANGED <<queueVars, closed, ctx, reader, todo, outcome, delivered>>

\* Mutant: drainSpool finds nothing.
ReadPendingNothing(p) ==
  /\ pc[p] = "read"
  /\ FlushReturn(p)
  /\ UNCHANGED <<queueVars, closed, ctx, reader, spoolVars, batch, bytes, todo, outcome,
                 delivered>>

\* drainSpool: ReadPendingBatches.  (With nothing to drain, Flush may post an
\* empty keepalive, which changes nothing here.)
ReadPendingBatches(p) ==
  /\ pc[p] = "read"
  /\ IF chunks = {}
     THEN FlushReturn(p) /\ UNCHANGED todo
     ELSE /\ todo' = [todo EXCEPT ![p] = chunks]
          /\ pc' = [pc EXCEPT ![p] = "drain"]
          /\ UNCHANGED phase
  /\ UNCHANGED <<queueVars, closed, ctx, reader, spoolVars, batch, bytes, outcome,
                 delivered>>

\* Batches are posted in the order of their index.
NextChunk(p, c) == c \in todo[p] /\ \A d \in todo[p] : c.index <= d.index

\* A chunk is acknowledged and removed, by its path: another goroutine may
\* have posted and removed it too.
DrainOk(p) ==
  /\ pc[p] = "drain" /\ ~Cancelled(p)
  /\ \E c \in todo[p] :
       /\ NextChunk(p, c)
       /\ delivered' = delivered \cup c.items
       /\ chunks' = {d \in chunks : d.index # c.index}
       /\ todo' = [todo EXCEPT ![p] = @ \ {c}]
       /\ IF todo[p] = {c} THEN FlushReturn(p) ELSE UNCHANGED <<pc, phase>>
  /\ UNCHANGED <<queueVars, closed, ctx, reader, index, spool, batch, bytes, outcome>>

\* Mutant: the file is removed before the answer is looked at.
DrainFailRemoves(p) ==
  /\ pc[p] = "drain"
  /\ \E c \in todo[p] :
       /\ NextChunk(p, c)
       /\ \E got \in {{}, c.items} : delivered' = delivered \cup got
       /\ chunks' = {d \in chunks : d.index # c.index}
  /\ todo' = [todo EXCEPT ![p] = {}]
  /\ FlushReturn(p)
  /\ UNCHANGED <<queueVars, closed, ctx, reader, index, spool, batch, bytes, outcome>>

\* Still unreachable, or the context is done: stop draining.
DrainFail(p) ==
  /\ pc[p] = "drain"
  /\ \E c \in todo[p] :
       /\ NextChunk(p, c)
       /\ \E got \in {{}, c.items} : delivered' = delivered \cup got
  /\ todo' = [todo EXCEPT ![p] = {}]
  /\ FlushReturn(p)
  /\ UNCHANGED <<queueVars, closed, ctx, reader, spoolVars, batch, bytes, outcome>>

\* The reader returns: the pipe is closed or broken, or ctx is done.  The deferred calls
\* stop the ticker and delete the entry in the map (a logoff in between is one before).
ReaderReturns ==
  /\ reader = "reading" /\ reader' = "gone"
  /\ UNCHANGED <<queueVars, closed, ctx, spoolVars, pc, phase, batch, bytes, todo, outcome,
                 delivered>>

\* The worker scope, from which the session's context is derived, ends.
CancelWorkerScope ==
  /\ ctx = "live" /\ ctx' = "done"
  /\ UNCHANGED <<queueVars, closed, reader, spoolVars, pc, phase, batch, bytes, todo,
                 outcome, delivered>>

\* HandleSessionLogoff or StopAll find the entry: cancel the session, then Complete closes
\* the queue (nothing that matters happens in between).
Logoff ==
  /\ pc["completer"] = "idle" /\ reader # "gone"
  /\ ctx' = "done"
  /\ pc' = [pc EXCEPT !["completer"] = "close"]
  /\ UNCHANGED <<queueVars, closed, reader, spoolVars, phase, batch, bytes, todo, outcome,
                 delivered>>

Close ==
  /\ pc["completer"] = "close"
  /\ closed' = "closed"
  /\ pc' = [pc EXCEPT !["completer"] = "flush"]
  /\ UNCHANGED <<queueVars, ctx, reader, spoolVars, phase, batch, bytes, todo, outcome,
                 delivered>>

\* The completion is answered, with whatever status: RemoveSession, which removes what it
\* can.
CompleteOk ==
  /\ pc["completer"] = "complete"
  /\ outcome' = "ok" /\ chunks' \in SUBSET chunks
  /\ pc' = [pc EXCEPT !["completer"] = "done"]
  /\ UNCHANGED <<queueVars, closed, ctx, reader, index, spool, phase, batch, bytes, todo,
                 delivered>>

CompleteFail ==
  /\ pc["completer"] = "complete"
  /\ outcome' = "error"
  /\ pc' = [pc EXCEPT !["completer"] = "done"]
  /\ UNCHANGED <<queueVars, closed, ctx, reader, spoolVars, phase, batch, bytes, todo,
                 delivered>>

\* Another session's WriteBatch exceeds the quota and evicts this session, or as much of
\* it as can be removed.
Evicted ==
  /\ \E left \in SUBSET chunks : left # chunks /\ chunks' = left
  /\ spool' = "lossy"
  /\ UNCHANGED <<queueVars, closed, ctx, reader, index, pc, phase, batch, bytes, todo,
                 outcome, delivered>>

Next ==
  \/ \E k \in Kinds, d \in Payloads, t \in Titles : EnqueueFrame(k, d, t)
  \/ EnqueueEvent \/ Tick \/ FlusherExits \/ Logoff \/ Close
  \/ ReaderReturns \/ CancelWorkerScope
  \/ CompleteOk \/ CompleteFail \/ Evicted
  \/ \E p \in Procs :
       \/ FlushTake(p) \/ PostOk(p) \/ PostFail(p) \/ Spool(p)
       \/ ReadPendingBatches(p) \/ DrainOk(p) \/ DrainFail(p)

\* The ticker and the goroutines run; a request that is made again and again
\* is answered some time (the assumption on the network).
Fairness ==
  /\ WF_vars(Tick) /\ WF_vars(Close) /\ WF_vars(CompleteOk \/ CompleteFail)
  /\ \A p \in Procs :
       /\ WF_vars(FlushTake(p)) /\ WF_vars(ReadPendingBatches(p)) /\ WF_vars(Spool(p))
       /\ WF_vars(PostOk(p) \/ PostFail(p)) /\ WF_vars(DrainOk(p) \/ DrainFail(p))
       /\ SF_vars(DrainOk(p))

Spec == Init /\ [][Next]_vars
FairSpec == Spec /\ Fairness

-----------------------------------------------------------------------------
Items(c) == UNION {x.items : x \in c}

Pending == {frames[i].seq : i \in DOMAIN frames} \cup {events[i] : i \in DOMAIN events}
InFlight == UNION {batch[p] : p \in Procs}

\* Until Complete has removed the session, and unless the disk failed, every
\* item the client accepted is in the queue, in a goroutine's hands, on disk
\* or at the recorder: no outage, lost answer or concurrent drain loses one.
NothingVanishes ==
  outcome # "ok" /\ spool = "intact"
    => accepted \subseteq Pending \cup InFlight \cup Items(chunks) \cup delivered

\* While the session runs and its worker is connected, every accepted item
\* reaches the recorder once requests get through again.  (Without the worker
\* nothing is flushed any more: section 6 of the README.)
Recovered ==
  \A n \in 1..MaxItems :
    n \in accepted ~> \/ n \in delivered \/ ctx = "done" \/ reader = "gone"
                     \/ spool = "lossy"

\* Logging off ends the completer, whatever the network does.
LogoffCompletes == pc["completer"] = "close" ~> outcome # "none"
=============================================================================
