---------------------------- MODULE SessionBroker ----------------------------
(***************************************************************************)
(* The session worker broker of the Link agent                             *)
(* (windows/link_agent/session_worker.go).                                 *)
(*                                                                         *)
(* The server offers remote-desktop sessions over one WSS connection.  For *)
(* every offer the broker allocates a workerSession, enters it in the map  *)
(* b.sessions and starts a goroutine run() that launches the desktop       *)
(* worker, relays frames between the server and the worker, and restarts a *)
(* crashed worker at most RestartLimit times per window of 60 seconds.     *)
(*                                                                         *)
(* A step of the model is what one goroutine does between two points where *)
(* another one can interfere: a critical section of b.mu, a blocking call  *)
(* (Launch, select, time.After), or the unlocked tail of stop().  The      *)
(* connection goroutine calls Handler sequentially, so at most one stop()  *)
(* is in progress (handler).                                               *)
(***************************************************************************)
EXTENDS Naturals, Sequences, FiniteSets

CONSTANTS
  SessionIds,    \* session UUIDs the server uses
  Inc,           \* workerSession objects, one per accepted offer
  None,          \* no workerSession
  QueueCap,      \* maxQueuedWorkerSignals (256 in the code)
  RestartLimit,  \* restarts allowed per 60 s window (3 in the code)
  MaxConns,      \* bound: connections the server accepts
  MaxLaunches    \* bound: launches of a session after which no window expires

ASSUME BrokerAssumption ==
  /\ None \notin Inc /\ None \notin SessionIds
  /\ QueueCap \in Nat \ {0}
  /\ RestartLimit \in Nat
  /\ MaxConns \in Nat
  /\ MaxLaunches \in Nat

VARIABLES
  sessions,    \* b.sessions: session id -> workerSession or None
  sid,         \* the session id a workerSession serves
  send,        \* workerSession.send: number of the connection it sends on
  outbound,    \* workerSession.outbound: each signal tagged with the worker it was routed for
  process,     \* workerSession.process: number of the attached worker, or 0
  cancelled,   \* workerSessions whose context is cancelled
  terminated,  \* workerSessions with terminateRequested
  rejected,    \* workerSessions whose offer was answered by a rejection
  pc,          \* where the goroutine run() of a workerSession is
  restarts,    \* its local restarts
  launched,    \* how many workers it has launched
  expired,     \* those whose restartWindow is older than 60 s
  bye,         \* those whose worker has sent session_terminate
  open,        \* worker processes launched and not closed: <<i, n>>, i's n-th
  writers,     \* writer goroutines alive, <<i, n>>
  handler,     \* the workerSession whose stop() is in its unlocked tail
  link,        \* the control connection: "up" or "down"
  sender,      \* b.sender: number of the connection last bound
  scope        \* the worker scope context of RunAgent: "alive" or "cancelled"

connVars == <<link, sender, scope>>
fixedVars == <<sid, send, rejected, bye>>
workerVars == <<process, open, writers>>
countVars == <<restarts, launched, expired>>
endVars == <<cancelled, terminated>>
vars == <<sessions, outbound, pc, handler, connVars, fixedVars, workerVars,
          countVars, endVars>>

Init ==
  /\ sessions = [s \in SessionIds |-> None]
  /\ sid = [i \in Inc |-> None] /\ send = [i \in Inc |-> 0]
  /\ outbound = [i \in Inc |-> <<>>] /\ process = [i \in Inc |-> 0]
  /\ cancelled = {} /\ terminated = {} /\ rejected = {} /\ expired = {} /\ bye = {}
  /\ pc = [i \in Inc |-> "new"]
  /\ restarts = [i \in Inc |-> 0] /\ launched = [i \in Inc |-> 0]
  /\ open = {} /\ writers = {}
  /\ handler = None
  /\ link = "down" /\ sender = 0 /\ scope = "alive"

-----------------------------------------------------------------------------
(* The connection: RunAgent and OnConnected, as the broker sees them.      *)

Mapped(i) == \E s \in SessionIds : sessions[s] = i

\* Mutant: OnConnected stores the sender without rebinding the sessions.
RebindSenderDropped(conn) == send

RebindSender(conn) == [i \in Inc |-> IF Mapped(i) THEN conn ELSE send[i]]

\* A new connection: ensureWorkerScope replaces a cancelled scope, and
\* OnConnected binds the new sender to every session in the map.
Connect ==
  /\ link = "down" /\ handler = None /\ sender < MaxConns
  /\ link' = "up" /\ scope' = "alive"
  /\ sender' = sender + 1
  /\ send' = RebindSender(sender + 1)
  /\ UNCHANGED <<sessions, outbound, pc, handler, sid, rejected, bye, workerVars,
                 countVars, endVars>>

Disconnect ==
  /\ link = "up" /\ handler = None
  /\ link' = "down"
  /\ UNCHANGED <<sessions, outbound, pc, handler, sender, scope, fixedVars, workerVars,
                 countVars, endVars>>

\* The grace timer fires (or the service stops): cancelWorkers() cancels the
\* context of every workerSession started under the scope.  The timer may
\* fire while the connection is already up again (see AgentConnection).
CancelScope ==
  /\ sender > 0 /\ scope = "alive"
  /\ scope' = "cancelled"
  /\ cancelled' = {i \in Inc : pc[i] # "new"}
  /\ UNCHANGED <<sessions, outbound, pc, handler, link, sender, terminated, fixedVars,
                 workerVars, countVars>>

-----------------------------------------------------------------------------
(* Handler: the connection goroutine.                                      *)

\* Allocate the workerSession i for s, enter it in the map, start run().
StartSession(s, i) ==
  /\ pc[i] = "new"
  /\ sessions' = [sessions EXCEPT ![s] = i]
  /\ sid' = [sid EXCEPT ![i] = s]
  /\ send' = [send EXCEPT ![i] = sender]
  /\ cancelled' = IF scope = "cancelled" THEN cancelled \cup {i} ELSE cancelled
  /\ pc' = [pc EXCEPT ![i] = "top"]

\* session_offer: Handler and start().  A duplicate offer only rebinds the
\* sender, which is the current one already.
Offer(s) ==
  /\ link = "up" /\ handler = None
  /\ sessions[s] = None
  /\ \E i \in Inc : StartSession(s, i)
  /\ UNCHANGED <<outbound, handler, rejected, bye, terminated, connVars, workerVars, countVars>>

\* stop(), the part under b.mu: the session leaves the map.
StopLocked(s) ==
  /\ sessions[s] # None
  /\ sessions' = [sessions EXCEPT ![s] = None]
  /\ handler' = sessions[s]

\* signal: route().  A full queue stops the session; under a cancelled scope
\* the select drops the signal instead.
Signal(s) ==
  /\ link = "up" /\ handler = None
  /\ sessions[s] # None
  /\ LET i == sessions[s] IN
     \/ /\ Len(outbound[i]) < QueueCap
        /\ outbound' = [outbound EXCEPT ![i] = Append(@, launched[i])]
        /\ UNCHANGED <<sessions, handler>>
     \/ /\ Len(outbound[i]) = QueueCap
        /\ scope = "alive"
        /\ StopLocked(s)
        /\ UNCHANGED outbound
  /\ UNCHANGED <<pc, connVars, fixedVars, workerVars, countVars, endVars>>

\* session_close, session_revoke, session_terminate from the server.
Close(s) ==
  /\ link = "up" /\ handler = None
  /\ StopLocked(s)
  /\ UNCHANGED <<outbound, pc, connVars, fixedVars, workerVars, countVars, endVars>>

\* Mutant: stop() closes the process but does not cancel the context.
StopTailNoCancel ==
  /\ handler # None
  /\ terminated' = terminated \cup {handler}
  /\ open' = open \ {<<handler, process[handler]>>}
  /\ handler' = None
  /\ UNCHANGED <<sessions, outbound, pc, cancelled, process, writers, connVars, fixedVars,
                 countVars>>

\* stop(), the unlocked tail: mark, cancel, close the attached process.
StopTail ==
  /\ handler # None
  /\ terminated' = terminated \cup {handler}
  /\ cancelled' = cancelled \cup {handler}
  /\ open' = open \ {<<handler, process[handler]>>}
  /\ handler' = None
  /\ UNCHANGED <<sessions, outbound, pc, process, writers, connVars, fixedVars, countVars>>

-----------------------------------------------------------------------------
(* run(): the goroutine of one workerSession.                              *)

\* ctx.Err() != nil || session.isTerminated()
Ended(i) == i \in cancelled \/ i \in terminated

Goto(i, label) == pc' = [pc EXCEPT ![i] = label]

\* Close() of the worker launched last.
ClosedCurrent(i) == open \ {<<i, launched[i]>>}

RunTop(i) ==
  /\ pc[i] = "top"
  /\ Goto(i, IF Ended(i) THEN "remove" ELSE "launch")
  /\ UNCHANGED <<sessions, outbound, handler, connVars, fixedVars, workerVars, countVars,
                 endVars>>

LaunchOk(i) ==
  /\ pc[i] = "launch"
  /\ launched' = [launched EXCEPT ![i] = @ + 1]
  /\ open' = open \cup {<<i, launched[i] + 1>>}
  /\ Goto(i, "attach")
  /\ UNCHANGED <<sessions, outbound, handler, process, writers, restarts, expired, connVars,
                 fixedVars, endVars>>

\* Mutant: a failed first launch is retried for ever without an answer.
LaunchErrorSilent(i) ==
  /\ pc[i] = "launch"
  /\ Goto(i, "top")
  /\ UNCHANGED <<sessions, outbound, handler, connVars, fixedVars, workerVars, countVars,
                 endVars>>

\* The first launch failing rejects the offer; a failed relaunch waits 1 s.
LaunchError(i) ==
  /\ pc[i] = "launch"
  /\ \/ /\ restarts[i] = 0
        /\ rejected' = rejected \cup {i}
        /\ Goto(i, "remove")
     \/ /\ restarts[i] > 0
        /\ Goto(i, "launchWait")
        /\ UNCHANGED rejected
  /\ UNCHANGED <<sessions, outbound, handler, sid, send, bye, connVars, workerVars, countVars,
                 endVars>>

\* The restart budget: a window older than 60 s starts a new count.
Counted(i) == IF i \in expired THEN 1 ELSE restarts[i] + 1

SpendRestart(i, label) ==
  /\ restarts' = [restarts EXCEPT ![i] = Counted(i)]
  /\ expired' = expired \ {i}
  /\ Goto(i, IF Counted(i) > RestartLimit THEN "remove" ELSE label)

\* The select takes ctx.Done() when the context is cancelled; a timer that has
\* expired as well may win.
LaunchWait(i) ==
  /\ pc[i] = "launchWait"
  /\ \/ i \in cancelled /\ Goto(i, "remove") /\ UNCHANGED <<restarts, expired>>
     \/ SpendRestart(i, "top")
  /\ UNCHANGED <<sessions, outbound, handler, launched, connVars, fixedVars, workerVars,
                 endVars>>

\* Mutant: a stopped session returns without closing the process it launched.
AttachLeaks(i) ==
  /\ pc[i] = "attach"
  /\ IF sessions[sid[i]] # i \/ i \in cancelled
     THEN Goto(i, "remove") /\ UNCHANGED process
     ELSE process' = [process EXCEPT ![i] = launched[i]] /\ Goto(i, "drain")
  /\ UNCHANGED <<sessions, outbound, handler, open, writers, connVars, fixedVars, countVars,
                 endVars>>

\* Under b.mu: attach the process, unless the session was stopped meanwhile.
Attach(i) ==
  /\ pc[i] = "attach"
  /\ IF sessions[sid[i]] # i \/ i \in cancelled
     THEN open' = ClosedCurrent(i) /\ Goto(i, "remove") /\ UNCHANGED process
     ELSE process' = [process EXCEPT ![i] = launched[i]] /\ Goto(i, "drain") /\ UNCHANGED open
  /\ UNCHANGED <<sessions, outbound, handler, writers, connVars, fixedVars, countVars,
                 endVars>>

\* Mutant: no drainOutbound on a restart.
DrainSkipped(i) ==
  /\ pc[i] = "drain"
  /\ writers' = writers \cup {<<i, launched[i]>>}
  /\ Goto(i, "serve")
  /\ UNCHANGED <<sessions, outbound, handler, process, open, connVars, fixedVars, countVars,
                 endVars>>

\* drainOutbound on a restart, then start the reader and the writer.
Drain(i) ==
  /\ pc[i] = "drain"
  /\ outbound' = [outbound EXCEPT ![i] = IF restarts[i] > 0 THEN <<>> ELSE @]
  /\ writers' = writers \cup {<<i, launched[i]>>}
  /\ Goto(i, "serve")
  /\ UNCHANGED <<sessions, handler, process, open, connVars, fixedVars, countVars, endVars>>

\* A writer takes a signal and sends it to its worker process.
WriterDeliver(i, n) ==
  /\ <<i, n>> \in writers \cap open
  /\ outbound[i] # <<>>
  /\ outbound' = [outbound EXCEPT ![i] = Tail(@)]
  /\ UNCHANGED <<sessions, pc, handler, connVars, fixedVars, workerVars, countVars, endVars>>

\* process.Send fails: the signal is lost and the writer ends.  A writer whose
\* process context is cancelled may still win the select once.
WriterFail(i, n) ==
  /\ <<i, n>> \in writers
  /\ outbound[i] # <<>>
  /\ outbound' = [outbound EXCEPT ![i] = Tail(@)]
  /\ writers' = writers \ {<<i, n>>}
  /\ UNCHANGED <<sessions, pc, handler, process, open, connVars, fixedVars, countVars,
                 endVars>>

\* procCtx is done (the run loop left "serve", or the context is cancelled).
WriterExit(i, n) ==
  /\ <<i, n>> \in writers
  /\ pc[i] # "serve" \/ launched[i] # n \/ i \in cancelled
  /\ writers' = writers \ {<<i, n>>}
  /\ UNCHANGED <<sessions, outbound, pc, handler, process, open, connVars, fixedVars,
                 countVars, endVars>>

\* The select of the serve loop relays every valid worker frame; only the
\* frame session_terminate changes the state: it marks the session.
RelayTerminate(i) ==
  /\ pc[i] = "serve"
  /\ i \notin bye
  /\ terminated' = terminated \cup {i}
  /\ bye' = bye \cup {i}
  /\ UNCHANGED <<sessions, outbound, pc, handler, sid, send, rejected, cancelled, connVars,
                 workerVars, countVars>>

\* ctx.Done() in the serve loop: close the worker and leave.
ServeCancelled(i) ==
  /\ pc[i] = "serve"
  /\ i \in cancelled
  /\ open' = ClosedCurrent(i)
  /\ Goto(i, "remove")
  /\ UNCHANGED <<sessions, outbound, handler, process, writers, connVars, fixedVars,
                 countVars, endVars>>

\* The reader or the writer fails, or the worker sends an invalid frame.
WorkerFails(i) ==
  /\ pc[i] = "serve"
  /\ Goto(i, "cleanup")
  /\ UNCHANGED <<sessions, outbound, handler, connVars, fixedVars, workerVars, countVars,
                 endVars>>

\* Mutant: only the context is tested before a restart, not isTerminated().
CleanupIgnoresTerminate(i) ==
  /\ pc[i] = "cleanup"
  /\ open' = ClosedCurrent(i)
  /\ IF i \in cancelled THEN Goto(i, "remove") /\ UNCHANGED <<restarts, expired>>
                        ELSE SpendRestart(i, "backoff")
  /\ UNCHANGED <<sessions, outbound, handler, process, writers, launched, connVars, fixedVars,
                 endVars>>

\* After the loop: close the process; restart it unless the session ended.
Cleanup(i) ==
  /\ pc[i] = "cleanup"
  /\ open' = ClosedCurrent(i)
  /\ IF Ended(i) THEN Goto(i, "remove") /\ UNCHANGED <<restarts, expired>>
                 ELSE SpendRestart(i, "backoff")
  /\ UNCHANGED <<sessions, outbound, handler, process, writers, launched, connVars, fixedVars,
                 endVars>>

Backoff(i) ==
  /\ pc[i] = "backoff"
  /\ \/ i \in cancelled /\ Goto(i, "remove")
     \/ Goto(i, "top")
  /\ UNCHANGED <<sessions, outbound, handler, connVars, fixedVars, workerVars, countVars,
                 endVars>>

\* Mutant: remove() deletes the entry of the id whoever owns it.
RemoveUnowned(i) ==
  /\ pc[i] = "remove"
  /\ sessions' = [sessions EXCEPT ![sid[i]] = None]
  /\ Goto(i, "stopProcess")
  /\ UNCHANGED <<outbound, handler, connVars, fixedVars, workerVars, countVars, endVars>>

\* The deferred remove(), under b.mu: delete the entry only if it is ours.
Remove(i) ==
  /\ pc[i] = "remove"
  /\ IF sessions[sid[i]] = i
     THEN sessions' = [sessions EXCEPT ![sid[i]] = None] /\ Goto(i, "stopProcess")
     ELSE Goto(i, "done") /\ UNCHANGED sessions
  /\ UNCHANGED <<outbound, handler, connVars, fixedVars, workerVars, countVars, endVars>>

StopProcess(i) ==
  /\ pc[i] = "stopProcess"
  /\ terminated' = terminated \cup {i}
  /\ cancelled' = cancelled \cup {i}
  /\ open' = open \ {<<i, process[i]>>}
  /\ Goto(i, "done")
  /\ UNCHANGED <<sessions, outbound, handler, process, writers, connVars, fixedVars,
                 countVars>>

\* 60 seconds pass since restartWindow was set.
WindowExpires(i) ==
  /\ pc[i] \notin {"new", "done"} /\ i \notin expired
  /\ launched[i] < MaxLaunches
  /\ expired' = expired \cup {i}
  /\ UNCHANGED <<sessions, outbound, pc, handler, restarts, launched, connVars, fixedVars,
                 workerVars, endVars>>

-----------------------------------------------------------------------------
Handler ==
  \/ \E s \in SessionIds : Offer(s) \/ Signal(s) \/ Close(s)
  \/ StopTail

Connection == Connect \/ Disconnect \/ CancelScope

\* What run() does by itself; LaunchOk, LaunchError, WorkerFails and
\* RelayTerminate are the worker's doing.
RunStep(i) ==
  \/ RunTop(i) \/ LaunchWait(i) \/ Attach(i) \/ Drain(i) \/ ServeCancelled(i)
  \/ Cleanup(i) \/ Backoff(i) \/ Remove(i) \/ StopProcess(i)

WorkerStep(i) ==
  \/ LaunchOk(i) \/ LaunchError(i) \/ RelayTerminate(i) \/ WorkerFails(i)

WriterStep(w) ==
  WriterDeliver(w[1], w[2]) \/ WriterFail(w[1], w[2]) \/ WriterExit(w[1], w[2])

Next ==
  \/ Handler
  \/ Connection
  \/ \E i \in Inc : RunStep(i) \/ WorkerStep(i) \/ WindowExpires(i)
  \/ \E w \in writers : WriterStep(w)

\* Goroutines that can run do run; Launch returns (both launchers bound it).
\* Nothing is assumed of the server, the network or the worker process.
Fairness ==
  /\ WF_vars(StopTail)
  /\ \A i \in Inc : WF_vars(RunStep(i)) /\ WF_vars(LaunchOk(i) \/ LaunchError(i))

Spec == Init /\ [][Next]_vars
FairSpec == Spec /\ Fairness

-----------------------------------------------------------------------------
Labels == {"new", "top", "launch", "launchWait", "attach", "drain", "serve",
           "cleanup", "backoff", "remove", "stopProcess", "done"}

\* The types of the broker's maps, sessions and goroutines.
TypeOK ==
  /\ sessions \in [SessionIds -> Inc \cup {None}]
  /\ sid \in [Inc -> SessionIds \cup {None}]
  /\ send \in [Inc -> Nat]
  /\ outbound \in [Inc -> Seq(Nat)]
  /\ process \in [Inc -> Nat]
  /\ cancelled \subseteq Inc /\ terminated \subseteq Inc /\ rejected \subseteq Inc
  /\ expired \subseteq Inc /\ bye \subseteq Inc
  /\ pc \in [Inc -> Labels]
  /\ restarts \in [Inc -> 0..RestartLimit + 1]
  /\ launched \in [Inc -> Nat]
  /\ open \subseteq Inc \X Nat
  /\ writers \subseteq Inc \X Nat
  /\ handler \in Inc \cup {None}
  /\ link \in {"up", "down"} /\ sender \in Nat /\ scope \in {"alive", "cancelled"}

\* The goroutine of i may still launch a worker or keep one running.
Running(i) == pc[i] \notin {"new", "remove", "stopProcess", "done"}

\* A session the server has not stopped and whose context is alive.
Live(i) == Running(i) /\ ~Ended(i) /\ handler # i

\* Every live session is in b.sessions under its id, so the server can still
\* reach it: a signal, a close or the next sender finds it.
Reachable == \A i \in Inc : Live(i) => sessions[sid[i]] = i

\* The map never keeps a session whose goroutine has ended: such an entry
\* would swallow every later offer of that id as a duplicate.
NoDeadEntry ==
  \A s \in SessionIds, i \in Inc :
    sessions[s] = i => sid[i] = s /\ pc[i] \notin {"new", "stopProcess", "done"}

\* A goroutine that has ended leaves no worker process open, and a running
\* one has at most the worker it launched last.
NoOrphanWorker ==
  \A w \in open : pc[w[1]] \in {"attach", "drain", "serve", "cleanup"}
                  /\ w[2] = launched[w[1]]

\* A restarted worker is never handed a signal routed for a worker that died
\* before it ("Drain stale signals from previous dead worker").
NoStaleSignal ==
  [][\A w \in writers : WriterDeliver(w[1], w[2]) =>
        w[2] = 1 \/ Head(outbound[w[1]]) = w[2]]_vars

\* Frames of every session in the map go out on the newest connection, so a
\* reconnect does not drop a running session (RebindSender).
SenderIsCurrent ==
  \A s \in SessionIds : sessions[s] # None => send[sessions[s]] = sender

\* A worker that ended its session by session_terminate is not relaunched.
NoRelaunchAfterTerminate ==
  \A i \in bye : pc[i] \in {"serve", "cleanup", "remove", "stopProcess", "done"}

\* A stop takes effect whatever run() is doing: its goroutine ends and its
\* worker is closed.
StopCompletes ==
  \A i \in Inc : handler = i ~> (pc[i] = "done" /\ \A w \in open : w[1] # i)

\* An accepted offer is served, rejected or cancelled; it is never left
\* hanging without a worker and without an answer.
OfferResolved ==
  \A i \in Inc : pc[i] = "top" ~> (process[i] > 0 \/ i \in rejected \/ Ended(i))
=============================================================================
