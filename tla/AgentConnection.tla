--------------------------- MODULE AgentConnection ---------------------------
(***************************************************************************)
(* The control connection of the Link agent (windows/link_agent/           *)
(* agent_ws.go): RunAgent dials the server, serves the connection, and     *)
(* after a failure waits and dials again.  Workers live in a scope (a      *)
(* context) that outlives a connection: a grace timer, armed when the      *)
(* connection is lost, cancels it unless a new connection comes first.     *)
(*                                                                         *)
(* Time is discrete.  Due timers are handled before time passes, except    *)
(* that the function of an expired time.AfterFunc runs in a goroutine of   *)
(* its own, at any later moment (firing).                                  *)
(***************************************************************************)
EXTENDS Integers, FiniteSets

CONSTANTS
  Heartbeat,    \* agentHeartbeatPeriod, in time units
  Grace,        \* agentWorkerGracePeriod, in time units
  Stable,       \* agentStablePeriod, in time units
  Jitters,      \* the random draws of nextReconnectDelay, a subset of 0..4000
  MaxScopes     \* bound: worker scopes created

ASSUME ConnectionAssumption ==
  /\ Heartbeat \in Nat \ {0} /\ Grace \in Nat \ {0} /\ Stable \in Nat
  /\ \A j \in Jitters : j \in Nat /\ j <= 4000
  /\ MaxScopes \in Nat

VARIABLES
  pc,       \* "dial", "serve", "backoff" or "returned"
  result,   \* what RunAgent returned: "none", "cancelled" or "unbound"
  ctx,      \* the service's context: "live" or "done"
  attempt,  \* consecutive short-lived attempts, at most 16
  delay,    \* the delay chosen by nextReconnectDelay, in ms
  elapsed,  \* time since this attempt started, capped at Stable
  age,      \* time since lastAck, while serving
  tick,     \* time until the heartbeat ticker fires, while serving
  down,     \* time since the last connection was lost, capped (history)
  scope,    \* number of the current worker scope, 0 if none
  dead,     \* scopes whose context is cancelled
  timer,    \* graceTimer: "none", "armed" or "fired"
  left,     \* time until the armed timer expires
  firing    \* scopes whose expired timer has not yet run its cancel function

vars == <<pc, result, ctx, attempt, delay, elapsed, age, tick, down, scope, dead,
          timer, left, firing>>
serveVars == <<age, tick>>
scopeVars == <<scope, dead>>
timerVars == <<timer, left>>

Init ==
  /\ pc = "dial" /\ result = "none" /\ ctx = "live"
  /\ attempt = 0 /\ delay = 0 /\ elapsed = 0
  /\ age = 0 /\ tick = 0 /\ down = 0
  /\ scope = 0 /\ dead = {}
  /\ timer = "none" /\ left = 0 /\ firing = {}

-----------------------------------------------------------------------------
(* nextReconnectDelay, in milliseconds (the code computes nanoseconds).    *)

ReconnectMin == 1000
ReconnectMax == 60000

Clamp(d, lo, hi) == IF d < lo THEN lo ELSE IF d > hi THEN hi ELSE d

\* agentReconnectMin << min(n, 6), at most agentReconnectMax
Nominal(n) ==
  CASE n = 0 -> 1000 [] n = 1 -> 2000 [] n = 2 -> 4000 [] n = 3 -> 8000
    [] n = 4 -> 16000 [] n = 5 -> 32000 [] OTHER -> ReconnectMax

\* Go's integer division truncates towards zero.
Quo(a, b) == IF a >= 0 THEN a \div b ELSE -((-a) \div b)

nextReconnectDelay(n, jitter) ==
  Clamp(Nominal(n) + Quo(Nominal(n) * (jitter - 2000), 10000),
        (ReconnectMin * 4) \div 5, ReconnectMax)

-----------------------------------------------------------------------------
(* The worker scope.                                                       *)

\* Mutant: every connection gets a scope of its own.
ensureWorkerScopeFresh ==
  /\ timer' = "none" /\ left' = 0
  /\ scope < MaxScopes
  /\ scope' = scope + 1
  /\ dead' = IF ctx = "done" THEN dead \cup {scope + 1} ELSE dead

\* Stop the grace timer; keep a scope that is alive, else make a new one.
\* Stop() does not undo an expiry whose function is about to run.
ensureWorkerScope ==
  /\ timer' = "none" /\ left' = 0
  /\ \/ /\ scope # 0 /\ scope \notin dead
        /\ UNCHANGED scopeVars
     \/ /\ scope = 0 \/ scope \in dead
        /\ scope < MaxScopes
        /\ scope' = scope + 1
        /\ dead' = IF ctx = "done" THEN dead \cup {scope + 1} ELSE dead

\* Mutant: the nil test of graceTimer is inverted.
ArmGraceTimerNever ==
  IF scope # 0 /\ timer # "none"
  THEN timer' = "armed" /\ left' = Grace
  ELSE UNCHANGED timerVars

ArmGraceTimer ==
  IF scope # 0 /\ timer = "none"
  THEN timer' = "armed" /\ left' = Grace
  ELSE UNCHANGED timerVars

-----------------------------------------------------------------------------
(* RunAgent                                                                *)

\* Return, running the deferred calls: stop the timer, cancel the workers.
Return(why) ==
  /\ pc' = "returned" /\ result' = why
  /\ timer' = "none" /\ left' = 0
  /\ dead' = 1..scope
  /\ UNCHANGED <<ctx, attempt, delay, elapsed, age, tick, down, scope, firing>>

NextAttempt(n) == IF n < 16 THEN n + 1 ELSE n

\* Arm the timer, forget the attempts before a stable connection, wait.
RetryLater ==
  /\ ArmGraceTimer
  /\ LET n == IF elapsed >= Stable THEN 0 ELSE attempt IN
     /\ attempt' = NextAttempt(n)
     /\ \E j \in Jitters : delay' = nextReconnectDelay(n, j)
  /\ pc' = "backoff"
  /\ down' = IF pc = "serve" THEN 0 ELSE down
  /\ UNCHANGED <<result, ctx, elapsed, age, tick, scopeVars, firing>>

\* Mutant: the context is not tested after a failure.
LostIgnoresStop == RetryLater

\* The part of the loop after a failed dial or a lost connection.
Lost ==
  \/ ctx = "done" /\ Return("cancelled")
  \/ ctx = "live" /\ RetryLater

\* ConnectAgent succeeds: hello and the first heartbeat are sent.
DialOk ==
  /\ pc = "dial"
  /\ ensureWorkerScope
  /\ pc' = "serve"
  /\ age' = 0 /\ tick' = Heartbeat /\ down' = 0
  /\ UNCHANGED <<result, ctx, attempt, delay, elapsed, firing>>

DialFails ==
  /\ pc = "dial"
  /\ Lost

\* A read error, a failed write, or the context closing the connection.
ServeFails ==
  /\ pc = "serve"
  /\ Lost

\* heartbeat_ack
Ack ==
  /\ pc = "serve"
  /\ age' = 0
  /\ UNCHANGED <<pc, result, ctx, attempt, delay, elapsed, tick, down, scopeVars, timerVars,
                 firing>>

\* Mutant: the acknowledgement is tested only on an exact multiple.
HeartbeatDueLoose ==
  /\ pc = "serve" /\ tick = 0
  /\ IF age = 2 * Heartbeat + 1
     THEN Lost
     ELSE /\ tick' = Heartbeat
          /\ UNCHANGED <<pc, result, ctx, attempt, delay, elapsed, age, down, scopeVars,
                         timerVars, firing>>

\* The ticker: give up on a server that has not acknowledged for two periods,
\* else send the next heartbeat.
HeartbeatDue ==
  /\ pc = "serve" /\ tick = 0
  /\ IF age > 2 * Heartbeat
     THEN Lost
     ELSE /\ tick' = Heartbeat
          /\ UNCHANGED <<pc, result, ctx, attempt, delay, elapsed, age, down, scopeVars,
                         timerVars, firing>>

\* agent_unbound for this identity, from an https server.
Unbound ==
  /\ pc = "serve"
  /\ IF ctx = "done" THEN Return("cancelled") ELSE Return("unbound")

BackoffEnds ==
  /\ pc = "backoff"
  /\ \/ ctx = "done" /\ Return("cancelled")
     \/ /\ pc' = "dial" /\ elapsed' = 0
        /\ UNCHANGED <<result, ctx, attempt, delay, age, tick, down, scopeVars, timerVars,
                       firing>>

\* The service stops: every context derived from ctx is cancelled too.
Stop ==
  /\ ctx = "live" /\ pc # "returned"
  /\ ctx' = "done"
  /\ dead' = 1..scope
  /\ UNCHANGED <<pc, result, attempt, delay, elapsed, age, tick, down, scope, timerVars,
                 firing>>

\* The runtime starts the function of the expired timer in a new goroutine.
TimerExpires ==
  /\ timer = "armed" /\ left = 0
  /\ timer' = "fired"
  /\ firing' = firing \cup {scope}
  /\ UNCHANGED <<pc, result, ctx, attempt, delay, elapsed, age, tick, down, scopeVars, left>>

\* That goroutine calls cancelWorkers.
CancelWorkers(g) ==
  /\ g \in firing
  /\ firing' = firing \ {g}
  /\ dead' = dead \cup {g}
  /\ UNCHANGED <<pc, result, ctx, attempt, delay, elapsed, age, tick, down, scope, timerVars>>

\* One unit of time passes; a due heartbeat or timer comes first.
Time ==
  /\ pc # "returned"
  /\ pc = "serve" => tick > 0
  /\ timer = "armed" => left > 0
  /\ elapsed' = IF elapsed < Stable THEN elapsed + 1 ELSE elapsed
  /\ IF pc = "serve"
     THEN age' = age + 1 /\ tick' = tick - 1 /\ UNCHANGED down
     ELSE down' = (IF down <= Grace THEN down + 1 ELSE down) /\ UNCHANGED serveVars
  /\ left' = IF timer = "armed" THEN left - 1 ELSE left
  /\ UNCHANGED <<pc, result, ctx, attempt, delay, scopeVars, timer, firing>>

Next ==
  \/ DialOk \/ DialFails \/ ServeFails \/ Ack \/ HeartbeatDue \/ Unbound
  \/ BackoffEnds \/ Stop \/ TimerExpires \/ Time
  \/ \E g \in 1..MaxScopes : CancelWorkers(g)

\* Time passes, timers run, a cancelled context unblocks every call that waits
\* on it.  Nothing is assumed of the server or the network.
Fairness ==
  /\ WF_vars(Time) /\ WF_vars(TimerExpires) /\ WF_vars(HeartbeatDue)
  /\ WF_vars(BackoffEnds)
  /\ \A g \in 1..MaxScopes : WF_vars(CancelWorkers(g))
  /\ WF_vars(ctx = "done" /\ (ServeFails \/ DialFails))

Spec == Init /\ [][Next]_vars
FairSpec == Spec /\ Fairness

-----------------------------------------------------------------------------
\* The types of RunAgent's locals, timers and contexts.
TypeOK ==
  /\ pc \in {"dial", "serve", "backoff", "returned"}
  /\ result \in {"none", "cancelled", "unbound"}
  /\ ctx \in {"live", "done"}
  /\ attempt \in Nat /\ attempt <= 16
  /\ delay \in Nat /\ delay <= ReconnectMax
  /\ elapsed \in 0..Stable
  /\ age \in Nat /\ tick \in 0..Heartbeat /\ down \in 0..Grace + 1
  /\ scope \in Nat /\ dead \subseteq 1..scope
  /\ timer \in {"none", "armed", "fired"} /\ left \in 0..Grace
  /\ firing \subseteq 1..scope

\* At most one worker scope is alive: a session never runs under a scope that
\* RunAgent has forgotten and can no longer cancel.
OneLiveScope == \A g \in 1..scope : g # scope => g \in dead

\* A server that stops acknowledging is given up within three heartbeats.
DeadPeerDetected == pc = "serve" => age <= 3 * Heartbeat

\* The grace period is never cut short: a timer only expires after the link
\* has been down for the whole period (no dial in between has succeeded).
GraceNotShortened == [][firing' \ firing # {} => down >= Grace]_vars

\* Nor is it extended: failed dials do not postpone it, so sessions of an
\* agent that cannot reach the server end when the grace period is over.
GraceNotExtended ==
  ctx = "live" /\ pc \in {"dial", "backoff"} /\ scope # 0 /\ scope \notin dead \cup firing
    => down <= Grace

\* "Bounded +-20% jitter": whatever the history of attempts, the delay being
\* waited is within a fifth of the nominal one for the attempt that failed
\* (the counter already names the next), and never above the maximum.
BackoffBounded ==
  pc = "backoff" => /\ 5 * delay >= 4 * Nominal(attempt - 1)
                    /\ 5 * delay <= 6 * Nominal(attempt - 1)
                    /\ delay <= ReconnectMax

\* An outage ends in a reconnect or in the end of every worker.
OutageResolves ==
  (pc \in {"dial", "backoff"} /\ scope # 0) ~> (pc = "serve" \/ scope \in dead)

\* Stopping the service ends RunAgent and every worker scope.
StopReturns == ctx = "done" ~> (pc = "returned" /\ dead = 1..scope)

\* "so running sessions do not drop" after a reconnect (session_worker.go:199):
\* a connection that is being served has a worker scope that is alive.
ServedScopeAlive == pc = "serve" /\ ctx = "live" => scope \notin dead
=============================================================================
