------------------------ MODULE AgentConnectionProofs ------------------------
(***************************************************************************)
(* Safety of RunAgent for every heartbeat and grace period.                *)
(*                                                                         *)
(* What makes DeadPeerDetected and GraceNotExtended inductive is the clock *)
(* arithmetic they hide: while serving, age and tick advance together, so  *)
(* age + tick is bounded (AckClock); while the link is down, left and down *)
(* add up to Grace for as long as the timer is armed (GraceClock).         *)
(***************************************************************************)
EXTENDS AgentConnection, TLAPS

AckClock == pc = "serve" => age + tick <= 3 * Heartbeat

GraceClock ==
  /\ pc \in {"dial", "backoff"} /\ scope # 0 /\ ctx = "live" => timer # "none"
  /\ timer = "armed" => pc \in {"dial", "backoff"} /\ scope # 0 /\ left + down = Grace
  /\ timer = "fired" => pc \in {"dial", "backoff"} /\ scope \in dead \cup firing

IndInv ==
  /\ TypeOK
  /\ OneLiveScope
  /\ AckClock
  /\ GraceClock

USE ConnectionAssumption
    DEF ConnectionAssumption, serveVars, scopeVars, timerVars

\* Truncated division by 10000 of a value within a fifth of 10000 * m.
LEMMA QuoBound ==
  ASSUME NEW m \in Nat, NEW a \in Int, a >= -(2000 * m), a <= 2000 * m
  PROVE  Quo(a, 10000) \in Int /\ 5 * Quo(a, 10000) >= -m /\ 5 * Quo(a, 10000) <= m
  <1>1. CASE a >= 0
    <2>1. a \div 10000 \in Int /\ 10000 * (a \div 10000) <= a /\ a \div 10000 >= 0
      BY <1>1
    <2> QED BY <1>1, <2>1 DEF Quo
  <1>2. CASE a < 0
    <2>1. (-a) \div 10000 \in Int /\ 10000 * ((-a) \div 10000) <= -a /\ (-a) \div 10000 >= 0
      BY <1>2
    <2> QED BY <1>2, <2>1 DEF Quo
  <1> QED BY <1>1, <1>2

\* The last two tests of nextReconnectDelay bound whatever comes before them.
LEMMA DelayRange ==
  ASSUME NEW n \in Nat, NEW j \in Nat, j <= 4000
  PROVE  nextReconnectDelay(n, j) \in Nat /\ nextReconnectDelay(n, j) <= ReconnectMax
  <1> DEFINE d == Nominal(n) + Quo(Nominal(n) * (j - 2000), 10000)
  <1>1. Nominal(n) \in {1000, 2000, 4000, 8000, 16000, 32000, 60000}
    BY DEF Nominal, ReconnectMax
  <1>2. d \in Int
    BY <1>1 DEF Quo
  <1>3. nextReconnectDelay(n, j) = Clamp(d, 800, ReconnectMax)
    BY DEF nextReconnectDelay, ReconnectMin
  <1> HIDE DEF d
  <1> QED BY <1>2, <1>3 DEF Clamp, ReconnectMax

\* The delay before a reconnect, for every attempt and every random draw:
\* nextReconnectDelay stays within a fifth of the nominal delay and between
\* 0.8 s and a minute.
THEOREM BackoffWithinJitter ==
  ASSUME NEW n \in Nat, NEW j \in Nat, j <= 4000
  PROVE  /\ nextReconnectDelay(n, j) \in Nat
         /\ nextReconnectDelay(n, j) >= 800
         /\ nextReconnectDelay(n, j) <= ReconnectMax
         /\ 5 * nextReconnectDelay(n, j) >= 4 * Nominal(n)
         /\ 5 * nextReconnectDelay(n, j) <= 6 * Nominal(n)
  <1> DEFINE m == Nominal(n)
             a == m * (j - 2000)
             q == Quo(a, 10000)
  <1>1. m \in {1000, 2000, 4000, 8000, 16000, 32000, 60000}
    BY DEF Nominal, ReconnectMax
  <1> HIDE DEF m
  <1>2. m \in Nat /\ a \in Int /\ a >= -(2000 * m) /\ a <= 2000 * m
    <2>1. j - 2000 \in Int /\ j - 2000 >= -2000 /\ j - 2000 <= 2000
      OBVIOUS
    <2> QED BY <1>1, <2>1
  <1> HIDE DEF a
  <1>3. q \in Int /\ 5 * q >= -m /\ 5 * q <= m
    BY <1>2, QuoBound
  <1> HIDE DEF q
  <1> DEFINE d == nextReconnectDelay(n, j)
  <1>4. d = Clamp(m + q, 800, 60000)
    BY DEF nextReconnectDelay, m, a, q, ReconnectMin, ReconnectMax
  <1>5. d \in Int /\ d >= 800 /\ d <= 60000
    BY <1>1, <1>3, <1>4 DEF Clamp
  <1>6. 5 * d >= 4 * m /\ 5 * d <= 6 * m
    BY <1>1, <1>3, <1>4 DEF Clamp
  <1> HIDE DEF d
  <1>7. d \in Nat /\ d >= 800 /\ d <= ReconnectMax
    BY <1>5 DEF ReconnectMax
  <1> QED BY <1>6, <1>7 DEF m, d

\* The same for the draws the instance makes.
LEMMA JitterDraws ==
  \A k \in Nat : \A j \in Jitters :
    /\ nextReconnectDelay(k, j) <= ReconnectMax
    /\ 5 * nextReconnectDelay(k, j) >= 4 * Nominal(k)
    /\ 5 * nextReconnectDelay(k, j) <= 6 * Nominal(k)
  <1> TAKE k \in Nat
  <1> TAKE j \in Jitters
  <1>1. j \in Nat /\ j <= 4000
    OBVIOUS
  <1> DEFINE d == nextReconnectDelay(k, j)
             m == Nominal(k)
  <1>2. d <= ReconnectMax
    BY <1>1, BackoffWithinJitter
  <1>3. 5 * d >= 4 * m
    BY <1>1, BackoffWithinJitter
  <1>4. 5 * d <= 6 * m
    BY <1>1, BackoffWithinJitter
  <1> QED BY <1>2, <1>3, <1>4

\* RunAgent starts with no scope and no timer.
LEMMA InitIndInv == Init => IndInv
  <1> SUFFICES ASSUME Init PROVE IndInv
    OBVIOUS
  <1>1. TypeOK
    BY DEF Init, TypeOK, ReconnectMax
  <1>2. OneLiveScope /\ AckClock /\ GraceClock
    BY DEF Init, OneLiveScope, AckClock, GraceClock
  <1> QED BY <1>1, <1>2 DEF IndInv

\* Returning cancels every scope and stops the timer.
LEMMA ReturnIndInv ==
  ASSUME IndInv, NEW why \in {"cancelled", "unbound"}, Return(why)
  PROVE  IndInv'
  BY DEF Return, IndInv, TypeOK, OneLiveScope, AckClock, GraceClock

\* A failed attempt arms the timer when there is a scope and none is armed.
LEMMA RetryIndInv ==
  ASSUME IndInv, RetryLater, ctx = "live", pc \in {"dial", "serve"}
  PROVE  IndInv'
  <1> USE DEF IndInv, RetryLater
  <1> DEFINE n == IF elapsed >= Stable THEN 0 ELSE attempt
  <1>0. n \in Nat /\ n <= 16
    BY DEF TypeOK
  <1>1. attempt' \in Nat /\ attempt' <= 16
    BY <1>0 DEF NextAttempt
  <1>2. delay' \in Nat /\ delay' <= ReconnectMax
    <2>1. PICK j \in Jitters : delay' = nextReconnectDelay(n, j)
      OBVIOUS
    <2>2. j \in Nat /\ j <= 4000
      OBVIOUS
    <2>3. PICK k \in Nat : k = n
      BY <1>0
    <2> HIDE DEF n, RetryLater, IndInv
    <2>4. nextReconnectDelay(k, j) \in Nat /\ nextReconnectDelay(k, j) <= ReconnectMax
      BY <2>2, DelayRange
    <2> QED BY <2>1, <2>3, <2>4
  <1>3. timer' \in {"none", "armed", "fired"} /\ left' \in 0..Grace /\ down' \in 0..Grace + 1
    BY DEF TypeOK, ArmGraceTimer
  <1>4. TypeOK'
    BY <1>1, <1>2, <1>3 DEF TypeOK
  <1>5. OneLiveScope' /\ AckClock'
    BY DEF OneLiveScope, AckClock
  <1>6. GraceClock'
    BY DEF TypeOK, GraceClock, ArmGraceTimer
  <1> QED BY <1>4, <1>5, <1>6

\* The connection is lost, or was never there: the time down begins to count.
LEMMA LostIndInv ==
  ASSUME IndInv, Lost, pc \in {"dial", "serve"}
  PROVE  IndInv'
  BY ReturnIndInv, RetryIndInv DEF Lost

\* Every step of RunAgent, of its timers and of the clock preserves IndInv.
LEMMA NextIndInv == IndInv /\ [Next]_vars => IndInv'
  <1> SUFFICES ASSUME IndInv, [Next]_vars PROVE IndInv'
    OBVIOUS
  <1>1. ASSUME DialOk PROVE IndInv'
    <2> USE <1>1 DEF DialOk, ensureWorkerScope, IndInv
    <2>1. TypeOK'
      <3>0. \/ scope' = scope /\ dead' = dead
            \/ scope' = scope + 1 /\ dead' \subseteq dead \cup {scope + 1}
        OBVIOUS
      <3>1. scope' \in Nat /\ scope <= scope' /\ dead' \subseteq 1..scope'
        <4> HIDE DEF DialOk, ensureWorkerScope
        <4>1. scope \in Nat /\ dead \subseteq 1..scope
          BY DEF TypeOK
        <4>2. CASE scope' = scope /\ dead' = dead
          BY <4>1, <4>2
        <4>3. CASE scope' = scope + 1 /\ dead' \subseteq dead \cup {scope + 1}
          BY <4>1, <4>3
        <4> QED BY <3>0, <4>2, <4>3
      <3>2. firing' \subseteq 1..scope'
        BY <3>1 DEF TypeOK
      <3>3. age' \in Nat /\ tick' \in 0..Heartbeat /\ down' \in 0..Grace + 1
            /\ timer' = "none" /\ left' \in 0..Grace /\ pc' = "serve"
        OBVIOUS
      <3> QED BY <3>1, <3>2, <3>3 DEF TypeOK
    <2>2. OneLiveScope'
      BY DEF TypeOK, OneLiveScope
    <2>3. AckClock'
      BY DEF TypeOK, AckClock
    <2>4. GraceClock'
      BY DEF TypeOK, GraceClock
    <2> QED BY <2>1, <2>2, <2>3, <2>4
  <1>2. ASSUME Ack PROVE IndInv'
    <2> USE <1>2 DEF Ack, IndInv
    <2>1. TypeOK'
      BY DEF TypeOK, AckClock, GraceClock
    <2>2. OneLiveScope'
      BY DEF TypeOK, OneLiveScope
    <2>3. AckClock'
      BY DEF TypeOK, AckClock
    <2>4. GraceClock'
      BY DEF TypeOK, GraceClock
    <2> QED BY <2>1, <2>2, <2>3, <2>4
  <1>3. ASSUME Stop PROVE IndInv'
    <2> USE <1>3 DEF Stop, IndInv
    <2>1. TypeOK'
      BY DEF TypeOK, AckClock, GraceClock
    <2>2. OneLiveScope'
      BY DEF TypeOK, OneLiveScope
    <2>3. AckClock'
      BY DEF TypeOK, AckClock
    <2>4. GraceClock'
      BY DEF TypeOK, GraceClock
    <2> QED BY <2>1, <2>2, <2>3, <2>4
  <1>4. ASSUME TimerExpires PROVE IndInv'
    <2> USE <1>4 DEF TimerExpires, IndInv
    <2>1. TypeOK'
      BY DEF TypeOK, AckClock, GraceClock
    <2>2. OneLiveScope'
      BY DEF TypeOK, OneLiveScope
    <2>3. AckClock'
      BY DEF TypeOK, AckClock
    <2>4. GraceClock'
      BY DEF TypeOK, GraceClock
    <2> QED BY <2>1, <2>2, <2>3, <2>4
  <1>5. ASSUME NEW g \in 1..MaxScopes, CancelWorkers(g) PROVE IndInv'
    <2> USE <1>5 DEF CancelWorkers, IndInv
    <2>1. TypeOK'
      BY DEF TypeOK, AckClock, GraceClock
    <2>2. OneLiveScope'
      BY DEF TypeOK, OneLiveScope
    <2>3. AckClock'
      BY DEF TypeOK, AckClock
    <2>4. GraceClock'
      BY DEF TypeOK, GraceClock
    <2> QED BY <2>1, <2>2, <2>3, <2>4
  <1>6. ASSUME Time PROVE IndInv'
    <2> USE <1>6 DEF Time, IndInv
    <2>1. TypeOK'
      BY DEF TypeOK, AckClock, GraceClock
    <2>2. OneLiveScope'
      BY DEF TypeOK, OneLiveScope
    <2>3. AckClock'
      BY DEF TypeOK, AckClock
    <2>4. GraceClock'
      BY DEF TypeOK, GraceClock
    <2> QED BY <2>1, <2>2, <2>3, <2>4
  <1>7. CASE DialFails \/ ServeFails
    BY <1>7, LostIndInv DEF DialFails, ServeFails
  <1>8. CASE HeartbeatDue
    <2>1. CASE age > 2 * Heartbeat
      BY <1>8, <2>1, LostIndInv DEF HeartbeatDue
    <2>2. CASE ~(age > 2 * Heartbeat)
      <3>1. /\ tick = 0 /\ tick' = Heartbeat
            /\ UNCHANGED <<pc, result, ctx, attempt, delay, elapsed, age, down, scope, dead,
                           timer, left, firing>>
        BY <1>8, <2>2 DEF HeartbeatDue
      <3>2. TypeOK' /\ OneLiveScope' /\ GraceClock'
        BY <3>1 DEF IndInv, TypeOK, OneLiveScope, GraceClock
      <3>3. AckClock'
        BY <2>2, <3>1 DEF IndInv, TypeOK, AckClock
      <3> QED BY <3>2, <3>3 DEF IndInv
    <2> QED BY <2>1, <2>2
  <1>9. CASE Unbound
    BY <1>9, ReturnIndInv DEF Unbound
  <1>10. CASE BackoffEnds
    <2>1. CASE ctx = "done" /\ Return("cancelled")
      BY <2>1, ReturnIndInv
    <2>2. CASE ~(ctx = "done" /\ Return("cancelled"))
      <3>1. /\ pc = "backoff" /\ pc' = "dial" /\ elapsed' = 0
            /\ UNCHANGED <<result, ctx, attempt, delay, age, tick, down, scope, dead, timer, left,
                           firing>>
        BY <1>10, <2>2 DEF BackoffEnds
      <3> QED BY <3>1 DEF IndInv, TypeOK, OneLiveScope, AckClock, GraceClock
    <2> QED BY <2>1, <2>2
  <1>11. CASE UNCHANGED vars
    BY <1>11 DEF vars, IndInv, TypeOK, OneLiveScope, AckClock, GraceClock
  <1> QED
    BY <1>1, <1>2, <1>3, <1>4, <1>5, <1>6, <1>7, <1>8, <1>9, <1>10, <1>11 DEF Next

\* The delay chosen after a failure belongs to the attempt that failed.
LEMMA RetryBackoff ==
  ASSUME TypeOK, RetryLater
  PROVE  BackoffBounded'
  <1> DEFINE n == IF elapsed >= Stable THEN 0 ELSE attempt
  <1>1. n \in Nat /\ n <= 16 /\ attempt' = NextAttempt(n)
    BY DEF TypeOK, RetryLater
  <1>2. PICK j \in Jitters : delay' = nextReconnectDelay(n, j)
    BY DEF RetryLater
  <1>3. PICK k \in Nat : k = n
    BY <1>1
  <1> HIDE DEF n
  <1>4. /\ nextReconnectDelay(k, j) <= ReconnectMax
        /\ 5 * nextReconnectDelay(k, j) >= 4 * Nominal(k)
        /\ 5 * nextReconnectDelay(k, j) <= 6 * Nominal(k)
    BY JitterDraws
  <1>5. Nominal(attempt' - 1) = Nominal(k)
    <2>1. CASE k < 16
      BY <1>1, <1>3, <2>1 DEF NextAttempt
    <2>2. CASE k = 16
      <3>1. attempt' - 1 = 15
        BY <1>1, <1>3, <2>2 DEF NextAttempt
      <3> QED BY <2>2, <3>1 DEF Nominal
    <2> QED BY <1>1, <1>3, <2>1, <2>2
  <1> QED BY <1>2, <1>3, <1>4, <1>5 DEF BackoffBounded

\* Type correctness: attempts, delays and clocks stay in their ranges.
THEOREM TypeCorrect == Spec => []TypeOK
  <1>1. IndInv => TypeOK
    BY DEF IndInv
  <1> QED BY InitIndInv, NextIndInv, <1>1, PTL DEF Spec

\* RunAgent never loses track of a live worker scope.
THEOREM ScopeUnique == Spec => []OneLiveScope
  <1>1. IndInv => OneLiveScope
    BY DEF IndInv
  <1> QED BY InitIndInv, NextIndInv, <1>1, PTL DEF Spec

\* A silent server is given up within three heartbeat periods.
THEOREM SilentServerDropped == Spec => []DeadPeerDetected
  <1>1. IndInv => DeadPeerDetected
    BY DEF IndInv, TypeOK, AckClock, DeadPeerDetected
  <1> QED BY InitIndInv, NextIndInv, <1>1, PTL DEF Spec

\* The grace period of an outage is exactly Grace: failed dials do not extend it.
THEOREM GraceBounded == Spec => []GraceNotExtended
  <1>1. IndInv => GraceNotExtended
    BY DEF IndInv, TypeOK, GraceClock, GraceNotExtended
  <1> QED BY InitIndInv, NextIndInv, <1>1, PTL DEF Spec

\* And a timer that expires has waited for all of it.
THEOREM GraceComplete == Spec => GraceNotShortened
  <1>1. IndInv /\ [Next]_vars => [firing' \ firing # {} => down >= Grace]_vars
    <2> SUFFICES ASSUME IndInv, Next, firing' \ firing # {} PROVE down >= Grace
      BY DEF vars
    <2>1. CASE TimerExpires
      BY <2>1 DEF TimerExpires, IndInv, TypeOK, GraceClock
    <2>2. CASE \E g \in 1..MaxScopes : CancelWorkers(g)
      BY <2>2 DEF CancelWorkers
    <2>3. CASE ~TimerExpires /\ ~(\E g \in 1..MaxScopes : CancelWorkers(g))
      BY <2>3 DEF Next, DialOk, DialFails, ServeFails, Ack, HeartbeatDue, Unbound, BackoffEnds,
         Stop, Time, Lost, RetryLater, Return
    <2> QED BY <2>1, <2>2, <2>3
  <1> QED BY InitIndInv, NextIndInv, <1>1, PTL DEF Spec, GraceNotShortened

\* The delay waited before a redial is within a fifth of the nominal delay of
\* the attempt that failed, for every history of attempts and draws.
THEOREM BackoffKept == Spec => []BackoffBounded
  <1>1. Init => BackoffBounded
    BY DEF Init, BackoffBounded
  <1>2. IndInv /\ BackoffBounded /\ [Next]_vars => BackoffBounded'
    <2> SUFFICES ASSUME IndInv, BackoffBounded, [Next]_vars PROVE BackoffBounded'
      OBVIOUS
    <2>1. CASE RetryLater
      BY <2>1, RetryBackoff DEF IndInv
    <2>2. CASE ~RetryLater
      <3>1. pc' = "backoff" => pc = "backoff" /\ UNCHANGED <<delay, attempt>>
        BY <2>2 DEF Next, vars, DialOk, DialFails, ServeFails, Ack, HeartbeatDue, Unbound,
           BackoffEnds, Stop, TimerExpires, CancelWorkers, Time, Lost, Return
      <3> QED BY <3>1 DEF BackoffBounded
    <2> QED BY <2>1, <2>2
  <1> QED BY InitIndInv, NextIndInv, <1>1, <1>2, PTL DEF Spec
=============================================================================
