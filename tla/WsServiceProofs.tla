--------------------------- MODULE WsServiceProofs ---------------------------
(***************************************************************************)
(* Safety of the push connection for any number of logins, relays, servers *)
(* that are up, and channels of earlier generations that still report.     *)
(*                                                                         *)
(* Everything rests on one fact about generations: the number of a new     *)
(* channel is one that no channel, timer or login still refers to.  So a   *)
(* current channel belongs to the present login (Ours), and a channel and  *)
(* a reconnect timer never coexist (OneWayOn).                             *)
(***************************************************************************)
EXTENDS WsService, TLAPS

\* A channel in use is that of the present generation, of the present login.
Ours ==
  /\ channel # None => channel = generation
  /\ \A c \in channels : c.gen = generation => c.session = session

\* While a timer or a channel waits the client has candidates, and there is
\* one of the two only.
OneWayOn ==
  /\ timer # None => channel = None
  /\ timer # None \/ channel # None => total > 0
  /\ total > 0 => session > 0

Inv == TypeOK /\ Ours /\ OneWayOn /\ NeverStranded /\ StoppedIsSilent /\ NoForeignMessage

\* A new generation is one that nothing refers to.
LEMMA FreshUnused == ASSUME Unused # {} PROVE Fresh \in Unused
BY DEF Fresh

\* The index of a candidate stays a number.
LEMMA RemainderIsNat == ASSUME NEW a \in Nat, NEW n \in Nat, n > 0 PROVE a % n \in Nat
OBVIOUS

\* The backoff counter keeps its cap.
LEMMA BoundedInRange == ASSUME NEW n \in Nat PROVE Bounded(n) \in 0..MaxAttempt
BY WsAssumption DEF Bounded

\* A client that was never connected.
LEMMA InitInv == ASSUME Init PROVE Inv
<1>1. TypeOK
  <2>1. wasReady \in BOOLEAN
    BY Zenon DEF Init
  <2>2. 0 \in 0..MaxAttempt
    BY WsAssumption
  <2>3. generation \in Generations /\ attempt \in 0..MaxAttempt
    BY <2>2, WsAssumption, Zenon DEF Init
  <2>4. /\ total \in Nat /\ session \in Nat /\ index \in Nat
        /\ channels \subseteq Channel /\ handled \subseteq 1..session
        /\ {channel, stable, timer} \subseteq Generations \cup {None}
        /\ stopped \in {"no", "disposed", "unauthorized"}
    BY DEF Init
  <2> QED BY <2>1, <2>3, <2>4 DEF TypeOK
<1>2. Ours /\ OneWayOn /\ NeverStranded /\ StoppedIsSilent /\ NoForeignMessage
  BY DEF Init, Ours, OneWayOn, NeverStranded, StoppedIsSilent, NoForeignMessage
<1> QED BY <1>1, <1>2 DEF Inv

\* What an attempt leaves behind: a channel of a new generation, or a timer.
LEMMA CandidateStep ==
  ASSUME TypeOK, NEW g \in Generations, NEW i \in Nat, NEW a \in 0..MaxAttempt,
         total' \in Nat, total' > 0, session' \in Nat, session' > 0, session' >= session,
         ConnectCandidate(g, i, a)
  PROVE  /\ generation' \in Generations \cap ({g} \cup Unused)
         /\ wasReady' \in BOOLEAN /\ attempt' \in 0..MaxAttempt /\ index' \in Nat
         /\ channels' \subseteq Channel'
         /\ \/ /\ channel' = None /\ timer' = generation' /\ channels' = channels
            \/ /\ channel' = generation' /\ timer' = None
               /\ generation' \in Unused
               /\ \E c \in channels' : /\ c.gen = generation' /\ c.session = session'
                                       /\ channels' = channels \cup {c}
<1>1. Fresh \in Unused /\ Fresh \in Generations
  BY FreshUnused DEF ConnectCandidate, Unused
<1>2. channels \subseteq Channel'
  BY DEF TypeOK, Channel
<1>3. (i + 1) % total' \in Nat /\ Bounded(a + 1) \in 0..MaxAttempt
  <2>1. i + 1 \in Nat /\ a + 1 \in Nat
    BY WsAssumption
  <2> QED BY <2>1, RemainderIsNat, BoundedInRange
<1>4. CASE channels' = channels /\ wasReady' = wasReady /\ channel' = None
           /\ generation' \in {g, Fresh} /\ ScheduleReconnect(1, generation', i, a)
  BY <1>1, <1>2, <1>3, <1>4 DEF ScheduleReconnect, TypeOK
<1>5. CASE /\ generation' = Fresh /\ channel' = Fresh /\ wasReady' = FALSE
           /\ channels' = channels \cup {[gen |-> Fresh, cand |-> i, session |-> session',
                                          state |-> "connecting"]}
           /\ index' = i /\ attempt' = a /\ timer' = None
  <2> DEFINE c == [gen |-> Fresh, cand |-> i, session |-> session', state |-> "connecting"]
  <2>1. c \in Channel' /\ c.gen = Fresh /\ c.session = session'
    BY <1>1 DEF Channel
  <2> QED BY <1>1, <1>2, <1>5, <2>1
<1> QED BY <1>4, <1>5 DEF ConnectCandidate

\* A login: all that was before belongs to earlier generations.
LEMMA ConnectStep == ASSUME Inv, NEW n \in Relays, Connect(n) PROVE Inv'
<1>1. /\ session' = session + 1 /\ session' \in Nat /\ session' > 0 /\ session' >= session
      /\ total' \in Nat /\ total' > 0
  BY WsAssumption DEF Connect, Inv, TypeOK
<1>2. Fresh \in Unused /\ Fresh \in Generations
  BY FreshUnused DEF Connect, ConnectCandidate, Unused
<1>3. 0 \in 0..MaxAttempt
  BY WsAssumption
<1>4. /\ generation' \in Unused /\ generation' \in Generations
      /\ wasReady' \in BOOLEAN /\ attempt' \in 0..MaxAttempt /\ index' \in Nat
      /\ channels' \subseteq Channel'
      /\ \/ channel' = None /\ timer' = generation' /\ channels' = channels
         \/ /\ channel' = generation' /\ timer' = None
            /\ \E c \in channels' : /\ c.gen = generation' /\ c.session = session'
                                    /\ channels' = channels \cup {c}
  BY <1>1, <1>2, <1>3, CandidateStep DEF Connect, Inv
<1>5. stopped' = "no" /\ stable' = None /\ handled' = {}
  BY DEF Connect
<1>6. TypeOK'
  BY <1>1, <1>4, <1>5 DEF TypeOK
<1>7. Ours'
  BY <1>4 DEF Ours, Unused
<1>8. generation' # None
  BY <1>4, WsAssumption DEF None
<1>9. OneWayOn' /\ NeverStranded' /\ StoppedIsSilent' /\ NoForeignMessage'
  BY <1>1, <1>4, <1>5, <1>8 DEF OneWayOn, NeverStranded, StoppedIsSilent, NoForeignMessage, IsCurrent
<1> QED BY <1>6, <1>7, <1>9 DEF Inv

\* A logout leaves neither channel nor timer.
LEMMA DisconnectStep == ASSUME Inv, Disconnect PROVE Inv'
<1>1. Fresh \in Unused /\ Fresh \in Generations
  BY FreshUnused DEF Disconnect, Unused
<1>2. TypeOK'
  BY <1>1 DEF Disconnect, Inv, TypeOK, Channel
<1>3. Ours' /\ OneWayOn'
  BY <1>1 DEF Disconnect, Ours, OneWayOn, Unused
<1>4. NeverStranded' /\ StoppedIsSilent' /\ NoForeignMessage'
  BY DEF Disconnect, NeverStranded, StoppedIsSilent, NoForeignMessage
<1> QED BY <1>2, <1>3, <1>4 DEF Inv

\* The reconnect timer: a new attempt, or nothing where it is out of date.
LEMMA TimerStep == ASSUME Inv, TimerFires PROVE Inv'
<1>0. /\ UNCHANGED <<total, stopped, stable, session, handled>>
      /\ timer # None
  BY DEF TimerFires
<1>1. CASE stopped = "no" /\ generation = timer
  <2>1. ConnectCandidate(generation, index, attempt) /\ total > 0
    BY <1>0, <1>1 DEF TimerFires, Inv, OneWayOn
  <2>2. session > 0
    BY <2>1 DEF Inv, OneWayOn
  <2>3. /\ generation' \in Generations /\ (generation' = generation \/ generation' \in Unused)
        /\ wasReady' \in BOOLEAN /\ attempt' \in 0..MaxAttempt /\ index' \in Nat
        /\ channels' \subseteq Channel'
        /\ \/ channel' = None /\ timer' = generation' /\ channels' = channels
           \/ /\ channel' = generation' /\ timer' = None
              /\ generation' \in Unused
              /\ \E c \in channels' : /\ c.gen = generation' /\ c.session = session'
                                      /\ channels' = channels \cup {c}
    BY <1>0, <2>1, <2>2, CandidateStep DEF Inv, TypeOK
  <2>4. TypeOK'
    BY <1>0, <2>3 DEF Inv, TypeOK
  <2>5. Ours'
    BY <1>0, <2>3 DEF Inv, Ours, Unused
  <2>6. generation' # None
    BY <2>3, WsAssumption DEF None
  <2>7. OneWayOn' /\ NeverStranded' /\ StoppedIsSilent' /\ NoForeignMessage'
    BY <1>0, <1>1, <2>1, <2>3, <2>6
       DEF Inv, OneWayOn, NeverStranded, StoppedIsSilent, NoForeignMessage, IsCurrent
  <2> QED BY <2>4, <2>5, <2>7 DEF Inv
<1>2. CASE ~(stopped = "no" /\ generation = timer)
  BY <1>0, <1>2 DEF TimerFires, Inv, TypeOK, Channel, Ours, OneWayOn, NeverStranded,
     StoppedIsSilent, NoForeignMessage, IsCurrent
<1> QED BY <1>1, <1>2

\* A report of a channel that is over: the others stay what they were, and it
\* keeps its generation where it reports again.
LEMMA DropStep ==
  ASSUME Inv, NEW c \in channels, Drop(c)
  PROVE  /\ channels' \subseteq Channel' /\ channels \ {c} \subseteq channels'
         /\ \A d \in channels' : \E e \in channels : d.gen = e.gen /\ d.session = e.session
         /\ generation' = generation /\ total' = total /\ session' = session
         /\ wasReady' = wasReady /\ handled' = handled
         /\ IsCurrent(c) => /\ channel' = None /\ stable' = None /\ stopped = "no"
                            /\ timer = None /\ total > 0
         /\ ~IsCurrent(c) => channel' = channel /\ stable' = stable
<1>1. c.gen \in Generations /\ c.gen # None
  BY WsAssumption DEF Inv, TypeOK, Channel, None
<1>2. IsCurrent(c) => stopped = "no" /\ timer = None /\ total > 0
  BY <1>1 DEF IsCurrent, Inv, StoppedIsSilent, OneWayOn, TypeOK
<1> DEFINE again == [c EXCEPT !.state = "over"]
<1>3. again \in Channel /\ again.gen = c.gen /\ again.session = c.session
  BY DEF Inv, TypeOK, Channel
<1>4. channels' \subseteq channels \cup {again} /\ channels \ {c} \subseteq channels'
  BY DEF Drop
<1> HIDE DEF again
<1>5. session' = session
  BY DEF Drop
<1>6. channels' \subseteq Channel'
  BY <1>3, <1>4, <1>5 DEF Inv, TypeOK, Channel
<1>7. \A d \in channels' : \E e \in channels : d.gen = e.gen /\ d.session = e.session
  BY <1>3, <1>4
<1> QED BY <1>2, <1>4, <1>6, <1>7 DEF Drop

\* A channel reports its end: a current one leaves a timer behind or stops the client.
LEMMA EndStep ==
  ASSUME Inv, NEW c \in channels, HandshakeFails(c) \/ Unauthorized(c) \/ Lost(c)
  PROVE  Inv'
<1>0. Drop(c)
  BY DEF HandshakeFails, Unauthorized, Lost
<1>1. generation # None
  BY WsAssumption DEF Inv, TypeOK, None
<1>2. CASE ~IsCurrent(c)
  <2>1. Stay
    BY <1>2 DEF HandshakeFails, Unauthorized, Lost
  <2>2. TypeOK'
    BY <1>0, <1>2, <2>1, DropStep DEF Stay, Inv, TypeOK
  <2>3. Ours' /\ OneWayOn' /\ StoppedIsSilent' /\ NoForeignMessage'
    BY <1>0, <1>2, <2>1, DropStep DEF Stay, Inv, Ours, OneWayOn, StoppedIsSilent, NoForeignMessage
  <2>4. NeverStranded'
    BY <1>0, <1>2, <2>1, DropStep DEF Stay, Inv, NeverStranded, IsCurrent
  <2> QED BY <2>2, <2>3, <2>4 DEF Inv
<1>3. CASE IsCurrent(c) /\ Unauthorized(c)
  <2>1. stopped' = "unauthorized" /\ timer' = None /\ index' = index /\ attempt' = attempt
    BY <1>3 DEF Unauthorized
  <2>2. TypeOK'
    BY <1>0, <1>3, <2>1, DropStep DEF Inv, TypeOK
  <2>3. Ours' /\ OneWayOn' /\ StoppedIsSilent' /\ NoForeignMessage' /\ NeverStranded'
    BY <1>0, <1>3, <2>1, DropStep
       DEF Inv, Ours, OneWayOn, StoppedIsSilent, NoForeignMessage, NeverStranded
  <2> QED BY <2>2, <2>3 DEF Inv
<1>4. CASE IsCurrent(c) /\ ~Unauthorized(c)
  <2>1. PICK k \in {0, 1} : stopped' = stopped /\ ScheduleReconnect(k, generation, index, attempt)
    BY <1>4 DEF HandshakeFails, Lost
  <2>2. timer' = generation /\ index' = (index + k) % total' /\ attempt' = Bounded(attempt + 1)
    BY <2>1 DEF ScheduleReconnect
  <2>3. index + k \in Nat /\ attempt + 1 \in Nat /\ total' \in Nat /\ total' > 0
    BY <1>0, <1>4, DropStep, WsAssumption DEF Inv, TypeOK
  <2>4. index' \in Nat /\ attempt' \in 0..MaxAttempt
    BY <2>2, <2>3, RemainderIsNat, BoundedInRange
  <2>5. TypeOK'
    BY <1>0, <1>4, <2>1, <2>2, <2>4, DropStep DEF Inv, TypeOK
  <2>6. Ours' /\ OneWayOn' /\ StoppedIsSilent' /\ NoForeignMessage' /\ NeverStranded'
    BY <1>0, <1>1, <1>4, <2>1, <2>2, DropStep
       DEF Inv, Ours, OneWayOn, StoppedIsSilent, NoForeignMessage, NeverStranded
  <2> QED BY <2>5, <2>6 DEF Inv
<1> QED BY <1>2, <1>3, <1>4

\* The handshake of a channel.
LEMMA ReadyStep == ASSUME Inv, NEW c \in channels, Ready(c) PROVE Inv'
<1> DEFINE d == [c EXCEPT !.state = "ready"]
<1>1. d \in Channel /\ d.gen = c.gen /\ d.session = c.session
  BY DEF Inv, TypeOK, Channel
<1>2. /\ UNCHANGED <<generation, channel, total, stopped, index, timer, session, handled>>
      /\ channels' = (channels \ {c}) \cup {d}
  BY DEF Ready
<1>3. wasReady' \in BOOLEAN
  BY Zenon DEF Ready, Inv, TypeOK
<1>4. /\ attempt' \in 0..MaxAttempt
      /\ stable' = stable \/ (IsCurrent(c) /\ stable' = c.gen)
  <2>1. attempt' \in {0, attempt} /\ (stable' = stable \/ (IsCurrent(c) /\ stable' = c.gen))
    BY Zenon DEF Ready
  <2> QED BY <2>1, WsAssumption DEF Inv, TypeOK
<1>5. c.gen \in Generations /\ c.gen # None
  BY WsAssumption DEF Inv, TypeOK, Channel, None
<1> HIDE DEF d
<1>6. TypeOK'
  BY <1>1, <1>2, <1>3, <1>4, <1>5 DEF Inv, TypeOK, Channel
<1>7. Ours' /\ OneWayOn' /\ NoForeignMessage'
  BY <1>1, <1>2 DEF Inv, Ours, OneWayOn, NoForeignMessage
<1>8. NeverStranded'
  BY <1>1, <1>2 DEF Inv, NeverStranded, IsCurrent
<1>9. StoppedIsSilent'
  BY <1>2, <1>4, <1>5 DEF Inv, StoppedIsSilent, IsCurrent
<1> QED BY <1>6, <1>7, <1>8, <1>9 DEF Inv

\* A message of a channel is handled only where the channel is current.
LEMMA MessageStep == ASSUME Inv, NEW c \in channels, Message(c) PROVE Inv'
<1>1. UNCHANGED <<generation, channel, channels, total, stopped, wasReady, attempt, index,
                  timer, stable, session>>
  BY DEF Message
<1>2. handled' = handled \/ (IsCurrent(c) /\ handled' = handled \cup {c.session})
  BY DEF Message
<1>3. IsCurrent(c) => c.session = session /\ stopped # "disposed"
  BY DEF IsCurrent, Inv, Ours
<1>4. c.session \in 1..session
  BY DEF Inv, TypeOK, Channel
<1>5. TypeOK'
  BY <1>1, <1>2, <1>4 DEF Inv, TypeOK, Channel
<1>6. Ours' /\ OneWayOn' /\ NeverStranded' /\ StoppedIsSilent'
  BY <1>1 DEF Inv, Ours, OneWayOn, NeverStranded, StoppedIsSilent, IsCurrent
<1>7. NoForeignMessage'
  BY <1>1, <1>2, <1>3 DEF Inv, NoForeignMessage
<1> QED BY <1>5, <1>6, <1>7 DEF Inv

\* The stability timer, and steps of others.
LEMMA ResetStep == ASSUME Inv, StableReset \/ UNCHANGED vars PROVE Inv'
<1>1. /\ UNCHANGED <<generation, channel, channels, total, stopped, wasReady, timer, session,
                     handled>>
      /\ stable' \in {None, stable}
      /\ attempt' \in {0, attempt} /\ index' \in {0, index}
  BY DEF StableReset, vars
<1>2. TypeOK'
  BY <1>1, WsAssumption DEF Inv, TypeOK, Channel
<1>3. Ours' /\ OneWayOn' /\ NeverStranded' /\ StoppedIsSilent' /\ NoForeignMessage'
  BY <1>1 DEF Inv, Ours, OneWayOn, NeverStranded, StoppedIsSilent, NoForeignMessage, IsCurrent
<1> QED BY <1>2, <1>3 DEF Inv

\* The invariant of the push connection.
LEMMA InductiveInvariant == Spec => []Inv
<1>1. Inv /\ [Next]_vars => Inv'
  BY ConnectStep, DisconnectStep, TimerStep, EndStep, ReadyStep, MessageStep, ResetStep DEF Next
<1> QED BY InitInv, <1>1, PTL DEF Spec

\* Type correctness: the backoff counter keeps its cap, and no channel, timer
\* or message refers to a generation or a login that does not exist.
THEOREM TypeCorrect == Spec => []TypeOK
BY InductiveInvariant, PTL DEF Inv

\* Whatever channels report, in whatever order and however often, a client that
\* is logged in has a channel that will report or a timer that will fire, and
\* after disconnect or a refused token no channel and no timer is in use.
THEOREM AlwaysUnderWay == Spec => []WaysOn
BY InductiveInvariant, PTL DEF Inv, WaysOn

\* The callbacks of a login never get a message of an earlier one.
THEOREM OwnMessagesOnly == Spec => []NoForeignMessage
BY InductiveInvariant, PTL DEF Inv
=============================================================================
