------------------------------ MODULE WsService ------------------------------
(***************************************************************************)
(* The push connection of the client (ws_service.dart).                    *)
(*                                                                         *)
(* Dart runs one callback at a time, so every callback is one action.      *)
(* What can go wrong is their order: channels that were given up go on     *)
(* reporting, timers outlive what they were set for, and login and logout  *)
(* come in between.                                                        *)
(***************************************************************************)
EXTENDS Integers, FiniteSets

CONSTANTS
  Relays,       \* numbers of relays the client may be given
  Insecure,     \* candidates whose URL is not https (0 is the primary)
  Up,           \* candidates that answer a handshake
  MaxAttempt,   \* bound: the backoff counter, beyond which the delay is the same
  Generations,  \* bound: generations in use at once, so channels that can still report
  MaxSessions   \* bound: calls of connect

ASSUME WsAssumption ==
  /\ Relays \subseteq Nat /\ Insecure \subseteq Nat /\ Up \subseteq Nat
  /\ MaxAttempt \in Nat \ {0} /\ MaxSessions \in Nat
  /\ 0 \in Generations /\ Generations \subseteq Nat

None == -1

VARIABLES
  generation,  \* _generation: only compared, so a number is used again when it is free
  channel,     \* _channel: the generation of the current channel, or None
  channels,    \* channels that can still report: [gen, cand, session, state],
               \* "over" between the two reports of a failed handshake
  total,       \* candidates: 0 after disconnect, else 1 + relays
  stopped,     \* "no", "disposed" or "unauthorized" (_disposed, _authFailed)
  wasReady,    \* _wasReady
  attempt,     \* _backoff._attempt
  index,       \* _attemptIndex, modulo total
  timer,       \* generation for which _reconnectTimer is set, or None
  stable,      \* channel for which _stableResetTimer is set, or None
  session,     \* number of the last connect (the token)
  handled      \* sessions whose messages the callbacks got since connect

vars == <<generation, channel, channels, total, stopped, wasReady, attempt, index,
          timer, stable, session, handled>>

Init ==
  /\ generation = 0 /\ channel = None /\ channels = {}
  /\ total = 0 /\ stopped = "no" /\ wasReady = FALSE
  /\ attempt = 0 /\ index = 0 /\ timer = None /\ stable = None
  /\ session = 0 /\ handled = {}

-----------------------------------------------------------------------------
\* The counter of ReconnectBackoff: beyond the bound the delay is the cap.
Bounded(n) == IF n > MaxAttempt THEN MaxAttempt ELSE n

\* Mutant: only a lost connection sets the timer.
ScheduleReconnectForgotten(advance, gen, i, a) ==
  /\ timer' = IF advance = 1 THEN timer ELSE gen
  /\ index' = (i + advance) % total'
  /\ attempt' = Bounded(a + 1)

\* _scheduleReconnect for generation gen, from index i and counter a.
ScheduleReconnect(advance, gen, i, a) ==
  /\ timer' = gen
  /\ index' = (i + advance) % total'
  /\ attempt' = Bounded(a + 1)

Unused == Generations \ ({generation, timer, stable} \cup {c.gen : c \in channels})
Fresh == CHOOSE g \in Unused : TRUE

\* _connectCandidate with index i and counter a; gen is the generation until
\* a channel is opened.  An insecure URL is skipped; the factory opens a
\* channel or throws.
ConnectCandidate(gen, i, a) ==
  /\ Unused # {}
  /\ \/ /\ i \in Insecure
        /\ generation' = gen /\ channel' = None
        /\ ScheduleReconnect(1, gen, i, a)
        /\ UNCHANGED <<channels, wasReady>>
     \/ /\ i \notin Insecure
        /\ generation' = Fresh /\ channel' = Fresh
        /\ channels' = channels \cup {[gen |-> Fresh, cand |-> i, session |-> session',
                                       state |-> "connecting"]}
        /\ wasReady' = FALSE
        /\ index' = i /\ attempt' = a /\ timer' = None
     \/ /\ i \notin Insecure
        /\ generation' = Fresh /\ channel' = None
        /\ ScheduleReconnect(1, Fresh, i, a)
        /\ UNCHANGED <<channels, wasReady>>

\* connect, by _setupServices after a login with n relays.
Connect(n) ==
  /\ session < MaxSessions
  /\ session' = session + 1
  /\ total' = n + 1 /\ stopped' = "no"
  /\ ConnectCandidate(Fresh, 0, 0)
  /\ stable' = None /\ handled' = {}

\* disconnect, by logout, a cancelled login or the end of the program.
Disconnect ==
  /\ Unused # {}
  /\ stopped' = "disposed"
  /\ generation' = Fresh /\ channel' = None
  /\ total' = 0 /\ timer' = None /\ stable' = None /\ handled' = {}
  /\ UNCHANGED <<channels, wasReady, attempt, index, session>>

TimerFires ==
  /\ timer # None
  /\ UNCHANGED <<total, stopped, stable, session, handled>>
  /\ IF stopped = "no" /\ generation = timer
     THEN ConnectCandidate(generation, index, attempt)
     ELSE /\ timer' = None
          /\ UNCHANGED <<generation, channel, channels, wasReady, attempt, index>>

-----------------------------------------------------------------------------
(* Reports of channel c.                                                   *)

\* Mutant: a channel that was given up counts until another is opened.
IsCurrentByGeneration(c) == stopped # "disposed" /\ generation = c.gen

IsCurrent(c) == stopped # "disposed" /\ generation = c.gen /\ channel = c.gen

Ready(c) ==
  /\ c.state = "connecting" /\ c.cand \in Up
  /\ channels' = (channels \ {c}) \cup {[c EXCEPT !.state = "ready"]}
  /\ IF IsCurrent(c)
     THEN /\ wasReady' = TRUE /\ attempt' = 0
          /\ stable' = c.gen
     ELSE UNCHANGED <<wasReady, attempt, stable>>
  /\ UNCHANGED <<generation, channel, total, stopped, index, timer, session, handled>>

\* What the callbacks for a channel that is over do first.  A handshake that
\* fails is reported by ready and then by the stream; other ends only once.
Drop(c) ==
  /\ channels' = (channels \ {c}) \cup
                   {[c EXCEPT !.state = "over"] : s \in {c.state} \cap {"connecting"}}
  /\ IF IsCurrent(c)
     THEN channel' = None /\ stable' = None
     ELSE UNCHANGED <<channel, stable>>
  /\ UNCHANGED <<generation, total, wasReady, session, handled>>

Stay == UNCHANGED <<timer, index, attempt, stopped>>

\* Mutant: a candidate that cannot be reached is tried again.
HandshakeFailsStays(c) ==
  /\ c.state = "connecting"
  /\ Drop(c)
  /\ IF IsCurrent(c)
     THEN UNCHANGED stopped /\ ScheduleReconnect(0, generation, index, attempt)
     ELSE Stay

\* The handshake fails: the next candidate's turn.
HandshakeFails(c) ==
  /\ c.state = "connecting"
  /\ Drop(c)
  /\ IF IsCurrent(c)
     THEN UNCHANGED stopped /\ ScheduleReconnect(1, generation, index, attempt)
     ELSE Stay

\* 401: no more connections until the next login.
Unauthorized(c) ==
  /\ c.state = "connecting" /\ c.cand \in Up
  /\ Drop(c)
  /\ IF IsCurrent(c)
     THEN stopped' = "unauthorized" /\ timer' = None /\ UNCHANGED <<index, attempt>>
     ELSE Stay

\* onDone and onError: an established connection ends (the same candidate
\* again), or the stream of a failed handshake reports as well.
Lost(c) ==
  /\ c.state \in {"ready", "over"}
  /\ Drop(c)
  /\ IF IsCurrent(c)
     THEN /\ UNCHANGED stopped
          /\ ScheduleReconnect(IF wasReady THEN 0 ELSE 1, generation, index, attempt)
     ELSE Stay

\* _handleMessage.
Message(c) ==
  /\ c.state = "ready"
  /\ handled' = IF IsCurrent(c) THEN handled \cup {c.session} ELSE handled
  /\ UNCHANGED <<generation, channel, channels, total, stopped, wasReady, attempt,
                 index, timer, stable, session>>

\* Sixty seconds of a connection: start from the primary again.
StableReset ==
  /\ stable # None
  /\ stable' = None
  /\ IF stopped # "disposed" /\ channel = stable
     THEN attempt' = 0 /\ index' = 0
     ELSE UNCHANGED <<attempt, index>>
  /\ UNCHANGED <<generation, channel, channels, total, stopped, wasReady, timer, session,
                 handled>>

-----------------------------------------------------------------------------
Next ==
  \/ \E n \in Relays : Connect(n)
  \/ Disconnect \/ TimerFires \/ StableReset
  \/ \E c \in channels :
       Ready(c) \/ HandshakeFails(c) \/ Unauthorized(c) \/ Lost(c) \/ Message(c)

Spec == Init /\ [][Next]_vars

\* Timers fire, every handshake and every closed channel ends.  The assumption
\* on the network: a candidate that is up is opened and answers when it is
\* tried again and again.
Fairness ==
  /\ WF_vars(TimerFires)
  /\ \A i \in Up : SF_vars(TimerFires /\ index = i /\ channel' # None)
  /\ WF_vars(\E c \in channels : Ready(c) \/ HandshakeFails(c) \/ Unauthorized(c))
  /\ WF_vars(\E c \in channels : ~IsCurrent(c) /\ Lost(c))
  /\ SF_vars(\E c \in channels : IsCurrent(c) /\ Ready(c))

FairSpec == Spec /\ Fairness

-----------------------------------------------------------------------------
Channel == [gen : Generations, cand : Nat, session : 1..session,
            state : {"connecting", "ready", "over"}]

\* The types of the fields.
TypeOK ==
  /\ generation \in Generations /\ total \in Nat /\ session \in Nat
  /\ channels \subseteq Channel
  /\ {channel, stable, timer} \subseteq Generations \cup {None}
  /\ stopped \in {"no", "disposed", "unauthorized"}
  /\ wasReady \in BOOLEAN
  /\ attempt \in 0..MaxAttempt /\ index \in Nat
  /\ handled \subseteq 1..session

\* While the user is logged in there is always a channel that will report or
\* a timer that will fire for the present generation: the client never sits
\* there offline without trying.
NeverStranded ==
  total > 0 /\ stopped = "no" =>
    \/ \E c \in channels : IsCurrent(c)
    \/ channel = None /\ timer = generation

\* After logout or a refused token nothing is left that could connect, and
\* whoever opened a channel before is ignored.
StoppedIsSilent ==
  stopped # "no" => channel = None /\ timer = None /\ stable = None

\* Whatever the channels report, and however often, a client that is logged in
\* has exactly the means to go on, and one that is not has none: the second
\* report of a failed handshake sets no timer after a logout or a 401.
WaysOn == NeverStranded /\ StoppedIsSilent

\* The callbacks get messages of the present login only, however late the
\* channels of earlier ones report.
NoForeignMessage == handled \subseteq {session} /\ (stopped = "disposed" => handled = {})

\* An unreachable primary does not keep the client offline while a relay of
\* its login is up.
ConnectedAgain ==
  LET CanConnect == stopped = "no" /\ \E i \in Up : i < total
  IN  CanConnect ~> (~CanConnect \/ \E c \in channels : IsCurrent(c) /\ c.state = "ready")
=============================================================================
