------------------------------ MODULE InputBlock ------------------------------
(***************************************************************************)
(* Remote input in the Windows client (windows/runner/input_block.cpp):    *)
(* the queue of the operator's events, the thread that injects them into   *)
(* the desktop that has the input, the hooks that keep the local user's    *)
(* own input away, and the capture of the screen.                          *)
(*                                                                         *)
(* An event is [kind, key]: a key or mouse button (kVk, kUnicode, kMouse   *)
(* with a button) goes "down" or "up", the mouse makes a "move", or the    *)
(* operator asks for Ctrl+Alt+Del ("sas").  Where the mouse goes and which *)
(* character a key stands for is left out.                                 *)
(***************************************************************************)
EXTENDS Integers, Sequences, SequencesExt, FiniteSets

CONSTANTS
  Keys,        \* keys and buttons of the operator
  Modifiers,   \* those of them ReleaseModifierKeys knows
  LocalKeys,   \* keys of the local user's keyboard
  MaxQueue,    \* 512 in the code
  MaxBacklog,  \* bound of the model: events are sent while fewer are on their way
  BufferSize,  \* bytes a caller of the capture has, the header not counted
  ScreenSizes, \* what a screen may measure: <<width, height>>
  MaxSizes     \* what a caller may ask for at most; a 0 in it: no limit

\* The operator's keys and the local user's are told apart.
ASSUME InputAssumption ==
  /\ "none" \notin Keys \cup LocalKeys /\ Keys \cap LocalKeys = {}
  /\ MaxQueue \in Nat /\ BufferSize \in Nat
  /\ ScreenSizes \subseteq (Nat \ {0}) \X (Nat \ {0}) /\ MaxSizes \subseteq Nat \X Nat

Secure   == {"Winlogon"}             \* IsSecureDesktop
Desktops == {"Default"} \cup Secure
Nothing  == "none"

VARIABLES
  queue,     \* g_input_queue
  pc,        \* DesktopInputWorkerLoop: "off", "wait", "attach", "release" or "send"
  task,      \* the event in its hands, or NoTask
  desk,      \* the desktop its thread is attached to
  secure,    \* IsSecureDesktop of g_last_desktop_name
  unnamed,   \* TRUE: it is another desktop's name, its own could not be read (history)
  scope,     \* g_system_console_allowed
  withdrawn, \* TRUE: scope was taken back since the worker tested it (history)
  inputDesk, \* the desktop that has the input (external)
  pressed,   \* the keys the operator holds
  held,      \* the keys that are down for Windows
  missed,    \* held keys whose release no desktop got (history)
  leaked,    \* TRUE: an event got into a secure desktop unasked (history)
  hook,      \* InputBlockThread: "none", "starting", "set" or "failed"
  blocked,   \* g_blocked
  fingers,   \* the keys the local user holds
  shot       \* the last answer of the capture

queueVars == <<queue, pc>>
deskVars  == <<desk, secure, unnamed>>
scopeVars == <<scope, withdrawn>>
keyVars   == <<pressed, held, missed, leaked>>
hookVars  == <<hook, blocked, fingers>>
inputVars == <<queueVars, task, deskVars, scopeVars, inputDesk, keyVars, hookVars, shot>>

NoTask == [kind |-> Nothing, key |-> Nothing]
Move   == [kind |-> "move", key |-> Nothing]
Sas    == [kind |-> "sas", key |-> Nothing]
Press(k)   == [kind |-> "down", key |-> k]
Release(k) == [kind |-> "up", key |-> k]
NoShot == [code |-> -1, bytes |-> 0, max |-> <<0, 0>>, size |-> <<0, 0>>]

InputInit ==
  /\ queue = <<>> /\ pc = "off" /\ task = NoTask
  /\ desk = Nothing /\ secure = FALSE /\ unnamed = FALSE
  /\ scope = FALSE /\ withdrawn = FALSE
  /\ inputDesk = "Default"
  /\ pressed = {} /\ held = {} /\ missed = {} /\ leaked = FALSE
  /\ hook = "none" /\ blocked = FALSE /\ fingers = {}
  /\ shot = NoShot

-----------------------------------------------------------------------------
(* The queue.                                                              *)

\* What an overflow may drop first, and what not even after that.
IsMove(t) == t.kind = "move"
IsUp(t)   == t.kind = "up"

\* q without the entries at some places, the others in their order.
Without(q, places) ==
  LET kept == 1 .. Len(q) \ places
  IN  [n \in 1 .. Cardinality(kept) |-> q[CHOOSE i \in kept : Cardinality(kept \cap 1 .. i) = n]]

\* q without its oldest entries among some places, as many as it takes to have room for
\* one more, or all of them.
DropOldest(q, places) ==
  Without(q, {i \in places : Cardinality(places \cap 1 .. i) <= Len(q) - MaxQueue + 1})

Moves(q)  == {i \in 1 .. Len(q) : IsMove(q[i])}
NotUps(q) == {i \in 1 .. Len(q) : ~IsUp(q[i])}

\* Mutant: when it must be, the oldest entry goes, whatever it is.
MakeRoomForAll(q) ==
  LET r == DropOldest(q, Moves(q)) IN DropOldest(r, 1 .. Len(r))

\* EnqueueNativeInput at its limit: moves first, then whatever is no release.
MakeRoom(q) ==
  LET r == DropOldest(q, Moves(q)) IN DropOldest(r, NotUps(r))

\* EnqueueNativeInput; the first event starts the worker.
Enqueue(t) ==
  /\ Len(queue) + (IF task = NoTask THEN 0 ELSE 1) < MaxBacklog
  /\ queue' = IF IsMove(t) /\ queue # <<>> /\ IsMove(Last(queue)) THEN queue
              ELSE Append(MakeRoom(queue), t)
  /\ pc' = IF pc = "off" THEN "wait" ELSE pc

\* ligament_send_vk, ligament_send_unicode_char, ligament_send_mouse.
SendKey(k) ==
  /\ IF k \in pressed THEN Enqueue(Release(k)) /\ pressed' = pressed \ {k}
     ELSE Enqueue(Press(k)) /\ pressed' = pressed \cup {k}
  /\ UNCHANGED <<task, deskVars, scopeVars, inputDesk, held, missed, leaked, hookVars, shot>>

\* ligament_send_mouse without a button, ligament_send_sas.
SendOther(t) ==
  /\ Enqueue(t)
  /\ UNCHANGED <<task, deskVars, scopeVars, inputDesk, keyVars, hookVars, shot>>

\* ligament_set_desktop_scope, at any time: it takes no lock.
SetDesktopScope ==
  /\ scope' = ~scope /\ withdrawn' = (scope /\ pc = "send")
  /\ UNCHANGED <<queueVars, task, deskVars, inputDesk, keyVars, hookVars, shot>>

-----------------------------------------------------------------------------
(* The worker.                                                             *)

\* Mutant: off by one, the last event stays until another follows.
TakeButLast ==
  /\ pc = "wait" /\ pc' = "attach"
  /\ \/ Len(queue) > 1 /\ task' = Head(queue) /\ queue' = Tail(queue)
     \/ Len(queue) <= 1 /\ task' = NoTask /\ queue' = queue
  /\ UNCHANGED <<deskVars, scopeVars, inputDesk, keyVars, hookVars, shot>>

\* The wait: an event, or none after 250 ms.
TakeTask ==
  /\ pc = "wait" /\ pc' = "attach"
  /\ \/ queue # <<>> /\ task' = Head(queue) /\ queue' = Tail(queue)
     \/ queue = <<>> /\ task' = NoTask /\ queue' = queue
  /\ UNCHANGED <<deskVars, scopeVars, inputDesk, keyVars, hookVars, shot>>

\* FindActiveInputDesktop: the one with the input where it can be opened, else Default.
FindActiveInputDesktop == {inputDesk, "Default"}

\* AttachCurrentInputDesktop: nothing where the desktop has the input;
\* SetThreadDesktop may fail, and the check comes only every 250 ms.  A name that cannot
\* be read leaves the last one.
AttachCurrentInputDesktop ==
  \/ /\ desk # inputDesk /\ desk' \in FindActiveInputDesktop
     /\ \/ secure' = (desk' \in Secure) /\ unnamed' = FALSE
        \/ unnamed' = (secure # (desk' \in Secure)) /\ UNCHANGED secure
  \/ UNCHANGED deskVars

\* The test of the permission, by what the name of the desktop says, and what follows.
NextFor(t, isSecure) ==
  IF t = NoTask THEN "wait" ELSE IF isSecure /\ ~scope THEN "release" ELSE "send"

\* Mutant: the test comes before the attachment.
AttachAfterCheck ==
  /\ pc = "attach" /\ AttachCurrentInputDesktop /\ pc' = NextFor(task, secure)
  /\ UNCHANGED <<queue, task, scopeVars, inputDesk, keyVars, hookVars, shot>>

\* The test belongs to the same step: only the worker writes the name, and a change of scope
\* between the two is none but one before the attachment.  What follows is a later step.
Attach ==
  /\ pc = "attach" /\ AttachCurrentInputDesktop /\ pc' = NextFor(task, secure')
  /\ UNCHANGED <<queue, task, scopeVars, inputDesk, keyVars, hookVars, shot>>

\* SendInput reaches the desktop of its thread, and that only while it has the input.
Arrives == desk = inputDesk

\* An event of the operator is injected.
Inject(t) ==
  /\ held' = IF ~Arrives THEN held
             ELSE CASE t.kind = "down" -> held \cup {t.key}
                    [] t.kind = "up"   -> held \ {t.key}
                    [] OTHER -> held
  /\ missed' = IF Arrives THEN missed \ {t.key}
               ELSE IF t.kind = "up" THEN missed \cup ({t.key} \cap held) ELSE missed
  /\ leaked' = (leaked \/ (Arrives /\ desk \in Secure /\ ~scope /\ ~withdrawn /\ ~unnamed))

\* ExecuteSendSas, where the permission still holds: SendSAS between setting the policy it
\* needs and restoring it.
ExecuteSendSas == UNCHANGED <<held, missed, leaked>>

\* ReleaseModifierKeys, for an event that may not go to a secure desktop.
Discard(t) ==
  LET freed == IF Arrives THEN Modifiers \cap held ELSE {} IN
  /\ held' = held \ freed
  /\ missed' = (missed \cup (IF t.kind = "up" THEN {t.key} \cap held ELSE {})) \ freed
  /\ UNCHANGED leaked

\* The end of a turn of the loop.
Finish ==
  /\ pc' = "wait" /\ task' = NoTask /\ withdrawn' = FALSE
  /\ UNCHANGED <<queue, deskVars, scope, inputDesk, pressed, hookVars, shot>>

RefuseTask == pc = "release" /\ Discard(task) /\ Finish

\* The event is carried out; scope may have changed since the test.
Execute ==
  /\ pc = "send" /\ Finish
  /\ IF task.kind = "sas" THEN ExecuteSendSas ELSE Inject(task)

WorkerLoop == TakeTask \/ Attach \/ RefuseTask \/ Execute

\* The screen is locked or unlocked, a prompt comes or goes (external).
DesktopSwitches ==
  /\ inputDesk' \in Desktops \ {inputDesk}
  /\ UNCHANGED <<queueVars, task, deskVars, scopeVars, keyVars, hookVars, shot>>

-----------------------------------------------------------------------------
(* The hooks.                                                              *)

\* ligament_install_input_block with EnsureThread: the thread is started once; after
\* 2 s the call goes on without it.
InstallInputBlock ==
  /\ blocked' = TRUE
  /\ hook' \in IF hook = "none" THEN {"none", "starting", "set", "failed"} ELSE {hook}
  /\ UNCHANGED <<queueVars, task, deskVars, scopeVars, inputDesk, keyVars, fingers, shot>>

\* ligament_remove_input_block.
RemoveInputBlock ==
  /\ blocked' = FALSE
  /\ UNCHANGED <<queueVars, task, deskVars, scopeVars, inputDesk, keyVars, hook, fingers, shot>>

\* InputBlockThread sets the hooks, late.
HooksSet ==
  /\ hook = "starting" /\ hook' \in {"set", "failed"}
  /\ UNCHANGED <<queueVars, task, deskVars, scopeVars, inputDesk, keyVars, blocked, fingers, shot>>

\* KeyboardLLProc and MouseLLProc swallow what was not injected.
Swallowed == blocked /\ hook = "set"

\* The local user presses or releases a key (external).
LocalKey(k) ==
  /\ fingers' = IF k \in fingers THEN fingers \ {k} ELSE fingers \cup {k}
  /\ held' = IF Swallowed THEN held ELSE IF k \in fingers THEN held \ {k} ELSE held \cup {k}
  /\ missed' = IF Swallowed /\ k \in fingers THEN missed \cup ({k} \cap held) ELSE missed \ {k}
  /\ UNCHANGED <<queueVars, task, deskVars, scopeVars, inputDesk, pressed, leaked,
                 hook, blocked, shot>>

-----------------------------------------------------------------------------
(* ligament_capture_desktop_rect_bmp.                                      *)

\* The picture keeps its proportions and fits what the caller asked for.
TargetSize(size, max) ==
  LET byWidth == max[1] * size[2] <= max[2] * size[1]
      w == IF byWidth THEN max[1] ELSE (size[1] * max[2]) \div size[2]
      h == IF byWidth THEN (size[2] * max[1]) \div size[1] ELSE max[2]
      AtLeastOne(x) == IF x < 1 THEN 1 ELSE x
  IN  IF max[1] > 0 /\ max[2] > 0 /\ (size[1] > max[1] \/ size[2] > max[2])
      THEN <<AtLeastOne(w), AtLeastOne(h)>> ELSE size

\* Four bytes a pixel.
PixelBytes(size) == 4 * size[1] * size[2]

\* Mutant: the last pixel may lie outside.
TooLargeByMore(size) == PixelBytes(size) - 4 > BufferSize

TooLarge(size) == PixelBytes(size) > BufferSize

\* The codes of what may fail besides: another capture runs (-98), or a step of GDI.
CaptureFailures == {-98, -2, -3, -5, -6, -7}

\* A JPEG that fits is returned, else the bitmap.
EncodeFrame(size, max) ==
  \E jpeg \in {BufferSize \div 2, BufferSize + 1} :
    shot' = [code |-> 0, max |-> max, size |-> size,
             bytes |-> IF jpeg <= BufferSize THEN jpeg ELSE PixelBytes(size)]

CaptureDesktop(size, max) ==
  /\ LET target == TargetSize(size, max) IN
     IF TooLarge(target) THEN shot' = [NoShot EXCEPT !.code = -4]
     ELSE \/ \E c \in CaptureFailures : shot' = [NoShot EXCEPT !.code = c]
          \/ EncodeFrame(target, max)
  /\ UNCHANGED <<queueVars, task, deskVars, scopeVars, inputDesk, keyVars, hookVars>>

-----------------------------------------------------------------------------
(* The three have no state in common but the keys that are down.           *)

InputNext ==
  \/ \E k \in Keys : SendKey(k)
  \/ \E t \in {Move, Sas} : SendOther(t)
  \/ SetDesktopScope \/ WorkerLoop \/ DesktopSwitches

HookNext ==
  \/ InstallInputBlock \/ RemoveInputBlock \/ HooksSet
  \/ \E k \in LocalKeys : LocalKey(k)

CaptureNext == \E size \in ScreenSizes, max \in MaxSizes : CaptureDesktop(size, max)

-----------------------------------------------------------------------------
(* Properties.                                                             *)

\* What is on its way, oldest first, and the places of it that are about a key.
OnItsWay   == <<task>> \o queue
Pending(k) == {i \in 1 .. Len(OnItsWay) : OnItsWay[i].key = k}

\* "only events that are no key-up and no mouse-up are removed" (input_block.cpp:376):
\* a key the operator has let go does not stay down, however full the queue was: the
\* last that is on its way for it is its release; unless the release met a desktop that
\* may not or could not get it.
NoStuckKey ==
  /\ \A k \in Keys \ pressed :
       /\ Pending(k) = {} /\ k \in held => k \in missed
       /\ \A i \in Pending(k) : (\A j \in Pending(k) : j <= i) => IsUp(OnItsWay[i])
  /\ \A k \in LocalKeys \ fingers : k \in held => k \in missed

\* "Interactive session is forbidden from injecting input into Winlogon/secure
\* desktop" (input_block.cpp:332), for the operator's events: one that gets there had the
\* permission when the worker tested it, after it had attached its thread.  Taking it back
\* holds from the next event on; and a desktop whose name cannot be read is not known to be
\* a secure one.
SecureDesktopUntouched == ~leaked

\* A key that was let go is released: the worker gets to it whatever is sent
\* meanwhile.
ReleasedEventually ==
  \A k \in Keys : (k \in held /\ k \notin pressed) ~> (k \notin held \/ k \in pressed \/ k \in missed)

\* A picture that is returned fits the buffer and what was asked for.
CaptureFits ==
  shot.code = 0 =>
    /\ shot.bytes <= BufferSize
    /\ shot.max[1] > 0 /\ shot.max[2] > 0 =>
         shot.size[1] <= shot.max[1] /\ shot.size[2] <= shot.max[2]
=============================================================================
