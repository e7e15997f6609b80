----------------------------- MODULE LinkBridges -----------------------------
(***************************************************************************)
(* The binding of a host: the application hands an enrolment token to the  *)
(* agent service over a named pipe (link_agent_binding_bridge.cpp, served  *)
(* by binding_pipe_windows.go).  The thread that does it waits for the     *)
(* answer without a limit of its own.  It may, because it asks nobody but  *)
(* the running service, which answers or closes the pipe.                  *)
(*                                                                         *)
(* Pids are the processes that may serve a pipe of that name; the service  *)
(* is whichever of Services it runs as at present.                         *)
(***************************************************************************)
EXTENDS Integers

CONSTANTS
  Pids,      \* processes that may serve the pipe
  Services   \* those of them the service manager starts for the service

NoPid == "none"

VARIABLES
  svc,    \* the process of the service while it is running, or NoPid
  busy,   \* busy_: a binding is under way
  bpc,    \* its thread: "idle", "connect", "check", "send", "read" or "finish"
  peer,   \* who serves the pipe it has open, or NoPid
  line    \* that pipe: "none", "open", "asked", "answered" or "broken"

bridgeVars == <<svc, busy, bpc, peer, line>>

BridgeInit ==
  /\ svc \in Services \cup {NoPid} /\ busy = FALSE /\ bpc = "idle" /\ peer = NoPid /\ line = "none"

\* The handler of bindHost; while one binding runs another one is refused.  (A thread that
\* cannot be created ends the program.)
BindHost ==
  /\ ~busy
  /\ busy' = TRUE /\ bpc' = "connect"
  /\ UNCHANGED <<svc, peer, line>>

\* A way out of BindOverNamedPipe: the pipe, if any, is closed.
ToFinish == bpc' = "finish" /\ peer' = NoPid /\ line' = "none"

\* WaitNamedPipeW, 5 s at most, and CreateFileW: whoever serves the name, or nobody.
ConnectPipe ==
  /\ bpc = "connect"
  /\ \/ ToFinish
     \/ \E p \in Pids : bpc' = "check" /\ peer' = p /\ line' = "open"
  /\ UNCHANGED <<svc, busy>>

\* Mutant: a running service is enough.
RunningService(p) == svc # NoPid

\* The service manager says that the service runs, as this process.
TrustedService(p) == svc # NoPid /\ p = svc

\* A query that fails, another account than LocalSystem and another session than 0 count as a
\* refusal.
CheckServer ==
  /\ bpc = "check"
  /\ \/ TrustedService(peer) /\ bpc' = "send" /\ UNCHANGED <<peer, line>>
     \/ ToFinish
  /\ UNCHANGED <<svc, busy>>

\* The request is written, unless the pipe is broken meanwhile; the service may have answered
\* already that none came.
WriteRequest ==
  /\ bpc = "send"
  /\ \/ line # "broken" /\ bpc' = "read" /\ line' = (IF line = "open" THEN "asked" ELSE line)
        /\ UNCHANGED peer
     \/ ToFinish
  /\ UNCHANGED <<svc, busy>>

\* ReadFile returns with the answer, whatever it says, or at the end of the pipe.
ReadAnswer ==
  /\ bpc = "read" /\ line \in {"answered", "broken"} /\ ToFinish
  /\ UNCHANGED <<svc, busy>>

\* The end of the thread: the next binding is let in, and then the caller hears.
SettleBinding ==
  /\ bpc = "finish" /\ bpc' = "idle" /\ busy' = FALSE
  /\ UNCHANGED <<svc, peer, line>>

BindStep == ConnectPipe \/ CheckServer \/ WriteRequest \/ ReadAnswer \/ SettleBinding

-----------------------------------------------------------------------------
\* ServeOneBindingPipe: whatever becomes of a request, and also if none comes in 30 s, an
\* answer is written, if it can be, and the pipe is disconnected; what the client has not
\* read by then is lost.  The end of the process does as much.
ServeOneBindingPipe ==
  /\ \/ line \in {"open", "asked"} /\ line' \in {"answered", "broken"}
     \/ line = "answered" /\ line' = "broken"
  /\ UNCHANGED <<svc, busy, bpc, peer>>

\* Another process that serves the name does what it likes (external).
OtherServes ==
  /\ peer \in Pids \ Services /\ line \in {"open", "asked", "answered"}
  /\ line' \in {"answered", "broken"}
  /\ UNCHANGED <<svc, busy, bpc, peer>>

\* The service is stopped, or started as a new process (external).
ServiceChanges ==
  /\ svc' \in (Services \cup {NoPid}) \ {svc}
  /\ UNCHANGED <<busy, bpc, peer, line>>

ServiceAnswers == peer \in Services /\ ServeOneBindingPipe

BridgeNext == BindHost \/ BindStep \/ ServiceAnswers \/ OtherServes \/ ServiceChanges

-----------------------------------------------------------------------------
\* A binding ends, and the next one is let in, although the read of the answer
\* (link_agent_binding_bridge.cpp:166) has no time-out: also when the service is stopped or
\* replaced in the middle, and when another process serves its name and never answers.
BindingSettles == busy ~> ~busy
=============================================================================
