---------------------------- MODULE WindowsRunner ----------------------------
(***************************************************************************)
(* The native side of the Windows client (windows/runner): starting, the   *)
(* diagnostic log, the binding of a host, remote input and the capture of  *)
(* the screen.  They share no variable, so a behaviour follows             *)
(* one of them, chosen at its beginning, and the others stand still: what  *)
(* holds of each part in every behaviour of its own holds of any           *)
(* interleaving with the others.                                           *)
(***************************************************************************)
EXTENDS InputBlock, DebugLog, RunnerStart, LinkBridges

\* "ws" stands for the parts of the client that are not native.
Parts == {"input", "hooks", "capture", "log", "start", "bridges", "ws"}

VARIABLE part

runnerVars == <<part, inputVars, logVars, startVars, bridgeVars>>

\* A part that stands still begins in one state: which does not matter.
RunnerInit ==
  /\ part \in Parts /\ InputInit /\ LogInit /\ StartInit /\ BridgeInit
  /\ part # "log" => ~isWorker /\ parentAcl = "readable" /\ logsAcl = "private"
  /\ part # "bridges" => svc = NoPid

othersOfInput  == <<part, logVars, startVars, bridgeVars>>
othersOfLog    == <<part, inputVars, startVars, bridgeVars>>
othersOfStart  == <<part, inputVars, logVars, bridgeVars>>
othersOfBridge == <<part, inputVars, logVars, startVars>>

\* One part moves.
RunnerNext ==
  \/ part = "input" /\ InputNext /\ UNCHANGED othersOfInput
  \/ part = "hooks" /\ HookNext /\ UNCHANGED othersOfInput
  \/ part = "capture" /\ CaptureNext /\ UNCHANGED othersOfInput
  \/ part = "log" /\ LogNext /\ UNCHANGED othersOfLog
  \/ part = "start" /\ StartNext /\ UNCHANGED othersOfStart
  \/ part = "bridges" /\ BridgeNext /\ UNCHANGED othersOfBridge

RunnerSpec == RunnerInit /\ [][RunnerNext]_runnerVars

\* Threads that can run do: the worker of the input queue, every process that starts, the
\* thread of a binding, and the service, which ends every request or ends itself.  Nothing is
\* assumed of the operator, of the user, of the desktop or of another process's pipe.
WorkerRuns   == part = "input" /\ WorkerLoop /\ UNCHANGED othersOfInput
StartRuns(p) == part = "start" /\ StartStep(p) /\ UNCHANGED othersOfStart
BindingRuns  == part = "bridges" /\ BindStep /\ UNCHANGED othersOfBridge
ServiceRuns  == part = "bridges" /\ ServiceAnswers /\ UNCHANGED othersOfBridge

RunnerFairness ==
  /\ WF_runnerVars(WorkerRuns)
  /\ \A p \in Programs : WF_runnerVars(StartRuns(p))
  /\ WF_runnerVars(BindingRuns) /\ WF_runnerVars(ServiceRuns)
=============================================================================
