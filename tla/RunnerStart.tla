----------------------------- MODULE RunnerStart -----------------------------
(***************************************************************************)
(* Starting the Windows client (windows/runner/main.cpp).  A process that  *)
(* finds the mutex of another one looks for its window: if that answers it *)
(* is shown and the newcomer goes; if there is none, or it hangs, the      *)
(* newcomer ends all other processes of the program and takes their place. *)
(* Workers of the agent run the same program, with a window of the same    *)
(* class, and without the mutex; so do the processes that only hand on an  *)
(* --autoshare link.                                                       *)
(***************************************************************************)
EXTENDS Integers

CONSTANTS
  Instances,  \* processes the user may start, once each
  Workers     \* workers of the agent

VARIABLES
  st,       \* each process: "off", "start", "look", "kill", "window",
            \* "running", "hung", "zombie" (no window any more), "gone" or "failed"
  mutex,    \* the processes with a handle of the mutex
  victims   \* whom a process in "kill" has left of its list

startVars == <<st, mutex, victims>>

Programs == Instances \cup Workers
Ended    == {"off", "gone", "failed"}
Alive(p) == st[p] \notin Ended

StartInit ==
  /\ st = [p \in Programs |-> IF p \in Workers THEN "running" ELSE "off"]
  /\ mutex = {} /\ victims = [p \in Programs |-> {}]

Goto(p, s) == st' = [st EXCEPT ![p] = s]

\* The user starts the program.
Launch(p) ==
  /\ p \in Instances /\ st[p] = "off" /\ Goto(p, "start")
  /\ UNCHANGED <<mutex, victims>>

\* CreateMutexW: it exists already where another process has it; without a mutex the
\* start goes on.
CreateMutex(p) ==
  /\ st[p] = "start"
  /\ \/ mutex' = mutex \cup {p} /\ Goto(p, IF mutex = {} THEN "window" ELSE "look")
     \/ Goto(p, "window") /\ UNCHANGED mutex
  /\ UNCHANGED victims

\* FindExistingAppWindow: a window with the title of the application, else any of the class
\* that has Ligament in its title.  A worker's is created with the first (main.cpp:199) and
\* gets one of the second kind later (lib/main.dart:109): it may be found as well.
HasWindow(p) == st[p] \in {"running", "hung"}
FindExistingAppWindow == {q \in Programs : HasWindow(q)}

\* The window that is found answers: it is shown (ActivateExistingWindow), this process ends.
YieldToExisting(p) ==
  /\ st[p] = "look" /\ \E q \in FindExistingAppWindow : st[q] = "running"
  /\ Goto(p, "gone") /\ mutex' = mutex \ {p}
  /\ UNCHANGED victims

\* No window is found, or it hangs: TerminateOrphanedInstances lists the others, if it can.
CleanUp(p) ==
  /\ st[p] = "look"
  /\ FindExistingAppWindow = {} \/ \E q \in FindExistingAppWindow : st[q] = "hung"
  /\ Goto(p, "kill") /\ mutex' = mutex \ {p}
  /\ \E list \in {{}, {q \in Programs \ {p} : Alive(q)}} : victims' = [victims EXCEPT ![p] = list]

\* One of them is ended, unless it may not be opened.
Terminate(p, q) ==
  /\ st[p] = "kill" /\ q \in victims[p]
  /\ \/ /\ st' = [st EXCEPT ![q] = IF Alive(q) THEN "gone" ELSE @]
        /\ mutex' = mutex \ {q}
        /\ victims' = [victims EXCEPT ![p] = @ \ {q}, ![q] = {}]
     \/ /\ victims' = [victims EXCEPT ![p] = @ \ {q}]
        /\ UNCHANGED <<st, mutex>>

\* Mutant: the mutex is asked for again, and where it still exists the start is given up.
RecreateOrLeave(p) ==
  /\ st[p] = "kill" /\ victims[p] = {}
  /\ IF mutex = {} THEN Goto(p, "window") /\ mutex' = {p} ELSE Goto(p, "gone") /\ UNCHANGED mutex
  /\ UNCHANGED victims

\* After a pause the mutex is created or opened again, if it can be; whether it exists
\* is not asked.
RecreateMutex(p) ==
  /\ st[p] = "kill" /\ victims[p] = {}
  /\ mutex' \in {mutex, mutex \cup {p}} /\ Goto(p, "window")
  /\ UNCHANGED victims

\* window.Create; where it fails the process ends.
CreateWindow(p) ==
  /\ st[p] = "window"
  /\ \/ Goto(p, "running") /\ UNCHANGED mutex
     \/ Goto(p, "failed") /\ mutex' = mutex \ {p}
  /\ UNCHANGED victims

\* The message loop ends, hangs, or the window goes and the process stays (external).
MessageLoopEnds(p) ==
  /\ st[p] = "running"
  /\ \/ Goto(p, "gone") /\ mutex' = mutex \ {p}
     \/ p \in Instances /\ \E s \in {"hung", "zombie"} : Goto(p, s) /\ UNCHANGED mutex
  /\ UNCHANGED victims

\* What a process does by itself until its window is there.
StartStep(p) ==
  \/ CreateMutex(p) \/ YieldToExisting(p) \/ CleanUp(p) \/ RecreateMutex(p) \/ CreateWindow(p)
  \/ \E q \in Programs : Terminate(p, q)

StartNext == \E p \in Programs : Launch(p) \/ StartStep(p) \/ MessageLoopEnds(p)

-----------------------------------------------------------------------------
\* "so that the user does not meet a refused start" (main.cpp:175): a start ends with a
\* window of the program that answers, whatever was left of earlier processes and
\* however many starts run; only a window that cannot be created is an excuse.
AppComesUp ==
  (\E p \in Instances : st[p] = "start") ~> (\E q \in Instances : st[q] \in {"running", "failed"})
=============================================================================
