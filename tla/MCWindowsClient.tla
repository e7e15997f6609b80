--------------------------- MODULE MCWindowsClient ---------------------------
(***************************************************************************)
(* A small instance of the Windows client: the native parts of             *)
(* WindowsRunner and, as one part more, the WebSocket service.             *)
(***************************************************************************)
EXTENDS WindowsRunner, WsService

ClientInit == RunnerInit /\ Init

ClientNext ==
  \/ part # "ws" /\ RunnerNext /\ UNCHANGED vars
  \/ part = "ws" /\ Next /\ UNCHANGED runnerVars

ClientSpec ==
  /\ ClientInit /\ [][ClientNext]_<<runnerVars, vars>>
  /\ RunnerFairness /\ Fairness

\* A screen that is larger than the buffer, two that fit it and two a pixel larger.
MCScreenSizes == {<<4, 2>>, <<2, 2>>, <<4, 1>>, <<5, 1>>, <<1, 5>>}
MCMaxSizes    == {<<0, 0>>, <<2, 2>>, <<3, 1>>, <<3, 0>>}
=============================================================================
