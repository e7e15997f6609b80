------------------------- MODULE SessionBrokerProofs -------------------------
(***************************************************************************)
(* Safety of the session worker broker for every set of session ids, every *)
(* number of workerSession objects and every bound.                        *)
(*                                                                         *)
(* The safety invariants are not inductive by themselves: that a live      *)
(* session is in the map depends on who may take it out, which is stop()   *)
(* (then it is the handler's or it is cancelled) or its own remove().      *)
(* UnmappedIsStopped states this; the other conjuncts say which objects    *)
(* exist and that a running goroutine is within its restart budget.        *)
(***************************************************************************)
EXTENDS SessionBroker, TLAPS

\* A workerSession that no offer has allocated is nowhere.
Fresh ==
  \A i \in Inc :
    /\ pc[i] = "new" => handler # i /\ \A s \in SessionIds : sessions[s] # i
    /\ pc[i] # "new" => sid[i] \in SessionIds

\* The restart count of a goroutine that goes on is within the limit.
Budget == \A i \in Inc : Running(i) \/ pc[i] = "new" => restarts[i] <= RestartLimit

\* A goroutine that has lost its entry is being stopped or has been.
UnmappedIsStopped ==
  \A i \in Inc : pc[i] \notin {"new", "stopProcess", "done"} =>
     sessions[sid[i]] = i \/ handler = i \/ (i \in cancelled /\ i \in terminated)

\* "never launch a second desktop worker" (session_worker.go:316): two live
\* workerSessions never serve the same session id.
OneWorkerPerSession ==
  \A i, j \in Inc : Live(i) /\ Live(j) /\ sid[i] = sid[j] => i = j

IndInv ==
  /\ TypeOK
  /\ Fresh
  /\ Budget
  /\ NoDeadEntry
  /\ UnmappedIsStopped
  /\ NoOrphanWorker

USE BrokerAssumption
    DEF BrokerAssumption, connVars, fixedVars, workerVars, countVars, endVars

\* Before the first offer the inductive invariant holds.
LEMMA InitIndInv == Init => IndInv
  BY DEF Init, IndInv, TypeOK, Labels, Fresh, Budget, Running, NoDeadEntry,
         UnmappedIsStopped, NoOrphanWorker

\* A goroutine that may restart its worker counts at most RestartLimit + 1.
LEMMA CountedRange ==
  ASSUME NEW i \in Inc, TypeOK, Budget, Running(i)
  PROVE  Counted(i) \in 0..RestartLimit + 1
  <1>1. restarts[i] \in Nat /\ restarts[i] <= RestartLimit
    BY DEF TypeOK, Budget
  <1>2. CASE i \in expired
    BY <1>2 DEF Counted
  <1>3. CASE i \notin expired
    BY <1>1, <1>3 DEF Counted
  <1> QED BY <1>2, <1>3

\* A step of run() that stays between two labels of the loop and touches
\* neither the map nor the session's flags keeps the map's invariants.
LEMMA MoveKeepsMap ==
  ASSUME NEW i \in Inc, Fresh, NoDeadEntry, UnmappedIsStopped,
         pc[i] \notin {"new", "stopProcess", "done"},
         pc'[i] \notin {"new", "stopProcess", "done"},
         \A j \in Inc : j # i => pc'[j] = pc[j],
         UNCHANGED <<sessions, sid, handler, cancelled, terminated>>
  PROVE  Fresh' /\ NoDeadEntry' /\ UnmappedIsStopped'
  <1>1. Fresh'
    BY DEF Fresh
  <1>2. NoDeadEntry'
    BY DEF NoDeadEntry
  <1>3. UnmappedIsStopped'
    BY DEF UnmappedIsStopped
  <1> QED BY <1>1, <1>2, <1>3

\* Every step of the handler, of the connection, of run() and of the writers
\* preserves it.
LEMMA NextIndInv == IndInv /\ [Next]_vars => IndInv'
  <1> SUFFICES ASSUME IndInv, [Next]_vars PROVE IndInv'
    OBVIOUS
  <1> USE DEF IndInv
  <1>1. ASSUME Connect PROVE IndInv'
    <2> USE <1>1 DEF Connect
    <2>1. TypeOK'
      <3>1. send' \in [Inc -> Nat]
        BY DEF TypeOK, RebindSender
      <3>2. sender' \in Nat /\ link' \in {"up", "down"} /\ scope' \in {"alive", "cancelled"}
        BY DEF TypeOK
      <3> QED BY <3>1, <3>2 DEF TypeOK
    <2>2. Fresh'
      BY DEF TypeOK, Labels, Fresh, NoDeadEntry
    <2>3. Budget'
      BY DEF TypeOK, Labels, Budget, Running
    <2>4. NoDeadEntry'
      BY DEF TypeOK, Labels, Fresh, NoDeadEntry
    <2>5. UnmappedIsStopped'
      BY DEF TypeOK, Labels, Fresh, NoDeadEntry, UnmappedIsStopped
    <2>6. NoOrphanWorker'
      BY DEF TypeOK, Labels, NoOrphanWorker
    <2> QED BY <2>1, <2>2, <2>3, <2>4, <2>5, <2>6
  <1>2. ASSUME Disconnect PROVE IndInv'
    <2> USE <1>2 DEF Disconnect
    <2>1. TypeOK'
      BY DEF TypeOK, Labels, Budget, Running
    <2>2. Fresh'
      BY DEF TypeOK, Labels, Fresh, NoDeadEntry
    <2>3. Budget'
      BY DEF TypeOK, Labels, Budget, Running
    <2>4. NoDeadEntry'
      BY DEF TypeOK, Labels, Fresh, NoDeadEntry
    <2>5. UnmappedIsStopped'
      BY DEF TypeOK, Labels, Fresh, NoDeadEntry, UnmappedIsStopped
    <2>6. NoOrphanWorker'
      BY DEF TypeOK, Labels, NoOrphanWorker
    <2> QED BY <2>1, <2>2, <2>3, <2>4, <2>5, <2>6
  <1>3. ASSUME CancelScope PROVE IndInv'
    <2> USE <1>3 DEF CancelScope
    <2>1. TypeOK'
      BY DEF TypeOK, Labels, Budget, Running
    <2>2. Fresh'
      BY DEF TypeOK, Labels, Fresh, NoDeadEntry
    <2>3. Budget'
      BY DEF TypeOK, Labels, Budget, Running
    <2>4. NoDeadEntry'
      BY DEF TypeOK, Labels, Fresh, NoDeadEntry
    <2>5. UnmappedIsStopped'
      BY DEF TypeOK, Labels, Fresh, NoDeadEntry, UnmappedIsStopped
    <2>6. NoOrphanWorker'
      BY DEF TypeOK, Labels, NoOrphanWorker
    <2> QED BY <2>1, <2>2, <2>3, <2>4, <2>5, <2>6
  <1>4. ASSUME NEW s \in SessionIds, Offer(s) PROVE IndInv'
    <2> USE <1>4 DEF Offer, StartSession
    <2>1. TypeOK'
      BY DEF TypeOK, Labels, Budget, Running
    <2>2. Fresh'
      BY DEF TypeOK, Labels, Fresh, NoDeadEntry
    <2>3. Budget'
      BY DEF TypeOK, Labels, Budget, Running
    <2>4. NoDeadEntry'
      BY DEF TypeOK, Labels, Fresh, NoDeadEntry
    <2>5. UnmappedIsStopped'
      BY DEF TypeOK, Labels, Fresh, NoDeadEntry, UnmappedIsStopped
    <2>6. NoOrphanWorker'
      BY DEF TypeOK, Labels, NoOrphanWorker
    <2> QED BY <2>1, <2>2, <2>3, <2>4, <2>5, <2>6
  <1>5. ASSUME NEW s \in SessionIds, Signal(s) PROVE IndInv'
    <2> USE <1>5 DEF Signal, StopLocked
    <2>1. TypeOK'
      <3>1. sessions[s] \in Inc
        BY DEF TypeOK
      <3>2. launched[sessions[s]] \in Nat /\ outbound[sessions[s]] \in Seq(Nat)
        BY <3>1 DEF TypeOK
      <3>3. outbound' \in [Inc -> Seq(Nat)]
        BY <3>1, <3>2, Append(outbound[sessions[s]], launched[sessions[s]]) \in Seq(Nat)
           DEF TypeOK
      <3>4. sessions' \in [SessionIds -> Inc \cup {None}] /\ handler' \in Inc \cup {None}
        BY <3>1 DEF TypeOK
      <3> QED BY <3>3, <3>4 DEF TypeOK
    <2>2. Fresh'
      BY DEF TypeOK, Labels, Fresh, NoDeadEntry
    <2>3. Budget'
      BY DEF TypeOK, Labels, Budget, Running
    <2>4. NoDeadEntry'
      <3>1. sessions' = sessions \/ sessions' = [sessions EXCEPT ![s] = None]
        OBVIOUS
      <3>2. UNCHANGED <<pc, sid>>
        OBVIOUS
      <3>3. \A r \in SessionIds : sessions'[r] \in {sessions[r], None}
        BY <3>1 DEF TypeOK
      <3> QED BY <3>2, <3>3 DEF NoDeadEntry
    <2>5. UnmappedIsStopped'
      BY DEF TypeOK, Labels, Fresh, NoDeadEntry, UnmappedIsStopped
    <2>6. NoOrphanWorker'
      BY DEF TypeOK, Labels, NoOrphanWorker
    <2> QED BY <2>1, <2>2, <2>3, <2>4, <2>5, <2>6
  <1>6. ASSUME NEW s \in SessionIds, Close(s) PROVE IndInv'
    <2> USE <1>6 DEF Close, StopLocked
    <2>1. TypeOK'
      BY DEF TypeOK, Labels, Budget, Running
    <2>2. Fresh'
      BY DEF TypeOK, Labels, Fresh, NoDeadEntry
    <2>3. Budget'
      BY DEF TypeOK, Labels, Budget, Running
    <2>4. NoDeadEntry'
      BY DEF TypeOK, Labels, Fresh, NoDeadEntry
    <2>5. UnmappedIsStopped'
      BY DEF TypeOK, Labels, Fresh, NoDeadEntry, UnmappedIsStopped
    <2>6. NoOrphanWorker'
      BY DEF TypeOK, Labels, NoOrphanWorker
    <2> QED BY <2>1, <2>2, <2>3, <2>4, <2>5, <2>6
  <1>7. ASSUME StopTail PROVE IndInv'
    <2> USE <1>7 DEF StopTail
    <2>1. TypeOK'
      BY DEF TypeOK, Labels, Budget, Running
    <2>2. Fresh'
      BY DEF TypeOK, Labels, Fresh, NoDeadEntry
    <2>3. Budget'
      BY DEF TypeOK, Labels, Budget, Running
    <2>4. NoDeadEntry'
      BY DEF TypeOK, Labels, Fresh, NoDeadEntry
    <2>5. UnmappedIsStopped'
      BY DEF TypeOK, Labels, Fresh, NoDeadEntry, UnmappedIsStopped
    <2>6. NoOrphanWorker'
      BY DEF TypeOK, Labels, NoOrphanWorker
    <2> QED BY <2>1, <2>2, <2>3, <2>4, <2>5, <2>6
  <1>8. ASSUME NEW i \in Inc, RunTop(i) PROVE IndInv'
    <2> USE <1>8 DEF RunTop, Ended, Goto
    <2>1. TypeOK'
      BY DEF TypeOK, Labels, Budget, Running
    <2>2. /\ pc[i] \notin {"new", "stopProcess", "done"}
          /\ pc'[i] \notin {"new", "stopProcess", "done"}
          /\ \A j \in Inc : j # i => pc'[j] = pc[j]
          /\ UNCHANGED <<sessions, sid, handler, cancelled, terminated>>
      BY DEF TypeOK
    <2>3. Fresh' /\ NoDeadEntry' /\ UnmappedIsStopped'
      BY <2>2, MoveKeepsMap
    <2>4. Budget'
      BY DEF TypeOK, Labels, Budget, Running
    <2>5. NoOrphanWorker'
      BY DEF TypeOK, Labels, NoOrphanWorker
    <2> QED BY <2>1, <2>3, <2>4, <2>5
  <1>9. ASSUME NEW i \in Inc, LaunchOk(i) PROVE IndInv'
    <2> USE <1>9 DEF LaunchOk, Goto
    <2>1. TypeOK'
      <3>1. launched' \in [Inc -> Nat] /\ open' \subseteq Inc \X Nat
        BY DEF TypeOK
      <3>2. pc' \in [Inc -> Labels]
        BY DEF TypeOK, Labels
      <3> QED BY <3>1, <3>2 DEF TypeOK
    <2>2. /\ pc[i] \notin {"new", "stopProcess", "done"}
          /\ pc'[i] \notin {"new", "stopProcess", "done"}
          /\ \A j \in Inc : j # i => pc'[j] = pc[j]
          /\ UNCHANGED <<sessions, sid, handler, cancelled, terminated>>
      BY DEF TypeOK
    <2>3. Fresh' /\ NoDeadEntry' /\ UnmappedIsStopped'
      BY <2>2, MoveKeepsMap
    <2>4. Budget'
      BY DEF TypeOK, Labels, Budget, Running
    <2>5. NoOrphanWorker'
      BY DEF TypeOK, Labels, NoOrphanWorker
    <2> QED BY <2>1, <2>3, <2>4, <2>5
  <1>10. ASSUME NEW i \in Inc, LaunchError(i) PROVE IndInv'
    <2> USE <1>10 DEF LaunchError, Goto
    <2>1. TypeOK'
      BY DEF TypeOK, Labels, Budget, Running
    <2>2. /\ pc[i] \notin {"new", "stopProcess", "done"}
          /\ pc'[i] \notin {"new", "stopProcess", "done"}
          /\ \A j \in Inc : j # i => pc'[j] = pc[j]
          /\ UNCHANGED <<sessions, sid, handler, cancelled, terminated>>
      BY DEF TypeOK
    <2>3. Fresh' /\ NoDeadEntry' /\ UnmappedIsStopped'
      BY <2>2, MoveKeepsMap
    <2>4. Budget'
      BY DEF TypeOK, Labels, Budget, Running
    <2>5. NoOrphanWorker'
      BY DEF TypeOK, Labels, NoOrphanWorker
    <2> QED BY <2>1, <2>3, <2>4, <2>5
  <1>11. ASSUME NEW i \in Inc, LaunchWait(i) PROVE IndInv'
    <2> USE <1>11 DEF LaunchWait, Goto
    <2>1. TypeOK'
      <3>1. Counted(i) \in 0..RestartLimit + 1
        BY CountedRange DEF Running
      <3>2. restarts' \in [Inc -> 0..RestartLimit + 1]
        <4>1. restarts' = restarts \/ restarts' = [restarts EXCEPT ![i] = Counted(i)]
          BY DEF SpendRestart
        <4> HIDE DEF LaunchWait, Cleanup
        <4> QED BY <4>1, <3>1 DEF TypeOK
      <3>3. pc' \in [Inc -> Labels] /\ expired' \subseteq Inc
        BY DEF TypeOK, Labels, SpendRestart
      <3> QED BY <3>2, <3>3 DEF TypeOK
    <2>2. /\ pc[i] \notin {"new", "stopProcess", "done"}
          /\ pc'[i] \notin {"new", "stopProcess", "done"}
          /\ \A j \in Inc : j # i => pc'[j] = pc[j]
          /\ UNCHANGED <<sessions, sid, handler, cancelled, terminated>>
      BY DEF TypeOK, SpendRestart
    <2>3. Fresh' /\ NoDeadEntry' /\ UnmappedIsStopped'
      BY <2>2, MoveKeepsMap
    <2>4. Budget'
      <3>1. Counted(i) \in 0..RestartLimit + 1
        BY CountedRange DEF Running
      <3>2. pc'[i] # "remove" => restarts'[i] <= RestartLimit
        BY <3>1 DEF TypeOK, SpendRestart
      <3>3. \A j \in Inc : j # i => pc'[j] = pc[j] /\ restarts'[j] = restarts[j]
        BY DEF TypeOK, SpendRestart
      <3> QED BY <3>2, <3>3 DEF Budget, Running
    <2>5. NoOrphanWorker'
      BY DEF TypeOK, Labels, NoOrphanWorker, SpendRestart
    <2> QED BY <2>1, <2>3, <2>4, <2>5
  <1>12. ASSUME NEW i \in Inc, Attach(i) PROVE IndInv'
    <2> USE <1>12 DEF Attach, Goto, ClosedCurrent
    <2>1. TypeOK'
      <3>1. process' \in [Inc -> Nat] /\ open' \subseteq Inc \X Nat
        BY DEF TypeOK
      <3>2. pc' = [pc EXCEPT ![i] = "remove"] \/ pc' = [pc EXCEPT ![i] = "drain"]
        OBVIOUS
      <3>3. pc' \in [Inc -> Labels]
        BY <3>2 DEF TypeOK, Labels
      <3> QED BY <3>1, <3>3 DEF TypeOK
    <2>2. /\ pc[i] \notin {"new", "stopProcess", "done"}
          /\ pc'[i] \notin {"new", "stopProcess", "done"}
          /\ \A j \in Inc : j # i => pc'[j] = pc[j]
          /\ UNCHANGED <<sessions, sid, handler, cancelled, terminated>>
      BY DEF TypeOK
    <2>3. Fresh' /\ NoDeadEntry' /\ UnmappedIsStopped'
      BY <2>2, MoveKeepsMap
    <2>4. Budget'
      BY DEF TypeOK, Labels, Budget, Running
    <2>5. NoOrphanWorker'
      <3>1. CASE sessions[sid[i]] # i \/ i \in cancelled
        <4>1. /\ open' = open \ {<<i, launched[i]>>}
              /\ launched' = launched /\ pc' = [pc EXCEPT ![i] = "remove"]
          BY <3>1
        <4>2. ASSUME NEW w \in open' PROVE w[1] \in Inc /\ w[1] # i
          BY <4>1 DEF TypeOK, NoOrphanWorker
        <4> QED BY <4>1, <4>2 DEF TypeOK, NoOrphanWorker
      <3>2. CASE ~(sessions[sid[i]] # i \/ i \in cancelled)
        <4>1. open' = open /\ launched' = launched /\ pc' = [pc EXCEPT ![i] = "drain"]
          BY <3>2
        <4> QED BY <4>1 DEF TypeOK, NoOrphanWorker
      <3> QED BY <3>1, <3>2
    <2> QED BY <2>1, <2>3, <2>4, <2>5
  <1>13. ASSUME NEW i \in Inc, Drain(i) PROVE IndInv'
    <2> USE <1>13 DEF Drain, Goto
    <2>1. TypeOK'
      <3>1. outbound' \in [Inc -> Seq(Nat)] /\ writers' \subseteq Inc \X Nat
        BY DEF TypeOK
      <3>2. pc' \in [Inc -> Labels]
        BY DEF TypeOK, Labels
      <3> QED BY <3>1, <3>2 DEF TypeOK
    <2>2. /\ pc[i] \notin {"new", "stopProcess", "done"}
          /\ pc'[i] \notin {"new", "stopProcess", "done"}
          /\ \A j \in Inc : j # i => pc'[j] = pc[j]
          /\ UNCHANGED <<sessions, sid, handler, cancelled, terminated>>
      BY DEF TypeOK
    <2>3. Fresh' /\ NoDeadEntry' /\ UnmappedIsStopped'
      BY <2>2, MoveKeepsMap
    <2>4. Budget'
      BY DEF TypeOK, Labels, Budget, Running
    <2>5. NoOrphanWorker'
      BY DEF TypeOK, Labels, NoOrphanWorker
    <2> QED BY <2>1, <2>3, <2>4, <2>5
  <1>14. ASSUME NEW i \in Inc, RelayTerminate(i) PROVE IndInv'
    <2> USE <1>14 DEF RelayTerminate
    <2>1. TypeOK'
      BY DEF TypeOK, Labels, Budget, Running
    <2>2. Fresh'
      BY DEF TypeOK, Labels, Fresh, NoDeadEntry
    <2>3. Budget'
      BY DEF TypeOK, Labels, Budget, Running
    <2>4. NoDeadEntry'
      BY DEF TypeOK, Labels, Fresh, NoDeadEntry
    <2>5. UnmappedIsStopped'
      BY DEF TypeOK, Labels, Fresh, NoDeadEntry, UnmappedIsStopped
    <2>6. NoOrphanWorker'
      BY DEF TypeOK, Labels, NoOrphanWorker
    <2> QED BY <2>1, <2>2, <2>3, <2>4, <2>5, <2>6
  <1>15. ASSUME NEW i \in Inc, ServeCancelled(i) PROVE IndInv'
    <2> USE <1>15 DEF ServeCancelled, Goto, ClosedCurrent
    <2>1. TypeOK'
      BY DEF TypeOK, Labels, Budget, Running
    <2>2. /\ pc[i] \notin {"new", "stopProcess", "done"}
          /\ pc'[i] \notin {"new", "stopProcess", "done"}
          /\ \A j \in Inc : j # i => pc'[j] = pc[j]
          /\ UNCHANGED <<sessions, sid, handler, cancelled, terminated>>
      BY DEF TypeOK
    <2>3. Fresh' /\ NoDeadEntry' /\ UnmappedIsStopped'
      BY <2>2, MoveKeepsMap
    <2>4. Budget'
      BY DEF TypeOK, Labels, Budget, Running
    <2>5. NoOrphanWorker'
      BY DEF TypeOK, Labels, NoOrphanWorker
    <2> QED BY <2>1, <2>3, <2>4, <2>5
  <1>16. ASSUME NEW i \in Inc, WorkerFails(i) PROVE IndInv'
    <2> USE <1>16 DEF WorkerFails, Goto
    <2>1. TypeOK'
      BY DEF TypeOK, Labels, Budget, Running
    <2>2. /\ pc[i] \notin {"new", "stopProcess", "done"}
          /\ pc'[i] \notin {"new", "stopProcess", "done"}
          /\ \A j \in Inc : j # i => pc'[j] = pc[j]
          /\ UNCHANGED <<sessions, sid, handler, cancelled, terminated>>
      BY DEF TypeOK
    <2>3. Fresh' /\ NoDeadEntry' /\ UnmappedIsStopped'
      BY <2>2, MoveKeepsMap
    <2>4. Budget'
      BY DEF TypeOK, Labels, Budget, Running
    <2>5. NoOrphanWorker'
      BY DEF TypeOK, Labels, NoOrphanWorker
    <2> QED BY <2>1, <2>3, <2>4, <2>5
  <1>17. ASSUME NEW i \in Inc, Cleanup(i) PROVE IndInv'
    <2> USE <1>17 DEF Cleanup, Goto, Ended, ClosedCurrent
    <2>1. TypeOK'
      <3>1. Counted(i) \in 0..RestartLimit + 1
        BY CountedRange DEF Running
      <3>2. restarts' \in [Inc -> 0..RestartLimit + 1]
        <4>1. restarts' = restarts \/ restarts' = [restarts EXCEPT ![i] = Counted(i)]
          BY DEF SpendRestart
        <4> HIDE DEF LaunchWait, Cleanup
        <4> QED BY <4>1, <3>1 DEF TypeOK
      <3>3. pc' \in [Inc -> Labels] /\ expired' \subseteq Inc
        BY DEF TypeOK, Labels, SpendRestart
      <3>4. open' \subseteq Inc \X Nat
        BY DEF TypeOK
      <3> QED BY <3>2, <3>3, <3>4 DEF TypeOK
    <2>2. /\ pc[i] \notin {"new", "stopProcess", "done"}
          /\ pc'[i] \notin {"new", "stopProcess", "done"}
          /\ \A j \in Inc : j # i => pc'[j] = pc[j]
          /\ UNCHANGED <<sessions, sid, handler, cancelled, terminated>>
      BY DEF TypeOK, SpendRestart
    <2>3. Fresh' /\ NoDeadEntry' /\ UnmappedIsStopped'
      BY <2>2, MoveKeepsMap
    <2>4. Budget'
      <3>1. Counted(i) \in 0..RestartLimit + 1
        BY CountedRange DEF Running
      <3>2. pc'[i] # "remove" => restarts'[i] <= RestartLimit
        BY <3>1 DEF TypeOK, SpendRestart
      <3>3. \A j \in Inc : j # i => pc'[j] = pc[j] /\ restarts'[j] = restarts[j]
        BY DEF TypeOK, SpendRestart
      <3> QED BY <3>2, <3>3 DEF Budget, Running
    <2>5. NoOrphanWorker'
      BY DEF TypeOK, Labels, NoOrphanWorker, SpendRestart
    <2> QED BY <2>1, <2>3, <2>4, <2>5
  <1>18. ASSUME NEW i \in Inc, Backoff(i) PROVE IndInv'
    <2> USE <1>18 DEF Backoff, Goto
    <2>1. TypeOK'
      BY DEF TypeOK, Labels, Budget, Running
    <2>2. /\ pc[i] \notin {"new", "stopProcess", "done"}
          /\ pc'[i] \notin {"new", "stopProcess", "done"}
          /\ \A j \in Inc : j # i => pc'[j] = pc[j]
          /\ UNCHANGED <<sessions, sid, handler, cancelled, terminated>>
      BY DEF TypeOK
    <2>3. Fresh' /\ NoDeadEntry' /\ UnmappedIsStopped'
      BY <2>2, MoveKeepsMap
    <2>4. Budget'
      BY DEF TypeOK, Labels, Budget, Running
    <2>5. NoOrphanWorker'
      BY DEF TypeOK, Labels, NoOrphanWorker
    <2> QED BY <2>1, <2>3, <2>4, <2>5
  <1>19. ASSUME NEW i \in Inc, Remove(i) PROVE IndInv'
    <2> USE <1>19 DEF Remove, Goto
    <2>1. TypeOK'
      BY DEF TypeOK, Labels, Budget, Running
    <2>2. Fresh'
      BY DEF TypeOK, Labels, Fresh, NoDeadEntry
    <2>3. Budget'
      BY DEF TypeOK, Labels, Budget, Running
    <2>4. NoDeadEntry'
      <3>1. CASE sessions[sid[i]] = i
        <4>1. \A t \in SessionIds : t # sid[i] => sessions[t] # i
          BY DEF NoDeadEntry
        <4>2. sessions' = [sessions EXCEPT ![sid[i]] = None]
          BY <3>1
        <4>3. \A t \in SessionIds : sessions'[t] # i
          BY <4>1, <4>2 DEF TypeOK
        <4>4. \A t \in SessionIds : sessions'[t] \in {sessions[t], None}
          BY <4>2 DEF TypeOK
        <4>5. \A j \in Inc : j # i => pc'[j] = pc[j]
          BY DEF TypeOK
        <4> QED BY <4>3, <4>4, <4>5 DEF NoDeadEntry
      <3>2. CASE sessions[sid[i]] # i
        <4>1. \A t \in SessionIds : sessions[t] # i
          BY <3>2 DEF NoDeadEntry
        <4>2. \A j \in Inc : j # i => pc'[j] = pc[j]
          BY DEF TypeOK
        <4> QED BY <3>2, <4>1, <4>2 DEF NoDeadEntry
      <3> QED BY <3>1, <3>2
    <2>5. UnmappedIsStopped'
      BY DEF TypeOK, Labels, Fresh, NoDeadEntry, UnmappedIsStopped
    <2>6. NoOrphanWorker'
      BY DEF TypeOK, Labels, NoOrphanWorker
    <2> QED BY <2>1, <2>2, <2>3, <2>4, <2>5, <2>6
  <1>20. ASSUME NEW i \in Inc, StopProcess(i) PROVE IndInv'
    <2> USE <1>20 DEF StopProcess, Goto
    <2>1. TypeOK'
      BY DEF TypeOK, Labels, Budget, Running
    <2>2. Fresh'
      BY DEF TypeOK, Labels, Fresh, NoDeadEntry
    <2>3. Budget'
      BY DEF TypeOK, Labels, Budget, Running
    <2>4. NoDeadEntry'
      BY DEF TypeOK, Labels, Fresh, NoDeadEntry
    <2>5. UnmappedIsStopped'
      BY DEF TypeOK, Labels, Fresh, NoDeadEntry, UnmappedIsStopped
    <2>6. NoOrphanWorker'
      BY DEF TypeOK, Labels, NoOrphanWorker
    <2> QED BY <2>1, <2>2, <2>3, <2>4, <2>5, <2>6
  <1>21. ASSUME NEW i \in Inc, WindowExpires(i) PROVE IndInv'
    <2> USE <1>21 DEF WindowExpires
    <2>1. TypeOK'
      BY DEF TypeOK, Labels, Budget, Running
    <2>2. Fresh'
      BY DEF TypeOK, Labels, Fresh, NoDeadEntry
    <2>3. Budget'
      BY DEF TypeOK, Labels, Budget, Running
    <2>4. NoDeadEntry'
      BY DEF TypeOK, Labels, Fresh, NoDeadEntry
    <2>5. UnmappedIsStopped'
      BY DEF TypeOK, Labels, Fresh, NoDeadEntry, UnmappedIsStopped
    <2>6. NoOrphanWorker'
      BY DEF TypeOK, Labels, NoOrphanWorker
    <2> QED BY <2>1, <2>2, <2>3, <2>4, <2>5, <2>6
  <1>22. ASSUME NEW w \in writers, WriterStep(w) PROVE IndInv'
    <2> USE <1>22 DEF WriterStep, WriterDeliver, WriterFail, WriterExit
    <2>1. TypeOK'
      <3>1. PICK i \in Inc, n \in Nat : w = <<i, n>>
        BY DEF TypeOK
      <3>2. outbound[i] # <<>> => Tail(outbound[i]) \in Seq(Nat)
        BY DEF TypeOK
      <3>3. outbound' \in [Inc -> Seq(Nat)] /\ writers' \subseteq Inc \X Nat
        <4>1. outbound' = outbound \/ (outbound[i] # <<>> /\ outbound' = [outbound EXCEPT ![i] = Tail(@)])
          BY <3>1
        <4>2. writers' \subseteq writers
          OBVIOUS
        <4>3. outbound' \in [Inc -> Seq(Nat)]
          <5> HIDE <1>22
          <5> QED BY <4>1, <3>2 DEF TypeOK
        <4> QED BY <4>2, <4>3 DEF TypeOK
      <3> QED BY <3>3 DEF TypeOK
    <2>2. Fresh'
      BY DEF TypeOK, Labels, Fresh, NoDeadEntry
    <2>3. Budget'
      BY DEF TypeOK, Labels, Budget, Running
    <2>4. NoDeadEntry'
      BY DEF TypeOK, Labels, Fresh, NoDeadEntry
    <2>5. UnmappedIsStopped'
      BY DEF TypeOK, Labels, Fresh, NoDeadEntry, UnmappedIsStopped
    <2>6. NoOrphanWorker'
      BY DEF TypeOK, Labels, NoOrphanWorker
    <2> QED BY <2>1, <2>2, <2>3, <2>4, <2>5, <2>6
  <1>23. CASE UNCHANGED vars
    BY <1>23 DEF vars, TypeOK, Labels, Fresh, Budget, Running, NoDeadEntry, UnmappedIsStopped,
           NoOrphanWorker
  <1> QED
    BY <1>1, <1>2, <1>3, <1>4, <1>5, <1>6, <1>7, <1>8, <1>9, <1>10, <1>11, <1>12,
       <1>13, <1>14, <1>15, <1>16, <1>17, <1>18, <1>19, <1>20, <1>21, <1>22, <1>23
       DEF Next, Handler, Connection, RunStep, WorkerStep

\* Type correctness: in particular restarts never exceeds RestartLimit + 1,
\* the value at which run() gives up.
THEOREM TypeCorrect == Spec => []TypeOK
  <1>1. IndInv => TypeOK
    BY DEF IndInv
  <1> QED BY InitIndInv, NextIndInv, <1>1, PTL DEF Spec

\* Every live session can be reached through b.sessions (what route, stop and
\* RebindSender look it up by), so at most one worker is live per session id.
THEOREM LiveSessionsReachable == Spec => [](Reachable /\ OneWorkerPerSession)
  <1>1. IndInv => Reachable
    BY DEF IndInv, UnmappedIsStopped, Reachable, Live, Running, Ended
  <1>2. Reachable => OneWorkerPerSession
    BY DEF Reachable, OneWorkerPerSession
  <1> QED BY InitIndInv, NextIndInv, <1>1, <1>2, PTL DEF Spec

\* run() releases what it holds on every exit path: the map keeps no entry of
\* an ended goroutine, and no worker process outlives its goroutine.
THEOREM EndedSessionsReleased == Spec => [](NoDeadEntry /\ NoOrphanWorker)
  <1>1. IndInv => NoDeadEntry /\ NoOrphanWorker
    BY DEF IndInv
  <1> QED BY InitIndInv, NextIndInv, <1>1, PTL DEF Spec
-----------------------------------------------------------------------------
(* What the relayed frames rest on: the sender a session holds, the worker *)
(* a queued signal was routed for, and the mark of session_terminate.      *)

\* Only a restart launches a second worker, so from then on restarts > 0 and
\* every launch is preceded by drainOutbound.
RestartsCounted ==
  \A i \in Inc :
    /\ pc[i] \in {"new", "top", "launch", "launchWait", "backoff"} =>
         launched[i] = 0 \/ restarts[i] > 0
    /\ pc[i] \in {"attach", "drain", "serve", "cleanup"} => launched[i] > 0
    /\ launched[i] > 1 => restarts[i] > 0

\* A writer belongs to a worker launched already, and to the last one only
\* once run() has drained the queue for it.
WritersStarted ==
  \A w \in writers :
    /\ 1 <= w[2] /\ w[2] <= launched[w[1]]
    /\ pc[w[1]] \in {"attach", "drain"} => w[2] < launched[w[1]]

\* Whatever is queued for a restarted worker was routed for that worker.
QueueFresh ==
  \A i \in Inc :
    pc[i] \in {"serve", "cleanup"} /\ launched[i] > 1 =>
      \A k \in 1..Len(outbound[i]) : outbound[i][k] = launched[i]

\* session_terminate leaves its mark on the session before run() tests it.
ByeMarked ==
  \A i \in bye : i \in terminated
                 /\ pc[i] \in {"serve", "cleanup", "remove", "stopProcess", "done"}

FrameInv ==
  /\ RestartsCounted
  /\ WritersStarted
  /\ QueueFresh
  /\ ByeMarked
  /\ SenderIsCurrent

\* A restart counts: SpendRestart leaves restarts at least 1.
LEMMA SpentRestart ==
  ASSUME NEW i \in Inc, NEW label, TypeOK, SpendRestart(i, label)
  PROVE  /\ restarts'[i] > 0
         /\ \A j \in Inc : j # i => restarts'[j] = restarts[j] /\ pc'[j] = pc[j]
         /\ pc'[i] \in {"remove", label}
  <1>1. Counted(i) \in Nat /\ Counted(i) > 0
    BY DEF TypeOK, Counted
  <1> QED BY <1>1 DEF SpendRestart, Goto, TypeOK

\* The steps that neither move run() nor change its counts.
LEMMA QuietSteps ==
  ASSUME Next
  PROVE  \/ UNCHANGED <<pc, launched, restarts>>
         \/ \E s \in SessionIds : Offer(s)
         \/ \E i \in Inc : \/ RunStep(i) \/ LaunchOk(i) \/ LaunchError(i)
                           \/ WorkerFails(i)
  BY DEF Next, Handler, Connection, WorkerStep, Signal, Close, StopTail, Connect, Disconnect,
         CancelScope, RelayTerminate, WindowExpires, WriterStep, WriterDeliver, WriterFail,
         WriterExit

\* run() launches its second worker only after SpendRestart.
LEMMA RestartsCountedKept ==
  ASSUME IndInv, RestartsCounted, [Next]_vars PROVE RestartsCounted'
  <1> TypeOK
    BY DEF IndInv
  <1>1. CASE UNCHANGED <<pc, launched, restarts>>
    BY <1>1 DEF RestartsCounted
  <1>2. ASSUME NEW s \in SessionIds, Offer(s) PROVE RestartsCounted'
    BY <1>2 DEF Offer, StartSession, TypeOK, RestartsCounted
  <1>3. ASSUME NEW i \in Inc, LaunchOk(i) PROVE RestartsCounted'
    BY <1>3 DEF LaunchOk, Goto, TypeOK, RestartsCounted
  <1>4. ASSUME NEW i \in Inc, LaunchError(i) PROVE RestartsCounted'
    BY <1>4 DEF LaunchError, Goto, TypeOK, RestartsCounted
  <1>5. ASSUME NEW i \in Inc, WorkerFails(i) PROVE RestartsCounted'
    BY <1>5 DEF WorkerFails, Goto, TypeOK, RestartsCounted
  <1>6. ASSUME NEW i \in Inc, RunStep(i) PROVE RestartsCounted'
    <2>1. CASE RunTop(i) \/ Backoff(i) \/ Remove(i) \/ StopProcess(i)
      BY <2>1 DEF RunTop, Backoff, Remove, StopProcess, Goto, TypeOK, RestartsCounted
    <2>2. CASE Attach(i) \/ Drain(i) \/ ServeCancelled(i)
      BY <2>2 DEF Attach, Drain, ServeCancelled, Goto, TypeOK, RestartsCounted
    <2>3. CASE LaunchWait(i)
      <3>1. CASE i \in cancelled /\ Goto(i, "remove") /\ UNCHANGED restarts
        BY <2>3, <3>1 DEF LaunchWait, Goto, TypeOK, RestartsCounted
      <3>2. CASE SpendRestart(i, "top")
        BY <2>3, <3>2, SpentRestart DEF LaunchWait, TypeOK, RestartsCounted
      <3> QED BY <2>3, <3>1, <3>2 DEF LaunchWait
    <2>4. CASE Cleanup(i)
      <3>1. CASE Goto(i, "remove") /\ UNCHANGED restarts
        BY <2>4, <3>1 DEF Cleanup, Goto, TypeOK, RestartsCounted
      <3>2. CASE SpendRestart(i, "backoff")
        BY <2>4, <3>2, SpentRestart DEF Cleanup, TypeOK, RestartsCounted
      <3> QED BY <2>4, <3>1, <3>2 DEF Cleanup
    <2> QED BY <1>6, <2>1, <2>2, <2>3, <2>4 DEF RunStep
  <1> QED BY <1>1, <1>2, <1>3, <1>4, <1>5, <1>6, QuietSteps DEF vars, countVars

\* The steps of run() that touch neither the queue nor the writers and do not
\* come nearer to serving a worker.
LoopMove(i) ==
  \/ RunTop(i) \/ LaunchError(i) \/ LaunchWait(i) \/ ServeCancelled(i) \/ Cleanup(i)
  \/ Backoff(i) \/ Remove(i) \/ StopProcess(i)

\* They, and the end of a worker process, leave queue and writers alone, and come to the
\* cleanup from serving only.
LEMMA LoopMoves ==
  ASSUME NEW i \in Inc, TypeOK, LoopMove(i) \/ WorkerFails(i)
  PROVE  /\ UNCHANGED <<writers, launched, outbound, bye, send, sender>>
         /\ terminated \subseteq terminated'
         /\ pc[i] \notin {"new", "attach", "drain"}
         /\ pc'[i] \notin {"new", "attach", "drain", "serve"}
         /\ pc'[i] = "cleanup" => pc[i] = "serve"
         /\ \A j \in Inc : j # i => pc'[j] = pc[j]
  <1>1. CASE RunTop(i) \/ LaunchError(i) \/ Backoff(i) \/ WorkerFails(i)
    BY <1>1 DEF RunTop, LaunchError, Backoff, WorkerFails, Goto, TypeOK
  <1>2. CASE Remove(i) \/ StopProcess(i) \/ ServeCancelled(i)
    BY <1>2 DEF Remove, StopProcess, ServeCancelled, Goto, TypeOK
  <1>3. CASE LaunchWait(i)
    <2>1. pc'[i] \in {"remove", "top"} /\ \A j \in Inc : j # i => pc'[j] = pc[j]
      BY <1>3, SpentRestart DEF LaunchWait, Goto, TypeOK
    <2> QED BY <1>3, <2>1 DEF LaunchWait
  <1>4. CASE Cleanup(i)
    <2>1. pc'[i] \in {"remove", "backoff"} /\ \A j \in Inc : j # i => pc'[j] = pc[j]
      BY <1>4, SpentRestart DEF Cleanup, Goto, TypeOK
    <2> QED BY <1>4, <2>1 DEF Cleanup
  <1> QED BY <1>1, <1>2, <1>3, <1>4 DEF LoopMove

\* LaunchOk numbers a new worker, and only Drain starts a writer for it.
LEMMA WritersStartedKept ==
  ASSUME IndInv, RestartsCounted, WritersStarted, [Next]_vars PROVE WritersStarted'
  <1> TypeOK
    BY DEF IndInv
  <1> \A w \in writers : w[1] \in Inc /\ w[2] \in Nat
    BY DEF TypeOK
  <1>1. CASE UNCHANGED <<pc, launched>> /\ writers' \subseteq writers
    BY <1>1 DEF WritersStarted
  <1>2. ASSUME NEW s \in SessionIds, Offer(s) PROVE WritersStarted'
    BY <1>2 DEF Offer, StartSession, TypeOK, WritersStarted
  <1>3. ASSUME NEW i \in Inc, LaunchOk(i) PROVE WritersStarted'
    <2>1. /\ writers' = writers
          /\ \A j \in Inc : /\ launched[j] \in Nat /\ launched'[j] >= launched[j]
                            /\ pc'[j] # pc[j] => launched'[j] > launched[j]
                            /\ launched'[j] \in Nat
      <3>1. launched \in [Inc -> Nat] /\ DOMAIN pc = Inc
        BY DEF TypeOK
      <3>2. /\ writers' = writers /\ pc' = [pc EXCEPT ![i] = "attach"]
            /\ launched' = [launched EXCEPT ![i] = @ + 1]
        BY <1>3 DEF LaunchOk, Goto
      <3> QED BY ONLY <3>1, <3>2
    <2> SUFFICES ASSUME NEW w \in writers
                 PROVE  /\ 1 <= w[2] /\ w[2] <= launched'[w[1]]
                        /\ pc'[w[1]] \in {"attach", "drain"} => w[2] < launched'[w[1]]
      BY <2>1 DEF WritersStarted
    <2>2. /\ w[2] \in Nat /\ 1 <= w[2] /\ w[2] <= launched[w[1]]
          /\ pc[w[1]] \in {"attach", "drain"} => w[2] < launched[w[1]]
      BY DEF WritersStarted
    <2>3. /\ launched[w[1]] \in Nat /\ launched'[w[1]] \in Nat /\ launched'[w[1]] >= launched[w[1]]
          /\ pc'[w[1]] # pc[w[1]] => launched'[w[1]] > launched[w[1]]
      <3>1. w[1] \in Inc
        BY DEF TypeOK
      <3> QED BY <2>1, <3>1
    <2>4. CASE pc'[w[1]] = pc[w[1]]
      BY <2>2, <2>3, <2>4
    <2>5. CASE pc'[w[1]] # pc[w[1]]
      BY <2>2, <2>3, <2>5
    <2> QED BY <2>4, <2>5
  <1>4. ASSUME NEW i \in Inc, Drain(i) PROVE WritersStarted'
    <2>1. launched[i] > 0 /\ launched[i] \in Nat
      BY <1>4 DEF Drain, RestartsCounted, TypeOK
    <2> QED BY <1>4, <2>1 DEF Drain, Goto, TypeOK, WritersStarted
  <1>5. ASSUME NEW i \in Inc, Attach(i) PROVE WritersStarted'
    <2>1. /\ writers' = writers /\ launched' = launched
          /\ pc[i] = "attach" /\ \A j \in Inc : j # i => pc'[j] = pc[j]
      BY <1>5 DEF Attach, Goto, TypeOK
    <2> QED BY <2>1 DEF WritersStarted
  <1>6. ASSUME NEW i \in Inc, LoopMove(i) \/ WorkerFails(i) PROVE WritersStarted'
    BY <1>6, LoopMoves DEF WritersStarted
  <1>7. CASE UNCHANGED vars
    BY <1>7 DEF vars, WritersStarted
  <1>8. ASSUME NEW w \in writers, WriterStep(w) PROVE WritersStarted'
    BY <1>8, <1>1 DEF WriterStep, WriterDeliver, WriterFail, WriterExit
  <1>9. ASSUME NEW i \in Inc, RelayTerminate(i) \/ WindowExpires(i) PROVE WritersStarted'
    BY <1>9, <1>1 DEF RelayTerminate, WindowExpires
  <1>10. CASE Connection \/ StopTail \/ \E s \in SessionIds : Signal(s) \/ Close(s)
    BY <1>10, <1>1 DEF Connection, StopTail, Signal, Close, Connect, Disconnect, CancelScope
  <1> QED BY <1>2, <1>3, <1>4, <1>5, <1>6, <1>7, <1>8, <1>9, <1>10
          DEF Next, Handler, RunStep, WorkerStep, LoopMove

\* An element of a queue after an append is the new one or an old one.
LEMMA AppendedElement ==
  ASSUME NEW q \in Seq(Nat), NEW e \in Nat, NEW k \in 1..Len(Append(q, e))
  PROVE  Append(q, e)[k] = e \/ (k \in 1..Len(q) /\ Append(q, e)[k] = q[k])
  <1>1. Len(Append(q, e)) = Len(q) + 1 /\ Len(q) \in Nat
    OBVIOUS
  <1>2. CASE k = Len(q) + 1
    BY <1>2
  <1>3. CASE k # Len(q) + 1
    <2>1. k \in 1..Len(q)
      BY <1>1, <1>3
    <2> QED BY <2>1
  <1> QED BY <1>2, <1>3

\* Taking the head shifts the others by one.
LEMMA TailElement ==
  ASSUME NEW q \in Seq(Nat), q # <<>>, NEW k \in 1..Len(Tail(q))
  PROVE  k + 1 \in 1..Len(q) /\ Tail(q)[k] = q[k + 1]
  <1>1. Len(Tail(q)) = Len(q) - 1 /\ Len(q) \in Nat
    OBVIOUS
  <1>2. k + 1 \in 1..Len(q)
    BY <1>1
  <1> QED BY <1>1, <1>2

\* drainOutbound empties the queue of a restarted worker; afterwards route()
\* tags what it queues with that worker.
LEMMA QueueFreshKept ==
  ASSUME IndInv, RestartsCounted, QueueFresh, [Next]_vars PROVE QueueFresh'
  <1> TypeOK
    BY DEF IndInv
  <1>1. CASE UNCHANGED <<pc, launched, outbound>>
    BY <1>1 DEF QueueFresh
  <1>2. ASSUME NEW s \in SessionIds, Offer(s) PROVE QueueFresh'
    <2>1. PICK i \in Inc : pc[i] = "new" /\ pc' = [pc EXCEPT ![i] = "top"]
      BY <1>2 DEF Offer, StartSession
    <2>2. pc'[i] = "top" /\ \A j \in Inc : j # i => pc'[j] = pc[j]
      BY <2>1 DEF TypeOK
    <2>3. UNCHANGED <<launched, outbound>>
      BY <1>2 DEF Offer
    <2> QED BY <2>2, <2>3 DEF QueueFresh
  <1>3. ASSUME NEW s \in SessionIds, Signal(s) PROVE QueueFresh'
    <2>1. CASE UNCHANGED outbound
      BY <1>1, <1>3, <2>1 DEF Signal
    <2>2. CASE outbound' = [outbound EXCEPT ![sessions[s]] = Append(@, launched[sessions[s]])]
      <3> DEFINE i == sessions[s]
      <3>1. i \in Inc /\ outbound[i] \in Seq(Nat) /\ launched[i] \in Nat
        BY <1>3 DEF Signal, TypeOK
      <3>2. UNCHANGED <<pc, launched>>
        BY <1>3 DEF Signal
      <3>3. \A j \in Inc : j # i => outbound'[j] = outbound[j]
        BY <2>2 DEF TypeOK
      <3>4. outbound'[i] = Append(outbound[i], launched[i])
        BY <2>2, <3>1 DEF TypeOK
      <3> HIDE DEF i
      <3>5. \A k \in 1..Len(outbound'[i]) :
              \/ outbound'[i][k] = launched[i]
              \/ k \in 1..Len(outbound[i]) /\ outbound'[i][k] = outbound[i][k]
        BY <3>1, <3>4, AppendedElement
      <3> QED BY <3>1, <3>2, <3>3, <3>5 DEF QueueFresh
    <2> QED BY <1>3, <2>1, <2>2 DEF Signal
  <1>4. ASSUME NEW i \in Inc, Drain(i) PROVE QueueFresh'
    <2>1. /\ launched' = launched
          /\ \A j \in Inc : j # i => pc'[j] = pc[j] /\ outbound'[j] = outbound[j]
      BY <1>4 DEF Drain, Goto, TypeOK
    <2>2. launched[i] > 1 => outbound'[i] = <<>>
      BY <1>4 DEF Drain, TypeOK, RestartsCounted
    <2> QED BY <2>1, <2>2 DEF QueueFresh
  <1>5. ASSUME NEW i \in Inc, LaunchOk(i) PROVE QueueFresh'
    BY <1>5 DEF LaunchOk, Goto, TypeOK, QueueFresh
  <1>6. ASSUME NEW i \in Inc, Attach(i) PROVE QueueFresh'
    <2>1. /\ UNCHANGED <<outbound, launched>>
          /\ pc'[i] \notin {"serve", "cleanup"} /\ \A j \in Inc : j # i => pc'[j] = pc[j]
      BY <1>6 DEF Attach, Goto, TypeOK
    <2> QED BY <2>1 DEF QueueFresh
  <1>7. ASSUME NEW i \in Inc, LoopMove(i) \/ WorkerFails(i) PROVE QueueFresh'
    BY <1>7, LoopMoves DEF QueueFresh
  <1>8. ASSUME NEW w \in writers, WriterStep(w) PROVE QueueFresh'
    <2>1. PICK i \in Inc, n \in Nat : w = <<i, n>>
      BY DEF TypeOK
    <2>2. UNCHANGED <<pc, launched>>
      BY <1>8 DEF WriterStep, WriterDeliver, WriterFail, WriterExit
    <2>3. CASE UNCHANGED outbound
      BY <1>1, <2>2, <2>3
    <2>4. CASE outbound[i] # <<>> /\ outbound' = [outbound EXCEPT ![i] = Tail(@)]
      <3>1. outbound[i] \in Seq(Nat) /\ outbound'[i] = Tail(outbound[i])
        BY <2>4 DEF TypeOK
      <3>2. \A k \in 1..Len(outbound'[i]) :
              k + 1 \in 1..Len(outbound[i]) /\ outbound'[i][k] = outbound[i][k + 1]
        BY <2>4, <3>1, TailElement
      <3>3. \A j \in Inc : j # i => outbound'[j] = outbound[j]
        BY <2>4 DEF TypeOK
      <3> QED BY <2>2, <3>2, <3>3 DEF QueueFresh
    <2> QED BY <1>8, <2>1, <2>3, <2>4 DEF WriterStep, WriterDeliver, WriterFail, WriterExit
  <1>9. ASSUME NEW i \in Inc, RelayTerminate(i) \/ WindowExpires(i) PROVE QueueFresh'
    BY <1>9, <1>1 DEF RelayTerminate, WindowExpires
  <1>10. CASE UNCHANGED vars \/ Connection \/ StopTail \/ \E s \in SessionIds : Close(s)
    BY <1>10, <1>1 DEF vars, Connection, StopTail, Close, Connect, Disconnect, CancelScope
  <1> QED BY <1>2, <1>3, <1>4, <1>5, <1>6, <1>7, <1>8, <1>9, <1>10
          DEF Next, Handler, RunStep, WorkerStep, LoopMove

\* Cleanup tests the mark, so run() leaves "serve" towards its end only.
LEMMA ByeMarkedKept ==
  ASSUME IndInv, ByeMarked, [Next]_vars PROVE ByeMarked'
  <1> TypeOK
    BY DEF IndInv
  <1>1. CASE UNCHANGED <<pc, bye>> /\ terminated \subseteq terminated'
    BY <1>1 DEF ByeMarked
  <1>2. ASSUME NEW s \in SessionIds, Offer(s) PROVE ByeMarked'
    BY <1>2 DEF Offer, StartSession, TypeOK, ByeMarked
  <1>3. ASSUME NEW i \in Inc, LaunchOk(i) \/ LaunchError(i) \/ LaunchWait(i) \/ RunTop(i)
                              \/ Backoff(i) \/ Attach(i) \/ Drain(i)
        PROVE  ByeMarked'
    <2>1. i \notin bye
      BY <1>3 DEF ByeMarked, LaunchOk, LaunchError, LaunchWait, RunTop, Backoff, Attach, Drain
    <2>2. UNCHANGED <<bye, terminated>> /\ \A j \in Inc : j # i => pc'[j] = pc[j]
      BY <1>3, LoopMoves DEF LoopMove, LaunchOk, LaunchError, LaunchWait, RunTop, Backoff,
         Attach, Drain, Goto, TypeOK
    <2> QED BY <2>1, <2>2 DEF ByeMarked, TypeOK
  <1>4. ASSUME NEW i \in Inc, ServeCancelled(i) \/ Remove(i) \/ StopProcess(i) \/ WorkerFails(i)
        PROVE  ByeMarked'
    BY <1>4 DEF ServeCancelled, Remove, StopProcess, WorkerFails, Goto, TypeOK, ByeMarked
  <1>5. ASSUME NEW i \in Inc, Cleanup(i) PROVE ByeMarked'
    <2>1. UNCHANGED <<bye, terminated>> /\ \A j \in Inc : j # i => pc'[j] = pc[j]
      BY <1>5, LoopMoves DEF LoopMove, Cleanup
    <2>2. i \in terminated => pc'[i] = "remove"
      BY <1>5 DEF Cleanup, Ended, Goto, TypeOK
    <2> QED BY <2>1, <2>2 DEF ByeMarked, TypeOK
  <1>6. ASSUME NEW i \in Inc, RelayTerminate(i) PROVE ByeMarked'
    BY <1>6 DEF RelayTerminate, ByeMarked
  <1>7. ASSUME NEW i \in Inc, WindowExpires(i) PROVE ByeMarked'
    BY <1>7, <1>1 DEF WindowExpires
  <1>8. ASSUME NEW w \in writers, WriterStep(w) PROVE ByeMarked'
    BY <1>8, <1>1 DEF WriterStep, WriterDeliver, WriterFail, WriterExit
  <1>9. CASE UNCHANGED vars \/ Connection \/ StopTail \/ \E s \in SessionIds : Signal(s) \/ Close(s)
    BY <1>9, <1>1 DEF vars, Connection, StopTail, Signal, Close, Connect, Disconnect, CancelScope
  <1> QED BY <1>2, <1>3, <1>4, <1>5, <1>6, <1>7, <1>8, <1>9
          DEF Next, Handler, RunStep, WorkerStep

\* Connect rebinds every mapped session, Offer binds the session it maps.
LEMMA SenderIsCurrentKept ==
  ASSUME IndInv, SenderIsCurrent, [Next]_vars PROVE SenderIsCurrent'
  <1> TypeOK
    BY DEF IndInv
  <1>1. ASSUME UNCHANGED <<send, sender>>,
               \A s \in SessionIds : sessions'[s] \in {sessions[s], None}
        PROVE  SenderIsCurrent'
    BY <1>1 DEF SenderIsCurrent
  <1>2. CASE Connect
    BY <1>2 DEF Connect, RebindSender, Mapped, TypeOK, SenderIsCurrent
  <1>3. ASSUME NEW s \in SessionIds, Offer(s) PROVE SenderIsCurrent'
    BY <1>3 DEF Offer, StartSession, TypeOK, SenderIsCurrent
  <1>4. ASSUME NEW s \in SessionIds, Signal(s) \/ Close(s) PROVE SenderIsCurrent'
    BY <1>4, <1>1 DEF Signal, Close, StopLocked, TypeOK
  <1>5. ASSUME NEW i \in Inc, Remove(i) PROVE SenderIsCurrent'
    BY <1>5, <1>1 DEF Remove, TypeOK
  <1>6. CASE UNCHANGED <<send, sender, sessions>>
    BY <1>6, <1>1
  <1>7. ASSUME NEW i \in Inc, WorkerStep(i) \/ WindowExpires(i) PROVE SenderIsCurrent'
    BY <1>7, <1>6 DEF WorkerStep, LaunchOk, LaunchError, RelayTerminate, WorkerFails,
       WindowExpires
  <1>8. ASSUME NEW i \in Inc, RunStep(i) PROVE SenderIsCurrent'
    BY <1>8, <1>5, <1>6 DEF RunStep, RunTop, LaunchWait, Attach, Drain, ServeCancelled, Cleanup,
       Backoff, StopProcess
  <1>9. ASSUME NEW w \in writers, WriterStep(w) PROVE SenderIsCurrent'
    BY <1>9, <1>6 DEF WriterStep, WriterDeliver, WriterFail, WriterExit
  <1>10. CASE UNCHANGED vars \/ Disconnect \/ CancelScope \/ StopTail
    BY <1>10, <1>6 DEF vars, Disconnect, CancelScope, StopTail
  <1> QED BY <1>2, <1>3, <1>4, <1>7, <1>8, <1>9, <1>10 DEF Next, Handler, Connection

\* The invariants of the relayed frames hold in every reachable state.
THEOREM FrameInvariance == Spec => [](IndInv /\ FrameInv)
  <1>1. Init => FrameInv
    BY DEF Init, FrameInv, RestartsCounted, WritersStarted, QueueFresh, ByeMarked,
           SenderIsCurrent
  <1>2. IndInv /\ FrameInv /\ [Next]_vars => FrameInv'
    BY RestartsCountedKept, WritersStartedKept, QueueFreshKept, ByeMarkedKept,
       SenderIsCurrentKept DEF FrameInv
  <1> QED BY InitIndInv, NextIndInv, <1>1, <1>2, PTL DEF Spec

\* Frames of a mapped session go out on the newest connection, whatever
\* reconnects, offers and stops came in between.
THEOREM SenderCurrent == Spec => []SenderIsCurrent
  <1>1. IndInv /\ FrameInv => SenderIsCurrent
    BY DEF FrameInv
  <1> QED BY FrameInvariance, <1>1, PTL

\* A worker that sent session_terminate is never launched again, although the
\* mark is tested only when the serve loop ends.
THEOREM NeverRelaunched == Spec => []NoRelaunchAfterTerminate
  <1>1. IndInv /\ FrameInv => NoRelaunchAfterTerminate
    BY DEF FrameInv, ByeMarked, NoRelaunchAfterTerminate
  <1> QED BY FrameInvariance, <1>1, PTL

\* No signal routed for a dead worker reaches its successor, even while the
\* dead worker's writer is still alive beside the new one.
THEOREM NoStaleSignals == Spec => NoStaleSignal
  <1> DEFINE ForItsWorker == \A w \in writers : WriterDeliver(w[1], w[2]) =>
                          w[2] = 1 \/ Head(outbound[w[1]]) = w[2]
  <1>1. ASSUME IndInv, FrameInv, NEW w \in writers, WriterDeliver(w[1], w[2])
        PROVE  w[2] = 1 \/ Head(outbound[w[1]]) = w[2]
    <2>1. PICK i \in Inc, n \in Nat : w = <<i, n>>
      BY <1>1 DEF IndInv, TypeOK
    <2>2. w \in open /\ outbound[i] # <<>>
      BY <1>1, <2>1 DEF WriterDeliver
    <2>3. n = launched[i] /\ pc[i] \in {"attach", "drain", "serve", "cleanup"}
      BY <1>1, <2>1, <2>2 DEF IndInv, NoOrphanWorker
    <2>4. n >= 1 /\ pc[i] \in {"serve", "cleanup"}
      BY <1>1, <2>1, <2>3 DEF FrameInv, WritersStarted
    <2>5. outbound[i] \in Seq(Nat)
      BY <1>1 DEF IndInv, TypeOK
    <2>6. 1 \in 1..Len(outbound[i]) /\ Head(outbound[i]) = outbound[i][1]
      BY <2>2, <2>5
    <2>7. n > 1 => outbound[i][1] = n
      BY <1>1, <2>3, <2>4, <2>6 DEF FrameInv, QueueFresh
    <2> QED BY <2>1, <2>4, <2>6, <2>7
  <1>2. IndInv /\ FrameInv => [ForItsWorker]_vars
    BY <1>1
  <1> QED BY FrameInvariance, <1>2, PTL DEF NoStaleSignal
=============================================================================
