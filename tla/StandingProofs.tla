--------------------------- MODULE StandingProofs ---------------------------
(***************************************************************************)
(* Proofs about Standing, for any keys and any bounds, about UbusListen,   *)
(* for any lines and any capacities, and that the goroutine that           *)
(* UbusListen details is a task of Standing.                               *)
(*                                                                         *)
(* NoOrphan, RegisteredAlive and StopClosedOnce are inductive together     *)
(* once it is known that a task that was started has a key, and that only  *)
(* started tasks are ever told to stop: a fresh stop channel is neither    *)
(* registered nor closed.                                                  *)
(***************************************************************************)
EXTENDS Standing, UbusListen, TLAPS

\* A started task has a key; a task not started has not been told to stop.
Started ==
  \A t \in Tasks :
    IF tpc[t] = "none" THEN t \notin closing \cup stopped ELSE tkey[t] \in Keys

IInv == TypeOK /\ Started /\ NoOrphan /\ RegisteredAlive /\ StopClosedOnce

\* In the initial state there is no task and no registration.
LEMMA InitInv == Init => IInv
<1> SUFFICES ASSUME Init PROVE IInv
    OBVIOUS
<1> USE DEF Init
<1>1. TypeOK
  <2>1. /\ sess \in 0 .. MaxSessions
        /\ stops \in 0 .. MaxStops
        /\ late \in 0 .. MaxLate
    BY StandingAssumption
  <2>2. /\ registry \in [Keys -> 0 .. MaxTasks]
        /\ tchan \in [Tasks -> 0 .. MaxSessions]
        /\ tsess \in [Tasks -> 0 .. MaxSessions]
    BY StandingAssumption
  <2>3. /\ tpc \in [Tasks -> {"none", "started", "waiting", "ticking",
                              "leaving", "done"}]
        /\ tkey \in [Tasks -> Keys \cup {NoKey}]
    OBVIOUS
  <2>4. /\ mpc \in {"idle", "setup", "loop"}
        /\ sessionDisconnCh = IF mpc = "loop" THEN sess ELSE 0
        /\ closing \subseteq Tasks /\ stopped \subseteq Tasks
    OBVIOUS
  <2>5. up \in BOOLEAN
    OBVIOUS
  <2> QED
    BY <2>1, <2>2, <2>3, <2>4, <2>5 DEF TypeOK
<1>2. Started
  BY DEF Started
<1>3. NoOrphan
  BY DEF NoOrphan, Running
<1>4. RegisteredAlive
  BY DEF RegisteredAlive
<1>5. StopClosedOnce
  BY DEF StopClosedOnce
<1> QED
  BY <1>1, <1>2, <1>3, <1>4, <1>5 DEF IInv

\* Every step preserves the invariant.  The session's own steps touch no
\* registration; a task's steps touch only its own.
LEMMA NextInv == IInv /\ [Next]_vars => IInv'
<1> SUFFICES ASSUME IInv, [Next]_vars
             PROVE  IInv'
    OBVIOUS
<1> USE StandingAssumption DEF IInv, TypeOK, Tasks
<1>1. CASE Session \/ ConnectionLost
  <2> USE DEF Session, Connect, SetupFails, EnterLoop, SessionEnds, ConnectionLost
  <2>1. UNCHANGED <<registry, stopVars, taskVars, late>>
    BY <1>1
  <2>2. sess' \in 0 .. MaxSessions
    BY <1>1
  <2>3. mpc' \in {"idle", "setup", "loop"}
    BY <1>1
  <2>4. up' \in BOOLEAN
    BY <1>1
  <2>5. sessionDisconnCh' = IF mpc' = "loop" THEN sess' ELSE 0
    BY <1>1
  <2>6. TypeOK'
    BY <2>1, <2>2, <2>3, <2>4, <2>5 DEF stopVars, taskVars
  <2>7. (Started /\ NoOrphan)'
    BY <2>1 DEF stopVars, taskVars, Started, NoOrphan, Running
  <2>8. (RegisteredAlive /\ StopClosedOnce)'
    BY <2>1 DEF stopVars, taskVars, RegisteredAlive, StopClosedOnce
  <2> QED
    BY <2>6, <2>7, <2>8
<1>2. ASSUME NEW k \in Keys, StartOrNoop(k)
      PROVE  IInv'
  <2> USE <1>2
  <2>1. PICK t \in NewTask :
          /\ registry[k] = 0
          /\ registry' = [registry EXCEPT ![k] = t]
          /\ tpc' = [tpc EXCEPT ![t] = "started"]
          /\ tkey' = [tkey EXCEPT ![t] = k]
          /\ tsess' = [tsess EXCEPT ![t] = sess]
          /\ UNCHANGED <<sessionVars, stopVars, tchan>>
    BY DEF StartOrNoop
  <2>2. t \in Tasks /\ tpc[t] = "none"
    BY <2>1 DEF NewTask
  <2>3. TypeOK'
    <3>1. late' \in 0 .. MaxLate
      BY DEF StartOrNoop, Handling
    <3>2. registry' \in [Keys -> 0 .. MaxTasks]
      BY <2>1, <2>2
    <3>3. /\ tpc' \in [Tasks -> {"none", "started", "waiting", "ticking",
                                 "leaving", "done"}]
          /\ tkey' \in [Tasks -> Keys \cup {NoKey}]
      BY <2>1, <2>2
    <3>4. tsess' \in [Tasks -> 0 .. MaxSessions]
      BY <2>1, <2>2
    <3>5. UNCHANGED <<sessionVars, stopVars, tchan>>
      BY <2>1
    <3> QED
      BY <3>1, <3>2, <3>3, <3>4, <3>5 DEF sessionVars, stopVars
  <2>4. Started'
    BY <2>1, <2>2 DEF Started, stopVars
  <2>5. NoOrphan'
    BY <2>1, <2>2 DEF NoOrphan, Running, Started, stopVars
  <2>6. RegisteredAlive'
    BY <2>1, <2>2 DEF RegisteredAlive, Started, stopVars
  <2>7. StopClosedOnce'
    BY <2>1 DEF StopClosedOnce, stopVars
  <2> QED
    BY <2>3, <2>4, <2>5, <2>6, <2>7
<1>3. ASSUME NEW k \in Keys, StopKey(k)
      PROVE  IInv'
  <2> USE <1>3
  <2> DEFINE t == registry[k]
  <2>1. t \in Tasks /\ tkey[t] = k /\ tpc[t] # "none" /\ t \notin stopped
    BY DEF StopKey, RegisteredAlive
  <2>2. TypeOK'
    <3>1. late' \in 0 .. MaxLate
      BY DEF StopKey, Handling
    <3>2. stops' \in 0 .. MaxStops
      BY DEF StopKey
    <3>3. closing' \subseteq Tasks
      BY <2>1 DEF StopKey
    <3>4. registry' \in [Keys -> 0 .. MaxTasks]
      <4>1. registry' = [registry EXCEPT ![k] = 0]
        BY DEF StopKey
      <4> QED
        BY <4>1
    <3>5. UNCHANGED <<sessionVars, stopped, taskVars>>
      BY DEF StopKey
    <3> QED
      BY <3>1, <3>2, <3>3, <3>4, <3>5 DEF sessionVars, taskVars
  <2>3. Started'
    BY <2>1 DEF Started, StopKey, taskVars
  <2>4. NoOrphan'
    BY <2>1 DEF NoOrphan, Running, StopKey, Started, taskVars
  <2>5. RegisteredAlive'
    BY <2>1 DEF RegisteredAlive, StopKey, taskVars
  <2>6. StopClosedOnce'
    BY <2>1 DEF StopClosedOnce, StopKey
  <2> QED
    BY <2>2, <2>3, <2>4, <2>5, <2>6
<1>4. ASSUME NEW t \in Tasks, CloseStop(t)
      PROVE  IInv'
  <2>1. /\ t \in closing
        /\ closing' = closing \ {t}
        /\ stopped' = stopped \cup {t}
        /\ UNCHANGED <<sessionVars, registry, stops, taskVars, late>>
    BY <1>4 DEF CloseStop
  <2>2. TypeOK'
    BY <2>1 DEF sessionVars, taskVars
  <2>3. Started'
    BY <2>1 DEF taskVars, Started
  <2>4. NoOrphan'
    BY <2>1 DEF taskVars, NoOrphan, Running
  <2>5. RegisteredAlive'
    BY <2>1 DEF taskVars, RegisteredAlive
  <2>6. StopClosedOnce'
    BY <2>1 DEF StopClosedOnce
  <2> QED
    BY <2>2, <2>3, <2>4, <2>5, <2>6
<1>5. ASSUME NEW t \in Tasks, Task(t)
      PROVE  IInv'
  <2>1. CASE ReadChannel(t) \/ Tick(t) \/ TickDone(t) \/ Leave(t)
    <3>1. TypeOK'
      <4>1. UNCHANGED <<sessionVars, registry, stopVars, tkey, tsess, late>>
        BY <2>1 DEF ReadChannel, Tick, TickDone, Leave
      <4>2. tchan' \in [Tasks -> 0 .. MaxSessions]
        <5>1. sessionDisconnCh \in 0 .. MaxSessions
          OBVIOUS
        <5>2. \/ tchan' = tchan
              \/ tchan' = [tchan EXCEPT ![t] = sessionDisconnCh]
          BY <2>1 DEF ReadChannel, Tick, TickDone, Leave
        <5> QED
          BY <5>1, <5>2
      <4>3. tpc' \in [Tasks -> {"none", "started", "waiting", "ticking",
                                "leaving", "done"}]
        <5>1. \E to \in {"waiting", "ticking", "leaving"} :
                tpc' = [tpc EXCEPT ![t] = to]
          BY <2>1 DEF ReadChannel, Tick, TickDone, Leave
        <5> QED
          BY <5>1
      <4> QED
        BY <4>1, <4>2, <4>3 DEF sessionVars, stopVars
    <3>2. /\ UNCHANGED <<registry, closing, stopped, tkey>>
          /\ \E to \in {"waiting", "ticking", "leaving"} :
               tpc' = [tpc EXCEPT ![t] = to]
          /\ Running(t)
      BY <2>1 DEF ReadChannel, Tick, TickDone, Leave, stopVars, Running
    <3>3. (Started /\ NoOrphan)'
      BY <3>2 DEF Started, NoOrphan, Running
    <3>4. (RegisteredAlive /\ StopClosedOnce)'
      BY <3>2 DEF RegisteredAlive, StopClosedOnce, Running
    <3> QED
      BY <3>1, <3>3, <3>4
  <2>2. CASE CleanupOwnEntry(t)
    <3>1. tkey[t] \in Keys
      BY <2>2 DEF CleanupOwnEntry, Started
    <3>2. TypeOK'
      <4>1. registry' \in [Keys -> 0 .. MaxTasks]
        BY <2>2, <3>1 DEF CleanupOwnEntry
      <4>2. tpc' \in [Tasks -> {"none", "started", "waiting", "ticking",
                                "leaving", "done"}]
        BY <2>2 DEF CleanupOwnEntry
      <4>3. UNCHANGED <<sessionVars, stopVars, tkey, tchan, tsess, late>>
        BY <2>2 DEF CleanupOwnEntry
      <4> QED
        BY <4>1, <4>2, <4>3 DEF sessionVars, stopVars
    <3>3. Started'
      BY <2>2, <3>1 DEF CleanupOwnEntry, Started, stopVars
    <3>4. NoOrphan'
      BY <2>2, <3>1 DEF CleanupOwnEntry, NoOrphan, Running, stopVars
    <3>5. RegisteredAlive'
      BY <2>2, <3>1 DEF CleanupOwnEntry, RegisteredAlive, stopVars
    <3>6. StopClosedOnce'
      BY <2>2 DEF CleanupOwnEntry, StopClosedOnce, stopVars
    <3> QED
      BY <3>2, <3>3, <3>4, <3>5, <3>6
  <2> QED
    BY <1>5, <2>1, <2>2 DEF Task
<1>6. CASE UNCHANGED vars
  BY <1>6 DEF vars, sessionVars, stopVars, taskVars, Started, NoOrphan,
              RegisteredAlive, StopClosedOnce, Running
<1> QED
  BY <1>1, <1>2, <1>3, <1>4, <1>5, <1>6 DEF Next

\* The invariant holds throughout.
LEMMA Invariant == Spec => []IInv
<1>1. Init => IInv
  BY InitInv
<1>2. IInv /\ [Next]_vars => IInv'
  BY NextInv
<1> QED
  BY <1>1, <1>2, PTL DEF Spec

\* Every variable of the registry model has its type in every state.
THEOREM StandingTypes == Spec => []TypeOK
BY Invariant, PTL DEF IInv

\* A goroutine that polls is registered under its key, or has been or is
\* being told to stop: there is no way to lose the handle of a running one.
THEOREM NoTaskOrphaned == Spec => []NoOrphan
BY Invariant, PTL DEF IInv

\* What the registry holds is a goroutine that has not returned and was not
\* told to stop, so that answering "already running" is right.
THEOREM RegistryAlive == Spec => []RegisteredAlive
BY Invariant, PTL DEF IInv

\* No stop channel is closed a second time.
THEOREM ClosedOnce == Spec => []StopClosedOnce
BY Invariant, PTL DEF IInv

-----------------------------------------------------------------------------
(* UbusListen.  The stages of the pipeline end one after the other: the        *)
(* subprocess, the pump, the reader, the publisher.  Once that order is part of *)
(* the invariant, waiting for the last stage is waiting for all of them.       *)

\* Each stage ends after the one before it; where runUbusListen does not
\* stream or drain, the last one has ended.
StagesInOrder ==
  /\ pump \in {"none", "scanning", "waiting", "done"}
  /\ proc \in {"none", "running", "exited"}
  /\ pump = "none" => proc = "none"
  /\ pump = "done" => proc = "exited"
  /\ reader = "none" => pump = "none"
  /\ reader = "done" => pump = "done"
  /\ publisher = "none" => reader = "none"
  /\ publisher = "done" => reader = "done"
  /\ pc \in {"streaming", "draining"} => pump # "none"
  /\ pc \notin {"streaming", "draining"} => publisher \in {"none", "done"}

\* The buffers hold at most what their capacities allow.
LEMMA InitType == ListenInit => ListenTypeOK
<1> SUFFICES ASSUME ListenInit PROVE ListenTypeOK
    OBVIOUS
<1> USE UbusListenAssumption DEF ListenInit
<1>1. {told, leaving} \subseteq BOOLEAN
  OBVIOUS
<1>2. pipe \in Seq(LineKinds) /\ Len(pipe) <= PipeCap
  OBVIOUS
<1>3. lines \in Seq(LineKinds) /\ Len(lines) <= LinesCap
  OBVIOUS
<1>4. queue \in 0 .. QueueCap
  OBVIOUS
<1> QED
  BY <1>1, <1>2, <1>3, <1>4 DEF ListenTypeOK

\* Every step keeps the types and the capacities.
LEMMA TypePreserved == ListenTypeOK /\ [ListenNext]_listenVars => ListenTypeOK'
<1> SUFFICES ASSUME ListenTypeOK, [ListenNext]_listenVars
             PROVE  ListenTypeOK'
    OBVIOUS
<1> USE UbusListenAssumption DEF ListenTypeOK
<1>1. CASE Tell \/ StartFails \/ Main
  <2>1. CASE Tell \/ StartFails
    BY <2>1 DEF Tell, StartFails, mainVars, ubusVars, pumpVars, readerVars
  <2>2. CASE Quit \/ SeeStop \/ SeeExit
    BY <2>2 DEF Quit, SeeStop, SeeExit, mainVars, ubusVars, pumpVars, readerVars
  <2>3. CASE Drained \/ Reaped \/ Wake
    BY <2>3 DEF Drained, Reaped, Wake, mainVars, ubusVars, pumpVars, readerVars
  <2> QED
    BY <1>1, <2>1, <2>2, <2>3 DEF Main
<1>2. CASE Start
  BY <1>2 DEF Start
<1>3. ASSUME NEW l \in LineKinds, Emit(l)
      PROVE  ListenTypeOK'
  BY <1>3 DEF Emit, mainVars, pumpVars, readerVars
<1>4. CASE Die
  BY <1>4 DEF Die, mainVars, pumpVars, readerVars
<1>5. CASE ScanLine
  BY <1>5 DEF ScanLine, mainVars, readerVars
<1>6. CASE ScanEnds \/ Reap
  BY <1>6 DEF ScanEnds, Reap, mainVars, ubusVars, readerVars
<1>7. CASE ReadLine
  BY <1>7 DEF ReadLine, mainVars, ubusVars
<1>8. CASE ReadEnds
  BY <1>8 DEF ReadEnds, mainVars, ubusVars, pumpVars
<1>9. CASE BeginPublish \/ EndPublish \/ PublishEnds
  BY <1>9 DEF BeginPublish, EndPublish, PublishEnds, mainVars, ubusVars, pumpVars,
              readerVars
<1>10. CASE UNCHANGED listenVars
  BY <1>10 DEF listenVars, mainVars, ubusVars, pumpVars, readerVars
<1> QED
  BY <1>1, <1>2, <1>3, <1>4, <1>5, <1>6, <1>7, <1>8, <1>9, <1>10
     DEF ListenNext, Pump, Reader

\* Every variable has its type and no buffer exceeds its capacity.
THEOREM ListenTypes == ListenSpec => []ListenTypeOK
BY InitType, TypePreserved, PTL DEF ListenSpec

\* Every step keeps the order in which the stages end.
LEMMA StagesPreserved == StagesInOrder /\ [ListenNext]_listenVars => StagesInOrder'
<1> SUFFICES ASSUME StagesInOrder, [ListenNext]_listenVars
             PROVE  StagesInOrder'
    OBVIOUS
<1> USE DEF StagesInOrder, mainVars, ubusVars, pumpVars, readerVars
<1>1. CASE Tell \/ StartFails \/ Start
  BY <1>1 DEF Tell, StartFails, Start
<1>2. CASE Main
  BY <1>2 DEF Main, Quit, SeeStop, SeeExit, Drained, Reaped, Wake
<1>3. ASSUME NEW l \in LineKinds, Emit(l)
      PROVE  StagesInOrder'
  BY <1>3 DEF Emit
<1>4. CASE Die \/ Pump
  BY <1>4 DEF Die, Pump, ScanLine, ScanEnds, Reap
<1>5. CASE Reader
  BY <1>5 DEF Reader, ReadLine, ReadEnds
<1>6. CASE BeginPublish \/ EndPublish \/ PublishEnds
  BY <1>6 DEF BeginPublish, EndPublish, PublishEnds
<1>7. CASE UNCHANGED listenVars
  BY <1>7 DEF listenVars
<1> QED
  BY <1>1, <1>2, <1>3, <1>4, <1>5, <1>6, <1>7 DEF ListenNext

\* When runUbusListen has returned or starts ubus again, nothing of an earlier
\* subprocess is left.
THEOREM AlwaysNothingLeftBehind == ListenSpec => []NothingLeftBehind
<1>1. ListenInit => StagesInOrder
  BY DEF ListenInit, StagesInOrder
<1>2. ListenTypeOK /\ StagesInOrder => NothingLeftBehind
  BY DEF ListenTypeOK, StagesInOrder, NothingLeftBehind
<1> QED
  BY <1>1, <1>2, StagesPreserved, ListenTypes, PTL DEF ListenSpec

-----------------------------------------------------------------------------
(* A listen is a task. *)

\* Where the goroutine is in Standing's terms: it waits in a select, is busy with
\* the teardown of a dead subprocess, or leaves.
TaskPlace ==
  CASE leaving \/ pc = "left" -> "leaving"
    [] ~ leaving /\ pc \in {"draining", "reaping"} -> "ticking"
    [] OTHER -> "waiting"

\* Tick, TickDone and Leave of Standing; told is the guard of Leave.
TaskStep ==
  \/ TaskPlace = "waiting" /\ TaskPlace' = "ticking"
  \/ TaskPlace = "ticking" /\ TaskPlace' = "waiting"
  \/ TaskPlace = "waiting" /\ told /\ TaskPlace' = "leaving"

\* Once it tears down for good, it only drains and leaves.
Leaves == leaving => pc \in {"draining", "left"}

\* The loop, the pipeline and the subprocess of a listen take together no step that
\* the one goroutine of Standing does not: it leaves only from a select and only
\* when its stop channel or its session's channel is closed, and never comes back.
THEOREM ListenIsATask == ListenSpec => TaskPlace = "waiting" /\ [][TaskStep]_TaskPlace
<1>1. ListenInit => TaskPlace = "waiting" /\ Leaves /\ ListenTypeOK
  BY InitType DEF ListenInit, TaskPlace, Leaves
<1>2. ASSUME ListenTypeOK, Leaves, [ListenNext]_listenVars
      PROVE  Leaves' /\ [TaskStep]_TaskPlace
  <2> USE DEF Leaves, TaskStep, TaskPlace, mainVars, ListenTypeOK
  <2>1. CASE UNCHANGED mainVars
    BY <1>2, <2>1
  <2>2. CASE Start \/ StartFails
    BY <1>2, <2>2 DEF Start, StartFails
  <2>3. CASE Quit \/ SeeStop \/ SeeExit
    BY <1>2, <2>3 DEF Quit, SeeStop, SeeExit
  <2>4. CASE Drained \/ Reaped \/ Wake
    BY <1>2, <2>4 DEF Drained, Reaped, Wake
  <2>5. \/ UNCHANGED mainVars \/ Start \/ StartFails \/ Main
    BY <1>2 DEF ListenNext, Tell, Emit, Die, Pump, ScanLine, ScanEnds, Reap, Reader, ReadLine,
                ReadEnds, BeginPublish, EndPublish, PublishEnds, listenVars
  <2> QED
    BY <2>1, <2>2, <2>3, <2>4, <2>5 DEF Main
<1> QED
  BY <1>1, <1>2, ListenTypes, PTL DEF ListenSpec

=============================================================================
