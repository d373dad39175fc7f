-------------------------- MODULE ConfigApplyProofs --------------------------
(***************************************************************************)
(* Proofs about ConfigApply, for every number of commands, packages,       *)
(* sessions, handler invocations and restarts.                             *)
(***************************************************************************)
EXTENDS ConfigApply, SequenceTheorems, FunctionTheorems,
        FiniteSetTheorems, TLAPS

-----------------------------------------------------------------------------
(* Types *)

TypeInv == TypeOK /\ QueueOK /\ JobsOK

\* The initial state has the right types.
LEMMA TypeInit == Init => TypeInv
<1> SUFFICES ASSUME Init PROVE TypeInv
  OBVIOUS
<1> USE ConstantsAssumption DEF Init, Jobs
<1>1. QueueOK /\ JobsOK
  BY DEF QueueOK, JobsOK
<1>2. queue \in Seq(Messages) /\ seen \in Seq(Cmds)
  OBVIOUS
<1>3. disk \in Configs /\ backup \in [Jobs -> Configs]
  BY DEF Configs
<1>4. /\ committed \in [Jobs -> SUBSET Pkgs]
      /\ watched \in [Jobs -> {0} \cup Sessions]
      /\ jcmd \in [Jobs -> Cmds \cup {NoCmd}]
      /\ confirmed \in [Jobs -> BOOLEAN]
  OBVIOUS
<1>5. /\ hpc \in [Jobs -> {"none", "begun", "backed_up", "nack", "applied",
                           "publishing", "done", "killed"}]
      /\ wpc \in [Jobs -> {"none", "start", "waiting", "ackok", "restore",
                           "restored", "exit", "done", "killed"}]
      /\ verdict \in [Jobs -> {"none", "failed", "ok", "rolled_back"}]
  OBVIOUS
<1>6. /\ sess \in 0 .. MaxSessions /\ njobs \in 0 .. MaxJobs
      /\ crashes \in 0 .. MaxCrashes /\ delivered \in Nat
  OBVIOUS
<1>7. /\ acks \subseteq Jobs \X {"ok", "error"} /\ sent \subseteq Messages
      /\ watchdogActive \in BOOLEAN
  OBVIOUS
<1>8. /\ link \in {"up", "dead", "closed"} /\ dispatcher \in {"free", "handling"}
      /\ mpc \in {"idle", "connected", "subscribed", "setup", "reporting", "loop"}
  OBVIOUS
<1>9. /\ sessionDisconnCh \in {0} \cup Sessions /\ mainAck \in {0} \cup Jobs
      /\ confirmCh \in {0} \cup Jobs /\ pendingAck \in {0} \cup Jobs
      /\ confirmCmdID \in Cmds \cup {NoCmd}
  OBVIOUS
<1>10. TypeOK
  BY ONLY <1>2, <1>3, <1>4, <1>5, <1>6, <1>7, <1>8, <1>9 DEF TypeOK
<1> QED
  BY <1>1, <1>10 DEF TypeInv

\* The message to be dispatched is one of the server's.
LEMMA CurrentIsMessage ==
  ASSUME TypeInv, delivered < Len(queue)
  PROVE  Current \in Messages /\ Current.cmd \in Cmds
<1>1. queue \in Seq(Messages) /\ delivered + 1 \in 1 .. Len(queue)
  BY DEF TypeInv, TypeOK
<1>2. Current \in Messages
  BY <1>1, ElementOfSeq DEF Current
<1> QED
  BY <1>2 DEF Messages

\* Forgetting the oldest PUBACKed message keeps the queue a queue.
LEMMA TailOfQueue ==
  ASSUME queue \in Seq(Messages), queue # <<>>
  PROVE  Tail(queue) \in Seq(Messages) /\ Len(Tail(queue)) = Len(queue) - 1
  BY HeadTailProperties

\* The status of a new ack is one the server knows.
LEMMA AckAdded ==
  ASSUME NEW j \in Jobs, NEW st \in {"ok", "error"},
         acks \subseteq Jobs \X {"ok", "error"}
  PROVE  acks \cup {<<j, st>>} \subseteq Jobs \X {"ok", "error"}
  OBVIOUS

\* Every step keeps the types.
LEMMA TypeStep == TypeInv /\ [Next]_vars => TypeInv'
<1> SUFFICES ASSUME TypeInv, [Next]_vars
             PROVE  TypeInv'
  OBVIOUS
<1> USE ConstantsAssumption
    DEF TypeInv, TypeOK, QueueOK, JobsOK, Jobs, Sessions, Configs, Messages,
        netVars, mainVars, brokerVars, dispatchVars, confirmVars, handlerVars,
        watchdogVars
<1>1. ASSUME NEW c \in Cmds, SendApply(c)
      PROVE  TypeInv'
  <2> DEFINE m == [type |-> "config_apply", cmd |-> c]
  <2>1. /\ m \in Messages
        /\ sent' = sent \cup {m}
        /\ queue' = Append(queue, m)
    BY <1>1 DEF SendApply
  <2>2. /\ queue' \in Seq(Messages) /\ Len(queue') = Len(queue) + 1
        /\ sent' \subseteq Messages
    BY <2>1
  <2>3. JobsOK'
    BY <1>1 DEF SendApply
  <2>4. QueueOK'
    BY <1>1, <2>2 DEF SendApply
  <2> QED
    BY <1>1, <2>2, <2>3, <2>4 DEF SendApply
<1>2. ASSUME NEW c \in Cmds, SendConfirm(c)
      PROVE  TypeInv'
  BY <1>2 DEF SendConfirm
<1>3. CASE ConnectionDies
  BY <1>3 DEF ConnectionDies
<1>4. CASE ConnectionLossDetected
  BY <1>4 DEF ConnectionLossDetected
<1>5. CASE SessionExpires
  BY <1>5 DEF SessionExpires
<1>6. CASE UnroutedDelivery
  BY <1>6 DEF UnroutedDelivery
<1>7. CASE Connect
  BY <1>7 DEF Connect
<1>8. CASE SubscribeCommands
  BY <1>8 DEF SubscribeCommands
<1>9. CASE SubscribeFails
  BY <1>9 DEF SubscribeFails
<1>10. CASE SubscribeOthers
  BY <1>10 DEF SubscribeOthers
<1>11. CASE TakeAckAtStart
  BY <1>11 DEF TakeAckAtStart
<1>12. CASE EnterLoop
  BY <1>12 DEF EnterLoop
<1>13. CASE Heartbeat
  BY <1>13 DEF Heartbeat
<1>14. CASE DeferredAckSent
  BY <1>14 DEF DeferredAckSent
<1>15. CASE DeferredAckGivenUp
  BY <1>15 DEF DeferredAckGivenUp
<1>16. CASE SessionEnds
  BY <1>16 DEF SessionEnds
<1>17. CASE DropDuplicate
  BY <1>17 DEF DropDuplicate, CanDispatch, Current
<1>18. CASE StartApply
  <2> DEFINE c == Current.cmd
  <2>1. Current \in Messages /\ c \in Cmds
    BY <1>18, CurrentIsMessage DEF StartApply, CanDispatch
  <2>2. seen' \in Seq(Cmds)
    BY <1>18, <2>1 DEF StartApply, Remember
  <2>3. njobs + 1 \in Jobs
    BY <1>18 DEF StartApply
  <2> HIDE DEF c
  <2>4. /\ jcmd' = [jcmd EXCEPT ![njobs + 1] = c]
        /\ hpc' = [hpc EXCEPT ![njobs + 1] = "begun"]
    BY <1>18 DEF StartApply, c
  <2>5. JobsOK'
    BY <1>18, <2>1, <2>3, <2>4 DEF StartApply
  <2>6. QueueOK'
    BY <1>18 DEF StartApply, CanDispatch
  <2> QED
    BY <1>18, <2>1, <2>2, <2>3, <2>4, <2>5, <2>6 DEF StartApply
<1>19. CASE HandleConfirm
  <2>1. confirmed' \in [Jobs -> BOOLEAN]
    BY <1>19 DEF HandleConfirm
  <2>2. /\ confirmCmdID' \in Cmds \cup {NoCmd}
        /\ confirmCh' \in {0} \cup Jobs
    BY <1>19 DEF HandleConfirm
  <2> QED
    BY <1>19, <2>1, <2>2 DEF HandleConfirm, CanDispatch
<1>20. CASE PubAckArrives
  <2>1. queue # <<>>
    BY <1>20 DEF PubAckArrives
  <2>2. queue' \in Seq(Messages) /\ Len(queue') = Len(queue) - 1
    BY <1>20, <2>1, TailOfQueue DEF PubAckArrives
  <2> HIDE DEF Messages
  <2>3. TypeOK' /\ JobsOK'
    BY <1>20, <2>2 DEF PubAckArrives
  <2>4. QueueOK'
    BY <1>20, <2>2 DEF PubAckArrives
  <2> QED
    BY <2>3, <2>4
<1>21. ASSUME NEW j \in Jobs, BackUp(j)
      PROVE  TypeInv'
  BY <1>21 DEF BackUp
<1>22. ASSUME NEW j \in Jobs, RejectPayload(j)
      PROVE  TypeInv'
  BY <1>22 DEF RejectPayload
<1>23. ASSUME NEW j \in Jobs, ApplySucceeds(j)
      PROVE  TypeInv'
  <2>1. jcmd[j] \in Cmds /\ Touches[jcmd[j]] \in SUBSET Pkgs
    BY <1>23 DEF ApplySucceeds
  <2>2. disk' \in Configs
    BY <1>23, <2>1 DEF ApplySucceeds, WriteAll
  <2> QED
    BY <1>23, <2>1, <2>2 DEF ApplySucceeds
<1>24. ASSUME NEW j \in Jobs, ApplyFails(j)
      PROVE  TypeInv'
  <2>1. jcmd[j] \in Cmds /\ Touches[jcmd[j]] \in SUBSET Pkgs
    BY <1>24 DEF ApplyFails
  <2>2. disk' \in Configs
    BY <1>24, <2>1 DEF ApplyFails, WriteAll
  <2> QED
    BY <1>24, <2>1, <2>2 DEF ApplyFails
<1>25. ASSUME NEW j \in Jobs, NackSent(j)
      PROVE  TypeInv'
  <2>1. acks' \subseteq Jobs \X {"ok", "error"}
    BY <1>25, AckAdded DEF NackSent
  <2>2. /\ dispatcher' \in {"free", "handling"} /\ delivered' \in Nat
        /\ QueueOK'
    BY <1>25 DEF NackSent, ReturnFrom
  <2> QED
    BY <1>25, <2>1, <2>2 DEF NackSent
<1>26. ASSUME NEW j \in Jobs, StartWatchdog(j)
      PROVE  TypeInv'
  BY <1>26 DEF StartWatchdog
<1>27. ASSUME NEW j \in Jobs, StatePublished(j)
      PROVE  TypeInv'
  BY <1>27 DEF StatePublished, ReturnFrom
<1>28. ASSUME NEW j \in Jobs, RollBackAtStart(j)
      PROVE  TypeInv'
  BY <1>28 DEF RollBackAtStart
<1>29. ASSUME NEW j \in Jobs, BeginWait(j)
      PROVE  TypeInv'
  BY <1>29 DEF BeginWait
<1>30. ASSUME NEW j \in Jobs, NoticeDisconnect(j)
      PROVE  TypeInv'
  BY <1>30 DEF NoticeDisconnect
<1>31. ASSUME NEW j \in Jobs, ConfirmReceived(j)
      PROVE  TypeInv'
  BY <1>31 DEF ConfirmReceived
<1>32. ASSUME NEW j \in Jobs, TimerConfirms(j)
      PROVE  TypeInv'
  BY <1>32 DEF TimerConfirms
<1>33. ASSUME NEW j \in Jobs, TimerRollsBack(j)
      PROVE  TypeInv'
  BY <1>33 DEF TimerRollsBack
<1>34. ASSUME NEW j \in Jobs, OkAckSent(j)
      PROVE  TypeInv'
  BY <1>34 DEF OkAckSent
<1>35. ASSUME NEW j \in Jobs, Restore(j)
      PROVE  TypeInv'
  BY <1>35 DEF Restore
<1>36. ASSUME NEW j \in Jobs, QueueRollbackAck(j)
      PROVE  TypeInv'
  BY <1>36 DEF QueueRollbackAck
<1>37. ASSUME NEW j \in Jobs, WatchdogExits(j)
      PROVE  TypeInv'
  <2>1. wpc' \in [Jobs -> {"none", "start", "waiting", "ackok", "restore",
                           "restored", "exit", "done", "killed"}]
    BY <1>37 DEF WatchdogExits
  <2>2. /\ confirmCmdID' \in Cmds \cup {NoCmd}
        /\ confirmCh' \in {0} \cup Jobs
    BY <1>37 DEF WatchdogExits
  <2>3. JobsOK'
    BY <1>37 DEF WatchdogExits
  <2> QED
    BY <1>37, <2>1, <2>2, <2>3 DEF WatchdogExits
<1>38. CASE Crash
  <2>1. /\ hpc' \in [Jobs -> {"none", "begun", "backed_up", "nack", "applied",
                              "publishing", "done", "killed"}]
        /\ wpc' \in [Jobs -> {"none", "start", "waiting", "ackok", "restore",
                              "restored", "exit", "done", "killed"}]
    BY <1>38 DEF Crash
  <2>2. JobsOK'
    BY <1>38 DEF Crash
  <2>3. QueueOK'
    <3>1. Len(queue) \in Nat
      BY LenProperties
    <3> QED
      BY <1>38, <3>1 DEF Crash
  <2>4. TypeOK'
    <3>1. /\ crashes' \in 0 .. MaxCrashes /\ link' = "closed" /\ mpc' = "idle"
          /\ sessionDisconnCh' = 0 /\ mainAck' = 0 /\ dispatcher' = "free"
          /\ delivered' = 0 /\ seen' = <<>> /\ confirmCmdID' = NoCmd
          /\ confirmCh' = 0 /\ watchdogActive' = FALSE /\ pendingAck' = 0
      BY <1>38 DEF Crash
    <3>2. UNCHANGED <<sess, queue, sent, acks, njobs, jcmd, backup, committed,
                      watched, confirmed, verdict, disk>>
      BY <1>38 DEF Crash
    <3>3. seen' \in Seq(Cmds)
      BY <3>1
    <3> QED
      BY <2>1, <3>1, <3>2, <3>3
  <2> QED
    BY <2>2, <2>3, <2>4
<1>39. CASE UNCHANGED vars
  BY <1>39 DEF vars
<1> QED
  BY <1>1, <1>2, <1>3, <1>4, <1>5, <1>6, <1>7, <1>8, <1>9, <1>10, <1>11, <1>12, <1>13, <1>14, <1>15, <1>16, <1>17, <1>18, <1>19, <1>20, <1>21, <1>22, <1>23, <1>24, <1>25, <1>26, <1>27, <1>28, <1>29, <1>30, <1>31, <1>32, <1>33, <1>34, <1>35, <1>36, <1>37, <1>38, <1>39
     DEF Next, Environment, Session, Dispatch, Handler, Watchdog

\* The state always has the right types, and the client never acknowledges
\* more messages than the broker has sent it.
LEMMA TypeInvariant == Spec => []TypeInv
  BY TypeInit, TypeStep, PTL DEF Spec

\* Every variable of the agent, the broker and the files always has its type.
THEOREM TypeCorrectness == Spec => []TypeOK
  BY TypeInvariant, PTL DEF TypeInv

-----------------------------------------------------------------------------
(* The places of a job *)

\* What is neither a handler's nor a watchdog's step nor a start or a crash
\* leaves every job where it is.
Elsewhere ==
  Environment \/ Session \/ DropDuplicate \/ HandleConfirm \/ PubAckArrives
    \/ UNCHANGED vars

\* Such a step leaves the places of the jobs, their commands and the watchdog flag alone.
LEMMA ElsewhereFrame ==
  Elsewhere => UNCHANGED <<hpc, jcmd, wpc, verdict, watchdogActive, njobs>>
<1> USE DEF netVars, mainVars, brokerVars, dispatchVars, confirmVars, handlerVars,
        watchdogVars
<1>1. Environment => UNCHANGED <<hpc, jcmd, wpc, verdict, watchdogActive, njobs>>
  BY DEF Environment, SendApply, SendConfirm,
         ConnectionDies, ConnectionLossDetected, SessionExpires,
         UnroutedDelivery
<1>2. Session => UNCHANGED <<hpc, jcmd, wpc, verdict, watchdogActive, njobs>>
  BY DEF Session,
         Connect, SubscribeCommands, SubscribeFails, SubscribeOthers,
         TakeAckAtStart, EnterLoop, Heartbeat, DeferredAckSent,
         DeferredAckGivenUp, SessionEnds
<1>3. DropDuplicate \/ HandleConfirm \/ PubAckArrives
        => UNCHANGED <<hpc, jcmd, wpc, verdict, watchdogActive, njobs>>
  BY DEF DropDuplicate, HandleConfirm, PubAckArrives
<1> QED
  BY <1>1, <1>2, <1>3 DEF Elsewhere, vars

\* Next, as the cases the proofs below go through.
LEMMA NextCases ==
  [Next]_vars =>
    \/ Elsewhere \/ StartApply \/ Crash
    \/ \E j \in Jobs : Handler(j) \/ Watchdog(j)
  BY DEF Next, Dispatch, Elsewhere

\* A step keeps every job in one of its places.
LEMMA PcStep ==
  TypeInv /\ PcOK /\ [Next]_vars => PcOK'
<1> SUFFICES ASSUME TypeInv, PcOK, [Next]_vars
             PROVE  PcOK'
  OBVIOUS
<1> USE DEF TypeInv, TypeOK, JobsOK, PcOK,
        netVars, mainVars, brokerVars, dispatchVars, confirmVars, 
        handlerVars, watchdogVars
<1>1. CASE Elsewhere
  BY <1>1, ElsewhereFrame
<1>2. CASE StartApply
  BY <1>2 DEF StartApply
<1>3. CASE Crash
  BY <1>3 DEF Crash
<1>4. ASSUME NEW j \in Jobs, BackUp(j)
      PROVE  PcOK'
  BY <1>4 DEF BackUp
<1>5. ASSUME NEW j \in Jobs, RejectPayload(j)
      PROVE  PcOK'
  BY <1>5 DEF RejectPayload
<1>6. ASSUME NEW j \in Jobs, ApplySucceeds(j)
      PROVE  PcOK'
  BY <1>6 DEF ApplySucceeds
<1>7. ASSUME NEW j \in Jobs, ApplyFails(j)
      PROVE  PcOK'
  BY <1>7 DEF ApplyFails
<1>8. ASSUME NEW j \in Jobs, NackSent(j)
      PROVE  PcOK'
  BY <1>8 DEF NackSent
<1>9. ASSUME NEW j \in Jobs, StartWatchdog(j)
      PROVE  PcOK'
  BY <1>9 DEF StartWatchdog
<1>10. ASSUME NEW j \in Jobs, StatePublished(j)
      PROVE  PcOK'
  BY <1>10 DEF StatePublished
<1>11. ASSUME NEW j \in Jobs, RollBackAtStart(j)
      PROVE  PcOK'
  BY <1>11 DEF RollBackAtStart
<1>12. ASSUME NEW j \in Jobs, BeginWait(j)
      PROVE  PcOK'
  BY <1>12 DEF BeginWait
<1>13. ASSUME NEW j \in Jobs, NoticeDisconnect(j)
      PROVE  PcOK'
  BY <1>13 DEF NoticeDisconnect
<1>14. ASSUME NEW j \in Jobs, ConfirmReceived(j)
      PROVE  PcOK'
  BY <1>14 DEF ConfirmReceived
<1>15. ASSUME NEW j \in Jobs, TimerConfirms(j)
      PROVE  PcOK'
  BY <1>15 DEF TimerConfirms
<1>16. ASSUME NEW j \in Jobs, TimerRollsBack(j)
      PROVE  PcOK'
  BY <1>16 DEF TimerRollsBack
<1>17. ASSUME NEW j \in Jobs, OkAckSent(j)
      PROVE  PcOK'
  BY <1>17 DEF OkAckSent
<1>18. ASSUME NEW j \in Jobs, Restore(j)
      PROVE  PcOK'
  BY <1>18 DEF Restore
<1>19. ASSUME NEW j \in Jobs, QueueRollbackAck(j)
      PROVE  PcOK'
  BY <1>19 DEF QueueRollbackAck
<1>20. ASSUME NEW j \in Jobs, WatchdogExits(j)
      PROVE  PcOK'
  BY <1>20 DEF WatchdogExits
<1> QED
  BY NextCases, <1>1, <1>2, <1>3,
     <1>4, <1>5, <1>6, <1>7, <1>8, <1>9, <1>10, <1>11, <1>12, <1>13, <1>14,
     <1>15, <1>16, <1>17, <1>18, <1>19, <1>20
     DEF Handler, Watchdog

-----------------------------------------------------------------------------
(* Acks, the fast-reconnect flag and the confirm channel *)

\* A step keeps every ack, received or deferred, true to its verdict.
LEMMA ReportsStep ==
  TypeInv /\ PcOK /\ ReportsOK /\ [Next]_vars => ReportsOK'
<1> SUFFICES ASSUME TypeInv, PcOK, ReportsOK, [Next]_vars
             PROVE  ReportsOK'
  OBVIOUS
<1> USE DEF TypeInv, TypeOK, ReportsOK,
        netVars, mainVars, brokerVars, dispatchVars, confirmVars,
        handlerVars, watchdogVars
<1>1. CASE Elsewhere
  <2>1. CASE TakeAckAtStart \/ Heartbeat
    BY <2>1 DEF TakeAckAtStart, Heartbeat
  <2>2. CASE DeferredAckSent
    BY <2>2 DEF DeferredAckSent
  <2>3. CASE ~ (TakeAckAtStart \/ Heartbeat \/ DeferredAckSent)
    <3>1. /\ UNCHANGED <<pendingAck, acks, verdict>>
          /\ mainAck' \in {0, mainAck}
      BY <1>1, <2>3
         DEF Elsewhere, Environment, Session, SendApply, SendConfirm,
             DropDuplicate, HandleConfirm, PubAckArrives, vars,
             ConnectionDies, ConnectionLossDetected, SessionExpires,
             UnroutedDelivery, Connect, SubscribeCommands, SubscribeFails,
             SubscribeOthers, EnterLoop, DeferredAckGivenUp, SessionEnds
    <3> QED
      BY <3>1
  <2> QED
    BY <2>1, <2>2, <2>3
<1>2. CASE StartApply
  BY <1>2 DEF StartApply
<1>3. CASE Crash
  BY <1>3 DEF Crash
<1>4. ASSUME NEW j \in Jobs, BackUp(j)
      PROVE  ReportsOK'
  BY <1>4 DEF BackUp
<1>5. ASSUME NEW j \in Jobs, RejectPayload(j)
      PROVE  ReportsOK'
  BY <1>5 DEF RejectPayload, PcOK
<1>6. ASSUME NEW j \in Jobs, ApplySucceeds(j)
      PROVE  ReportsOK'
  BY <1>6 DEF ApplySucceeds
<1>7. ASSUME NEW j \in Jobs, ApplyFails(j)
      PROVE  ReportsOK'
  BY <1>7 DEF ApplyFails, PcOK
<1>8. ASSUME NEW j \in Jobs, NackSent(j)
      PROVE  ReportsOK'
  <2>1. verdict' = verdict /\ UNCHANGED <<pendingAck, mainAck>>
    BY <1>8 DEF NackSent
  <2>2. verdict[j] = "failed"
    BY <1>8 DEF NackSent, PcOK
  <2>3. acks' \subseteq acks \cup {<<j, "error">>}
    BY <1>8 DEF NackSent
  <2> QED
    BY <2>1, <2>2, <2>3
<1>9. ASSUME NEW j \in Jobs, StartWatchdog(j)
      PROVE  ReportsOK'
  BY <1>9 DEF StartWatchdog
<1>10. ASSUME NEW j \in Jobs, StatePublished(j)
      PROVE  ReportsOK'
  BY <1>10 DEF StatePublished
<1>11. ASSUME NEW j \in Jobs, RollBackAtStart(j)
      PROVE  ReportsOK'
  BY <1>11 DEF RollBackAtStart
<1>12. ASSUME NEW j \in Jobs, BeginWait(j)
      PROVE  ReportsOK'
  BY <1>12 DEF BeginWait
<1>13. ASSUME NEW j \in Jobs, NoticeDisconnect(j)
      PROVE  ReportsOK'
  BY <1>13 DEF NoticeDisconnect
<1>14. ASSUME NEW j \in Jobs, ConfirmReceived(j)
      PROVE  ReportsOK'
  BY <1>14 DEF ConfirmReceived, PcOK
<1>15. ASSUME NEW j \in Jobs, TimerConfirms(j)
      PROVE  ReportsOK'
  BY <1>15 DEF TimerConfirms, PcOK
<1>16. ASSUME NEW j \in Jobs, TimerRollsBack(j)
      PROVE  ReportsOK'
  BY <1>16 DEF TimerRollsBack
<1>17. ASSUME NEW j \in Jobs, OkAckSent(j)
      PROVE  ReportsOK'
  <2>1. verdict' = verdict /\ UNCHANGED <<pendingAck, mainAck>>
    BY <1>17 DEF OkAckSent
  <2>2. verdict[j] = "ok"
    BY <1>17 DEF OkAckSent, PcOK
  <2>3. acks' \subseteq acks \cup {<<j, "ok">>}
    BY <1>17 DEF OkAckSent
  <2> QED
    BY <2>1, <2>2, <2>3
<1>18. ASSUME NEW j \in Jobs, Restore(j)
      PROVE  ReportsOK'
  BY <1>18 DEF Restore, PcOK
<1>19. ASSUME NEW j \in Jobs, QueueRollbackAck(j)
      PROVE  ReportsOK'
  BY <1>19 DEF QueueRollbackAck, PcOK
<1>20. ASSUME NEW j \in Jobs, WatchdogExits(j)
      PROVE  ReportsOK'
  BY <1>20 DEF WatchdogExits
<1> QED
  BY NextCases, <1>1, <1>2, <1>3,
     <1>4, <1>5, <1>6, <1>7, <1>8, <1>9, <1>10, <1>11, <1>12, <1>13, <1>14,
     <1>15, <1>16, <1>17, <1>18, <1>19, <1>20
     DEF Handler, Watchdog

\* A step keeps the fast-reconnect flag within the watchdogs.
LEMMA ActiveStep ==
  TypeInv /\ PcOK /\ ActiveOnlyWhileRunning /\ [Next]_vars => ActiveOnlyWhileRunning'
<1> SUFFICES ASSUME TypeInv, PcOK, ActiveOnlyWhileRunning, [Next]_vars
             PROVE  ActiveOnlyWhileRunning'
  OBVIOUS
<1> USE DEF TypeInv, TypeOK, PcOK, ActiveOnlyWhileRunning,
        Running, netVars, mainVars, brokerVars, dispatchVars, confirmVars,
        handlerVars, watchdogVars
<1>1. CASE Elsewhere
  BY <1>1, ElsewhereFrame
<1>2. CASE StartApply
  BY <1>2 DEF StartApply
<1>3. CASE Crash
  BY <1>3 DEF Crash
<1>4. ASSUME NEW j \in Jobs, BackUp(j)
      PROVE  ActiveOnlyWhileRunning'
  BY <1>4 DEF BackUp
<1>5. ASSUME NEW j \in Jobs, RejectPayload(j)
      PROVE  ActiveOnlyWhileRunning'
  BY <1>5 DEF RejectPayload
<1>6. ASSUME NEW j \in Jobs, ApplySucceeds(j)
      PROVE  ActiveOnlyWhileRunning'
  BY <1>6 DEF ApplySucceeds
<1>7. ASSUME NEW j \in Jobs, ApplyFails(j)
      PROVE  ActiveOnlyWhileRunning'
  BY <1>7 DEF ApplyFails
<1>8. ASSUME NEW j \in Jobs, NackSent(j)
      PROVE  ActiveOnlyWhileRunning'
  BY <1>8 DEF NackSent
<1>9. ASSUME NEW j \in Jobs, StartWatchdog(j)
      PROVE  ActiveOnlyWhileRunning'
  BY <1>9 DEF StartWatchdog
<1>10. ASSUME NEW j \in Jobs, StatePublished(j)
      PROVE  ActiveOnlyWhileRunning'
  BY <1>10 DEF StatePublished
<1>11. ASSUME NEW j \in Jobs, RollBackAtStart(j)
      PROVE  ActiveOnlyWhileRunning'
  BY <1>11 DEF RollBackAtStart
<1>12. ASSUME NEW j \in Jobs, BeginWait(j)
      PROVE  ActiveOnlyWhileRunning'
  BY <1>12 DEF BeginWait
<1>13. ASSUME NEW j \in Jobs, NoticeDisconnect(j)
      PROVE  ActiveOnlyWhileRunning'
  BY <1>13 DEF NoticeDisconnect
<1>14. ASSUME NEW j \in Jobs, ConfirmReceived(j)
      PROVE  ActiveOnlyWhileRunning'
  BY <1>14 DEF ConfirmReceived
<1>15. ASSUME NEW j \in Jobs, TimerConfirms(j)
      PROVE  ActiveOnlyWhileRunning'
  BY <1>15 DEF TimerConfirms
<1>16. ASSUME NEW j \in Jobs, TimerRollsBack(j)
      PROVE  ActiveOnlyWhileRunning'
  BY <1>16 DEF TimerRollsBack
<1>17. ASSUME NEW j \in Jobs, OkAckSent(j)
      PROVE  ActiveOnlyWhileRunning'
  BY <1>17 DEF OkAckSent
<1>18. ASSUME NEW j \in Jobs, Restore(j)
      PROVE  ActiveOnlyWhileRunning'
  BY <1>18 DEF Restore
<1>19. ASSUME NEW j \in Jobs, QueueRollbackAck(j)
      PROVE  ActiveOnlyWhileRunning'
  BY <1>19 DEF QueueRollbackAck
<1>20. ASSUME NEW j \in Jobs, WatchdogExits(j)
      PROVE  ActiveOnlyWhileRunning'
  BY <1>20 DEF WatchdogExits
<1> QED
  BY NextCases, <1>1, <1>2, <1>3,
     <1>4, <1>5, <1>6, <1>7, <1>8, <1>9, <1>10, <1>11, <1>12, <1>13, <1>14,
     <1>15, <1>16, <1>17, <1>18, <1>19, <1>20
     DEF Handler, Watchdog

\* Only handleConfigConfirm closes a confirm channel or clears the registration
\* outside the handlers and the watchdogs.
LEMMA ConfirmFrame ==
  Elsewhere /\ ~ HandleConfirm => UNCHANGED <<confirmed, confirmVars>>
  BY DEF Elsewhere, Environment, Session, SendApply, SendConfirm,
         DropDuplicate, PubAckArrives, vars, netVars, mainVars, brokerVars,
         dispatchVars, confirmVars, handlerVars, watchdogVars,
         ConnectionDies, ConnectionLossDetected, SessionExpires,
         UnroutedDelivery, Connect, SubscribeCommands, SubscribeFails,
         SubscribeOthers, TakeAckAtStart, EnterLoop, Heartbeat,
         DeferredAckSent, DeferredAckGivenUp, SessionEnds

\* A step keeps the registered confirm channel open and its watchdog running.
LEMMA ConfirmChannelStep ==
  TypeInv /\ PcOK /\ FreshUnconfirmed /\ ConfirmChannelOpen /\ [Next]_vars => ConfirmChannelOpen'
<1> SUFFICES ASSUME TypeInv, PcOK, FreshUnconfirmed, ConfirmChannelOpen, [Next]_vars
             PROVE  ConfirmChannelOpen'
  OBVIOUS
<1> USE DEF TypeInv, TypeOK, PcOK, ConfirmChannelOpen,
        Running, netVars, mainVars, brokerVars, dispatchVars, confirmVars,
        handlerVars, watchdogVars
<1>1. CASE Elsewhere
  <2>1. CASE HandleConfirm
    BY <1>1, <2>1, ElsewhereFrame DEF HandleConfirm
  <2>2. CASE ~ HandleConfirm
    BY <1>1, <2>2, ElsewhereFrame, ConfirmFrame
  <2> QED
    BY <2>1, <2>2
<1>2. CASE StartApply
  BY <1>2 DEF StartApply, JobsOK
<1>3. CASE Crash
  BY <1>3 DEF Crash
<1>4. ASSUME NEW j \in Jobs, BackUp(j)
      PROVE  ConfirmChannelOpen'
  BY <1>4 DEF BackUp
<1>5. ASSUME NEW j \in Jobs, RejectPayload(j)
      PROVE  ConfirmChannelOpen'
  BY <1>5 DEF RejectPayload
<1>6. ASSUME NEW j \in Jobs, ApplySucceeds(j)
      PROVE  ConfirmChannelOpen'
  BY <1>6 DEF ApplySucceeds
<1>7. ASSUME NEW j \in Jobs, ApplyFails(j)
      PROVE  ConfirmChannelOpen'
  BY <1>7 DEF ApplyFails
<1>8. ASSUME NEW j \in Jobs, NackSent(j)
      PROVE  ConfirmChannelOpen'
  BY <1>8 DEF NackSent
<1>9. ASSUME NEW j \in Jobs, StartWatchdog(j)
      PROVE  ConfirmChannelOpen'
  <2>1. wpc[j] = "none" /\ ~ confirmed[j] /\ j # 0
    BY <1>9 DEF StartWatchdog, FreshUnconfirmed, Jobs
  <2>2. /\ confirmCmdID' = jcmd[j] /\ confirmCh' = j /\ wpc'[j] = "start"
        /\ UNCHANGED <<jcmd, confirmed>>
    BY <1>9 DEF StartWatchdog
  <2> QED
    BY <2>1, <2>2
<1>10. ASSUME NEW j \in Jobs, StatePublished(j)
      PROVE  ConfirmChannelOpen'
  BY <1>10 DEF StatePublished
<1>11. ASSUME NEW j \in Jobs, RollBackAtStart(j)
      PROVE  ConfirmChannelOpen'
  BY <1>11 DEF RollBackAtStart
<1>12. ASSUME NEW j \in Jobs, BeginWait(j)
      PROVE  ConfirmChannelOpen'
  BY <1>12 DEF BeginWait
<1>13. ASSUME NEW j \in Jobs, NoticeDisconnect(j)
      PROVE  ConfirmChannelOpen'
  BY <1>13 DEF NoticeDisconnect
<1>14. ASSUME NEW j \in Jobs, ConfirmReceived(j)
      PROVE  ConfirmChannelOpen'
  BY <1>14 DEF ConfirmReceived
<1>15. ASSUME NEW j \in Jobs, TimerConfirms(j)
      PROVE  ConfirmChannelOpen'
  BY <1>15 DEF TimerConfirms
<1>16. ASSUME NEW j \in Jobs, TimerRollsBack(j)
      PROVE  ConfirmChannelOpen'
  BY <1>16 DEF TimerRollsBack
<1>17. ASSUME NEW j \in Jobs, OkAckSent(j)
      PROVE  ConfirmChannelOpen'
  BY <1>17 DEF OkAckSent
<1>18. ASSUME NEW j \in Jobs, Restore(j)
      PROVE  ConfirmChannelOpen'
  BY <1>18 DEF Restore
<1>19. ASSUME NEW j \in Jobs, QueueRollbackAck(j)
      PROVE  ConfirmChannelOpen'
  BY <1>19 DEF QueueRollbackAck
<1>20. ASSUME NEW j \in Jobs, WatchdogExits(j)
      PROVE  ConfirmChannelOpen'
  BY <1>20 DEF WatchdogExits
<1> QED
  BY NextCases, <1>1, <1>2, <1>3,
     <1>4, <1>5, <1>6, <1>7, <1>8, <1>9, <1>10, <1>11, <1>12, <1>13, <1>14,
     <1>15, <1>16, <1>17, <1>18, <1>19, <1>20
     DEF Handler, Watchdog

\* A step closes no channel before its watchdog is registered.
LEMMA FreshStep ==
  TypeInv /\ PcOK /\ ConfirmChannelOpen /\ FreshUnconfirmed /\ [Next]_vars => FreshUnconfirmed'
<1> SUFFICES ASSUME TypeInv, PcOK, ConfirmChannelOpen, FreshUnconfirmed, [Next]_vars
             PROVE  FreshUnconfirmed'
  OBVIOUS
<1> USE DEF TypeInv, TypeOK, PcOK, FreshUnconfirmed,
        netVars, mainVars, brokerVars, dispatchVars, confirmVars,
        handlerVars, watchdogVars
<1>1. CASE Elsewhere
  <2>1. CASE HandleConfirm
    <3>1. Current.cmd # NoCmd
      BY <2>1, CurrentIsMessage, ConstantsAssumption
         DEF HandleConfirm, CanDispatch
    <3>2. CASE confirmCmdID = Current.cmd
      <4>1. confirmCh \in Jobs /\ wpc[confirmCh] # "none"
        BY <3>1, <3>2 DEF ConfirmChannelOpen, Running
      <4>2. confirmed' = [confirmed EXCEPT ![confirmCh] = TRUE]
        BY <2>1, <3>2 DEF HandleConfirm
      <4> QED
        BY <1>1, <4>1, <4>2, ElsewhereFrame
    <3>3. CASE confirmCmdID # Current.cmd
      BY <1>1, <2>1, <3>3, ElsewhereFrame DEF HandleConfirm
    <3> QED
      BY <3>2, <3>3
  <2>2. CASE ~ HandleConfirm
    BY <1>1, <2>2, ElsewhereFrame, ConfirmFrame
  <2> QED
    BY <2>1, <2>2
<1>2. CASE StartApply
  BY <1>2 DEF StartApply
<1>3. CASE Crash
  BY <1>3 DEF Crash
<1>4. ASSUME NEW j \in Jobs, BackUp(j)
      PROVE  FreshUnconfirmed'
  BY <1>4 DEF BackUp
<1>5. ASSUME NEW j \in Jobs, RejectPayload(j)
      PROVE  FreshUnconfirmed'
  BY <1>5 DEF RejectPayload
<1>6. ASSUME NEW j \in Jobs, ApplySucceeds(j)
      PROVE  FreshUnconfirmed'
  BY <1>6 DEF ApplySucceeds
<1>7. ASSUME NEW j \in Jobs, ApplyFails(j)
      PROVE  FreshUnconfirmed'
  BY <1>7 DEF ApplyFails
<1>8. ASSUME NEW j \in Jobs, NackSent(j)
      PROVE  FreshUnconfirmed'
  BY <1>8 DEF NackSent
<1>9. ASSUME NEW j \in Jobs, StartWatchdog(j)
      PROVE  FreshUnconfirmed'
  BY <1>9 DEF StartWatchdog
<1>10. ASSUME NEW j \in Jobs, StatePublished(j)
      PROVE  FreshUnconfirmed'
  BY <1>10 DEF StatePublished
<1>11. ASSUME NEW j \in Jobs, RollBackAtStart(j)
      PROVE  FreshUnconfirmed'
  BY <1>11 DEF RollBackAtStart
<1>12. ASSUME NEW j \in Jobs, BeginWait(j)
      PROVE  FreshUnconfirmed'
  BY <1>12 DEF BeginWait
<1>13. ASSUME NEW j \in Jobs, NoticeDisconnect(j)
      PROVE  FreshUnconfirmed'
  BY <1>13 DEF NoticeDisconnect
<1>14. ASSUME NEW j \in Jobs, ConfirmReceived(j)
      PROVE  FreshUnconfirmed'
  BY <1>14 DEF ConfirmReceived
<1>15. ASSUME NEW j \in Jobs, TimerConfirms(j)
      PROVE  FreshUnconfirmed'
  BY <1>15 DEF TimerConfirms
<1>16. ASSUME NEW j \in Jobs, TimerRollsBack(j)
      PROVE  FreshUnconfirmed'
  BY <1>16 DEF TimerRollsBack
<1>17. ASSUME NEW j \in Jobs, OkAckSent(j)
      PROVE  FreshUnconfirmed'
  BY <1>17 DEF OkAckSent
<1>18. ASSUME NEW j \in Jobs, Restore(j)
      PROVE  FreshUnconfirmed'
  BY <1>18 DEF Restore
<1>19. ASSUME NEW j \in Jobs, QueueRollbackAck(j)
      PROVE  FreshUnconfirmed'
  BY <1>19 DEF QueueRollbackAck
<1>20. ASSUME NEW j \in Jobs, WatchdogExits(j)
      PROVE  FreshUnconfirmed'
  BY <1>20 DEF WatchdogExits
<1> QED
  BY NextCases, <1>1, <1>2, <1>3,
     <1>4, <1>5, <1>6, <1>7, <1>8, <1>9, <1>10, <1>11, <1>12, <1>13, <1>14,
     <1>15, <1>16, <1>17, <1>18, <1>19, <1>20
     DEF Handler, Watchdog

\* Handlers and watchdogs touch neither the broker's queue nor the duplicate
\* record, and they rename no job.
LEMMA JobFrame ==
  ASSUME NEW j \in Jobs, Handler(j) \/ Watchdog(j)
  PROVE  UNCHANGED <<queue, sent, seen, jcmd, njobs, confirmed>>
  BY DEF Handler, Watchdog, netVars, mainVars, brokerVars, dispatchVars,
         confirmVars, handlerVars, watchdogVars,
         BackUp, RejectPayload, ApplySucceeds, ApplyFails, NackSent,
         StartWatchdog, StatePublished, RollBackAtStart, BeginWait,
         NoticeDisconnect, ConfirmReceived, TimerConfirms, TimerRollsBack,
         OkAckSent, Restore, QueueRollbackAck, WatchdogExits

\* What the server has published stays published, and only the broker's own
\* steps, the server's and the crash touch its queue.
LEMMA QueueStep ==
  TypeInv /\ QueueSent /\ [Next]_vars => QueueSent' /\ sent \subseteq sent'
<1> SUFFICES ASSUME TypeInv, QueueSent, [Next]_vars
             PROVE  QueueSent' /\ sent \subseteq sent'
  OBVIOUS
<1>q. queue \in Seq(Messages)
  BY DEF TypeInv, TypeOK
<1> USE DEF QueueSent, netVars, mainVars, brokerVars, dispatchVars, confirmVars,
        handlerVars, watchdogVars
<1>1. ASSUME NEW m \in Messages, queue' = Append(queue, m),
             sent' = sent \cup {m}
      PROVE  QueueSent' /\ sent \subseteq sent'
  BY <1>q, <1>1, AppendProperties
<1>2. ASSUME NEW c \in Cmds, SendApply(c) \/ SendConfirm(c)
      PROVE  QueueSent' /\ sent \subseteq sent'
  <2>1. CASE SendApply(c)
    BY <1>1, <2>1 DEF SendApply, Messages
  <2>2. CASE SendConfirm(c)
    BY <1>1, <2>2 DEF SendConfirm, Messages
  <2> QED
    BY <1>2, <2>1, <2>2
<1>3. CASE PubAckArrives \/ UnroutedDelivery
  <2>1. queue # <<>>
    BY <1>3, <1>q DEF PubAckArrives, UnroutedDelivery, TypeInv, TypeOK, QueueOK
  <2>2. queue' = Tail(queue) /\ sent' = sent
    BY <1>3 DEF PubAckArrives, UnroutedDelivery
  <2> QED
    BY <1>q, <2>1, <2>2, HeadTailProperties
<1>4. CASE SessionExpires
  BY <1>4 DEF SessionExpires
<1>5. CASE Elsewhere /\ ~ (PubAckArrives \/ UnroutedDelivery \/ SessionExpires)
        /\ ~ (\E c \in Cmds : SendApply(c) \/ SendConfirm(c))
  <2>1. UNCHANGED <<queue, sent>>
    BY <1>5
       DEF Elsewhere, Environment, Session, DropDuplicate, HandleConfirm, vars,
           ConnectionDies, ConnectionLossDetected, Connect,
           SubscribeCommands, SubscribeFails, SubscribeOthers,
           TakeAckAtStart, EnterLoop, Heartbeat, DeferredAckSent,
           DeferredAckGivenUp, SessionEnds
  <2> QED
    BY <2>1
<1>6. CASE StartApply
  BY <1>6 DEF StartApply
<1>7. CASE Crash
  BY <1>7 DEF Crash
<1>8. ASSUME NEW j \in Jobs, Handler(j) \/ Watchdog(j)
      PROVE  QueueSent' /\ sent \subseteq sent'
  BY <1>8, JobFrame
<1> QED
  BY NextCases, <1>2, <1>3, <1>4, <1>5, <1>6, <1>7, <1>8

\* A step confirms a watchdog only with the server's own message for it.
LEMMA ConfirmedStep ==
  TypeInv /\ PcOK /\ FreshUnconfirmed /\ ConfirmChannelOpen /\ QueueSent
    /\ ConfirmedByServer /\ [Next]_vars => ConfirmedByServer'
<1> SUFFICES ASSUME TypeInv, PcOK, FreshUnconfirmed, ConfirmChannelOpen,
                    QueueSent, ConfirmedByServer, [Next]_vars
             PROVE  ConfirmedByServer'
  OBVIOUS
<1>s. sent \subseteq sent'
  BY QueueStep
<1>1. CASE Elsewhere /\ ~ HandleConfirm
  BY <1>1, <1>s, ElsewhereFrame, ConfirmFrame DEF ConfirmedByServer, confirmVars
<1>2. CASE HandleConfirm
  <2>1. /\ Current \in Messages /\ Current.type = "config_confirm"
        /\ Current.cmd # NoCmd
    BY <1>2, CurrentIsMessage, ConstantsAssumption DEF HandleConfirm, CanDispatch
  <2>2. Current = [type |-> "config_confirm", cmd |-> Current.cmd]
    BY <2>1 DEF Messages
  <2>3. Current \in sent
    BY <1>2 DEF HandleConfirm, CanDispatch, QueueSent, TypeInv, TypeOK, Current
  <2>4. UNCHANGED jcmd
    BY <1>2, ElsewhereFrame DEF Elsewhere
  <2>5. CASE confirmCmdID = Current.cmd
    <3>1. jcmd[confirmCh] = Current.cmd
      BY <2>1, <2>5 DEF ConfirmChannelOpen
    <3>2. confirmed' = [confirmed EXCEPT ![confirmCh] = TRUE]
      BY <1>2, <2>5 DEF HandleConfirm
    <3>3. confirmed \in [Jobs -> BOOLEAN]
      BY DEF TypeInv, TypeOK
    <3>4. ASSUME NEW j \in Jobs, confirmed'[j]
          PROVE  [type |-> "config_confirm", cmd |-> jcmd[j]] \in sent
      BY <2>2, <2>3, <3>1, <3>2, <3>3, <3>4 DEF ConfirmedByServer
    <3> QED
      BY <1>s, <2>4, <3>4 DEF ConfirmedByServer
  <2>6. CASE confirmCmdID # Current.cmd
    BY <1>2, <1>s, <2>4, <2>6 DEF HandleConfirm, ConfirmedByServer
  <2> QED
    BY <2>5, <2>6
<1>3. CASE StartApply
  BY <1>3, <1>s
     DEF StartApply, ConfirmedByServer, FreshUnconfirmed, TypeInv, TypeOK,
         JobsOK, watchdogVars, Jobs
<1>4. CASE Crash
  BY <1>4, <1>s DEF Crash, ConfirmedByServer
<1>5. ASSUME NEW j \in Jobs, Handler(j) \/ Watchdog(j)
      PROVE  ConfirmedByServer'
  BY <1>5, <1>s, JobFrame DEF ConfirmedByServer
<1> QED
  BY NextCases, <1>1, <1>2, <1>3, <1>4, <1>5

-----------------------------------------------------------------------------
(* The invariant and its consequences *)

IInv ==
  /\ TypeInv
  /\ PcOK
  /\ ReportsOK
  /\ ActiveOnlyWhileRunning
  /\ FreshUnconfirmed
  /\ ConfirmChannelOpen
  /\ QueueSent
  /\ ConfirmedByServer

\* IInv is an inductive invariant of the specification.
LEMMA IInvInvariant == Spec => []IInv
<1>1. Init => IInv
  <2> SUFFICES ASSUME Init PROVE IInv
    OBVIOUS
  <2>1. TypeInv
    BY TypeInit
  <2>2. PcOK /\ ReportsOK /\ ActiveOnlyWhileRunning /\ FreshUnconfirmed
    BY DEF Init, PcOK, ReportsOK, ActiveOnlyWhileRunning, FreshUnconfirmed
  <2>3. ConfirmChannelOpen /\ QueueSent /\ ConfirmedByServer
    BY DEF Init, ConfirmChannelOpen, QueueSent, ConfirmedByServer
  <2> QED
    BY <2>1, <2>2, <2>3 DEF IInv
<1>2. IInv /\ [Next]_vars => IInv'
  BY TypeStep, PcStep, ReportsStep, ActiveStep, FreshStep, ConfirmChannelStep,
     QueueStep, ConfirmedStep DEF IInv
<1> QED
  BY <1>1, <1>2, PTL DEF Spec

\* signalWatchdogConfirm never closes a channel twice: the registered channel
\* is always an open one of a running watchdog with the registered cmd_id.
THEOREM ConfirmChannelAlwaysOpen == Spec => []ConfirmChannelOpen
  BY IInvInvariant, PTL DEF IInv

\* No watchdog is ever confirmed but by the server's config_confirm for it.
THEOREM AlwaysConfirmedByServer == Spec => []ConfirmedByServer
  BY IInvInvariant, PTL DEF IInv

\* The fast reconnect never outlives the watchdogs.
THEOREM AlwaysActiveOnlyWhileRunning == Spec => []ActiveOnlyWhileRunning
  BY IInvInvariant, PTL DEF IInv

-----------------------------------------------------------------------------
(* The duplicate record *)

\* The record can hold every command, so that nothing is ever dropped from it.
\* (The agent keeps 32; the server must not have more commands than that which
\* the broker may still redeliver.)
SeenHoldsAll == IsFiniteSet(Cmds) /\ Cardinality(Cmds) <= MaxSeen

\* A record without duplicates that misses a command is not full.
LEMMA RoomForUnseen ==
  ASSUME SeenHoldsAll, TypeOK, SeenOK, NEW c \in Cmds, c \notin SeenIDs
  PROVE  Len(seen) < MaxSeen
<1>1. seen \in [1 .. Len(seen) -> Cmds] /\ Len(seen) \in Nat
  BY DEF TypeOK
<1>2. seen \in Injection(1 .. Len(seen), Cmds)
  BY <1>1 DEF SeenOK, Injection, IsInjective
<1>3. Cardinality(1 .. Len(seen)) = Len(seen)
  <2>1. 1 \in Int /\ Len(seen) \in Int
    BY <1>1
  <2>2. Cardinality(1 .. Len(seen))
          = IF 1 > Len(seen) THEN 0 ELSE Len(seen) - 1 + 1
    BY ONLY <2>1, FS_Interval
  <2> QED
    BY <1>1, <2>2
<1>4. seen \notin Surjection(1 .. Len(seen), Cmds)
  BY <1>1 DEF Surjection, SeenIDs
<1>5. /\ Cardinality(1 .. Len(seen)) <= Cardinality(Cmds)
      /\ Cardinality(1 .. Len(seen)) # Cardinality(Cmds)
  BY <1>2, <1>4, FS_Injection DEF SeenHoldsAll
<1>6. Cardinality(Cmds) \in Nat
  BY FS_CardinalityType DEF SeenHoldsAll
<1> QED
  BY <1>1, <1>3, <1>5, <1>6, ConstantsAssumption DEF SeenHoldsAll

\* Nothing but a start and a crash touches the record.
LEMMA SeenFrame ==
  Elsewhere => UNCHANGED seen
  BY DEF Elsewhere, Environment, Session, SendApply, SendConfirm,
         DropDuplicate, HandleConfirm, PubAckArrives, vars,
         ConnectionDies, ConnectionLossDetected, SessionExpires,
         UnroutedDelivery, Connect, SubscribeCommands, SubscribeFails,
         SubscribeOthers, TakeAckAtStart, EnterLoop, Heartbeat,
         DeferredAckSent, DeferredAckGivenUp, SessionEnds

\* A handler's or a watchdog's step neither starts nor kills a job.
LEMMA LiveFrame ==
  ASSUME TypeInv, NEW j \in Jobs, Handler(j) \/ Watchdog(j), NEW i \in Jobs
  PROVE  Live(i)' <=> Live(i)
<1> USE DEF Live, TypeInv, TypeOK, handlerVars
<1>1. CASE Handler(j)
  BY <1>1 DEF Handler,
         BackUp, RejectPayload, ApplySucceeds, ApplyFails, NackSent,
         StartWatchdog, StatePublished
<1>2. CASE Watchdog(j)
  BY <1>2 DEF Watchdog,
         RollBackAtStart, BeginWait, NoticeDisconnect, ConfirmReceived,
         TimerConfirms, TimerRollsBack, OkAckSent, Restore, QueueRollbackAck,
         WatchdogExits
<1> QED
  BY <1>1, <1>2

\* The record stays complete and free of duplicates.
LEMMA SeenStep ==
  SeenHoldsAll /\ TypeInv /\ SeenOK /\ [Next]_vars => SeenOK'
<1> SUFFICES ASSUME SeenHoldsAll, TypeInv, SeenOK, [Next]_vars
             PROVE  SeenOK'
  OBVIOUS
<1>1. CASE Elsewhere
  BY <1>1, ElsewhereFrame, SeenFrame DEF SeenOK, SeenIDs, Live
<1>2. CASE StartApply
  <2> DEFINE c == Current.cmd
  <2>1. c \in Cmds /\ c \notin SeenIDs
    BY <1>2, CurrentIsMessage DEF StartApply, CanDispatch
  <2>2. seen \in Seq(Cmds) /\ Len(seen) < MaxSeen
    BY <2>1, RoomForUnseen DEF TypeInv, TypeOK
  <2>3. seen' = Append(seen, c)
    BY <1>2, <2>2 DEF StartApply, Remember
  <2>4. njobs + 1 \in Jobs
    BY <1>2, ConstantsAssumption DEF StartApply, TypeInv, TypeOK, Jobs
  <2>5. /\ jcmd' = [jcmd EXCEPT ![njobs + 1] = c]
        /\ hpc' = [hpc EXCEPT ![njobs + 1] = "begun"]
    BY <1>2 DEF StartApply
  <2> HIDE DEF c
  <2>6. /\ Len(seen') = Len(seen) + 1 /\ DOMAIN seen' = 1 .. Len(seen) + 1
        /\ \A a \in 1 .. Len(seen) : seen'[a] = seen[a]
        /\ seen'[Len(seen) + 1] = c
    BY <2>1, <2>2, <2>3, AppendProperties
  <2>7. DOMAIN seen = 1 .. Len(seen) /\ Len(seen) \in Nat
    BY <2>2
  <2>8. SeenIDs \subseteq SeenIDs' /\ c \in SeenIDs'
    BY <2>6, <2>7 DEF SeenIDs
  <2>9. ASSUME NEW j \in Jobs, Live(j)'
        PROVE  jcmd'[j] \in SeenIDs'
    BY <2>4, <2>5, <2>8, <2>9 DEF SeenOK, Live, TypeInv, TypeOK
  <2>10. ASSUME NEW a \in DOMAIN seen', NEW b \in DOMAIN seen',
                seen'[a] = seen'[b]
         PROVE  a = b
    <3>1. \A x \in 1 .. Len(seen) : seen[x] # c
      BY <2>1, <2>7 DEF SeenIDs
    <3> QED
      BY <2>6, <2>7, <2>10, <3>1 DEF SeenOK
  <2> QED
    BY <2>9, <2>10 DEF SeenOK
<1>3. CASE Crash
  BY <1>3 DEF Crash, SeenOK, Live
<1>4. ASSUME NEW j \in Jobs, Handler(j) \/ Watchdog(j)
      PROVE  SeenOK'
  BY <1>4, JobFrame, LiveFrame DEF SeenOK, SeenIDs
<1> QED
  BY NextCases, <1>1, <1>2, <1>3, <1>4

\* A step starts no second job for the command of a live one.
LEMMA HandledOnceStep ==
  TypeInv /\ SeenOK /\ HandledOnce /\ [Next]_vars => HandledOnce'
<1> SUFFICES ASSUME TypeInv, SeenOK, HandledOnce, [Next]_vars
             PROVE  HandledOnce'
  OBVIOUS
<1>1. CASE Elsewhere
  BY <1>1, ElsewhereFrame DEF HandledOnce, Live
<1>2. CASE StartApply
  <2> DEFINE c == Current.cmd
  <2>1. c \notin SeenIDs
    BY <1>2 DEF StartApply
  <2>2. njobs + 1 \in Jobs
    BY <1>2, ConstantsAssumption DEF StartApply, TypeInv, TypeOK, Jobs
  <2>3. /\ jcmd' = [jcmd EXCEPT ![njobs + 1] = c]
        /\ hpc' = [hpc EXCEPT ![njobs + 1] = "begun"]
    BY <1>2 DEF StartApply
  <2> HIDE DEF c
  <2>4. \A i \in Jobs : Live(i) => jcmd[i] # c
    BY <2>1 DEF SeenOK
  <2> QED
    BY <2>2, <2>3, <2>4 DEF HandledOnce, Live, TypeInv, TypeOK
<1>3. CASE Crash
  BY <1>3 DEF Crash, HandledOnce, Live
<1>4. ASSUME NEW j \in Jobs, Handler(j) \/ Watchdog(j)
      PROVE  HandledOnce'
  BY <1>4, JobFrame, LiveFrame DEF HandledOnce
<1> QED
  BY NextCases, <1>1, <1>2, <1>3, <1>4

\* Within the life of a process no config_apply is handled twice, however often
\* it is redelivered, provided the duplicate record can hold every command.
THEOREM AlwaysHandledOnce ==
  ASSUME SeenHoldsAll
  PROVE  Spec => []HandledOnce
<1>1. Init => SeenOK /\ HandledOnce
  BY DEF Init, SeenOK, HandledOnce, Live
<1>2. TypeInv /\ SeenOK /\ HandledOnce /\ [Next]_vars
        => SeenOK' /\ HandledOnce'
  BY SeenHoldsAll, SeenStep, HandledOnceStep
<1> QED
  BY <1>1, <1>2, TypeInvariant, PTL DEF Spec

\* Where the agent never restarts, no job is ever killed.
NoneKilled == MaxCrashes = 0 => \A j \in Jobs : hpc[j] # "killed"

\* It is an invariant: only a crash kills a job.
LEMMA NoneKilledInvariant == Spec => []NoneKilled
<1>1. Init => NoneKilled
  BY DEF Init, NoneKilled
<1>2. TypeInv /\ NoneKilled /\ [Next]_vars => NoneKilled'
  <2> SUFFICES ASSUME TypeInv, NoneKilled, [Next]_vars
               PROVE  NoneKilled'
    OBVIOUS
  <2>1. CASE Elsewhere
    BY <2>1, ElsewhereFrame DEF NoneKilled
  <2>2. CASE StartApply
    BY <2>2 DEF StartApply, NoneKilled, TypeInv, TypeOK
  <2>3. CASE Crash
    BY <2>3, ConstantsAssumption DEF Crash, NoneKilled, TypeInv, TypeOK
  <2>4. ASSUME NEW j \in Jobs, Handler(j)
        PROVE  NoneKilled'
    BY <2>4 DEF NoneKilled, TypeInv, TypeOK, handlerVars, Handler,
           BackUp, RejectPayload, ApplySucceeds, ApplyFails, NackSent,
           StartWatchdog, StatePublished
  <2>5. ASSUME NEW j \in Jobs, Watchdog(j)
        PROVE  NoneKilled'
    BY <2>5 DEF NoneKilled, TypeInv, TypeOK, handlerVars, Watchdog,
           RollBackAtStart, BeginWait, NoticeDisconnect, ConfirmReceived,
           TimerConfirms, TimerRollsBack, OkAckSent, Restore,
           QueueRollbackAck, WatchdogExits
  <2> QED
    BY NextCases, <2>1, <2>2, <2>3, <2>4, <2>5
<1> QED
  BY <1>1, <1>2, TypeInvariant, PTL DEF Spec

\* While the agent does not restart, the server never gets contradictory acks
\* for one command, whatever is lost, redelivered, deferred or overlapping.
THEOREM AlwaysNoContradictoryAcks ==
  ASSUME SeenHoldsAll, MaxCrashes = 0
  PROVE  Spec => []NoContradictoryAcks
<1>1. IInv /\ HandledOnce /\ NoneKilled => NoContradictoryAcks
  <2> SUFFICES ASSUME IInv, HandledOnce, NoneKilled,
                      NEW a \in acks, NEW b \in acks,
                      jcmd[a[1]] = jcmd[b[1]]
               PROVE  a[2] = b[2]
    BY DEF NoContradictoryAcks
  <2>1. a[1] \in Jobs /\ b[1] \in Jobs
    BY DEF IInv, TypeInv, TypeOK
  <2>2. verdict[a[1]] # "none" /\ verdict[b[1]] # "none"
    BY DEF IInv, ReportsOK
  <2>3. Live(a[1]) /\ Live(b[1])
    BY <2>1, <2>2 DEF IInv, PcOK, Live, NoneKilled
  <2>4. a[1] = b[1]
    BY <2>1, <2>3 DEF HandledOnce
  <2> QED
    BY <2>4 DEF IInv, ReportsOK
<1> QED
  BY <1>1, IInvInvariant, AlwaysHandledOnce, NoneKilledInvariant, PTL

-----------------------------------------------------------------------------
(* One command at a time: what a rollback takes out and what it leaves *)

\* The server waits for the ack of one command before it sends the next, the
\* duplicate record holds every command, the agent does not restart and its
\* files can be written.  (With two commands in flight both properties below
\* are false: a watchdog restores a backup that its neighbour's apply is in.)
OneAtATime == SeenHoldsAll /\ Window = 1 /\ MaxCrashes = 0 /\ DiskFaults = FALSE

\* No two commands wait for their acks.
SingleInFlight == \A c, d \in InFlight : c = d

\* A job runs a command the server has sent.
JobsSent ==
  \A j \in Jobs : hpc[j] # "none" =>
    [type |-> "config_apply", cmd |-> jcmd[j]] \in sent

\* Only the newest job may be undecided.
OlderDecided == \A j \in Jobs : j < njobs => verdict[j] # "none"

\* The configuration cfg is true to the first k jobs: it holds nothing but
\* what they wrote, nothing of those rolled back, and of each confirmed one
\* everything that no later one wrote over.
TrueTo(cfg, k) ==
  /\ \A p \in Pkgs : cfg[p] = Base \/ \E i \in 1 .. k : cfg[p] = jcmd[i]
  /\ \A j \in 1 .. k : verdict[j] = "rolled_back" =>
       \A p \in Pkgs : cfg[p] # jcmd[j]
  /\ \A j \in 1 .. k : verdict[j] = "ok" =>
       \A p \in committed[j] : \E i \in j .. k : cfg[p] = jcmd[i]

\* What /etc/config is once the newest job n has written its packages.
Overlay(n) ==
  [p \in Pkgs |-> IF p \in committed[n] THEN jcmd[n] ELSE backup[n][p]]

\* The files are true to every decided job, and an undecided newest job has
\* them as they were before it in its backup.
DiskTrue ==
  IF njobs = 0 \/ verdict[njobs] # "none" THEN TrueTo(disk, njobs)
  ELSE IF hpc[njobs] = "begun" THEN TrueTo(disk, njobs - 1)
  ELSE /\ TrueTo(backup[njobs], njobs - 1)
       /\ disk = IF hpc[njobs] = "backed_up" THEN backup[njobs]
                                             ELSE Overlay(njobs)

\* What the server has received stays received.
LEMMA AcksGrow == [Next]_vars => acks \subseteq acks'
<1> USE DEF brokerVars
<1>1. Environment \/ Session \/ Dispatch \/ Crash \/ UNCHANGED vars
        => acks \subseteq acks'
  BY DEF Environment, Session, Dispatch, vars,
         SendApply, SendConfirm, ConnectionDies, ConnectionLossDetected,
         SessionExpires, UnroutedDelivery, Connect, SubscribeCommands,
         SubscribeFails, SubscribeOthers, TakeAckAtStart, EnterLoop, Heartbeat,
         DeferredAckSent, DeferredAckGivenUp, SessionEnds, DropDuplicate,
         StartApply, HandleConfirm, PubAckArrives, Crash
<1>2. ASSUME NEW j \in Jobs, Handler(j)
      PROVE  acks \subseteq acks'
  BY <1>2 DEF Handler, BackUp, RejectPayload, ApplySucceeds, ApplyFails,
         NackSent, StartWatchdog, StatePublished
<1>3. ASSUME NEW j \in Jobs, Watchdog(j)
      PROVE  acks \subseteq acks'
  BY <1>3 DEF Watchdog, RollBackAtStart, BeginWait, NoticeDisconnect,
         ConfirmReceived, TimerConfirms, TimerRollsBack, OkAckSent, Restore,
         QueueRollbackAck, WatchdogExits
<1> QED
  BY <1>1, <1>2, <1>3 DEF Next

\* A job that has been started keeps its command.
LEMMA CommandKept ==
  ASSUME TypeInv, [Next]_vars, NEW j \in Jobs, hpc[j] # "none"
  PROVE  jcmd'[j] = jcmd[j]
<1>1. CASE Elsewhere
  BY <1>1, ElsewhereFrame
<1>2. CASE StartApply
  <2>1. njobs + 1 # j
    BY DEF TypeInv, TypeOK, JobsOK, Jobs
  <2> QED
    BY <1>2, <2>1 DEF StartApply, TypeInv, TypeOK
<1>3. CASE Crash
  BY <1>3 DEF Crash
<1>4. ASSUME NEW i \in Jobs, Handler(i) \/ Watchdog(i)
      PROVE  jcmd'[j] = jcmd[j]
  BY <1>4, JobFrame
<1> QED
  BY NextCases, <1>1, <1>2, <1>3, <1>4

\* Only the server's SendApply adds a config_apply to what it has sent.
LEMMA AppliesSent ==
  ASSUME [Next]_vars, ~ \E c \in Cmds : SendApply(c),
         NEW d \in Cmds, [type |-> "config_apply", cmd |-> d] \in sent'
  PROVE  [type |-> "config_apply", cmd |-> d] \in sent
<1>1. CASE \E c \in Cmds : SendConfirm(c)
  <2>1. PICK c \in Cmds : sent' = sent \cup {[type |-> "config_confirm", cmd |-> c]}
    BY <1>1 DEF SendConfirm
  <2>2. [type |-> "config_apply", cmd |-> d] # [type |-> "config_confirm", cmd |-> c]
    <3>1. [type |-> "config_apply", cmd |-> d].type = "config_apply"
          /\ [type |-> "config_confirm", cmd |-> c].type = "config_confirm"
      OBVIOUS
    <3> QED
      BY <3>1
  <2> QED
    BY <2>1, <2>2
<1>2. CASE Elsewhere /\ ~ \E c \in Cmds : SendConfirm(c)
  BY <1>2
     DEF Elsewhere, Environment, Session, DropDuplicate, HandleConfirm,
         PubAckArrives, vars, brokerVars,
         ConnectionDies, ConnectionLossDetected, SessionExpires,
         UnroutedDelivery, Connect, SubscribeCommands, SubscribeFails,
         SubscribeOthers, TakeAckAtStart, EnterLoop, Heartbeat,
         DeferredAckSent, DeferredAckGivenUp, SessionEnds
<1>3. CASE StartApply \/ Crash
  BY <1>3 DEF StartApply, Crash, brokerVars
<1>4. ASSUME NEW j \in Jobs, Handler(j) \/ Watchdog(j)
      PROVE  UNCHANGED sent
  BY <1>4, JobFrame
<1> QED
  BY NextCases, <1>1, <1>2, <1>3, <1>4

\* A command is in flight when it has been sent and no job for it is acked.
LEMMA InFlightIff ==
  TypeOK =>
    \A c \in Cmds : c \in InFlight <=>
      /\ [type |-> "config_apply", cmd |-> c] \in sent
      /\ \A a \in acks : jcmd[a[1]] # c
<1> SUFFICES ASSUME TypeOK, NEW c \in Cmds
             PROVE  c \in InFlight <=>
                      /\ [type |-> "config_apply", cmd |-> c] \in sent
                      /\ \A a \in acks : jcmd[a[1]] # c
  OBVIOUS
<1>1. c \in {m.cmd : m \in {n \in sent : n.type = "config_apply"}}
        <=> [type |-> "config_apply", cmd |-> c] \in sent
  <2>1. ASSUME NEW m \in sent, m.type = "config_apply", m.cmd = c
        PROVE  m = [type |-> "config_apply", cmd |-> c]
    BY <2>1 DEF TypeOK, Messages
  <2> QED
    BY <2>1
<1> QED
  BY <1>1 DEF InFlight

\* An acked job has a verdict, so it has been started.
LEMMA AckedIsDecided ==
  ASSUME TypeInv, PcOK, ReportsOK, NEW a \in acks
  PROVE  a[1] \in Jobs /\ verdict[a[1]] # "none" /\ hpc[a[1]] # "none"
<1>1. a[1] \in Jobs
  BY DEF TypeInv, TypeOK
<1>2. verdict[a[1]] # "none"
  BY DEF ReportsOK
<1> QED
  BY <1>1, <1>2 DEF PcOK

\* A step keeps the jobs' commands among those the server has sent.
LEMMA JobsSentStep ==
  IInv /\ JobsSent /\ [Next]_vars => JobsSent'
<1> SUFFICES ASSUME IInv, JobsSent, [Next]_vars
             PROVE  JobsSent'
  OBVIOUS
<1>s. sent \subseteq sent'
  BY QueueStep DEF IInv
<1>1. CASE StartApply
  <2>1. Current \in Messages /\ Current.type = "config_apply" /\ Current \in sent
    BY <1>1, CurrentIsMessage
       DEF StartApply, CanDispatch, IInv, TypeInv, TypeOK, QueueSent, Current
  <2>2. Current = [type |-> "config_apply", cmd |-> Current.cmd]
    BY <2>1 DEF Messages
  <2>3. /\ jcmd' = [jcmd EXCEPT ![njobs + 1] = Current.cmd]
        /\ hpc' = [hpc EXCEPT ![njobs + 1] = "begun"]
    BY <1>1 DEF StartApply
  <2>4. ASSUME NEW j \in Jobs, hpc'[j] # "none"
        PROVE  [type |-> "config_apply", cmd |-> jcmd'[j]] \in sent
    <3>1. CASE j = njobs + 1
      BY <2>1, <2>2, <2>3, <3>1 DEF IInv, TypeInv, TypeOK
    <3>2. CASE j # njobs + 1
      BY <2>3, <2>4, <3>2 DEF IInv, TypeInv, TypeOK, JobsSent
    <3> QED
      BY <3>1, <3>2
  <2> QED
    BY <1>s, <2>4 DEF JobsSent
<1>2. CASE ~ StartApply
  <2>1. ASSUME NEW j \in Jobs, hpc'[j] # "none"
        PROVE  hpc[j] # "none"
    <3>1. njobs' = njobs
      BY <1>2, NextCases, ElsewhereFrame, JobFrame DEF Crash
    <3>2. JobsOK /\ JobsOK'
      BY TypeStep DEF IInv, TypeInv
    <3> QED
      BY <2>1, <3>1, <3>2 DEF JobsOK
  <2> QED
    BY <1>s, <2>1, CommandKept DEF JobsSent, IInv
<1> QED
  BY <1>1, <1>2

\* A step of another kind than SendApply puts no command in flight.
LEMMA InFlightShrinks ==
  ASSUME IInv, [Next]_vars, ~ \E c \in Cmds : SendApply(c),
         NEW d \in Cmds, d \in InFlight'
  PROVE  d \in InFlight
<1>1. TypeOK /\ TypeOK'
  BY TypeStep DEF IInv, TypeInv
<1>2. /\ [type |-> "config_apply", cmd |-> d] \in sent'
      /\ \A a \in acks' : jcmd'[a[1]] # d
  <2>1. (\A c \in Cmds : c \in InFlight <=>
           /\ [type |-> "config_apply", cmd |-> c] \in sent
           /\ \A a \in acks : jcmd[a[1]] # c)'
    BY <1>1, InFlightIff, PTL
  <2> QED
    BY <2>1
<1>3. [type |-> "config_apply", cmd |-> d] \in sent
  BY <1>2, AppliesSent
<1>4. ASSUME NEW a \in acks
      PROVE  jcmd[a[1]] # d
  <2>1. a[1] \in Jobs /\ hpc[a[1]] # "none"
    BY AckedIsDecided DEF IInv
  <2>2. jcmd'[a[1]] = jcmd[a[1]]
    BY <2>1, CommandKept DEF IInv
  <2>3. a \in acks'
    BY AcksGrow
  <2> QED
    BY <1>2, <2>2, <2>3
<1> QED
  BY <1>1, <1>3, <1>4, InFlightIff

\* A server that waits for acks never has two commands in flight.
LEMMA SingleStep ==
  OneAtATime /\ IInv /\ SingleInFlight /\ [Next]_vars => SingleInFlight'
<1> SUFFICES ASSUME OneAtATime, IInv, SingleInFlight, [Next]_vars
             PROVE  SingleInFlight'
  OBVIOUS
<1>1. TypeOK /\ TypeOK'
  BY TypeStep DEF IInv, TypeInv
<1>2. InFlight \subseteq Cmds /\ InFlight' \subseteq Cmds
  BY <1>1 DEF InFlight, TypeOK, Messages
<1>3. ASSUME NEW c \in Cmds, SendApply(c)
      PROVE  SingleInFlight'
  <2>1. Cardinality(InFlight) < 1
    BY <1>3 DEF SendApply, OneAtATime
  <2>2. InFlight = {}
    <3>1. IsFiniteSet(InFlight)
      BY <1>2, FS_Subset DEF OneAtATime, SeenHoldsAll
    <3>2. Cardinality(InFlight) \in Nat
      BY <3>1, FS_CardinalityType
    <3>3. Cardinality(InFlight) = 0
      BY <2>1, <3>2
    <3> QED
      BY <3>1, <3>3, FS_EmptySet
  <2>3. InFlight' \subseteq {c}
    <3>1. /\ sent' = sent \cup {[type |-> "config_apply", cmd |-> c]}
          /\ acks' = acks /\ jcmd' = jcmd
      BY <1>3 DEF SendApply, handlerVars
    <3> QED
      BY <2>2, <3>1 DEF InFlight
  <2> QED
    BY <2>3 DEF SingleInFlight
<1>4. CASE ~ \E c \in Cmds : SendApply(c)
  BY <1>2, <1>4, InFlightShrinks DEF SingleInFlight
<1> QED
  BY <1>3, <1>4

\* When the agent starts a job, the server has acks for all earlier ones.
LEMMA StartAfterAcks ==
  ASSUME MaxCrashes = 0, IInv, SeenOK, HandledOnce, NoneKilled, SingleInFlight,
         JobsSent, StartApply, NEW j \in Jobs, hpc[j] # "none"
  PROVE  verdict[j] # "none"
<1> DEFINE c == Current.cmd
<1>1. Current \in Messages /\ Current.type = "config_apply" /\ Current \in sent
  BY CurrentIsMessage
     DEF StartApply, CanDispatch, IInv, TypeInv, TypeOK, QueueSent, Current
<1>2. c \in Cmds /\ [type |-> "config_apply", cmd |-> c] \in sent
  BY <1>1 DEF Messages
<1>3. \A i \in Jobs : hpc[i] # "none" => Live(i) /\ jcmd[i] # c
  BY DEF Live, NoneKilled, SeenOK, StartApply
<1>4. \A a \in acks : a[1] \in Jobs /\ verdict[a[1]] # "none" /\ hpc[a[1]] # "none"
  BY AckedIsDecided DEF IInv
<1> HIDE DEF c
<1>5. c \in InFlight
  BY <1>2, <1>3, <1>4, InFlightIff DEF IInv, TypeInv
<1>6. jcmd[j] \in Cmds /\ jcmd[j] \notin InFlight
  BY <1>3, <1>5 DEF SingleInFlight, IInv, TypeInv, JobsOK
<1>7. PICK a \in acks : jcmd[a[1]] = jcmd[j]
  BY <1>6, InFlightIff DEF JobsSent, IInv, TypeInv
<1>8. a[1] = j
  BY <1>3, <1>4, <1>7 DEF HandledOnce
<1> QED
  BY <1>4, <1>8

\* What is neither a handler's nor a watchdog's step leaves the files alone.
LEMMA DiskFrame ==
  Elsewhere => UNCHANGED <<disk, backup, committed>>
<1> USE DEF handlerVars
<1>1. Environment => UNCHANGED <<disk, backup, committed>>
  BY DEF Environment, SendApply, SendConfirm, ConnectionDies,
         ConnectionLossDetected, SessionExpires, UnroutedDelivery
<1>2. Session => UNCHANGED <<disk, backup, committed>>
  BY DEF Session, Connect, SubscribeCommands, SubscribeFails, SubscribeOthers,
         TakeAckAtStart, EnterLoop, Heartbeat, DeferredAckSent,
         DeferredAckGivenUp, SessionEnds
<1>3. DropDuplicate \/ HandleConfirm \/ PubAckArrives
        => UNCHANGED <<disk, backup, committed>>
  BY DEF DropDuplicate, HandleConfirm, PubAckArrives
<1> QED
  BY <1>1, <1>2, <1>3 DEF Elsewhere, vars

\* A verdict is final.
LEMMA VerdictKept ==
  ASSUME TypeInv, PcOK, [Next]_vars, NEW j \in Jobs, verdict[j] # "none"
  PROVE  verdict'[j] = verdict[j]
<1> USE DEF TypeInv, TypeOK, PcOK, watchdogVars
<1>1. CASE Elsewhere
  BY <1>1, ElsewhereFrame
<1>2. CASE StartApply \/ Crash
  BY <1>2 DEF StartApply, Crash
<1>3. ASSUME NEW i \in Jobs, Handler(i)
      PROVE  verdict'[j] = verdict[j]
  BY <1>3 DEF Handler, BackUp, RejectPayload, ApplySucceeds, ApplyFails,
         NackSent, StartWatchdog, StatePublished
<1>4. ASSUME NEW i \in Jobs, Watchdog(i)
      PROVE  verdict'[j] = verdict[j]
  BY <1>4 DEF Watchdog, RollBackAtStart, BeginWait, NoticeDisconnect,
         ConfirmReceived, TimerConfirms, TimerRollsBack, OkAckSent, Restore,
         QueueRollbackAck, WatchdogExits
<1> QED
  BY NextCases, <1>1, <1>2, <1>3, <1>4

\* A new job starts only when all others are decided.
LEMMA OlderDecidedStep ==
  MaxCrashes = 0 /\ IInv /\ SeenOK /\ HandledOnce /\ NoneKilled
    /\ SingleInFlight /\ JobsSent /\ OlderDecided /\ [Next]_vars
    => OlderDecided'
<1> SUFFICES ASSUME MaxCrashes = 0, IInv, SeenOK, HandledOnce, NoneKilled,
                    SingleInFlight, JobsSent, OlderDecided, [Next]_vars
             PROVE  OlderDecided'
  OBVIOUS
<1>1. CASE StartApply
  <2>1. njobs' = njobs + 1 /\ verdict' = verdict
    BY <1>1 DEF StartApply, watchdogVars
  <2>2. ASSUME NEW j \in Jobs, j < njobs + 1
        PROVE  verdict[j] # "none"
    <3>1. hpc[j] # "none"
      BY <2>2 DEF IInv, TypeInv, TypeOK, JobsOK, Jobs
    <3> QED
      BY <1>1, <3>1, StartAfterAcks
  <2> QED
    BY <2>1, <2>2 DEF OlderDecided
<1>2. CASE ~ StartApply
  <2>1. njobs' = njobs
    BY <1>2, NextCases, ElsewhereFrame, JobFrame DEF Crash
  <2> QED
    BY <2>1, VerdictKept DEF OlderDecided, IInv
<1> QED
  BY <1>1, <1>2

\* An undecided job that has been started is the newest one.
LEMMA UndecidedIsNewest ==
  ASSUME TypeInv, OlderDecided, NEW j \in Jobs, verdict[j] = "none",
         hpc[j] # "none"
  PROVE  j = njobs /\ njobs # 0
  BY DEF TypeInv, TypeOK, JobsOK, OlderDecided, Jobs

\* No earlier job runs the newest one's command.
LEMMA NewestIsNew ==
  ASSUME MaxCrashes = 0, TypeInv, HandledOnce, NoneKilled, njobs # 0
  PROVE  /\ njobs \in Jobs /\ jcmd[njobs] \in Cmds /\ hpc[njobs] # "none"
         /\ 1 .. njobs \subseteq Jobs
         /\ \A i \in 1 .. njobs - 1 : jcmd[i] # jcmd[njobs]
<1>1. njobs \in Jobs /\ 1 .. njobs \subseteq Jobs /\ MaxJobs \in Nat
  BY ConstantsAssumption DEF TypeInv, TypeOK, Jobs
<1>2. \A i \in 1 .. njobs : hpc[i] # "none"
  BY <1>1 DEF TypeInv, JobsOK
<1>3. \A i \in 1 .. njobs : Live(i)
  BY <1>1, <1>2 DEF Live, NoneKilled
<1>4. \A i \in 1 .. njobs - 1 : i \in Jobs /\ Live(i) /\ i # njobs
  BY <1>1, <1>3 DEF TypeInv, TypeOK
<1>5. njobs \in 1 .. njobs
  BY <1>1 DEF Jobs
<1> QED
  BY <1>1, <1>2, <1>3, <1>4, <1>5 DEF HandledOnce, TypeInv, JobsOK

\* The decision about the newest job leaves the files true to all jobs: when
\* they hold all of its packages for "ok", none for "rolled_back", and any for
\* "failed".
LEMMA Decision ==
  ASSUME MaxCrashes = 0, TypeInv, HandledOnce, NoneKilled, njobs # 0,
         NEW base, TrueTo(base, njobs - 1),
         NEW ps, disk' = [p \in Pkgs |-> IF p \in ps THEN jcmd[njobs] ELSE base[p]],
         NEW v \in {"failed", "ok", "rolled_back"},
         verdict' = [verdict EXCEPT ![njobs] = v],
         v = "ok" => committed[njobs] \subseteq ps,
         v = "rolled_back" => ps = {},
         UNCHANGED <<jcmd, committed, njobs>>
  PROVE  DiskTrue'
<1> DEFINE n == njobs
<1>1. /\ n \in Jobs /\ jcmd[n] \in Cmds /\ 1 .. n \subseteq Jobs /\ n \in Nat
      /\ \A i \in 1 .. n - 1 : jcmd[i] # jcmd[n]
  BY NewestIsNew DEF TypeInv, TypeOK
<1>2. /\ verdict'[n] = v
      /\ \A j \in 1 .. n - 1 : verdict'[j] = verdict[j]
  BY <1>1 DEF TypeInv, TypeOK
<1>3. /\ \A p \in Pkgs : base[p] = Base \/ \E i \in 1 .. n - 1 : base[p] = jcmd[i]
      /\ \A j \in 1 .. n - 1 : verdict[j] = "rolled_back" =>
           \A p \in Pkgs : base[p] # jcmd[j]
      /\ \A j \in 1 .. n - 1 : verdict[j] = "ok" =>
           \A p \in committed[j] : \E i \in j .. n - 1 : base[p] = jcmd[i]
  BY DEF TrueTo
<1>4. \A j \in 1 .. n : committed[j] \subseteq Pkgs
  BY <1>1 DEF TypeInv, TypeOK
<1> HIDE DEF n
<1>5. \A p \in Pkgs : /\ p \in ps => disk'[p] = jcmd[n]
                      /\ p \notin ps => disk'[p] = base[p]
  BY DEF n
<1>6. ASSUME NEW p \in Pkgs
      PROVE  disk'[p] = Base \/ \E i \in 1 .. n : disk'[p] = jcmd[i]
  <2>1. n \in 1 .. n /\ 1 .. n - 1 \subseteq 1 .. n
    BY <1>1 DEF Jobs
  <2> QED
    BY <1>3, <1>5, <2>1
<1>7. ASSUME NEW j \in 1 .. n, verdict'[j] = "rolled_back", NEW p \in Pkgs
      PROVE  disk'[p] # jcmd[j]
  <2>1. CASE j = n
    <3>1. disk'[p] = base[p]
      BY <1>2, <1>5, <1>7, <2>1
    <3>2. jcmd[n] # Base
      BY <1>1, ConstantsAssumption
    <3> QED
      BY <1>1, <1>3, <2>1, <3>1, <3>2
  <2>2. CASE j # n
    <3>1. j \in 1 .. n - 1
      BY <1>1, <2>2
    <3>2. verdict[j] = "rolled_back"
      BY <1>2, <1>7, <3>1
    <3>3. base[p] # jcmd[j] /\ jcmd[j] # jcmd[n]
      BY <1>1, <1>3, <3>1, <3>2
    <3> QED
      BY <1>5, <3>3
  <2> QED
    BY <2>1, <2>2
<1>8. ASSUME NEW j \in 1 .. n, verdict'[j] = "ok", NEW p \in committed[j]
      PROVE  \E i \in j .. n : disk'[p] = jcmd[i]
  <2>0. p \in Pkgs /\ n \in j .. n
    BY <1>1, <1>4
  <2>1. CASE p \in ps
    BY <1>5, <2>0, <2>1
  <2>2. CASE p \notin ps
    <3>1. j # n
      BY <1>2, <1>8, <2>2 DEF n
    <3>2. j \in 1 .. n - 1 /\ verdict[j] = "ok"
      BY <1>1, <1>2, <1>8, <3>1
    <3>3. PICK i \in j .. n - 1 : base[p] = jcmd[i]
      BY <1>3, <3>2
    <3>4. i \in j .. n
      BY <1>1, <3>2, <3>3
    <3> QED
      BY <1>5, <2>0, <2>2, <3>3, <3>4
  <2> QED
    BY <2>1, <2>2
<1>9. njobs' = n /\ jcmd' = jcmd /\ committed' = committed
  BY DEF n
<1>10. TrueTo(disk, njobs)'
  BY <1>6, <1>7, <1>8, <1>9 DEF TrueTo
<1> QED
  BY <1>2, <1>9, <1>10 DEF DiskTrue

\* A step keeps the files true to the jobs.
LEMMA DiskTrueStep ==
  OneAtATime /\ IInv /\ SeenOK /\ HandledOnce /\ NoneKilled /\ SingleInFlight
    /\ JobsSent /\ OlderDecided /\ DiskTrue /\ [Next]_vars => DiskTrue'
<1> SUFFICES ASSUME OneAtATime, IInv, SeenOK, HandledOnce, NoneKilled,
                    SingleInFlight, JobsSent, OlderDecided, DiskTrue,
                    [Next]_vars
             PROVE  DiskTrue'
  OBVIOUS
<1>a. /\ TypeInv /\ PcOK /\ MaxCrashes = 0
      /\ njobs \in Nat /\ disk \in Configs /\ backup \in [Jobs -> Configs]
      /\ committed \in [Jobs -> SUBSET Pkgs]
      /\ hpc \in [Jobs -> {"none", "begun", "backed_up", "nack", "applied",
                           "publishing", "done", "killed"}]
      /\ verdict \in [Jobs -> {"none", "failed", "ok", "rolled_back"}]
      /\ njobs # 0 => njobs \in Jobs
  BY DEF IInv, TypeInv, TypeOK, OneAtATime, Jobs
<1>u. ASSUME NEW j \in Jobs, verdict[j] = "none", hpc[j] # "none"
      PROVE  j = njobs /\ njobs # 0
  BY <1>a, <1>u, UndecidedIsNewest
<1>d. ASSUME njobs # 0, verdict[njobs] = "none"
      PROVE  /\ hpc[njobs] = "begun" => TrueTo(disk, njobs - 1)
             /\ hpc[njobs] # "begun" =>
                  /\ TrueTo(backup[njobs], njobs - 1)
                  /\ disk = IF hpc[njobs] = "backed_up" THEN backup[njobs]
                                                        ELSE Overlay(njobs)
  BY <1>d DEF DiskTrue
<1>f. ASSUME UNCHANGED <<disk, backup, committed, verdict, jcmd, njobs>>,
             njobs # 0 /\ verdict[njobs] = "none" =>
               \/ hpc'[njobs] = hpc[njobs]
               \/ {hpc[njobs], hpc'[njobs]} \cap {"begun", "backed_up"} = {}
      PROVE  DiskTrue'
  <2>1. /\ TrueTo(disk, njobs)' <=> TrueTo(disk, njobs)
        /\ TrueTo(disk, njobs - 1)' <=> TrueTo(disk, njobs - 1)
        /\ TrueTo(backup[njobs], njobs - 1)' <=> TrueTo(backup[njobs], njobs - 1)
    BY <1>f DEF TrueTo
  <2>2. Overlay(njobs)' = Overlay(njobs)
    BY <1>f DEF Overlay
  <2>3. UNCHANGED <<disk, backup, njobs, verdict>>
    BY <1>f
  <2> QED
    BY <1>f, <2>1, <2>2, <2>3 DEF DiskTrue
<1>1. CASE Elsewhere
  BY <1>1, <1>f, ElsewhereFrame, DiskFrame
<1>2. CASE StartApply
  <2>1. /\ njobs' = njobs + 1 /\ njobs + 1 \in Jobs /\ hpc[njobs + 1] = "none"
        /\ verdict[njobs + 1] = "none"
    <3>1. njobs' = njobs + 1 /\ njobs < MaxJobs
      BY <1>2 DEF StartApply
    <3>2. njobs + 1 \in Jobs /\ ~ (njobs + 1 <= njobs)
      BY <1>a, <3>1, ConstantsAssumption DEF Jobs
    <3>3. hpc[njobs + 1] = "none"
      BY <1>a, <3>2 DEF TypeInv, JobsOK
    <3>4. verdict[njobs + 1] = "none"
      BY <1>a, <3>2, <3>3 DEF PcOK
    <3> QED
      BY <3>1, <3>2, <3>3, <3>4
  <2>2. njobs # 0 => verdict[njobs] # "none"
    <3>1. njobs # 0 => hpc[njobs] # "none"
      BY <1>a DEF TypeInv, JobsOK
    <3> QED
      BY <1>a, <1>2, <3>1, StartAfterAcks
  <2>3. TrueTo(disk, njobs)
    BY <2>2 DEF DiskTrue
  <2>4. /\ hpc'[njobs + 1] = "begun"
        /\ UNCHANGED <<disk, backup, committed, verdict>>
        /\ \A i \in 1 .. njobs : jcmd'[i] = jcmd[i]
    BY <1>2, <1>a, <2>1 DEF StartApply, watchdogVars, TypeInv, TypeOK, Jobs
  <2>5. TrueTo(disk, njobs - 1)'
    <3>1. njobs' - 1 = njobs
      BY <1>a, <2>1
    <3>2. \A j \in 1 .. njobs : j .. njobs \subseteq 1 .. njobs
      BY <1>a
    <3>3. /\ \A p \in Pkgs :
               disk'[p] = Base \/ \E i \in 1 .. njobs : disk'[p] = jcmd'[i]
          /\ \A j \in 1 .. njobs : verdict'[j] = "rolled_back" =>
               \A p \in Pkgs : disk'[p] # jcmd'[j]
          /\ \A j \in 1 .. njobs : verdict'[j] = "ok" =>
               \A p \in committed'[j] : \E i \in j .. njobs : disk'[p] = jcmd'[i]
      BY <2>3, <2>4, <3>2 DEF TrueTo
    <3> QED
      BY <3>1, <3>3 DEF TrueTo
  <2>6. njobs' # 0 /\ verdict'[njobs'] = "none" /\ hpc'[njobs'] = "begun"
    BY <1>a, <2>1, <2>4
  <2> QED
    BY <2>5, <2>6 DEF DiskTrue
<1>3. CASE Crash
  BY <1>3, <1>a, ConstantsAssumption DEF Crash, TypeInv, TypeOK
<1>4. ASSUME NEW j \in Jobs, BackUp(j)
      PROVE  DiskTrue'
  <2>1. hpc[j] = "begun" /\ verdict[j] = "none"
    BY <1>4, <1>a DEF BackUp, PcOK
  <2>2. j = njobs /\ njobs # 0
    BY <1>u, <2>1
  <2>3. /\ hpc'[njobs] = "backed_up" /\ backup'[njobs] = disk
        /\ UNCHANGED <<disk, committed, verdict, jcmd, njobs>>
    BY <1>4, <1>a, <2>2 DEF BackUp, watchdogVars
  <2>4. TrueTo(disk, njobs - 1)
    BY <1>d, <2>1, <2>2
  <2> QED
    BY <2>1, <2>2, <2>3, <2>4 DEF DiskTrue, TrueTo
<1>5. ASSUME NEW j \in Jobs, RejectPayload(j)
      PROVE  DiskTrue'
  <2>1. hpc[j] = "begun" /\ verdict[j] = "none"
    BY <1>5, <1>a DEF RejectPayload, PcOK
  <2>2. j = njobs /\ njobs # 0
    BY <1>u, <2>1
  <2>3. TrueTo(disk, njobs - 1)
    BY <1>d, <2>1, <2>2
  <2>4. disk' = disk
    BY <1>5 DEF RejectPayload
  <2>5. PICK ps : ps = {}
    OBVIOUS
  <2>6. disk' = [p \in Pkgs |-> IF p \in ps THEN jcmd[njobs] ELSE disk[p]]
    BY <1>a, <2>4, <2>5 DEF Configs
  <2>7. /\ verdict' = [verdict EXCEPT ![njobs] = "failed"]
        /\ UNCHANGED <<jcmd, committed, njobs>>
    BY <1>5, <2>2 DEF RejectPayload
  <2> QED
    BY <1>a, <2>2, <2>3, <2>6, <2>7, Decision
<1>6. ASSUME NEW j \in Jobs, ApplySucceeds(j)
      PROVE  DiskTrue'
  <2>1. hpc[j] = "backed_up" /\ verdict[j] = "none"
    BY <1>6, <1>a DEF ApplySucceeds, PcOK
  <2>2. j = njobs /\ njobs # 0
    BY <1>u, <2>1
  <2>3. TrueTo(backup[njobs], njobs - 1) /\ disk = backup[njobs]
    BY <1>d, <2>1, <2>2
  <2>4. /\ hpc'[njobs] = "applied" /\ UNCHANGED <<backup, verdict, jcmd, njobs>>
        /\ committed' = [committed EXCEPT ![njobs] = Touches[jcmd[njobs]]]
        /\ disk' = [p \in Pkgs |-> IF p \in Touches[jcmd[njobs]]
                                     THEN jcmd[njobs] ELSE backup[njobs][p]]
    BY <1>6, <1>a, <2>2, <2>3 DEF ApplySucceeds, WriteAll, watchdogVars
  <2>5. /\ committed'[njobs] = Touches[jcmd[njobs]]
        /\ \A i \in 1 .. njobs - 1 : committed'[i] = committed[i]
    BY <1>a, <2>2, <2>4, NewestIsNew
  <2>6. disk' = Overlay(njobs)'
    BY <2>4, <2>5 DEF Overlay
  <2>7. TrueTo(backup[njobs], njobs - 1)'
    BY <2>3, <2>4, <2>5 DEF TrueTo
  <2> QED
    BY <2>1, <2>2, <2>4, <2>6, <2>7 DEF DiskTrue
<1>7. ASSUME NEW j \in Jobs, ApplyFails(j)
      PROVE  DiskTrue'
  <2>1. hpc[j] = "backed_up" /\ verdict[j] = "none"
    BY <1>7, <1>a DEF ApplyFails, PcOK
  <2>2. j = njobs /\ njobs # 0
    BY <1>u, <2>1
  <2>3. TrueTo(backup[njobs], njobs - 1) /\ disk = backup[njobs]
    BY <1>d, <2>1, <2>2
  <2>4. PICK ps : disk' = WriteAll(jcmd[j], ps)
    BY <1>7 DEF ApplyFails
  <2>5. /\ verdict' = [verdict EXCEPT ![njobs] = "failed"]
        /\ UNCHANGED <<jcmd, committed, njobs>>
    BY <1>7, <2>2 DEF ApplyFails
  <2>6. disk' = [p \in Pkgs |-> IF p \in ps THEN jcmd[njobs]
                                            ELSE backup[njobs][p]]
    BY <2>2, <2>3, <2>4 DEF WriteAll
  <2> QED
    BY <1>a, <2>2, <2>3, <2>5, <2>6, Decision
<1>8. ASSUME NEW j \in Jobs, NackSent(j) \/ StatePublished(j) \/ StartWatchdog(j)
      PROVE  DiskTrue'
  <2>1. UNCHANGED <<disk, backup, committed, verdict, jcmd, njobs>>
    BY <1>8 DEF NackSent, StatePublished, StartWatchdog, watchdogVars
  <2>2. \A i \in Jobs \ {j} : hpc'[i] = hpc[i]
    BY <1>8, <1>a DEF NackSent, StatePublished, StartWatchdog
  <2>3. /\ hpc[j] \in {"nack", "publishing", "applied"}
        /\ hpc'[j] \in {"publishing", "done"}
    BY <1>8, <1>a DEF NackSent, StatePublished, StartWatchdog
  <2> QED
    BY <1>a, <1>f, <2>1, <2>2, <2>3
<1>9. ASSUME NEW j \in Jobs,
             \/ RollBackAtStart(j) \/ BeginWait(j) \/ NoticeDisconnect(j)
             \/ TimerRollsBack(j) \/ OkAckSent(j) \/ QueueRollbackAck(j)
             \/ WatchdogExits(j)
      PROVE  DiskTrue'
  <2>1. UNCHANGED <<disk, backup, committed, verdict, jcmd, njobs, hpc>>
    BY <1>9 DEF RollBackAtStart, BeginWait, NoticeDisconnect, TimerRollsBack,
           OkAckSent, QueueRollbackAck, WatchdogExits, handlerVars, watchdogVars
  <2> QED
    BY <1>f, <2>1
<1>10. ASSUME NEW j \in Jobs, ConfirmReceived(j) \/ TimerConfirms(j)
       PROVE  DiskTrue'
  <2>1. verdict[j] = "none" /\ hpc[j] \in {"publishing", "done"}
    BY <1>10, <1>a DEF ConfirmReceived, TimerConfirms, PcOK
  <2>2. j = njobs /\ njobs # 0
    BY <1>u, <2>1
  <2>3. TrueTo(backup[njobs], njobs - 1) /\ disk = Overlay(njobs)
    BY <1>d, <2>1, <2>2
  <2>4. /\ verdict' = [verdict EXCEPT ![njobs] = "ok"]
        /\ UNCHANGED <<disk, jcmd, committed, njobs>>
    BY <1>10, <2>2 DEF ConfirmReceived, TimerConfirms, handlerVars
  <2>5. disk' = [p \in Pkgs |-> IF p \in committed[njobs] THEN jcmd[njobs]
                                                 ELSE backup[njobs][p]]
    BY <2>3, <2>4 DEF Overlay
  <2> QED
    BY <1>a, <2>2, <2>3, <2>4, <2>5, Decision
<1>11. ASSUME NEW j \in Jobs, Restore(j)
       PROVE  DiskTrue'
  <2>1. verdict[j] = "none" /\ hpc[j] \in {"publishing", "done"}
    BY <1>11, <1>a DEF Restore, PcOK
  <2>2. j = njobs /\ njobs # 0
    BY <1>u, <2>1
  <2>3. TrueTo(backup[njobs], njobs - 1) /\ disk = Overlay(njobs)
    BY <1>d, <2>1, <2>2
  <2>4. /\ verdict' = [verdict EXCEPT ![njobs] = "rolled_back"]
        /\ UNCHANGED <<jcmd, committed, njobs>>
    BY <1>11, <2>2 DEF Restore, handlerVars
  <2>5. disk' = [p \in Pkgs |-> IF p \in committed[njobs] THEN backup[njobs][p]
                                                          ELSE disk[p]]
    BY <1>11, <2>2 DEF Restore, OneAtATime
  <2>6. disk' = [p \in Pkgs |-> IF p \in {} THEN jcmd[njobs]
                                            ELSE backup[njobs][p]]
    BY <2>3, <2>5 DEF Overlay
  <2> QED
    BY <1>a, <2>2, <2>3, <2>4, <2>6, Decision
<1> QED
  BY NextCases, <1>1, <1>2, <1>3, <1>4, <1>5, <1>6, <1>7, <1>8, <1>9, <1>10, <1>11
     DEF Handler, Watchdog

\* The invariant of a server that waits for its acks.
SerialInv ==
  /\ SeenOK /\ HandledOnce /\ NoneKilled
  /\ SingleInFlight /\ JobsSent /\ OlderDecided /\ DiskTrue

\* It holds of every behaviour under OneAtATime.
LEMMA SerialInvariant ==
  ASSUME OneAtATime
  PROVE  Spec => [](IInv /\ SerialInv)
<1>1. Init => SerialInv
  <2> SUFFICES ASSUME Init PROVE SerialInv
    OBVIOUS
  <2>1. SeenOK /\ HandledOnce /\ NoneKilled /\ SingleInFlight /\ JobsSent
    BY DEF Init, SeenOK, HandledOnce, Live, NoneKilled, SingleInFlight,
           InFlight, JobsSent
  <2>2. OlderDecided
    BY DEF Init, OlderDecided, Jobs
  <2>3. DiskTrue
    BY DEF Init, DiskTrue, TrueTo
  <2> QED
    BY <2>1, <2>2, <2>3 DEF SerialInv
<1>2. IInv /\ IInv' /\ NoneKilled' /\ SerialInv /\ [Next]_vars => SerialInv'
  BY OneAtATime, SeenStep, HandledOnceStep, SingleStep, JobsSentStep,
     OlderDecidedStep, DiskTrueStep DEF OneAtATime, SerialInv, IInv
<1> QED
  BY <1>1, <1>2, IInvInvariant, NoneKilledInvariant, PTL DEF Spec

\* Once a command has been rolled back, none of its content is in /etc/config
\* any more, when the server waits for the ack of one command before the next.
THEOREM AlwaysRolledBackStaysOut ==
  ASSUME OneAtATime
  PROVE  Spec => []RolledBackStaysOut
<1>1. IInv /\ SerialInv => RolledBackStaysOut
  <2> SUFFICES ASSUME IInv, SerialInv, NEW j \in Jobs,
                      verdict[j] = "rolled_back", NEW p \in Pkgs
               PROVE  disk[p] # jcmd[j]
    BY DEF RolledBackStaysOut
  <2>1. /\ j \in 1 .. njobs /\ njobs # 0 /\ njobs \in Nat
        /\ \A i \in 1 .. njobs - 1 : jcmd[i] # jcmd[njobs]
    <3>1. hpc[j] # "none"
      BY DEF IInv, PcOK
    <3>2. j <= njobs /\ njobs \in Nat /\ j \in Nat \ {0}
      BY <3>1 DEF IInv, TypeInv, TypeOK, JobsOK, Jobs
    <3> QED
      BY <3>2, OneAtATime, NewestIsNew DEF OneAtATime, IInv, SerialInv
  <2>2. CASE verdict[njobs] # "none"
    BY <2>1, <2>2 DEF SerialInv, DiskTrue, TrueTo
  <2>3. CASE verdict[njobs] = "none"
    <3>1. j \in 1 .. njobs - 1
      BY <2>1, <2>3
    <3>2. CASE hpc[njobs] = "begun"
      BY <2>1, <2>3, <3>1, <3>2 DEF SerialInv, DiskTrue, TrueTo
    <3>3. CASE hpc[njobs] # "begun"
      <4>1. /\ TrueTo(backup[njobs], njobs - 1)
            /\ disk = backup[njobs] \/ disk = Overlay(njobs)
        BY <2>1, <2>3, <3>3 DEF SerialInv, DiskTrue
      <4>2. backup[njobs][p] # jcmd[j]
        BY <3>1, <4>1 DEF TrueTo
      <4>3. disk[p] \in {backup[njobs][p], jcmd[njobs]}
        BY <4>1 DEF Overlay
      <4> QED
        BY <2>1, <3>1, <4>2, <4>3
    <3> QED
      BY <3>2, <3>3
  <2> QED
    BY <2>2, <2>3
<1> QED
  BY <1>1, SerialInvariant, PTL

\* A confirmed config is never undone by another command's rollback, when the
\* server waits for the ack of one command before the next.
THEOREM AlwaysConfirmedStaysIn ==
  ASSUME OneAtATime
  PROVE  Spec => []ConfirmedStaysIn
<1>1. IInv /\ SerialInv => ConfirmedStaysIn
  <2> SUFFICES ASSUME IInv, SerialInv, NEW j \in Jobs, verdict[j] = "ok",
                      NEW p \in committed[j], disk[p] # jcmd[j]
               PROVE  \E i \in Jobs : i > j /\ disk[p] = jcmd[i]
    BY DEF ConfirmedStaysIn
  <2>1. /\ j \in 1 .. njobs /\ njobs # 0 /\ njobs \in Nat /\ njobs \in Jobs
        /\ 1 .. njobs \subseteq Jobs
    <3>1. hpc[j] # "none"
      BY DEF IInv, PcOK
    <3>2. j <= njobs /\ njobs \in Nat /\ j \in Nat \ {0}
      BY <3>1 DEF IInv, TypeInv, TypeOK, JobsOK, Jobs
    <3> QED
      BY <3>2, OneAtATime, NewestIsNew DEF OneAtATime, IInv, SerialInv
  <2>p. p \in Pkgs
    BY DEF IInv, TypeInv, TypeOK
  <2>2. CASE verdict[njobs] # "none"
    <3>1. PICK i \in j .. njobs : disk[p] = jcmd[i]
      BY <2>1, <2>2 DEF SerialInv, DiskTrue, TrueTo
    <3>2. i # j /\ i > j /\ i \in Jobs
      BY <2>1, <3>1
    <3> QED
      BY <3>1, <3>2
  <2>3. CASE verdict[njobs] = "none"
    <3>1. j \in 1 .. njobs - 1 /\ njobs > j
      BY <2>1, <2>3
    <3>2. ASSUME NEW cfg, TrueTo(cfg, njobs - 1)
          PROVE  \E i \in Jobs : i >= j /\ cfg[p] = jcmd[i]
      <4>1. PICK i \in j .. njobs - 1 : cfg[p] = jcmd[i]
        BY <3>1, <3>2 DEF TrueTo
      <4>2. i \in Jobs /\ i >= j
        BY <2>1, <3>1, <4>1
      <4> QED
        BY <4>1, <4>2
    <3>3. disk[p] = jcmd[njobs] \/ \E i \in Jobs : i >= j /\ disk[p] = jcmd[i]
      <4>1. CASE hpc[njobs] = "begun"
        <5>1. TrueTo(disk, njobs - 1)
          BY <2>1, <2>3, <4>1 DEF SerialInv, DiskTrue
        <5> QED
          BY <3>2, <5>1
      <4>2. CASE hpc[njobs] # "begun"
        <5>1. /\ TrueTo(backup[njobs], njobs - 1)
              /\ disk = backup[njobs] \/ disk = Overlay(njobs)
          BY <2>1, <2>3, <4>2 DEF SerialInv, DiskTrue
        <5>2. \E i \in Jobs : i >= j /\ backup[njobs][p] = jcmd[i]
          BY <3>2, <5>1
        <5>3. disk[p] = backup[njobs][p] \/ disk[p] = jcmd[njobs]
          BY <2>p, <5>1 DEF Overlay
        <5> QED
          BY <5>2, <5>3
      <4> QED
        BY <4>1, <4>2
    <3> QED
      BY <2>1, <3>1, <3>3 DEF Jobs
  <2> QED
    BY <2>2, <2>3
<1> QED
  BY <1>1, SerialInvariant, PTL

-----------------------------------------------------------------------------
(* Refinement *)

\* A step that leaves places and verdicts alone leaves the phases alone.
LEMMA PhaseFrame == UNCHANGED <<hpc, wpc, verdict>> => UNCHANGED phaseBar
  BY DEF phaseBar

\* A step that moves job j only changes the phase of j only.
LEMMA PhaseMove ==
  ASSUME NEW j \in Jobs,
         \A i \in Jobs \ {j} : /\ hpc'[i] = hpc[i]
                               /\ wpc'[i] = wpc[i]
                               /\ verdict'[i] = verdict[i]
  PROVE  phaseBar' = [phaseBar EXCEPT ![j] = phaseBar'[j]]
<1>1. /\ phaseBar = [i \in Jobs |-> phaseBar[i]]
      /\ phaseBar' = [i \in Jobs |-> phaseBar'[i]]
  BY DEF phaseBar
<1>2. \A i \in Jobs \ {j} : phaseBar'[i] = phaseBar[i]
  BY DEF phaseBar
<1> QED
  BY <1>1, <1>2

\* A step that moves job j only and keeps its phase keeps all phases.
LEMMA PhaseStay ==
  ASSUME NEW j \in Jobs,
         \A i \in Jobs \ {j} : /\ hpc'[i] = hpc[i]
                               /\ wpc'[i] = wpc[i]
                               /\ verdict'[i] = verdict[i],
         phaseBar'[j] = phaseBar[j]
  PROVE  UNCHANGED phaseBar
<1>1. \A i \in Jobs : phaseBar'[i] = phaseBar[i]
  BY DEF phaseBar
<1> QED
  BY <1>1 DEF phaseBar

\* A crash abandons the undecided jobs and no others.
LEMMA PhasesAfterCrash ==
  ASSUME Crash, TypeInv, TypeInv'
  PROVE  phaseBar' = [j \in Jobs |-> IF phaseBar[j] \in CC!Undecided
                                       THEN "abandoned" ELSE phaseBar[j]]
<1> SUFFICES ASSUME NEW j \in Jobs
             PROVE  phaseBar'[j] = IF phaseBar[j] \in CC!Undecided
                                     THEN "abandoned" ELSE phaseBar[j]
  BY DEF phaseBar
<1> USE DEF TypeInv, TypeOK
<1>1. /\ verdict'[j] = verdict[j]
      /\ hpc'[j] = IF hpc[j] = "none" THEN "none" ELSE "killed"
  BY DEF Crash
<1>2. CASE verdict[j] # "none"
  BY <1>1, <1>2 DEF phaseBar, CC!Undecided
<1>3. CASE verdict[j] = "none" /\ hpc[j] = "none"
  <2>1. phaseBar[j] = "none"
    BY <1>3 DEF phaseBar
  <2>2. verdict'[j] = "none" /\ hpc'[j] = "none"
    BY <1>1, <1>3
  <2>3. phaseBar'[j] = "none"
    BY <2>2 DEF phaseBar
  <2> QED
    BY <2>1, <2>3 DEF CC!Undecided
<1>4. CASE verdict[j] = "none" /\ hpc[j] # "none"
  <2>1. phaseBar[j] \in CC!Undecided \cup {"abandoned"}
    BY <1>4 DEF phaseBar, CC!Undecided
  <2>2. verdict'[j] = "none" /\ hpc'[j] = "killed"
    BY <1>1, <1>4
  <2>3. phaseBar'[j] = "abandoned"
    BY <2>2 DEF phaseBar
  <2> QED
    BY <2>1, <2>3
<1> QED
  BY <1>2, <1>3, <1>4

\* The phase of a job with a verdict is its verdict.
LEMMA PhaseOfVerdict ==
  ASSUME NEW j \in Jobs, verdict[j] # "none"
  PROVE  phaseBar[j] = verdict[j]
  BY DEF phaseBar

\* An ack that reports the verdict of a job is one CommitConfirm allows.
LEMMA ReportAllowed ==
  ASSUME NEW j \in Jobs, NEW st,
         \/ st = "ok" /\ verdict[j] = "ok"
         \/ st = "error" /\ verdict[j] \in {"failed", "rolled_back"},
         acks' = acks \cup {<<j, st>>}, UNCHANGED phaseBar
  PROVE  CC!Next
<1>1. phaseBar[j] = verdict[j]
  BY PhaseOfVerdict
<1>2. CC!Report(j)
  BY <1>1 DEF CC!Report, CC!Decided, CC!StatusOf
<1> QED
  BY <1>2 DEF CC!Next

\* Every step of the agent is a step of CommitConfirm or a stutter.
LEMMA RefinementStep ==
  IInv /\ [Next]_vars => [CC!Next]_CC!vars
<1> SUFFICES ASSUME IInv, [Next]_vars
             PROVE  [CC!Next]_CC!vars
  OBVIOUS
<1> USE DEF IInv, TypeInv, TypeOK, JobsOK, netVars, mainVars, brokerVars,
        dispatchVars, confirmVars, handlerVars, watchdogVars
<1>1. ASSUME UNCHANGED <<hpc, wpc, verdict, acks>>
      PROVE  [CC!Next]_CC!vars
  BY <1>1, PhaseFrame DEF CC!vars
<1>2. CASE Elsewhere
  <2>1. UNCHANGED <<hpc, wpc, verdict>>
    BY <1>2, ElsewhereFrame
  <2>2. CASE DeferredAckSent
    <3>1. /\ mainAck \in Jobs /\ acks' = acks \cup {<<mainAck, "error">>}
          /\ verdict[mainAck] \in {"failed", "rolled_back"}
      BY <2>2 DEF DeferredAckSent, ReportsOK
    <3>2. UNCHANGED phaseBar
      BY <2>1, PhaseFrame
    <3> QED
      BY <3>1, <3>2, ReportAllowed
  <2>3. CASE ~ DeferredAckSent
    <3>1. UNCHANGED acks
      BY <1>2, <2>3 DEF Elsewhere, Environment, Session, SendApply, SendConfirm,
           DropDuplicate, HandleConfirm, PubAckArrives, vars,
           ConnectionDies, ConnectionLossDetected, SessionExpires,
           UnroutedDelivery, Connect, SubscribeCommands, SubscribeFails,
           SubscribeOthers, TakeAckAtStart, EnterLoop, Heartbeat,
           DeferredAckGivenUp, SessionEnds
    <3> QED
      BY <1>1, <2>1, <3>1
  <2> QED
    BY <2>2, <2>3
<1>3. CASE StartApply
  <2> DEFINE j == njobs + 1
  <2>1. j \in Jobs /\ hpc[j] = "none"
    BY <1>3, ConstantsAssumption DEF StartApply, Jobs
  <2>2. verdict[j] = "none" /\ wpc[j] = "none"
    BY <2>1 DEF PcOK
  <2>3. /\ hpc' = [hpc EXCEPT ![j] = "begun"]
        /\ UNCHANGED <<wpc, verdict, acks>>
    BY <1>3 DEF StartApply
  <2> HIDE DEF j
  <2>4. phaseBar[j] = "none" /\ phaseBar'[j] = "applying"
    BY <2>1, <2>2, <2>3 DEF phaseBar
  <2>5. phaseBar' = [phaseBar EXCEPT ![j] = phaseBar'[j]]
    BY <2>1, <2>3, PhaseMove
  <2>6. CC!Accept(j)
    BY <2>3, <2>4, <2>5 DEF CC!Accept, CC!Move
  <2> QED
    BY <2>1, <2>6 DEF CC!Next
<1>4. CASE Crash
  <2>2. phaseBar' = [j \in Jobs |-> IF phaseBar[j] \in CC!Undecided
                                      THEN "abandoned" ELSE phaseBar[j]]
    BY <1>4, TypeStep, PhasesAfterCrash
  <2>3. CC!Abandon
    BY <1>4, <2>2 DEF CC!Abandon, Crash
  <2> QED
    BY <2>3 DEF CC!Next
<1>5. ASSUME NEW j \in Jobs, BackUp(j)
      PROVE  [CC!Next]_CC!vars
  <2>1. phaseBar'[j] = phaseBar[j]
    BY <1>5 DEF BackUp, PcOK, phaseBar
  <2>2. UNCHANGED phaseBar
    BY <1>5, <2>1, PhaseStay DEF BackUp
  <2> QED
    BY <1>5, <2>2 DEF CC!vars, BackUp
<1>6. ASSUME NEW j \in Jobs, RejectPayload(j)
      PROVE  [CC!Next]_CC!vars
  <2>1. phaseBar[j] = "applying" /\ phaseBar'[j] = "failed"
    BY <1>6 DEF RejectPayload, PcOK, phaseBar
  <2>2. phaseBar' = [phaseBar EXCEPT ![j] = phaseBar'[j]]
    BY <1>6, PhaseMove DEF RejectPayload
  <2>3. UNCHANGED acks
    BY <1>6 DEF RejectPayload
  <2>4. CC!Reject(j)
    BY <2>1, <2>2, <2>3 DEF CC!Reject, CC!Move
  <2> QED
    BY <2>4 DEF CC!Next
<1>7. ASSUME NEW j \in Jobs, ApplySucceeds(j)
      PROVE  [CC!Next]_CC!vars
  <2>1. phaseBar[j] = "applying" /\ phaseBar'[j] = "tentative"
    BY <1>7 DEF ApplySucceeds, PcOK, phaseBar
  <2>2. phaseBar' = [phaseBar EXCEPT ![j] = phaseBar'[j]]
    BY <1>7, PhaseMove DEF ApplySucceeds
  <2>3. UNCHANGED acks
    BY <1>7 DEF ApplySucceeds
  <2>4. CC!Commit(j)
    BY <2>1, <2>2, <2>3 DEF CC!Commit, CC!Move
  <2> QED
    BY <2>4 DEF CC!Next
<1>8. ASSUME NEW j \in Jobs, ApplyFails(j)
      PROVE  [CC!Next]_CC!vars
  <2>1. phaseBar[j] = "applying" /\ phaseBar'[j] = "failed"
    BY <1>8 DEF ApplyFails, PcOK, phaseBar
  <2>2. phaseBar' = [phaseBar EXCEPT ![j] = phaseBar'[j]]
    BY <1>8, PhaseMove DEF ApplyFails
  <2>3. UNCHANGED acks
    BY <1>8 DEF ApplyFails
  <2>4. CC!Reject(j)
    BY <2>1, <2>2, <2>3 DEF CC!Reject, CC!Move
  <2> QED
    BY <2>4 DEF CC!Next
<1>9. ASSUME NEW j \in Jobs, NackSent(j)
      PROVE  [CC!Next]_CC!vars
  <2>1. verdict[j] = "failed" /\ verdict'[j] = "failed"
    BY <1>9 DEF NackSent, PcOK
  <2>2. phaseBar'[j] = phaseBar[j]
    BY <2>1 DEF phaseBar
  <2>4. UNCHANGED phaseBar
    BY <1>9, <2>2, PhaseStay DEF NackSent
  <2>5. CASE UNCHANGED acks
    BY <2>4, <2>5 DEF CC!vars
  <2>6. CASE acks' = acks \cup {<<j, "error">>}
    BY <2>1, <2>4, <2>6, ReportAllowed
  <2> QED
    BY <1>9, <2>5, <2>6 DEF NackSent
<1>10. ASSUME NEW j \in Jobs, StartWatchdog(j)
      PROVE  [CC!Next]_CC!vars
  <2>1. phaseBar'[j] = phaseBar[j]
    BY <1>10 DEF StartWatchdog, PcOK, phaseBar
  <2>2. UNCHANGED phaseBar
    BY <1>10, <2>1, PhaseStay DEF StartWatchdog
  <2> QED
    BY <1>10, <2>2 DEF CC!vars, StartWatchdog
<1>11. ASSUME NEW j \in Jobs, StatePublished(j)
      PROVE  [CC!Next]_CC!vars
  <2>1. phaseBar'[j] = phaseBar[j]
    BY <1>11 DEF StatePublished, PcOK, phaseBar
  <2>2. UNCHANGED phaseBar
    BY <1>11, <2>1, PhaseStay DEF StatePublished
  <2> QED
    BY <1>11, <2>2 DEF CC!vars, StatePublished
<1>12. ASSUME NEW j \in Jobs, RollBackAtStart(j)
      PROVE  [CC!Next]_CC!vars
  <2>1. phaseBar[j] = "tentative" /\ phaseBar'[j] = "rolling_back"
    BY <1>12 DEF RollBackAtStart, PcOK, phaseBar
  <2>2. phaseBar' = [phaseBar EXCEPT ![j] = phaseBar'[j]]
    BY <1>12, PhaseMove DEF RollBackAtStart
  <2>3. UNCHANGED acks
    BY <1>12 DEF RollBackAtStart
  <2>4. CC!BeginRollback(j)
    BY <2>1, <2>2, <2>3 DEF CC!BeginRollback, CC!Move
  <2> QED
    BY <2>4 DEF CC!Next
<1>13. ASSUME NEW j \in Jobs, BeginWait(j)
      PROVE  [CC!Next]_CC!vars
  <2>1. phaseBar'[j] = phaseBar[j]
    BY <1>13 DEF BeginWait, PcOK, phaseBar
  <2>2. UNCHANGED phaseBar
    BY <1>13, <2>1, PhaseStay DEF BeginWait
  <2> QED
    BY <1>13, <2>2 DEF CC!vars, BeginWait
<1>14. ASSUME NEW j \in Jobs, NoticeDisconnect(j)
      PROVE  [CC!Next]_CC!vars
  BY <1>14, <1>1 DEF NoticeDisconnect
<1>15. ASSUME NEW j \in Jobs, ConfirmReceived(j)
      PROVE  [CC!Next]_CC!vars
  <2>1. phaseBar[j] = "tentative" /\ phaseBar'[j] = "ok"
    BY <1>15 DEF ConfirmReceived, PcOK, phaseBar
  <2>2. phaseBar' = [phaseBar EXCEPT ![j] = phaseBar'[j]]
    BY <1>15, PhaseMove DEF ConfirmReceived
  <2>3. UNCHANGED acks
    BY <1>15 DEF ConfirmReceived
  <2>4. CC!Confirm(j)
    BY <2>1, <2>2, <2>3 DEF CC!Confirm, CC!Move
  <2> QED
    BY <2>4 DEF CC!Next
<1>16. ASSUME NEW j \in Jobs, TimerConfirms(j)
      PROVE  [CC!Next]_CC!vars
  <2>1. phaseBar[j] = "tentative" /\ phaseBar'[j] = "ok"
    BY <1>16 DEF TimerConfirms, PcOK, phaseBar
  <2>2. phaseBar' = [phaseBar EXCEPT ![j] = phaseBar'[j]]
    BY <1>16, PhaseMove DEF TimerConfirms
  <2>3. UNCHANGED acks
    BY <1>16 DEF TimerConfirms
  <2>4. CC!Confirm(j)
    BY <2>1, <2>2, <2>3 DEF CC!Confirm, CC!Move
  <2> QED
    BY <2>4 DEF CC!Next
<1>17. ASSUME NEW j \in Jobs, TimerRollsBack(j)
      PROVE  [CC!Next]_CC!vars
  <2>1. phaseBar[j] = "tentative" /\ phaseBar'[j] = "rolling_back"
    BY <1>17 DEF TimerRollsBack, PcOK, phaseBar
  <2>2. phaseBar' = [phaseBar EXCEPT ![j] = phaseBar'[j]]
    BY <1>17, PhaseMove DEF TimerRollsBack
  <2>3. UNCHANGED acks
    BY <1>17 DEF TimerRollsBack
  <2>4. CC!BeginRollback(j)
    BY <2>1, <2>2, <2>3 DEF CC!BeginRollback, CC!Move
  <2> QED
    BY <2>4 DEF CC!Next
<1>18. ASSUME NEW j \in Jobs, OkAckSent(j)
      PROVE  [CC!Next]_CC!vars
  <2>1. verdict[j] = "ok" /\ verdict'[j] = "ok"
    BY <1>18 DEF OkAckSent, PcOK
  <2>2. phaseBar'[j] = phaseBar[j]
    BY <2>1 DEF phaseBar
  <2>4. UNCHANGED phaseBar
    BY <1>18, <2>2, PhaseStay DEF OkAckSent
  <2>5. CASE UNCHANGED acks
    BY <2>4, <2>5 DEF CC!vars
  <2>6. CASE acks' = acks \cup {<<j, "ok">>}
    BY <2>1, <2>4, <2>6, ReportAllowed
  <2> QED
    BY <1>18, <2>5, <2>6 DEF OkAckSent
<1>19. ASSUME NEW j \in Jobs, Restore(j)
      PROVE  [CC!Next]_CC!vars
  <2>1. phaseBar[j] = "rolling_back" /\ phaseBar'[j] = "rolled_back"
    BY <1>19 DEF Restore, PcOK, phaseBar
  <2>2. phaseBar' = [phaseBar EXCEPT ![j] = phaseBar'[j]]
    BY <1>19, PhaseMove DEF Restore
  <2>3. UNCHANGED acks
    BY <1>19 DEF Restore
  <2>4. CC!EndRollback(j)
    BY <2>1, <2>2, <2>3 DEF CC!EndRollback, CC!Move
  <2> QED
    BY <2>4 DEF CC!Next
<1>20. ASSUME NEW j \in Jobs, QueueRollbackAck(j)
      PROVE  [CC!Next]_CC!vars
  <2>1. phaseBar'[j] = phaseBar[j]
    BY <1>20 DEF QueueRollbackAck, PcOK, phaseBar
  <2>2. UNCHANGED phaseBar
    BY <1>20, <2>1, PhaseStay DEF QueueRollbackAck
  <2> QED
    BY <1>20, <2>2 DEF CC!vars, QueueRollbackAck
<1>21. ASSUME NEW j \in Jobs, WatchdogExits(j)
      PROVE  [CC!Next]_CC!vars
  <2>1. phaseBar'[j] = phaseBar[j]
    BY <1>21 DEF WatchdogExits, PcOK, phaseBar
  <2>2. UNCHANGED phaseBar
    BY <1>21, <2>1, PhaseStay DEF WatchdogExits
  <2> QED
    BY <1>21, <2>2 DEF CC!vars, WatchdogExits
<1> QED
  BY NextCases, <1>2, <1>3, <1>4, <1>5, <1>6, <1>7, <1>8, <1>9, <1>10, <1>11, <1>12, <1>13, <1>14, <1>15, <1>16, <1>17, <1>18, <1>19, <1>20, <1>21
     DEF Handler, Watchdog

\* The agent implements CommitConfirm: every accepted config_apply goes through
\* its phases in order, and the server's acks are "ok" only for a confirmed
\* one, "error" only for a failed one or one whose rollback is done.
THEOREM AgentImplementsCommitConfirm == Spec => ImplementsCommitConfirm
<1>1. Init => CC!Init
  BY DEF Init, CC!Init, phaseBar
<1> QED
  BY <1>1, RefinementStep, IInvInvariant, PTL
     DEF Spec, ImplementsCommitConfirm, CC!Spec

=============================================================================
