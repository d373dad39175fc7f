--------------------------- MODULE SysupgradeProofs -------------------------
(***************************************************************************)
(* Proofs about Sysupgrade, for any number of handlers, lost sessions and  *)
(* restarts.                                                               *)
(*                                                                         *)
(* The argument follows the clean start that a flash leaves to the next    *)
(* process: as long as the broker holds the command, the clean start is    *)
(* owed (Owed), first by the files, then by the Run goroutine, and no      *)
(* process in which it is owed hands the command to a handler.  A process  *)
(* that has been connected owes nothing any more, so that no handler runs  *)
(* when a clean connect removes the sentinel: one that is about to flash   *)
(* still has its own, unless the write failed or another invocation took   *)
(* it back, and then the history says so.                                  *)
(***************************************************************************)
EXTENDS Sysupgrade, TLAPS

Active(h) == hpc[h] \notin {"none", "done"}

Bootstrapping == {"bootstrap", "asking", "registered", "saved", "enrolled"}
Connected == {"idle", "connecting", "clean", "online"}

\* A process that has been connected asks for no clean start, and only such a
\* process runs handlers.
ServedResumes ==
  /\ pc \in {"connecting", "clean", "online"} => ~ needsCleanStart
  /\ served => pc \in Connected /\ ~ needsCleanStart
  /\ served /\ pc = "connecting" => ~ cleanStart
  /\ pc \in {"clean", "online"} => served
  /\ \A h \in Handlers : Active(h) => served /\ pc # "clean"

\* The command is the one that was sent, to a device with credentials, which
\* keep_config does not take away.
SentFirst ==
  /\ queued \/ (\E h \in Handlers : Active(h)) \/ flashes > 0 => sent
  /\ sent /\ keep => creds

\* Until it is enrolled, a process that bootstraps has no credentials.
BootstrapsWithout == pc \in {"bootstrap", "asking", "registered"} => ~ creds

\* The sentinel of a handler that is about to flash is there, or known to be lost.
Lost == "unwritten" \in faults \/ "taken" \in faults
MarkedHasSentinel ==
  \A h \in Handlers : hpc[h] \in {"marked", "acked"} /\ keep => sentinel \/ Lost

\* The next connect of this process or of the one to come will be a clean one.
Owed ==
  /\ pc = "boot" => sentinel \/ ~ creds
  /\ pc \in Connected => \/ pc = "idle" /\ needsCleanStart
                         \/ pc = "connecting" /\ cleanStart
  /\ keep => sentinel

\* No clean start was lost.
Covered == IF keep THEN ~ Lost ELSE "forgotten" \notin faults

FlashSettled ==
  Covered => /\ flashes <= 1
             /\ flashes > 0 => /\ \A h \in Handlers : ~ Active(h)
                               /\ queued => Owed

FlashInv ==
  /\ ServedResumes /\ SentFirst /\ BootstrapsWithout
  /\ MarkedHasSentinel /\ FlashSettled

-----------------------------------------------------------------------------
(* Types: the flags and the rest. *)

FlagsOK ==
  /\ creds \in BOOLEAN /\ token \in BOOLEAN /\ sentinel \in BOOLEAN
  /\ needsCleanStart \in BOOLEAN /\ cleanStart \in BOOLEAN /\ served \in BOOLEAN
  /\ queued \in BOOLEAN /\ sent \in BOOLEAN /\ keep \in BOOLEAN

Places ==
  {"boot", "bootstrap", "asking", "registered", "saved", "enrolled", "idle",
   "connecting", "clean", "online"}
HandlerPlaces ==
  {"none", "begun", "downloading", "downloaded", "tested", "marked", "acked", "done"}

RestOK ==
  /\ image \in {"none", "partial", "whole"}
  /\ writer \in 0 .. MaxHandlers
  /\ pc \in Places
  /\ hpc \in [Handlers -> HandlerPlaces]
  /\ current \in 0 .. MaxHandlers
  /\ current # 0 => hpc[current] \notin {"none", "done"}
  /\ flashes \in Nat
  /\ drops \in 0 .. MaxDrops
  /\ restarts \in 0 .. MaxRestarts
  /\ failures \in 0 .. MaxFailures
  /\ faults \subseteq {"unwritten", "taken", "forgotten"}

\* The two parts are all of TypeOK.
LEMMA TypeParts == TypeOK <=> FlagsOK /\ RestOK
BY DEF TypeOK, FlagsOK, RestOK, Places, HandlerPlaces

\* Every variable starts with its type.
LEMMA InitType == Init => FlagsOK /\ RestOK
<1> SUFFICES ASSUME Init PROVE FlagsOK /\ RestOK
    OBVIOUS
<1>1. FlagsOK
  BY DEF Init, FlagsOK
<1>2. RestOK
  BY SysupgradeAssumption DEF Init, RestOK, Places, HandlerPlaces
<1> QED
  BY <1>1, <1>2

\* Every step keeps the flags' type.
LEMMA FlagsPreserved == FlagsOK /\ [Next]_vars => FlagsOK'
<1> SUFFICES ASSUME FlagsOK, [Next]_vars
             PROVE  FlagsOK'
    OBVIOUS
<1> USE DEF FlagsOK
<1>1. CASE Boot \/ FindToken \/ Register \/ SaveCredentials \/ RemoveToken \/ ForceCleanStart
  <2>1. CASE Boot \/ FindToken
    BY <2>1 DEF Boot, FindToken, fileVars, imageVars, serverVars, counterVars, faultVars
  <2>2. CASE Register \/ SaveCredentials
    BY <2>2 DEF Register, SaveCredentials, fileVars, imageVars, serverVars,
                counterVars, faultVars
  <2>3. CASE RemoveToken \/ ForceCleanStart
    BY <2>3 DEF RemoveToken, ForceCleanStart, fileVars, imageVars, serverVars,
                counterVars, faultVars
  <2> QED
    BY <1>1, <2>1, <2>2, <2>3
<1>2. CASE AttemptFails
  BY <1>2 DEF AttemptFails, fileVars, imageVars, serverVars, faultVars
<1>3. CASE DeliverToken \/ SendUpgrade
  BY <1>3, SysupgradeAssumption
     DEF DeliverToken, SendUpgrade, fileVars, imageVars, runVars, serverVars,
              counterVars, faultVars
<1>4. CASE BeginConnect
  BY <1>4 DEF BeginConnect, fileVars, imageVars, serverVars, counterVars, faultVars
<1>5. CASE ConnectSucceeds
  BY <1>5 DEF ConnectSucceeds, fileVars, imageVars, serverVars, counterVars, faultVars
<1>6. CASE ConnectFails
  BY <1>6 DEF ConnectFails, fileVars, imageVars, serverVars, counterVars, faultVars
<1>7. CASE RemoveSentinel \/ SessionLost
  BY <1>7 DEF RemoveSentinel, SessionLost, fileVars, imageVars, serverVars,
              counterVars, faultVars
<1>8. ASSUME NEW h \in Handlers, Deliver(h)
      PROVE  FlagsOK'
  BY <1>8 DEF Deliver, fileVars, imageVars, runVars, serverVars, counterVars, faultVars
<1>9. ASSUME NEW h \in Handlers,
             \/ BeginDownload(h) \/ FinishDownload(h) \/ PassTest(h)
             \/ WriteSentinel(h) \/ WriteSentinelFails(h) \/ AckStarted(h)
      PROVE  FlagsOK'
  BY <1>9 DEF BeginDownload, FinishDownload, PassTest, WriteSentinel,
              WriteSentinelFails,
              AckStarted, fileVars, imageVars, runVars, serverVars, counterVars, faultVars
<1>10. ASSUME NEW h \in Handlers,
              Refuse(h) \/ FailDownload(h) \/ FailTest(h) \/ ExecFails(h)
       PROVE  FlagsOK'
  <2>1. CASE Refuse(h) \/ FailDownload(h)
    BY <2>1 DEF Refuse, FailDownload, Return, RemoveImage,
                fileVars, imageVars, runVars, serverVars, counterVars, faultVars
  <2>2. CASE FailTest(h)
    BY <2>2 DEF FailTest, Return, RemoveImage,
                fileVars, imageVars, runVars, serverVars, counterVars, faultVars
  <2>3. CASE ExecFails(h)
    BY <2>3 DEF ExecFails, Return, RemoveImage,
                fileVars, imageVars, runVars, serverVars, counterVars, faultVars
  <2> QED
    BY <1>10, <2>1, <2>2, <2>3
<1>11. ASSUME NEW h \in Handlers, Exec(h)
       PROVE  FlagsOK'
  BY <1>11 DEF Exec, ProcessGone, fileVars, imageVars, serverVars, faultVars
<1>12. CASE Restart
  BY <1>12 DEF Restart, ProcessGone, fileVars, serverVars
<1>13. CASE UNCHANGED vars
  BY <1>13 DEF vars, fileVars, imageVars, runVars, serverVars, counterVars, faultVars
<1> QED
  BY <1>1, <1>2, <1>3, <1>4, <1>5, <1>6, <1>7, <1>8, <1>9, <1>10, <1>11, <1>12, <1>13
     DEF Next, Startup, Session, Handler

\* Every step keeps the other types, and a session waits for a running handler.
LEMMA RestPreserved == RestOK /\ [Next]_vars => RestOK'
<1> SUFFICES ASSUME RestOK, [Next]_vars
             PROVE  RestOK'
    OBVIOUS
<1> USE SysupgradeAssumption DEF RestOK, Handlers, Places, HandlerPlaces
<1>1. CASE Boot \/ FindToken \/ Register \/ SaveCredentials \/ RemoveToken \/ ForceCleanStart
  BY <1>1 DEF Boot, FindToken, Register, SaveCredentials, RemoveToken, ForceCleanStart,
              fileVars, imageVars, serverVars, counterVars, faultVars
<1>2. CASE AttemptFails
  BY <1>2 DEF AttemptFails, fileVars, imageVars, serverVars, faultVars
<1>3. CASE DeliverToken \/ SendUpgrade
  BY <1>3 DEF DeliverToken, SendUpgrade, fileVars, imageVars, runVars, serverVars,
              counterVars, faultVars
<1>4. CASE BeginConnect
  BY <1>4 DEF BeginConnect, fileVars, imageVars, serverVars, counterVars, faultVars
<1>5. CASE ConnectSucceeds
  BY <1>5 DEF ConnectSucceeds, fileVars, imageVars, serverVars, counterVars, faultVars
<1>6. CASE ConnectFails
  BY <1>6 DEF ConnectFails, fileVars, imageVars, serverVars, counterVars, faultVars
<1>7. CASE RemoveSentinel \/ SessionLost
  <2>1. CASE RemoveSentinel
    BY <2>1 DEF RemoveSentinel, fileVars, imageVars, serverVars,
                counterVars, faultVars
  <2>2. CASE SessionLost
    BY <2>2 DEF SessionLost, fileVars, imageVars, serverVars,
                counterVars, faultVars
  <2> QED
    BY <1>7, <2>1, <2>2
<1>8. ASSUME NEW h \in Handlers, Deliver(h)
      PROVE  RestOK'
  BY <1>8 DEF Deliver, fileVars, imageVars, runVars, serverVars, counterVars, faultVars
<1>9. ASSUME NEW h \in Handlers,
             \/ BeginDownload(h) \/ FinishDownload(h) \/ PassTest(h)
             \/ WriteSentinel(h) \/ WriteSentinelFails(h) \/ AckStarted(h)
      PROVE  RestOK'
  <2>1. CASE BeginDownload(h)
    BY <2>1 DEF BeginDownload, fileVars, imageVars, runVars,
                serverVars, counterVars, faultVars
  <2>2. CASE FinishDownload(h)
    BY <2>2 DEF FinishDownload, fileVars, imageVars, runVars,
                serverVars, counterVars, faultVars
  <2>3. CASE PassTest(h)
    BY <2>3 DEF PassTest, fileVars, imageVars, runVars,
                serverVars, counterVars, faultVars
  <2>4. CASE WriteSentinel(h)
    BY <2>4 DEF WriteSentinel, fileVars, imageVars, runVars,
                serverVars, counterVars, faultVars
  <2>5. CASE AckStarted(h)
    BY <2>5 DEF AckStarted, fileVars, imageVars, runVars,
                serverVars, counterVars, faultVars
  <2>6. CASE WriteSentinelFails(h)
    BY <2>6 DEF WriteSentinelFails, fileVars, imageVars, runVars,
                serverVars, counterVars, faultVars
  <2> QED
    BY <1>9, <2>1, <2>2, <2>3, <2>4, <2>5, <2>6
<1>10. ASSUME NEW h \in Handlers,
              Refuse(h) \/ FailDownload(h) \/ FailTest(h) \/ ExecFails(h)
       PROVE  RestOK'
  <2>1. CASE Refuse(h)
    BY <2>1 DEF Refuse, Return, RemoveImage, fileVars, imageVars, runVars,
                serverVars, counterVars, faultVars
  <2>2. CASE FailDownload(h)
    BY <2>2 DEF FailDownload, Return, RemoveImage, fileVars, imageVars, runVars,
                serverVars, counterVars, faultVars
  <2>3. CASE FailTest(h)
    BY <2>3 DEF FailTest, Return, RemoveImage, fileVars, imageVars, runVars,
                serverVars, counterVars, faultVars
  <2>4. CASE ExecFails(h)
    BY <2>4 DEF ExecFails, Return, RemoveImage, fileVars, imageVars, runVars,
                serverVars, counterVars, faultVars
  <2> QED
    BY <1>10, <2>1, <2>2, <2>3, <2>4
<1>11. ASSUME NEW h \in Handlers, Exec(h)
       PROVE  RestOK'
  BY <1>11 DEF Exec, ProcessGone, fileVars, imageVars, serverVars, faultVars
<1>12. CASE Restart
  BY <1>12 DEF Restart, ProcessGone, fileVars, serverVars
<1>13. CASE UNCHANGED vars
  BY <1>13 DEF vars, fileVars, imageVars, runVars, serverVars, counterVars, faultVars
<1> QED
  BY <1>1, <1>2, <1>3, <1>4, <1>5, <1>6, <1>7, <1>8, <1>9, <1>10, <1>11, <1>12, <1>13
     DEF Next, Startup, Session, Handler

\* Every variable has its type, and the session waits for a running handler.
THEOREM UpgradeTypes == Spec => []TypeOK
BY InitType, TypeParts, FlagsPreserved, RestPreserved, PTL DEF Spec

-----------------------------------------------------------------------------
(* The clean start. *)

\* No process runs yet.
LEMMA InitFlash == Init => FlashInv
BY DEF Init, FlashInv, ServedResumes, SentFirst, BootstrapsWithout,
            MarkedHasSentinel, FlashSettled, Active

\* Every step keeps ServedResumes: the flag is taken before a connect and set
\* again only if the connect that took it fails.
LEMMA ServedPreserved == FlagsOK /\ RestOK /\ ServedResumes /\ [Next]_vars => ServedResumes'
<1> SUFFICES ASSUME FlagsOK, RestOK, ServedResumes, [Next]_vars
             PROVE  ServedResumes'
    OBVIOUS
<1> USE DEF ServedResumes, Active, Connected, RestOK, HandlerPlaces
<1>1. CASE Boot \/ FindToken \/ Register \/ SaveCredentials \/ RemoveToken \/ ForceCleanStart
  <2>1. CASE Boot \/ ForceCleanStart
    <3>1. pc \in {"boot", "enrolled"} /\ pc' \in {"bootstrap", "idle"}
      BY <2>1 DEF Boot, ForceCleanStart
    <3>2. ~ served' /\ hpc' = hpc
      BY <2>1, <3>1 DEF Boot, ForceCleanStart
    <3> QED
      BY <3>1, <3>2
  <2>2. CASE FindToken \/ Register
    BY <1>1, <2>2 DEF FindToken, Register, fileVars, imageVars, serverVars,
                      counterVars, faultVars
  <2>3. CASE SaveCredentials \/ RemoveToken
    BY <1>1, <2>3 DEF SaveCredentials, RemoveToken, fileVars, imageVars, serverVars,
                      counterVars, faultVars
  <2> QED
    BY <1>1, <2>1, <2>2, <2>3
<1>2. CASE AttemptFails
  BY <1>2 DEF AttemptFails, fileVars, imageVars, serverVars, faultVars
<1>3. CASE DeliverToken \/ SendUpgrade
  BY <1>3 DEF DeliverToken, SendUpgrade, fileVars, imageVars, runVars, serverVars,
              counterVars, faultVars
<1>4. CASE BeginConnect
  BY <1>4 DEF BeginConnect, fileVars, imageVars, serverVars, counterVars, faultVars
<1>5. CASE ConnectSucceeds
  BY <1>5 DEF ConnectSucceeds, fileVars, imageVars, serverVars, counterVars, faultVars
<1>6. CASE ConnectFails
  BY <1>6 DEF ConnectFails, fileVars, imageVars, serverVars, counterVars, faultVars
<1>7. CASE RemoveSentinel \/ SessionLost
  <2>1. CASE RemoveSentinel
    BY <2>1 DEF RemoveSentinel, fileVars, imageVars, serverVars,
                counterVars, faultVars
  <2>2. CASE SessionLost
    BY <2>2 DEF SessionLost, fileVars, imageVars, serverVars,
                counterVars, faultVars
  <2> QED
    BY <1>7, <2>1, <2>2
<1>8. ASSUME NEW h \in Handlers, Deliver(h)
      PROVE  ServedResumes'
  BY <1>8 DEF Deliver, fileVars, imageVars, runVars, serverVars, counterVars, faultVars
<1>9. ASSUME NEW h \in Handlers,
             \/ BeginDownload(h) \/ FinishDownload(h) \/ PassTest(h)
             \/ WriteSentinel(h) \/ WriteSentinelFails(h) \/ AckStarted(h)
      PROVE  ServedResumes'
  <2>1. CASE BeginDownload(h) \/ FinishDownload(h) \/ PassTest(h)
    BY <2>1 DEF BeginDownload, FinishDownload, PassTest, fileVars, imageVars, runVars,
                serverVars, counterVars, faultVars
  <2>2. CASE WriteSentinel(h) \/ AckStarted(h)
    BY <2>2 DEF WriteSentinel, AckStarted, fileVars, imageVars, runVars,
                serverVars, counterVars, faultVars
  <2>3. CASE WriteSentinelFails(h)
    BY <2>3 DEF WriteSentinelFails, fileVars, imageVars, runVars,
                serverVars, counterVars, faultVars
  <2> QED
    BY <1>9, <2>1, <2>2, <2>3
<1>10. ASSUME NEW h \in Handlers,
              Refuse(h) \/ FailDownload(h) \/ FailTest(h) \/ ExecFails(h)
       PROVE  ServedResumes'
  <2>1. CASE Refuse(h) \/ FailDownload(h) \/ FailTest(h)
    BY <2>1 DEF Refuse, FailDownload, FailTest, Return, RemoveImage, fileVars,
                imageVars, runVars,
                serverVars, counterVars, faultVars
  <2>2. CASE ExecFails(h)
    BY <2>2 DEF ExecFails, Return, RemoveImage, fileVars, imageVars, runVars,
                serverVars, counterVars, faultVars
  <2> QED
    BY <1>10, <2>1, <2>2
<1>11. ASSUME NEW h \in Handlers, Exec(h)
       PROVE  ServedResumes'
  BY <1>11 DEF Exec, ProcessGone, fileVars, imageVars, serverVars, faultVars
<1>12. CASE Restart
  BY <1>12 DEF Restart, ProcessGone, fileVars, serverVars
<1>13. CASE UNCHANGED vars
  BY <1>13 DEF vars, fileVars, imageVars, runVars, serverVars, counterVars, faultVars
<1> QED
  BY <1>1, <1>2, <1>3, <1>4, <1>5, <1>6, <1>7, <1>8, <1>9, <1>10, <1>11, <1>12, <1>13
     DEF Next, Startup, Session, Handler

\* What is queued was sent, and credentials are there for keep_config to keep.
LEMMA SentPreserved ==
  FlagsOK /\ RestOK /\ ServedResumes /\ SentFirst /\ [Next]_vars => SentFirst'
<1> SUFFICES ASSUME FlagsOK, RestOK, ServedResumes, SentFirst, [Next]_vars
             PROVE  SentFirst'
    OBVIOUS
<1> USE DEF SentFirst, ServedResumes, Active, RestOK, HandlerPlaces
<1>1. CASE Boot \/ FindToken \/ Register \/ SaveCredentials \/ RemoveToken \/ ForceCleanStart
  BY <1>1 DEF Boot, FindToken, Register, SaveCredentials, RemoveToken, ForceCleanStart,
              fileVars, imageVars, serverVars, counterVars, faultVars
<1>2. CASE AttemptFails
  BY <1>2 DEF AttemptFails, fileVars, imageVars, serverVars, faultVars
<1>3. CASE DeliverToken \/ SendUpgrade
  BY <1>3 DEF DeliverToken, SendUpgrade, fileVars, imageVars, runVars, serverVars,
              counterVars, faultVars
<1>4. CASE BeginConnect
  BY <1>4 DEF BeginConnect, fileVars, imageVars, serverVars, counterVars, faultVars
<1>5. CASE ConnectSucceeds
  BY <1>5 DEF ConnectSucceeds, fileVars, imageVars, serverVars, counterVars, faultVars
<1>6. CASE ConnectFails
  BY <1>6 DEF ConnectFails, fileVars, imageVars, serverVars, counterVars, faultVars
<1>7. CASE RemoveSentinel \/ SessionLost
  <2>1. CASE RemoveSentinel
    BY <2>1 DEF RemoveSentinel, fileVars, imageVars, serverVars,
                counterVars, faultVars
  <2>2. CASE SessionLost
    BY <2>2 DEF SessionLost, fileVars, imageVars, serverVars,
                counterVars, faultVars
  <2> QED
    BY <1>7, <2>1, <2>2
<1>8. ASSUME NEW h \in Handlers, Deliver(h)
      PROVE  SentFirst'
  BY <1>8 DEF Deliver, fileVars, imageVars, runVars, serverVars, counterVars, faultVars
<1>9. ASSUME NEW h \in Handlers,
             \/ BeginDownload(h) \/ FinishDownload(h) \/ PassTest(h)
             \/ WriteSentinel(h) \/ WriteSentinelFails(h) \/ AckStarted(h)
      PROVE  SentFirst'
  <2>1. CASE BeginDownload(h) \/ FinishDownload(h) \/ PassTest(h)
    BY <2>1 DEF BeginDownload, FinishDownload, PassTest, fileVars, imageVars, runVars,
                serverVars, counterVars, faultVars
  <2>2. CASE WriteSentinel(h) \/ AckStarted(h)
    BY <2>2 DEF WriteSentinel, AckStarted, fileVars, imageVars, runVars,
                serverVars, counterVars, faultVars
  <2>3. CASE WriteSentinelFails(h)
    BY <2>3 DEF WriteSentinelFails, fileVars, imageVars, runVars,
                serverVars, counterVars, faultVars
  <2> QED
    BY <1>9, <2>1, <2>2, <2>3
<1>10. ASSUME NEW h \in Handlers,
              Refuse(h) \/ FailDownload(h) \/ FailTest(h) \/ ExecFails(h)
       PROVE  SentFirst'
  <2>1. CASE Refuse(h) \/ FailDownload(h) \/ FailTest(h)
    BY <2>1 DEF Refuse, FailDownload, FailTest, Return, RemoveImage, fileVars,
                imageVars, runVars,
                serverVars, counterVars, faultVars
  <2>2. CASE ExecFails(h)
    BY <2>2 DEF ExecFails, Return, RemoveImage, fileVars, imageVars, runVars,
                serverVars, counterVars, faultVars
  <2> QED
    BY <1>10, <2>1, <2>2
<1>11. ASSUME NEW h \in Handlers, Exec(h)
       PROVE  SentFirst'
  BY <1>11 DEF Exec, ProcessGone, fileVars, imageVars, serverVars, faultVars
<1>12. CASE Restart
  BY <1>12 DEF Restart, ProcessGone, fileVars, serverVars
<1>13. CASE UNCHANGED vars
  BY <1>13 DEF vars, fileVars, imageVars, runVars, serverVars, counterVars, faultVars
<1> QED
  BY <1>1, <1>2, <1>3, <1>4, <1>5, <1>6, <1>7, <1>8, <1>9, <1>10, <1>11, <1>12, <1>13
     DEF Next, Startup, Session, Handler

\* Only SaveCredentials gives a bootstrapping process credentials.
LEMMA BootstrapsPreserved ==
  FlagsOK /\ RestOK /\ ServedResumes /\ BootstrapsWithout /\ [Next]_vars
    => BootstrapsWithout'
<1> SUFFICES ASSUME FlagsOK, RestOK, ServedResumes, BootstrapsWithout, [Next]_vars
             PROVE  BootstrapsWithout'
    OBVIOUS
<1> USE DEF BootstrapsWithout
<1>1. CASE Startup
  BY <1>1 DEF Startup, Boot, FindToken, Register, AttemptFails, SaveCredentials,
              RemoveToken, ForceCleanStart, fileVars
<1>2. CASE Session
  BY <1>2 DEF Session, BeginConnect, ConnectSucceeds, ConnectFails, RemoveSentinel,
              SessionLost
<1>3. CASE DeliverToken \/ SendUpgrade
  BY <1>3 DEF DeliverToken, SendUpgrade, fileVars, runVars
<1>4. ASSUME NEW h \in Handlers, Handler(h), ~ Exec(h)
      PROVE  BootstrapsWithout'
  <2>1. UNCHANGED <<pc, creds>>
    BY <1>4 DEF Handler, Deliver, Refuse, BeginDownload, FinishDownload, FailDownload,
                PassTest, FailTest, WriteSentinel, WriteSentinelFails, AckStarted,
                ExecFails, fileVars, runVars
  <2> QED
    BY <2>1
<1>5. ASSUME NEW h \in Handlers, Exec(h)
      PROVE  BootstrapsWithout'
  BY <1>5 DEF Exec, ProcessGone
<1>6. CASE Restart
  BY <1>6 DEF Restart, ProcessGone
<1>7. CASE UNCHANGED vars
  BY <1>7 DEF vars, fileVars, runVars
<1> QED
  BY <1>1, <1>2, <1>3, <1>4, <1>5, <1>6, <1>7 DEF Next

\* Whoever is about to flash has written the sentinel; if no one removes it, it is
\* still there.
LEMMA SentinelPreserved ==
  FlagsOK /\ RestOK /\ ServedResumes /\ SentFirst /\ MarkedHasSentinel /\ [Next]_vars
    => MarkedHasSentinel'
<1> SUFFICES ASSUME FlagsOK, RestOK, ServedResumes, SentFirst, MarkedHasSentinel, [Next]_vars
             PROVE  MarkedHasSentinel'
    OBVIOUS
<1> USE DEF MarkedHasSentinel, Lost, SentFirst, ServedResumes, Active, RestOK, HandlerPlaces
<1>1. CASE Boot \/ FindToken \/ Register \/ SaveCredentials \/ RemoveToken \/ ForceCleanStart
  <2>1. UNCHANGED <<hpc, keep, sentinel, faults>>
    BY <1>1 DEF Boot, FindToken, Register, SaveCredentials, RemoveToken,
                ForceCleanStart, fileVars, serverVars, faultVars
  <2> QED
    BY <2>1
<1>2. CASE AttemptFails
  BY <1>2 DEF AttemptFails, fileVars, imageVars, serverVars, faultVars
<1>3. CASE DeliverToken \/ SendUpgrade
  BY <1>3 DEF DeliverToken, SendUpgrade, fileVars, imageVars, runVars, serverVars,
              counterVars, faultVars
<1>4. CASE BeginConnect
  BY <1>4 DEF BeginConnect, fileVars, imageVars, serverVars, counterVars, faultVars
<1>5. CASE ConnectSucceeds
  BY <1>5 DEF ConnectSucceeds, fileVars, imageVars, serverVars, counterVars, faultVars
<1>6. CASE ConnectFails
  BY <1>6 DEF ConnectFails, fileVars, imageVars, serverVars, counterVars, faultVars
<1>7. CASE RemoveSentinel \/ SessionLost
  <2>1. UNCHANGED <<hpc, keep, faults>>
    BY <1>7 DEF RemoveSentinel, SessionLost, serverVars, faultVars
  <2>2. CASE RemoveSentinel
    BY <2>1, <2>2 DEF RemoveSentinel
  <2>3. CASE SessionLost
    BY <2>1, <2>3 DEF SessionLost, fileVars
  <2> QED
    BY <1>7, <2>2, <2>3
<1>8. ASSUME NEW h \in Handlers, Deliver(h)
      PROVE  MarkedHasSentinel'
  BY <1>8 DEF Deliver, fileVars, imageVars, runVars, serverVars, counterVars, faultVars
<1>9. ASSUME NEW h \in Handlers,
             BeginDownload(h) \/ FinishDownload(h) \/ PassTest(h) \/ AckStarted(h)
      PROVE  MarkedHasSentinel'
  <2>1. UNCHANGED <<keep, sentinel, faults>>
    BY <1>9 DEF BeginDownload, FinishDownload, PassTest, AckStarted, fileVars,
                serverVars, faultVars
  <2>2. \A g \in Handlers :
          hpc'[g] \in {"marked", "acked"} => hpc[g] \in {"marked", "acked"}
    BY <1>9 DEF BeginDownload, FinishDownload, PassTest, AckStarted
  <2> QED
    BY <2>1, <2>2
<1>10. ASSUME NEW h \in Handlers, WriteSentinel(h) \/ WriteSentinelFails(h)
       PROVE  MarkedHasSentinel'
  <2>1. CASE WriteSentinel(h)
    <3>1. keep' => sentinel'
      BY <2>1 DEF WriteSentinel, serverVars
    <3> QED
      BY <3>1
  <2>2. CASE WriteSentinelFails(h)
    <3>1. sentinel' \/ "unwritten" \in faults'
      BY <2>2 DEF WriteSentinelFails
    <3> QED
      BY <3>1
  <2> QED
    BY <1>10, <2>1, <2>2
<1>11. ASSUME NEW h \in Handlers, Refuse(h) \/ FailDownload(h) \/ FailTest(h)
       PROVE  MarkedHasSentinel'
  <2>1. UNCHANGED <<keep, sentinel, faults>>
    BY <1>11 DEF Refuse, FailDownload, FailTest, fileVars, serverVars, faultVars
  <2>2. \A g \in Handlers :
          hpc'[g] \in {"marked", "acked"} => hpc[g] \in {"marked", "acked"}
    BY <1>11 DEF Refuse, FailDownload, FailTest, Return
  <2> QED
    BY <2>1, <2>2
<1>12. ASSUME NEW h \in Handlers, ExecFails(h)
       PROVE  MarkedHasSentinel'
  <2>1. keep' = keep /\ sentinel' \in BOOLEAN /\ faults \subseteq faults'
    BY <1>12 DEF ExecFails, serverVars, FlagsOK
  <2>2. \A g \in Handlers :
          hpc'[g] \in {"marked", "acked"} => g # h /\ hpc[g] \in {"marked", "acked"}
    BY <1>12 DEF ExecFails, Return
  <2>3. ASSUME NEW g \in Handlers, hpc[g] \in {"marked", "acked"}, g # h, keep
        PROVE  sentinel' \/ "taken" \in faults'
    <3>1. Flashing # {h}
      BY <2>3 DEF Flashing
    <3> QED
      BY <1>12, <2>3, <3>1 DEF ExecFails
  <2> QED
    BY <2>1, <2>2, <2>3
<1>13. ASSUME NEW h \in Handlers, Exec(h)
       PROVE  MarkedHasSentinel'
  BY <1>13 DEF Exec, ProcessGone, fileVars, imageVars, serverVars, faultVars
<1>14. CASE Restart
  BY <1>14 DEF Restart, ProcessGone, fileVars, serverVars
<1>15. CASE UNCHANGED vars
  BY <1>15 DEF vars, fileVars, imageVars, runVars, serverVars, counterVars, faultVars
<1> QED
  BY <1>1, <1>2, <1>3, <1>4, <1>5, <1>6, <1>7, <1>8, <1>9, <1>10, <1>11, <1>12, <1>13,
     <1>14, <1>15
     DEF Next, Startup, Session, Handler

\* The flash happens when nothing was flashed, and leaves the clean start owed.
LEMMA SettledPreserved ==
  FlagsOK /\ RestOK /\ FlashInv /\ [Next]_vars => FlashSettled'
<1> SUFFICES ASSUME FlagsOK, RestOK, FlashInv, [Next]_vars
             PROVE  FlashSettled'
    OBVIOUS
<1> USE DEF FlashInv, FlashSettled, Covered, Lost, Owed, Connected, MarkedHasSentinel,
            SentFirst, BootstrapsWithout, ServedResumes, Active, RestOK, Places,
            HandlerPlaces
<1>1. CASE Boot \/ FindToken \/ Register \/ SaveCredentials \/ RemoveToken \/ ForceCleanStart
  BY <1>1 DEF Boot, FindToken, Register, SaveCredentials, RemoveToken, ForceCleanStart,
              fileVars, imageVars, serverVars, counterVars, faultVars
<1>2. CASE AttemptFails
  BY <1>2 DEF AttemptFails, fileVars, imageVars, serverVars, faultVars
<1>3. CASE DeliverToken \/ SendUpgrade
  BY <1>3 DEF DeliverToken, SendUpgrade, fileVars, imageVars, runVars, serverVars,
              counterVars, faultVars
<1>4. CASE BeginConnect
  BY <1>4 DEF BeginConnect, fileVars, imageVars, serverVars, counterVars, faultVars
<1>5. CASE ConnectSucceeds
  BY <1>5 DEF ConnectSucceeds, fileVars, imageVars, serverVars, counterVars, faultVars
<1>6. CASE ConnectFails
  BY <1>6 DEF ConnectFails, fileVars, imageVars, serverVars, counterVars, faultVars
<1>7. CASE RemoveSentinel \/ SessionLost
  <2>1. CASE RemoveSentinel
    BY <2>1 DEF RemoveSentinel, fileVars, imageVars, serverVars,
                counterVars, faultVars
  <2>2. CASE SessionLost
    BY <2>2 DEF SessionLost, fileVars, imageVars, serverVars,
                counterVars, faultVars
  <2> QED
    BY <1>7, <2>1, <2>2
<1>8. ASSUME NEW h \in Handlers, Deliver(h)
      PROVE  FlashSettled'
  BY <1>8 DEF Deliver, fileVars, imageVars, runVars, serverVars, counterVars, faultVars
<1>9. ASSUME NEW h \in Handlers,
             \/ BeginDownload(h) \/ FinishDownload(h) \/ PassTest(h)
             \/ WriteSentinel(h) \/ WriteSentinelFails(h) \/ AckStarted(h)
      PROVE  FlashSettled'
  <2>1. CASE BeginDownload(h) \/ FinishDownload(h) \/ PassTest(h)
    BY <2>1 DEF BeginDownload, FinishDownload, PassTest, fileVars, imageVars, runVars,
                serverVars, counterVars, faultVars
  <2>2. CASE WriteSentinel(h) \/ AckStarted(h)
    BY <2>2 DEF WriteSentinel, AckStarted, fileVars, imageVars, runVars,
                serverVars, counterVars, faultVars
  <2>3. CASE WriteSentinelFails(h)
    BY <2>3 DEF WriteSentinelFails, fileVars, imageVars, runVars,
                serverVars, counterVars, faultVars
  <2> QED
    BY <1>9, <2>1, <2>2, <2>3
<1>10. ASSUME NEW h \in Handlers,
              Refuse(h) \/ FailDownload(h) \/ FailTest(h) \/ ExecFails(h)
       PROVE  FlashSettled'
  <2>1. CASE Refuse(h) \/ FailDownload(h) \/ FailTest(h)
    BY <2>1 DEF Refuse, FailDownload, FailTest, Return, RemoveImage, fileVars,
                imageVars, runVars,
                serverVars, counterVars, faultVars
  <2>2. CASE ExecFails(h)
    BY <2>2 DEF ExecFails, Return, RemoveImage, fileVars, imageVars, runVars,
                serverVars, counterVars, faultVars
  <2> QED
    BY <1>10, <2>1, <2>2
<1>11. ASSUME NEW h \in Handlers, Exec(h)
       PROVE  FlashSettled'
  <2>1. Active(h) /\ keep' = keep /\ faults' = faults
    BY <1>11 DEF Exec, serverVars, faultVars
  <2>2. Covered => flashes = 0
    BY <2>1
  <2>3. \A g \in Handlers : ~ Active(g)'
    BY <1>11 DEF Exec, ProcessGone
  <2>4. pc' = "boot" /\ (keep => sentinel \/ Lost)
    BY <1>11 DEF Exec, ProcessGone
  <2>5. CASE image = "whole"
    <3>1. flashes' = flashes + 1
      BY <1>11, <2>5 DEF Exec
    <3>2. keep => sentinel' \/ Lost
      BY <1>11, <2>4, <2>5 DEF Exec
    <3>3. ~ keep => ~ creds'
      BY <1>11, <2>5 DEF Exec
    <3> QED
      BY <2>1, <2>2, <2>3, <2>4, <3>1, <3>2, <3>3
  <2>6. CASE image # "whole"
    <3>1. flashes' = flashes
      BY <1>11, <2>6 DEF Exec
    <3> QED
      BY <2>1, <2>2, <3>1
  <2> QED
    BY <2>5, <2>6
<1>12. CASE Restart
  <2>1. /\ UNCHANGED <<creds, sentinel, queued, keep, flashes>>
        /\ pc' = "boot" /\ \A g \in Handlers : ~ Active(g)'
    BY <1>12 DEF Restart, ProcessGone, fileVars, serverVars
  <2>2. CASE OnlyInMemory
    <3>1. faults' = faults \cup {"forgotten"}
      BY <1>12, <2>2 DEF Restart
    <3>2. ~ sentinel /\ queued /\ flashes > 0
      BY <2>2 DEF OnlyInMemory
    <3> QED
      BY <2>1, <3>1, <3>2
  <2>3. CASE ~ OnlyInMemory
    <3>1. faults' = faults
      BY <1>12, <2>3 DEF Restart
    <3>2. Covered /\ flashes > 0 /\ queued => sentinel \/ ~ creds
      BY <2>3 DEF OnlyInMemory
    <3> QED
      BY <2>1, <3>1, <3>2
  <2> QED
    BY <2>2, <2>3
<1>13. CASE UNCHANGED vars
  BY <1>13 DEF vars, fileVars, imageVars, runVars, serverVars, counterVars, faultVars
<1> QED
  BY <1>1, <1>2, <1>3, <1>4, <1>5, <1>6, <1>7, <1>8, <1>9, <1>10, <1>11, <1>12, <1>13
     DEF Next, Startup, Session, Handler

\* FlashInv is inductive.
LEMMA FlashPreserved == FlagsOK /\ RestOK /\ FlashInv /\ [Next]_vars => FlashInv'
BY ServedPreserved, SentPreserved, BootstrapsPreserved, SentinelPreserved,
   SettledPreserved DEF FlashInv

\* FlashInv says what is to be shown.
LEMMA FlashImplies ==
  FlagsOK /\ RestOK /\ FlashInv => ReconnectsResume /\ FlashedAgainOnlyIfLost
BY DEF FlashInv, ServedResumes, FlashSettled, Covered, Lost, ReconnectsResume,
       FlashedAgainOnlyIfLost, RestOK

\* Once this process has been connected, its reconnects resume the session.
THEOREM AlwaysResumes == Spec => []ReconnectsResume
BY InitType, FlagsPreserved, RestPreserved, InitFlash, FlashPreserved, FlashImplies,
   PTL DEF Spec

\* A command flashes the device once, unless its sentinel was not written or was
\* taken back, or a restart forgot the clean start owed after a factory reset.
THEOREM FlashedOnceOnly == Spec => []FlashedAgainOnlyIfLost
BY InitType, FlagsPreserved, RestPreserved, InitFlash, FlashPreserved, FlashImplies,
   PTL DEF Spec

=============================================================================
