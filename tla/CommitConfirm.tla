---------------------------- MODULE CommitConfirm ----------------------------
(***************************************************************************)
(* What handleConfigApply and its connectivity watchdog promise the        *)
(* server about one accepted config_apply: it is rejected, or it becomes   *)
(* tentative and is then confirmed or rolled back, and the ack the server  *)
(* may get for it says which, never the opposite.  An ack may be lost or   *)
(* repeated.  A restart of the agent abandons what is undecided.           *)
(***************************************************************************)
CONSTANT Jobs   \* accepted commands, in the order they are accepted

VARIABLES
  phase,        \* what became of each job
  reports       \* the acks the server has received: <<job, status>>

vars == <<phase, reports>>

Undecided == {"applying", "tentative", "rolling_back"}
Decided == {"failed", "ok", "rolled_back"}
Phases == {"none", "abandoned"} \cup Undecided \cup Decided

\* The status of the ack that reports a decided phase.
StatusOf(p) == IF p = "ok" THEN "ok" ELSE "error"

Init ==
  /\ phase = [j \in Jobs |-> "none"]
  /\ reports = {}

Move(j, from, to) ==
  /\ phase[j] = from
  /\ phase' = [phase EXCEPT ![j] = to]
  /\ UNCHANGED reports

Accept(j) == Move(j, "none", "applying")
Reject(j) == Move(j, "applying", "failed")
Commit(j) == Move(j, "applying", "tentative")
Confirm(j) == Move(j, "tentative", "ok")
BeginRollback(j) == Move(j, "tentative", "rolling_back")
EndRollback(j) == Move(j, "rolling_back", "rolled_back")

\* The server receives the ack of a decided job.
Report(j) ==
  /\ phase[j] \in Decided
  /\ reports' = reports \cup {<<j, StatusOf(phase[j])>>}
  /\ UNCHANGED phase

\* The agent restarts.
Abandon ==
  /\ phase' = [j \in Jobs |->
                 IF phase[j] \in Undecided THEN "abandoned" ELSE phase[j]]
  /\ UNCHANGED reports

Next ==
  \/ \E j \in Jobs :
       \/ Accept(j) \/ Reject(j) \/ Commit(j) \/ Confirm(j)
       \/ BeginRollback(j) \/ EndRollback(j) \/ Report(j)
  \/ Abandon

Spec == Init /\ [][Next]_vars

=============================================================================
