----------------------------- MODULE UbusListen -----------------------------
(***************************************************************************)
(* One standing ubus_listen: the goroutine of runUbusListen, which starts  *)
(* `ubus subscribe`, and the pipeline that carries its lines to MQTT:      *)
(*                                                                         *)
(*   ubus -> pipe -> pump -> lines -> reader -> publishQueue -> publisher   *)
(*                                                                         *)
(* The pump and the reader drop what does not fit into the next buffer,    *)
(* so that a publish that hangs never makes ubus block on its pipe.  How   *)
(* the goroutine is registered and told to stop is module Standing; here   *)
(* "told" says that its stop channel or its session's channel is closed.   *)
(***************************************************************************)
EXTENDS Integers, Sequences

CONSTANTS
  LineKinds,   \* kinds of lines ubus may emit: "match", "other", "long"
  PipeCap,     \* lines that fit into the pipe
  LinesCap,    \* capacity of the lines channel (16)
  QueueCap     \* ubusEventPublishQueueSize (8)

ASSUME UbusListenAssumption ==
  /\ LineKinds \subseteq {"match", "other", "long"}
  /\ {PipeCap, LinesCap, QueueCap} \subseteq Nat \ {0}

VARIABLES
  told,       \* stop or disconnCh is closed
  pc,         \* where runUbusListen is
  leaving,    \* it tears down for good
  proc,       \* the subprocess: "none", "running" or "exited"
  pipe,       \* its unread output
  pump,       \* "none", "scanning", "waiting" (in cmd.Wait) or "done"
  lines,      \* the lines channel, closed when the pump is done
  reader,     \* "none", "running" or "done" (lineDone and publishQueue closed)
  queue,      \* publishQueue: how many events it holds
  publisher   \* "none", "idle", "busy" or "done" (publishDone closed)

mainVars == <<pc, leaving>>
ubusVars == <<proc, pipe>>
pumpVars == <<pump, lines>>
readerVars == <<reader, queue>>
listenVars == <<told, mainVars, ubusVars, pumpVars, readerVars, publisher>>

ListenInit ==
  /\ told = FALSE
  /\ pc = "check" /\ leaving = FALSE
  /\ proc = "none" /\ pipe = <<>>
  /\ pump = "none" /\ lines = <<>>
  /\ reader = "none" /\ queue = 0
  /\ publisher = "none"

-----------------------------------------------------------------------------
(* The goroutine of runUbusListen *)

\* An unlisten command or the end of the session.
Tell ==
  /\ ~ told
  /\ told' = TRUE
  /\ UNCHANGED <<mainVars, ubusVars, pumpVars, readerVars, publisher>>

\* The select with a default, and sleepOrStop when it is told.
Quit ==
  /\ pc \in {"check", "sleeping"}
  /\ told
  /\ pc' = "left"
  /\ UNCHANGED <<told, leaving, ubusVars, pumpVars, readerVars, publisher>>

\* No object matches the prefix, or ubus cannot be started: wait and retry.
StartFails ==
  /\ pc = "check"
  /\ ~ told
  /\ pc' = "sleeping"
  /\ UNCHANGED <<told, leaving, ubusVars, pumpVars, readerVars, publisher>>

\* The subprocess, its pump, the reader and the publisher are started.
Start ==
  /\ pc = "check"
  /\ ~ told
  /\ proc' = "running" /\ pipe' = <<>>
  /\ pump' = "scanning" /\ lines' = <<>>
  /\ reader' = "running" /\ queue' = 0
  /\ publisher' = "idle"
  /\ pc' = "streaming"
  /\ UNCHANGED <<told, leaving>>

\* Mutant of SeeStop: returns without stopping the subprocess.
SeeStopOnly ==
  /\ pc = "streaming"
  /\ told
  /\ leaving' = TRUE
  /\ pc' = "draining"
  /\ UNCHANGED <<told, ubusVars, pumpVars, readerVars, publisher>>

\* Told to stop: the subprocess is killed.
SeeStop ==
  /\ pc = "streaming"
  /\ told
  /\ proc' = "exited"
  /\ leaving' = TRUE
  /\ pc' = "draining"
  /\ UNCHANGED <<told, pipe, pumpVars, readerVars, publisher>>

\* Mutant of SeeExit: takes the exit for the end of the listen.
SeeExitLeaves ==
  /\ pc = "streaming"
  /\ reader = "done"
  /\ leaving' = TRUE
  /\ pc' = "draining"
  /\ UNCHANGED <<told, ubusVars, pumpVars, readerVars, publisher>>

\* lineDone: the subprocess exited by itself.
SeeExit ==
  /\ pc = "streaming"
  /\ reader = "done"
  /\ pc' = "draining"
  /\ UNCHANGED <<told, leaving, ubusVars, pumpVars, readerVars, publisher>>

\* Mutant of Drained: does not wait for the publisher.
DrainedEarly ==
  /\ pc = "draining"
  /\ reader = "done"
  /\ pc' = IF leaving THEN "left" ELSE "reaping"
  /\ UNCHANGED <<told, leaving, ubusVars, pumpVars, readerVars, publisher>>

\* lineDone and publishDone are both closed.
Drained ==
  /\ pc = "draining"
  /\ reader = "done"
  /\ publisher = "done"
  /\ pc' = IF leaving THEN "left" ELSE "reaping"
  /\ UNCHANGED <<told, leaving, ubusVars, pumpVars, readerVars, publisher>>

\* proc.Wait, then the backoff.
Reaped ==
  /\ pc = "reaping"
  /\ pump = "done"
  /\ pc' = "sleeping"
  /\ UNCHANGED <<told, leaving, ubusVars, pumpVars, readerVars, publisher>>

\* The backoff is over.
Wake ==
  /\ pc = "sleeping"
  /\ pc' = "check"
  /\ UNCHANGED <<told, leaving, ubusVars, pumpVars, readerVars, publisher>>

-----------------------------------------------------------------------------
(* ubus *)

\* ubus writes a line; it blocks while the pipe is full.
Emit(l) ==
  /\ proc = "running"
  /\ Len(pipe) < PipeCap
  /\ pipe' = Append(pipe, l)
  /\ UNCHANGED <<told, mainVars, proc, pumpVars, readerVars, publisher>>

\* ubus dies: ubusd restarts, no memory, ...
Die ==
  /\ proc = "running"
  /\ proc' = "exited"
  /\ UNCHANGED <<told, mainVars, pipe, pumpVars, readerVars, publisher>>

-----------------------------------------------------------------------------
(* The pump *)

\* A line goes to the lines channel, or is dropped when that is full.
ScanLine ==
  /\ pump = "scanning"
  /\ pipe # <<>>
  /\ Head(pipe) # "long"
  /\ pipe' = Tail(pipe)
  /\ lines' = IF Len(lines) < LinesCap THEN Append(lines, Head(pipe)) ELSE lines
  /\ UNCHANGED <<told, mainVars, proc, pump, readerVars, publisher>>

\* Scan returns false: the output is at its end, or a line is longer than the
\* scanner's 64 KiB.  What is left in the pipe is not read any more.
ScanEnds ==
  /\ pump = "scanning"
  /\ \/ pipe = <<>> /\ proc = "exited"
     \/ pipe # <<>> /\ Head(pipe) = "long"
  /\ pump' = "waiting"
  /\ UNCHANGED <<told, mainVars, ubusVars, lines, readerVars, publisher>>

\* cmd.Wait returns once the subprocess has exited; the channels are closed.
Reap ==
  /\ pump = "waiting"
  /\ proc = "exited"
  /\ pump' = "done"
  /\ UNCHANGED <<told, mainVars, ubusVars, lines, readerVars, publisher>>

-----------------------------------------------------------------------------
(* The reader and the publisher *)

\* Mutant of ReadLine: sends to the queue and waits for room.
ReadLineBlocks ==
  /\ reader = "running"
  /\ lines # <<>>
  /\ Head(lines) = "match" => queue < QueueCap
  /\ lines' = Tail(lines)
  /\ queue' = IF Head(lines) = "match" THEN queue + 1 ELSE queue
  /\ UNCHANGED <<told, mainVars, ubusVars, pump, reader, publisher>>

\* Mutant of ReadLine: the queue has no bound.
ReadLineUnbounded ==
  /\ reader = "running"
  /\ lines # <<>>
  /\ lines' = Tail(lines)
  /\ queue' = IF Head(lines) = "match" THEN queue + 1 ELSE queue
  /\ UNCHANGED <<told, mainVars, ubusVars, pump, reader, publisher>>

\* A line of the wanted type goes to the queue, or is dropped when that is
\* full; the others are skipped.
ReadLine ==
  /\ reader = "running"
  /\ lines # <<>>
  /\ lines' = Tail(lines)
  /\ queue' = IF Head(lines) = "match" /\ queue < QueueCap THEN queue + 1 ELSE queue
  /\ UNCHANGED <<told, mainVars, ubusVars, pump, reader, publisher>>

\* The lines channel is closed and drained.
ReadEnds ==
  /\ reader = "running"
  /\ lines = <<>>
  /\ pump = "done"
  /\ reader' = "done"
  /\ UNCHANGED <<told, mainVars, ubusVars, pumpVars, queue, publisher>>

\* publishUbusEvent is called,
BeginPublish ==
  /\ publisher = "idle"
  /\ queue > 0
  /\ queue' = queue - 1
  /\ publisher' = "busy"
  /\ UNCHANGED <<told, mainVars, ubusVars, pumpVars, reader>>

\* ... and returns, after its ten seconds at the latest.
EndPublish ==
  /\ publisher = "busy"
  /\ publisher' = "idle"
  /\ UNCHANGED <<told, mainVars, ubusVars, pumpVars, readerVars>>

\* The queue is closed and drained.
PublishEnds ==
  /\ publisher = "idle"
  /\ queue = 0
  /\ reader = "done"
  /\ publisher' = "done"
  /\ UNCHANGED <<told, mainVars, ubusVars, pumpVars, readerVars>>

-----------------------------------------------------------------------------
Main == Quit \/ SeeStop \/ SeeExit \/ Drained \/ Reaped \/ Wake
Pump == ScanLine \/ ScanEnds \/ Reap
Reader == ReadLine \/ ReadEnds

ListenNext ==
  \/ Tell
  \/ StartFails \/ Start
  \/ Main
  \/ (\E l \in LineKinds : Emit(l)) \/ Die
  \/ Pump
  \/ Reader
  \/ BeginPublish \/ EndPublish \/ PublishEnds

ListenSpec == ListenInit /\ [][ListenNext]_listenVars

\* The goroutines run, but a publish may hang.
ListenFairSpec ==
  /\ ListenSpec
  /\ WF_listenVars(Main)
  /\ WF_listenVars(StartFails \/ Start)
  /\ WF_listenVars(Pump)
  /\ WF_listenVars(Reader)

\* A publish returns in the end (its context has a deadline).
PublishesReturn == WF_listenVars(BeginPublish \/ EndPublish \/ PublishEnds)

\* ubus can be started again in the end.
UbusStarts == SF_listenVars(Start)

-----------------------------------------------------------------------------
(* Properties *)

\* Every variable has its type, no buffer holds more than its capacity.
ListenTypeOK ==
  /\ {told, leaving} \subseteq BOOLEAN
  /\ pc \in {"check", "sleeping", "streaming", "draining", "reaping", "left"}
  /\ proc \in {"none", "running", "exited"}
  /\ pipe \in Seq(LineKinds) /\ Len(pipe) <= PipeCap
  /\ pump \in {"none", "scanning", "waiting", "done"}
  /\ lines \in Seq(LineKinds) /\ Len(lines) <= LinesCap
  /\ reader \in {"none", "running", "done"}
  /\ queue \in 0 .. QueueCap
  /\ publisher \in {"none", "idle", "busy", "done"}

\* Where runUbusListen has returned, or is about to start ubus again, nothing
\* of an earlier subprocess is left: no process, no pump, no reader, and no
\* publisher that could still publish its events.
NothingLeftBehind ==
  pc \in {"check", "sleeping", "left"} =>
    /\ proc # "running"
    /\ pump \in {"none", "done"}
    /\ reader \in {"none", "done"}
    /\ publisher \in {"none", "done"}

\* A publish that hangs never keeps the reader from draining the lines
\* channel: the flood of unwanted lines drops no wanted one on its account.
ReaderKeepsUp == Len(lines) = LinesCap ~> Len(lines) < LinesCap

\* A listen that is told to stop returns, wherever it is.
ListenStops == PublishesReturn => (told ~> pc = "left")

\* ubus is started again after it died, unless the listen is told to stop.
Restarts == PublishesReturn /\ UbusStarts => (proc = "exited" ~> proc = "running" \/ told)

\* Claimed: "A dropped line is an acceptable loss, but the pipe must never
\* stall".  A full pipe is read.
PipeNeverStalls == Len(pipe) = PipeCap ~> Len(pipe) < PipeCap \/ told

=============================================================================
