-------------------------------- MODULE Cli --------------------------------
(***************************************************************************)
(* The process of src/apps/wheeltec_vcu_cli.cpp: run() with its poll loop, *)
(* its line protocol, reconnects, signals and the shutdown path, driving a *)
(* SafetySession over a transport.                                         *)
(*                                                                         *)
(* The process is sequential, so a step of it is a position pc in run()    *)
(* and the call made there; the calls into the session are the actions of  *)
(* SafetySession, at the times the loop really passes.  Between any two    *)
(* steps a signal may arrive, and the process may be killed outright and   *)
(* started again, while the VCU goes on executing the last frame it got.   *)
(* Parsing is abstracted to the whole frames a read completes.             *)
(***************************************************************************)
EXTENDS SafetySession

CONSTANTS
  ReconnectInterval,  \* reconnect_interval_ms
  ReadTimeout,        \* the millisecond a read of the line may take
  MaxDelay,           \* bound: how far the clock moves between two readings
  MaxBatch            \* bound: lines, and frames, one turn of the loop finds

ASSUME CliAssumption ==
  /\ {ReconnectInterval, ReadTimeout, MaxDelay, MaxBatch} \subseteq Nat \ {0}
  /\ Int64Max > 0 /\ MaxGeneration > 0

VARIABLES
  clock,     \* CLOCK_MONOTONIC
  shutdown,  \* g_shutdown_requested
  cli,       \* the locals of run() and the position in it
  inhibited  \* the last whole frame read off the line was an inhibiting one

cvars == <<session, transport, cycle, wire, clock, shutdown, cli, inhibited>>

\* now and receipt are now_ns and receipt_ns; frames and lines count what this
\* turn has handled; attempt is the one attemptFinalZero is at.
NewRun == [pc |-> "start", now |-> 0, receipt |-> 0, next_reconnect |-> 0,
           frames |-> 0, lines |-> 0, eof |-> FALSE, quit |-> FALSE,
           input_failed |-> FALSE, stdin_failed |-> FALSE, attempt |-> 0,
           exit |-> "none"]
ExitCode == {"none", "killed", "3", "4", "5", "6", "0", "9", "7", "8", "130", "131"}

\* The shape of the state.
CliTypeOK ==
  /\ TypeOK
  /\ clock \in Time /\ shutdown \in BOOLEAN
  /\ cli \in [pc: {"start", "loop", "serial", "observe", "lines", "trailing", "tick",
                   "poll", "stop", "stop_tick", "final", "exited"},
              now: Time, receipt: Time, next_reconnect: Nat,
              frames: 0..MaxBatch, lines: 0..MaxBatch, eof: BOOLEAN, quit: BOOLEAN,
              input_failed: BOOLEAN, stdin_failed: BOOLEAN,
              attempt: 0..MaximumZeroAttempts, exit: ExitCode]
  /\ inhibited \in BOOLEAN

At(pc) == cli.pc = pc
Goto(pc) == cli' = [cli EXCEPT !.pc = pc]
\* ... where the locals of this turn are not used any more.
Ended(pc) == [cli EXCEPT !.pc = pc, !.now = 0, !.receipt = 0, !.frames = 0, !.lines = 0]
\* Bound: no call returns later than Int64Max.
Later(t) == t <= Int64Max /\ clock' = Larger(clock, t)

\* monotonicNowNs: the clock has moved on, or could not be read.
Readings == clock..Smaller(Int64Max, clock + MaxDelay)
ReadClock(now) == now \in Readings /\ clock' = now
ClockFails == UNCHANGED clock

\* A step that neither calls the session nor writes.
NoCall == cycle' = NoCycle /\ UNCHANGED <<session, transport, wire>>

-----------------------------------------------------------------------------
(* Starting and ending *)

CliInit ==
  /\ session = NewSession(FALSE)
  /\ transport = [connected |-> FALSE, generation |-> 0, access |-> "kReadWrite"]
  /\ cycle = NoCycle /\ wire = "none"
  /\ clock = 1
  /\ shutdown = FALSE
  /\ cli = NewRun
  /\ inhibited = FALSE

\* What the process leaves when it ends with `code': the kernel has closed
\* the descriptor, and the VCU still has the last frame.
Ends(code) ==
  /\ session' = NewSession(FALSE)
  /\ transport' = [transport EXCEPT !.connected = FALSE, !.generation = 0]
  /\ cycle' = NoCycle
  /\ cli' = [NewRun EXCEPT !.pc = "exited", !.exit = code]
  /\ shutdown' = FALSE
  /\ inhibited' = FALSE

OpenFails ==
  /\ At("start")
  /\ \E code \in {"3", "4"}: Ends(code)
  /\ UNCHANGED <<wire, clock>>

\* The constructor of the session looks at the transport just opened.
Opens ==
  LET opened == [transport EXCEPT !.connected = TRUE, !.generation = 1] IN
  /\ At("start")
  /\ IF ~SafetyConfigIsValid THEN Ends("5")
     ELSE /\ transport' = opened
          /\ session' = SynchronizeConnection(NewSession(TRUE), opened)
          /\ cycle' = NoCycle
          /\ \/ Goto("loop")
             \/ cli' = [cli EXCEPT !.pc = "final", !.stdin_failed = TRUE]
          /\ UNCHANGED <<shutdown, inhibited>>
  /\ UNCHANGED <<wire, clock>>

Signal ==
  /\ ~shutdown
  /\ cli.pc \notin {"start", "exited"} /\ ~cli.stdin_failed
  /\ shutdown' = TRUE
  /\ cycle' = NoCycle
  /\ UNCHANGED <<session, transport, wire, clock, cli, inhibited>>

\* SIGKILL, an exception nobody catches, a signal without handler.
Killed ==
  /\ cli.pc \notin {"start", "exited"}
  /\ Ends("killed")
  /\ UNCHANGED <<wire, clock>>

Restart ==
  /\ At("exited")
  /\ cli' = NewRun
  /\ NoCall /\ UNCHANGED <<clock, shutdown, inhibited>>

-----------------------------------------------------------------------------
(* The top of the loop *)

LoopEnds ==
  /\ At("loop")
  /\ cli.quit \/ shutdown
  /\ Goto("stop")
  /\ NoCall /\ UNCHANGED <<clock, shutdown, inhibited>>

\* Mutant: the loop asks only for a signal.
LoopTurnsOn ==
  /\ At("loop")
  /\ ~shutdown
  /\ \/ \E now \in Readings:
          /\ ReadClock(now)
          /\ cli' = [cli EXCEPT !.pc = "serial", !.now = now]
          /\ NoCall
     \/ /\ ClockFails
        /\ LatchEmergencyStop(0)
        /\ cli' = [Ended("stop") EXCEPT !.input_failed = TRUE]
  /\ UNCHANGED <<shutdown, inhibited>>

LoopTurns ==
  /\ At("loop")
  /\ ~cli.quit /\ ~shutdown
  /\ \/ \E now \in Readings:
          /\ ReadClock(now)
          /\ cli' = [cli EXCEPT !.pc = "serial", !.now = now]
          /\ NoCall
     \/ /\ ClockFails
        /\ LatchEmergencyStop(0)
        /\ cli' = [Ended("stop") EXCEPT !.input_failed = TRUE]
  /\ UNCHANGED <<shutdown, inhibited>>

-----------------------------------------------------------------------------
(* The serial line *)

\* reopen succeeds with a new generation, or fails; both set the next time.
Reconnect ==
  /\ At("serial")
  /\ ~transport.connected
  /\ cli.next_reconnect = 0 \/ cli.now >= cli.next_reconnect
  /\ \/ transport.generation < MaxGeneration
        /\ transport' = [transport EXCEPT !.connected = TRUE,
                                          !.generation = transport.generation + 1]
     \/ UNCHANGED transport
  /\ cli' = [cli EXCEPT !.pc = "lines", !.next_reconnect = cli.now + ReconnectInterval]
  /\ cycle' = NoCycle
  /\ UNCHANGED <<session, wire, clock, shutdown, inhibited>>

AwaitReconnect ==
  /\ At("serial")
  /\ ~transport.connected
  /\ cli.next_reconnect # 0 /\ cli.now < cli.next_reconnect
  /\ Goto("lines")
  /\ NoCall /\ UNCHANGED <<clock, shutdown, inhibited>>

\* Bytes that came with kDeadlineExceeded are dropped; a read that failed
\* otherwise latches the emergency stop, unless the line is just gone.
ReadLine ==
  /\ At("serial")
  /\ transport.connected
  /\ \E r \in ReadResults(cli.now, cli.now + ReadTimeout):
       /\ Later(r.completion)
       /\ \/ /\ r.status = "kOk"
             /\ cli' = [cli EXCEPT !.pc = "observe", !.receipt = r.completion]
             /\ NoCall /\ UNCHANGED inhibited
          \/ /\ r.status \in {"kDeadlineExceeded", "kDisconnected"}
             /\ transport' = TransportAfter(transport, r)
             /\ inhibited' \in IF r.data THEN BOOLEAN ELSE {inhibited}
             /\ Goto("lines")
             /\ cycle' = NoCycle /\ UNCHANGED <<session, wire>>
          \/ /\ r.status = "kIoError"
             /\ LatchEmergencyStop(cli.now)
             /\ Goto("lines") /\ UNCHANGED inhibited
  /\ UNCHANGED shutdown

\* The bytes of one read complete any number of frames, all with one receipt.
ObserveFrame ==
  /\ At("observe")
  /\ cli.frames < MaxBatch
  /\ inhibited' \in BOOLEAN
  /\ ObserveFeedback(IF inhibited' THEN "kControlInhibited" ELSE "kControlAllowed", cli.receipt)
  /\ cli' = [cli EXCEPT !.frames = cli.frames + 1]
  /\ UNCHANGED <<clock, shutdown>>

FramesDone ==
  /\ At("observe")
  /\ cli' = [cli EXCEPT !.pc = "lines", !.frames = 0, !.receipt = 0]
  /\ NoCall /\ UNCHANGED <<clock, shutdown, inhibited>>

-----------------------------------------------------------------------------
(* Standard input *)

\* Mutant: the loop is left without a word to the session.
InputFailsSilently ==
  /\ At("lines")
  /\ cli' = [Ended("stop") EXCEPT !.input_failed = TRUE]
  /\ NoCall /\ UNCHANGED <<clock, shutdown, inhibited>>

\* read(2) fails, more than 8192 bytes are pending, or a line is longer than
\* 512 bytes: the time given to disarm is the one of the top of the loop.
InputFails ==
  /\ At("lines")
  /\ Disarm(cli.now)
  /\ cli' = [Ended("stop") EXCEPT !.input_failed = TRUE]
  /\ UNCHANGED <<clock, shutdown, inhibited>>

\* Mutant: the session is not told of the QUIT.
QuitSilently(now) == NoCall

Quit(now) == RequestStop(now)

\* processLine at the time `now', leaving the locals in l.  A line the parser
\* refuses, and any line while the clock cannot be read, disarms.
LineWith(now, l) ==
  \/ /\ \/ \E token \in Token: Authorize(token, now) \/ ResetEmergencyStop(token, now)
        \/ \E c \in Command: Submit(c, now)
        \/ RequestStop(now)
        \/ LatchEmergencyStop(now)
     /\ cli' = l
  \/ Quit(now) /\ cli' = [l EXCEPT !.quit = TRUE]
  \/ Disarm(now) /\ cli' = [l EXCEPT !.input_failed = TRUE]

ProcessLine(l) ==
  \/ \E now \in Readings: ReadClock(now) /\ LineWith(now, l)
  \/ ClockFails /\ Disarm(0) /\ cli' = [l EXCEPT !.input_failed = TRUE]

\* The rest of a batch is processed also after a QUIT or a refused line.
NextLine ==
  /\ At("lines")
  /\ cli.lines < MaxBatch
  /\ ProcessLine([cli EXCEPT !.lines = cli.lines + 1])
  /\ UNCHANGED <<shutdown, inhibited>>

LinesDone ==
  /\ At("lines")
  /\ \/ cli.input_failed /\ cli' = Ended("stop")
     \/ ~cli.input_failed /\ cli' = Ended("tick")
     \/ ~cli.input_failed /\ cli' = [Ended("trailing") EXCEPT !.eof = TRUE]
  /\ NoCall /\ UNCHANGED <<clock, shutdown, inhibited>>

\* The end of input: what is pending without a newline is still a line.
TrailingLine ==
  /\ At("trailing")
  /\ LET l == [cli EXCEPT !.pc = "tick", !.quit = TRUE] IN
     \/ ProcessLine(l)
     \/ cli' = l /\ NoCall /\ UNCHANGED clock
  /\ UNCHANGED <<shutdown, inhibited>>

-----------------------------------------------------------------------------
(* The tick and the wait *)

TickAt(now, pc) ==
  /\ Tick(now)
  /\ cli' = [cli EXCEPT !.pc = pc, !.now = now]

TimedTick ==
  /\ At("tick")
  /\ \E now \in Readings: TickAt(now, "poll") /\ clock' = Larger(now, session'.last_observed)
  /\ UNCHANGED <<shutdown, inhibited>>

UntimedTick ==
  /\ At("tick")
  /\ TickAt(0, "poll") /\ ClockFails
  /\ UNCHANGED <<shutdown, inhibited>>

LoopTick == TimedTick \/ UntimedTick

\* Every turn takes time.
PollInput ==
  /\ At("poll")
  /\ clock' = Smaller(Int64Max, clock + 1)
  /\ cli' = Ended("loop")
  /\ NoCall /\ UNCHANGED <<shutdown, inhibited>>

PollFails ==
  /\ At("poll")
  /\ Disarm(cli.now)
  /\ cli' = [Ended("stop") EXCEPT !.input_failed = TRUE]
  /\ UNCHANGED <<clock, shutdown, inhibited>>

-----------------------------------------------------------------------------
(* The shutdown path *)

StopDisarms ==
  /\ At("stop")
  /\ \/ \E now \in Readings:
          /\ ReadClock(now)
          /\ Disarm(now)
          /\ cli' = [cli EXCEPT !.pc = "stop_tick", !.now = now]
     \/ ClockFails /\ Goto("final") /\ NoCall
  /\ UNCHANGED <<shutdown, inhibited>>

StopTick ==
  /\ At("stop_tick")
  /\ Tick(cli.now)
  /\ cli' = Ended("final")
  /\ clock' = Larger(clock, session'.last_observed)
  /\ UNCHANGED <<shutdown, inhibited>>

\* Mutant: an interrupted run reports success.
ExitCodeInterrupted(complete) ==
  IF cli.stdin_failed THEN "6"
  ELSE IF shutdown THEN "130"
  ELSE IF cli.input_failed THEN (IF complete THEN "7" ELSE "8")
  ELSE IF complete THEN "0" ELSE "9"

ExitCodeOf(complete) ==
  IF cli.stdin_failed THEN "6"
  ELSE IF shutdown THEN (IF complete THEN "130" ELSE "131")
  ELSE IF cli.input_failed THEN (IF complete THEN "7" ELSE "8")
  ELSE IF complete THEN "0" ELSE "9"

\* Not connected, out of attempts, or the clock cannot be read.
FinalZeroGivesUp ==
  /\ At("final")
  /\ Ends(ExitCodeOf(FALSE))
  /\ UNCHANGED <<wire, clock>>

\* One attempt, then the pause before the next.
FinalZeroAttempt ==
  /\ At("final")
  /\ transport.connected
  /\ cli.attempt < MaximumZeroAttempts
  /\ \E now \in Readings: \E r \in WriteResults(transport.access, now, now + WriteTimeout):
       /\ Later(Larger(now, r.completion))
       /\ wire' = IF r.complete THEN "zero" ELSE wire
       /\ IF Succeeded(r) THEN Ends(ExitCodeOf(TRUE))
          ELSE /\ transport' = TransportAfter(transport, r)
               /\ cli' = [cli EXCEPT !.attempt = cli.attempt + 1]
               /\ cycle' = NoCycle
               /\ UNCHANGED <<session, shutdown, inhibited>>

-----------------------------------------------------------------------------

Process ==
  \/ OpenFails \/ Opens
  \/ LoopEnds \/ LoopTurns
  \/ Reconnect \/ AwaitReconnect \/ ReadLine \/ ObserveFrame \/ FramesDone
  \/ InputFails \/ NextLine \/ LinesDone \/ TrailingLine
  \/ LoopTick \/ PollInput \/ PollFails
  \/ StopDisarms \/ StopTick \/ FinalZeroGivesUp \/ FinalZeroAttempt

CliNext == Process \/ Signal \/ Killed \/ Restart

CliSpec == CliInit /\ [][CliNext]_cvars

\* A running process keeps running, and the clock is not unreadable at every
\* tick of it for ever; nothing else is owed.
CliLiveSpec == CliSpec /\ WF_cvars(Process) /\ SF_cvars(TimedTick)

-----------------------------------------------------------------------------
(* Properties *)

\* When the process has ended and the last frame on the line is still a
\* motion, of this run or of one killed before it, its exit code never says
\* that the final zero frame left: 0, 7 and 130 are told only behind a zero
\* frame, however signals, refused input and failing writes interleave.
ExitCodeTellsTruth == At("exited") /\ wire = "motion" => cli.exit \notin {"0", "7", "130"}

\* Input that was refused, unreadable or too long, and a poll that failed,
\* revoke the permission for good: no later line of the same batch gets it
\* back, and that disarm() is often called with a time older than the last
\* feedback does not weaken it.
InputFailureDisarms == cli.input_failed => ~Authorized(session)

\* After a QUIT, and after refused input, no motion frame is even attempted:
\* neither by the rest of the batch, nor by the tick that ends the turn, nor
\* by the tick of the shutdown path, which runs after a signal too.
NoMotionAfterTheEnd ==
  [][cycle'.motion_write_attempted =>
       /\ At("tick")
       /\ ~cli.input_failed
       /\ cli.quit => cli.eof]_cvars

\* A run that was told to end, by QUIT, by the end of its input, by a failure
\* or by a signal, does end, whatever the line does to its final zero frame.
ShutdownEnds == (shutdown \/ cli.quit \/ cli.input_failed) ~> At("exited")

\* docs/safety.md:23-24 of an inhibiting feedback: it revokes the permission
\* to move.  So no motion is sent while the last frame that was read off the
\* line is an inhibiting one.
InhibitRevokes == cycle.motion_write_attempted => ~inhibited

=============================================================================
