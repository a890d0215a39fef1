------------------------------ MODULE Monitor ------------------------------
(***************************************************************************)
(* main() of src/apps/wheeltec_vcu_monitor.cpp: the receive-only tool that *)
(* reads until it has counted a number of feedback frames, the session's   *)
(* time is over, the line fails or a signal arrives.  The transport is     *)
(* seen through the contract of readSome (ReadResults); what the parser    *)
(* makes of the bytes is the number of frames they complete.               *)
(***************************************************************************)
EXTENDS TransportContract

CONSTANTS
  FrameCount,   \* --frames
  Timeout,      \* --timeout-ms, in nanoseconds
  ReadSlice,    \* the 100 ms one read may take
  MaxDelay,     \* bound: how far the clock moves between two readings
  MaxFrames     \* bound: the frames the bytes of one read complete

ASSUME MonitorAssumption ==
  {FrameCount, Timeout, ReadSlice, MaxDelay, MaxFrames} \subseteq Nat \ {0}

VARIABLES
  clock,  \* CLOCK_MONOTONIC
  stop,   \* g_stop_requested
  mon     \* the locals of main() and the position in it

vars == <<clock, stop, mon>>

ExitCode == {"none", "0", "3", "4", "5", "6", "130"}

\* The shape of the state.
TypeOK ==
  /\ clock \in Time /\ stop \in BOOLEAN
  /\ mon \in [pc: {"open", "started", "loop", "read", "count", "done", "exited"},
              now: Time, deadline: Time, frames: 0..FrameCount,
              code: ExitCode]

Init ==
  /\ clock \in 1..Int64Max
  /\ stop = FALSE
  /\ mon = [pc |-> "open", now |-> 0, deadline |-> 0, frames |-> 0, code |-> "none"]

At(pc) == mon.pc = pc
Readings == clock..Smaller(Int64Max, clock + MaxDelay)
Exits(code) == mon' = [mon EXCEPT !.pc = "exited", !.code = code]

Signal ==
  /\ ~stop /\ ~At("exited")
  /\ stop' = TRUE
  /\ UNCHANGED <<clock, mon>>

OpenLine ==
  /\ At("open")
  /\ Exits("3") \/ mon' = [mon EXCEPT !.pc = "started"]
  /\ UNCHANGED <<clock, stop>>

\* saturatedAddMilliseconds, 0 when the sum does not fit
SaturatedAddMilliseconds(origin, delta) ==
  IF origin <= 0 \/ delta > Int64Max - origin THEN 0 ELSE origin + delta

\* 0 stands for a clock that cannot be read.
StartSession ==
  /\ At("started")
  /\ \E started \in Readings \cup {0}:
       LET deadline == SaturatedAddMilliseconds(started, Timeout) IN
       /\ clock' = Larger(clock, started)
       /\ IF deadline <= 0 THEN Exits("4")
          ELSE mon' = [mon EXCEPT !.pc = "loop", !.deadline = deadline]
  /\ UNCHANGED stop

LoopEnds ==
  /\ At("loop")
  /\ mon.frames >= FrameCount \/ stop
  /\ mon' = [mon EXCEPT !.pc = "done"]
  /\ UNCHANGED <<clock, stop>>

\* Mutant: the session's deadline only cuts the reads.
LoopTurnsUntimed ==
  /\ At("loop")
  /\ mon.frames < FrameCount /\ ~stop
  /\ \E now \in Readings \cup {0}:
       /\ clock' = Larger(clock, now)
       /\ mon' = IF now <= 0 THEN [mon EXCEPT !.pc = "done", !.code = "5"]
                 ELSE [mon EXCEPT !.pc = "read", !.now = now]
  /\ UNCHANGED stop

LoopTurns ==
  /\ At("loop")
  /\ mon.frames < FrameCount /\ ~stop
  /\ \E now \in Readings \cup {0}:
       /\ clock' = Larger(clock, now)
       /\ mon' = IF now <= 0 \/ now >= mon.deadline
                 THEN [mon EXCEPT !.pc = "done", !.code = "5"]
                 ELSE [mon EXCEPT !.pc = "read", !.now = now]
  /\ UNCHANGED stop

\* Mutant: a slice of its own for every read.
ReadDeadlineUncut(now) == now + ReadSlice

ReadDeadline(now) == Smaller(mon.deadline, now + ReadSlice)

\* A turn takes time, also one that finds its bytes waiting.
ReadLine ==
  /\ At("read")
  /\ \E r \in ReadResults(mon.now, ReadDeadline(mon.now)):
       /\ r.completion <= Int64Max
       /\ clock' = Smaller(Int64Max, Larger(clock + 1, r.completion))
       /\ mon' = CASE r.status = "kDeadlineExceeded" -> [mon EXCEPT !.pc = "loop", !.now = 0]
                   [] r.status = "kOk" -> [mon EXCEPT !.pc = "count", !.now = 0]
                   [] OTHER -> [mon EXCEPT !.pc = "done", !.code = "6", !.now = 0]
  /\ UNCHANGED stop

CountFrames ==
  /\ At("count")
  /\ \E found \in 0..MaxFrames:
       mon' = [mon EXCEPT !.pc = "loop", !.frames = Smaller(FrameCount, mon.frames + found)]
  /\ UNCHANGED <<clock, stop>>

\* Mutant: whatever is no error of the line is a success.
ResultCodeKind == IF mon.code = "6" THEN "6" ELSE IF stop THEN "130" ELSE "0"

\* The code of the loop, then a signal, then too few frames.
ResultCode ==
  IF mon.code # "none" THEN mon.code
  ELSE IF stop THEN "130"
  ELSE IF mon.frames < FrameCount THEN "5" ELSE "0"

Finish ==
  /\ At("done")
  /\ Exits(ResultCode)
  /\ UNCHANGED <<clock, stop>>

Process ==
  \/ OpenLine \/ StartSession \/ LoopEnds \/ LoopTurns
  \/ ReadLine \/ CountFrames \/ Finish

Next == Process \/ Signal

\* The process is scheduled again and again; nothing is asked of the line.
Spec == Init /\ [][Next]_vars /\ WF_vars(Process)

-----------------------------------------------------------------------------
(* Properties *)

\* Success is reported only for a complete count, a timeout only for an
\* incomplete one and an interruption only after a signal, however the signal
\* races with the last frame and the deadline.
ExitCodeTellsTruth ==
  At("exited") =>
    /\ mon.code = "0" => mon.frames = FrameCount
    /\ mon.code = "5" => mon.frames < FrameCount
    /\ mon.code = "130" => stop

\* No read is still waiting when the session's time has been over for longer
\* than the scheduler delays a blocked call and the reading of the clock.
SessionIsBounded ==
  At("count") \/ At("done") =>
    clock <= Smaller(Int64Max, mon.deadline + MaxOverrun + MaxDelay)

\* The monitor ends, though the line may deliver bytes without end that never
\* complete a frame.
MonitorEnds == <>At("exited")

=============================================================================
