-------------------------- MODULE SerialTransport --------------------------
(***************************************************************************)
(* PosixSerialTransport and the bounded write and read loops of            *)
(* src/src/transport.cpp.                                                  *)
(*                                                                         *)
(* One call is in progress at a time.  Between any two system calls of it  *)
(* the monotonic clock may move, so a loop is a small machine: each of its *)
(* steps reads the clock or makes one system call, whose outcome the       *)
(* kernel chooses.  The kernel's side is the descriptors this process      *)
(* holds on the TTY, its exclusive flag, and the bytes of the frame being  *)
(* written that it has accepted.                                           *)
(***************************************************************************)
EXTENDS TransportContract

CONSTANTS
  FrameSize,     \* bytes of the buffer given to writeAll
  Capacity,      \* bytes of the buffer given to readSome
  Millisecond,   \* clock ticks in a poll(2) millisecond
  IntMax,        \* INT_MAX, the longest poll(2) timeout
  Deadline,      \* the absolute deadlines callers pass
  MaxGeneration  \* the largest uint64_t generation

ASSUME SizesAssumption ==
  /\ FrameSize \in Nat \ {0} /\ Capacity \in Nat \ {0}
  /\ Millisecond \in Nat \ {0} /\ IntMax \in Nat \ {0}
  /\ MaxGeneration \in Nat /\ Deadline \subseteq Time
\* The transport promises no bound on how late a blocked call returns.
ASSUME OverrunAssumption == MaxOverrun >= Int64Max

VARIABLES
  clock,   \* CLOCK_MONOTONIC
  line,    \* fd_ (held or -1), connected_, generation_, access_
  kernel,  \* descriptors open on the TTY, TIOCEXCL, bytes accepted
  call,    \* the call in progress
  result   \* IoResult of the last call, with the call it answers

vars == <<clock, line, kernel, call, result>>

Status == {"kOk", "kDeadlineExceeded", "kDisconnected", "kWriteDisabled", "kIoError"}
Idle == [op |-> "idle", pc |-> "done", begun |-> 0, deadline |-> 0,
         transferred |-> 0, before |-> 0]
NoResult == [op |-> "none", status |-> "kOk", bytes |-> 0, complete |-> FALSE,
             uncertain |-> FALSE, completion |-> 0, begun |-> 0, deadline |-> 0]

\* The shape of the state.
TypeOK ==
  /\ clock \in Time
  /\ line \in [held: BOOLEAN, connected: BOOLEAN, generation: 0..MaxGeneration,
               access: SerialAccess]
  /\ kernel \in [descriptors: Nat, exclusive: BOOLEAN, sent: 0..FrameSize]
  /\ call \in [op: {"idle", "write", "read"},
               pc: {"done", "check", "transfer", "poll_check", "poll"},
               begun: Time, deadline: Time, transferred: 0..FrameSize, before: Time]
  /\ result \in [op: {"none", "write", "read"}, status: Status, bytes: Nat,
                 complete: BOOLEAN, uncertain: BOOLEAN, completion: Time,
                 begun: Time, deadline: Time]

Init ==
  /\ clock = 0
  /\ line \in [held: {FALSE}, connected: {FALSE}, generation: {0}, access: SerialAccess]
  /\ kernel = [descriptors |-> 0, exclusive |-> FALSE, sent |-> 0]
  /\ call = Idle
  /\ result = NoResult

-----------------------------------------------------------------------------
(* Opening and closing *)

OpenDescriptor(k) == [k EXCEPT !.descriptors = k.descriptors + 1]
CloseDescriptor(k) == [k EXCEPT !.descriptors = k.descriptors - 1]
SetExclusive(k) == [k EXCEPT !.exclusive = TRUE]
\* Mutant: closed, and still exclusive.
CloseOnly(k) == CloseDescriptor(k)
ReleaseExclusiveAndClose(k) == CloseDescriptor([k EXCEPT !.exclusive = FALSE])

ClosedLine(l) == [l EXCEPT !.connected = FALSE, !.held = FALSE]
ClosedKernel(l, k) == IF l.held THEN ReleaseExclusiveAndClose(k) ELSE k

\* How openNewGeneration ends, from line l and kernel k: refused before there
\* is a descriptor (a bad path, the last generation, an error of open(2));
\* not a TTY, or not to be had exclusively; flags or settings refused once it
\* is exclusive; or open.  The kernel refuses open(2) on an exclusive TTY.
OpenRefused(l, k) == line' = l /\ kernel' = k
Openable(l, k) == l.generation < MaxGeneration /\ ~k.exclusive
NotUsable(l, k) ==
  /\ Openable(l, k)
  /\ line' = l
  /\ kernel' = CloseDescriptor(OpenDescriptor(k))
SettingsRefused(l, k) ==
  /\ Openable(l, k)
  /\ line' = l
  /\ kernel' = ReleaseExclusiveAndClose(SetExclusive(OpenDescriptor(k)))
Opened(l, k) ==
  /\ Openable(l, k)
  /\ line' = [l EXCEPT !.held = TRUE, !.connected = TRUE, !.generation = l.generation + 1]
  /\ kernel' = SetExclusive(OpenDescriptor(k))

OpenNewGeneration(l, k) ==
  OpenRefused(l, k) \/ NotUsable(l, k) \/ SettingsRefused(l, k) \/ Opened(l, k)

Open ==
  /\ call.op = "idle"
  /\ ~line.connected
  /\ OpenNewGeneration(line, kernel)
  /\ UNCHANGED <<clock, call, result>>

Reopen ==
  /\ call.op = "idle"
  /\ OpenNewGeneration(ClosedLine(line), ClosedKernel(line, kernel))
  /\ UNCHANGED <<clock, call, result>>

Close ==
  /\ call.op = "idle"
  /\ line' = ClosedLine(line)
  /\ kernel' = ClosedKernel(line, kernel)
  /\ UNCHANGED <<clock, call, result>>

-----------------------------------------------------------------------------
(* Calls *)

Answer(c, status, bytes, complete, uncertain, completion) ==
  [op |-> c.op, status |-> status, bytes |-> bytes, complete |-> complete,
   uncertain |-> uncertain, completion |-> completion,
   begun |-> c.begun, deadline |-> c.deadline]

\* The call returns; a disconnected result closes the transport.
Return(status, bytes, complete, uncertain, completion) ==
  /\ result' = Answer(call, status, bytes, complete, uncertain, completion)
  /\ call' = Idle
  /\ IF status = "kDisconnected"
     THEN line' = ClosedLine(line) /\ kernel' = ClosedKernel(line, kernel)
     ELSE UNCHANGED <<line, kernel>>
  /\ UNCHANGED clock

Goto(pc) == call' = [call EXCEPT !.pc = pc] /\ UNCHANGED <<clock, line, kernel, result>>

Begin(op, deadline) == [Idle EXCEPT !.op = op, !.pc = "check", !.begun = clock,
                                    !.deadline = deadline]

\* The access check precedes the connection check: a receive-only transport
\* never reaches write(2).
WriteAll(deadline) ==
  /\ call.op = "idle"
  /\ kernel' = [kernel EXCEPT !.sent = 0]
  /\ \/ /\ line.access # "kReadWrite"
        /\ result' = Answer(Begin("write", deadline), "kWriteDisabled", 0, FALSE, FALSE, 0)
        /\ UNCHANGED call
     \/ /\ line.access = "kReadWrite" /\ ~(line.connected /\ line.held)
        /\ result' = Answer(Begin("write", deadline), "kDisconnected", 0, FALSE, TRUE, clock)
        /\ UNCHANGED call
     \/ /\ line.access = "kReadWrite" /\ line.connected /\ line.held
        /\ call' = Begin("write", deadline)
        /\ UNCHANGED result
  /\ UNCHANGED <<clock, line>>

ReadSome(deadline) ==
  /\ call.op = "idle"
  /\ \/ /\ ~(line.connected /\ line.held)
        /\ result' = Answer(Begin("read", deadline), "kDisconnected", 0, FALSE, FALSE, clock)
        /\ UNCHANGED call
     \/ /\ line.connected /\ line.held
        /\ call' = Begin("read", deadline)
        /\ UNCHANGED result
  /\ UNCHANGED <<clock, line, kernel>>

\* Mutant: a failure after some bytes is not uncertain.
TornByHangup(status) == call.op = "write" /\ status = "kDisconnected"

\* What a failure that interrupts the call leaves uncertain about a write.
Torn(status) == call.op = "write" /\ (call.transferred # 0 \/ status = "kDisconnected")
Fail(status, completion) == Return(status, call.transferred, FALSE, Torn(status), completion)

\* before_write_ns, before_read_ns: the deadline test at the top of a loop
CheckDeadline ==
  /\ call.pc = "check"
  /\ \/ clock >= call.deadline /\ Fail("kDeadlineExceeded", clock)
     \/ /\ clock < call.deadline
        /\ call' = [call EXCEPT !.pc = "transfer", !.before = clock]
        /\ UNCHANGED <<clock, line, kernel, result>>

-----------------------------------------------------------------------------
(* writeAllWithOperations: one write(2) *)

WriteProgress(n) ==
  LET total == call.transferred + n
      late == clock > call.deadline
  IN
  /\ call.op = "write" /\ call.pc = "transfer"
  /\ total <= FrameSize
  /\ result' = IF total = FrameSize
               THEN Answer(call, IF late THEN "kDeadlineExceeded" ELSE "kOk",
                           total, TRUE, late, clock)
               ELSE IF clock >= call.deadline
               THEN Answer(call, "kDeadlineExceeded", total, FALSE, TRUE, clock)
               ELSE result
  /\ call' = IF total = FrameSize \/ clock >= call.deadline THEN Idle
             ELSE [call EXCEPT !.pc = "check", !.transferred = total]
  /\ kernel' = [kernel EXCEPT !.sent = total]
  /\ UNCHANGED <<clock, line>>

\* A count larger than what was asked for, zero bytes, an error.
WriteFails ==
  /\ call.op = "write" /\ call.pc = "transfer"
  /\ \/ Return("kIoError", call.transferred, FALSE, call.transferred # 0, call.before)
     \/ Return("kDisconnected", call.transferred, FALSE, TRUE, clock)
     \/ \E status \in {"kDisconnected", "kIoError"}: Fail(status, clock)

-----------------------------------------------------------------------------
(* readSomeWithOperations: one read(2) *)

\* Mutant: late data is not told from data in time.
ReadDataUntimed(n) ==
  /\ call.op = "read" /\ call.pc = "transfer"
  /\ Return("kOk", n, FALSE, FALSE, clock)

ReadData(n) ==
  /\ call.op = "read" /\ call.pc = "transfer"
  /\ Return(IF clock > call.deadline THEN "kDeadlineExceeded" ELSE "kOk",
            n, FALSE, FALSE, clock)

\* A count larger than the capacity, or an error.
ReadFails ==
  /\ call.op = "read" /\ call.pc = "transfer"
  /\ \E status \in {"kDisconnected", "kIoError"}: Fail(status, clock)

\* EINTR starts the loop again; EAGAIN, and a read of no bytes, wait.
Interrupted == call.pc = "transfer" /\ Goto("check")
WouldBlock == call.pc = "transfer" /\ Goto("poll_check")

-----------------------------------------------------------------------------
(* waitForEvent *)

\* Mutant: rounded down.
TimeoutRoundedDown(remaining) == Smaller(IntMax, remaining \div Millisecond)

\* Rounded up, so that poll(2) does not time out before the deadline.
TimeoutMilliseconds(remaining) ==
  Smaller(IntMax, (remaining + Millisecond - 1) \div Millisecond)

\* Mutant: every wake-up waits again.
PollCheckUnbounded ==
  /\ call.pc = "poll_check"
  /\ call' = [call EXCEPT !.pc = "poll", !.before = Smaller(clock, call.deadline)]
  /\ UNCHANGED <<clock, line, kernel, result>>

PollCheck ==
  /\ call.pc = "poll_check"
  /\ \/ clock >= call.deadline /\ Fail("kDeadlineExceeded", clock)
     \/ /\ clock < call.deadline
        /\ call' = [call EXCEPT !.pc = "poll", !.before = clock]
        /\ UNCHANGED <<clock, line, kernel, result>>

\* The requested event, in time or too late.
PollReady ==
  /\ call.pc = "poll"
  /\ \/ clock > call.deadline /\ Fail("kDeadlineExceeded", clock)
     \/ clock <= call.deadline /\ Goto("check")

\* Another event, or EINTR
PollAgain == call.pc = "poll" /\ Goto("poll_check")

PollTimeout ==
  /\ call.pc = "poll"
  /\ clock >= call.before
              + Millisecond * TimeoutMilliseconds(call.deadline - call.before)
  /\ Fail("kDeadlineExceeded", clock)

\* POLLERR, POLLHUP or POLLNVAL; or poll(2) itself failed
PollFails ==
  /\ call.pc = "poll"
  /\ \E status \in {"kDisconnected", "kIoError"}: Fail(status, clock)

-----------------------------------------------------------------------------

Advance ==
  /\ clock < Int64Max
  /\ clock' = clock + 1
  /\ UNCHANGED <<line, kernel, call, result>>

\* A step of the call in progress
Step ==
  \/ CheckDeadline
  \/ \E n \in 1..FrameSize: WriteProgress(n)
  \/ WriteFails
  \/ \E n \in 1..Capacity: ReadData(n)
  \/ ReadFails
  \/ Interrupted
  \/ WouldBlock
  \/ PollCheck
  \/ PollReady
  \/ PollAgain
  \/ PollTimeout
  \/ PollFails

\* No caller's deadline is farther ahead than the minute safetyConfigIsValid
\* allows.  One farther than INT_MAX milliseconds would be given up early: a
\* poll that times out ends the call without another look at the clock.
WithinReach(deadline) == deadline <= clock + Millisecond * IntMax

Next ==
  \/ Open \/ Reopen \/ Close
  \/ \E deadline \in Deadline:
       WithinReach(deadline) /\ (WriteAll(deadline) \/ ReadSome(deadline))
  \/ Step
  \/ Advance

Spec == Init /\ [][Next]_vars

\* Time passes, and a call in progress is not abandoned: the process runs and
\* poll(2) and the non-blocking write(2) and read(2) return.
LiveSpec == Spec /\ WF_vars(Advance) /\ WF_vars(Step)

-----------------------------------------------------------------------------
(* Properties *)

\* Every write answers with a result the safety session is written against:
\* complete in time, complete late, given up no earlier than its deadline,
\* failed or disconnected, however short writes, interruptions, spurious
\* wake-ups and rounding of the poll timeout combine.
WriteMeetsContract ==
  result.op = "write" =>
    [status |-> result.status, complete |-> result.complete,
     completion |-> result.completion]
      \in WriteResults(line.access, result.begun, result.deadline)

\* A result that does not report uncertainty leaves a clean byte stream: the
\* whole frame in time, or not a byte of it.  A complete write is the whole
\* frame.
CleanOutcomeIsClean ==
  call.op = "idle" /\ result.op = "write" =>
    /\ result.bytes = kernel.sent
    /\ result.complete <=> kernel.sent = FrameSize
    /\ ~result.uncertain => kernel.sent = 0 \/ result.status = "kOk"

\* Every read answers with a result its callers are written against: kOk only
\* with data that arrived in time, given up no earlier than its deadline, late
\* data reported late.
ReadMeetsContract ==
  result.op = "read" =>
    /\ [status |-> result.status, data |-> result.bytes > 0, completion |-> result.completion]
         \in ReadResults(result.begun, result.deadline)
    /\ result.bytes <= Capacity

\* Every failed or repeated open, close and disconnect gives the descriptor
\* and the exclusive flag back, so that the next open can succeed, and a
\* transport is connected exactly while it holds its descriptor.
DescriptorsAreReleased ==
  /\ line.connected = line.held
  /\ kernel.descriptors = IF line.held THEN 1 ELSE 0
  /\ kernel.exclusive = line.held

\* Every call returns, however often it is interrupted or woken for nothing.
CallsReturn == call.op # "idle" ~> call.op = "idle"

=============================================================================
