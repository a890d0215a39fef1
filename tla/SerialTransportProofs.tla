----------------------- MODULE SerialTransportProofs -----------------------
(***************************************************************************)
(* PosixSerialTransport keeps the contract its callers are written         *)
(* against, for every frame size, every buffer, every poll granularity and *)
(* every set of deadlines within the reach of poll(2).                     *)
(***************************************************************************)
EXTENDS SerialTransport, TLAPS

-----------------------------------------------------------------------------
(* The invariant *)

Line == [held: BOOLEAN, connected: BOOLEAN, generation: 0..MaxGeneration,
         access: SerialAccess]
Kernel == [descriptors: Nat, exclusive: BOOLEAN, sent: 0..FrameSize]
Call == [op: {"idle", "write", "read"},
         pc: {"done", "check", "transfer", "poll_check", "poll"},
         begun: Time, deadline: Time, transferred: 0..FrameSize, before: Time]
Result == [op: {"none", "write", "read"}, status: Status, bytes: Nat,
           complete: BOOLEAN, uncertain: BOOLEAN, completion: Time,
           begun: Time, deadline: Time]

\* A transport l holds what the kernel k says it holds.
Released(l, k) ==
  /\ l.connected = l.held
  /\ k.descriptors = IF l.held THEN 1 ELSE 0
  /\ k.exclusive = l.held

\* What the loops of writeAllWithOperations, readSomeWithOperations and
\* waitForEvent know at each of their steps: how far a write has come, that a
\* read has nothing yet, and that a transfer or a wait began before the
\* deadline, which is within the reach of poll(2).
InProgress ==
  /\ call.op = "idle" <=> call.pc = "done"
  /\ call.op = "write" => /\ line.access = "kReadWrite"
                          /\ call.transferred = kernel.sent
                          /\ call.transferred < FrameSize
  /\ call.op = "read" => call.transferred = 0
  /\ call.op # "idle" => /\ call.begun <= clock
                         /\ call.deadline <= call.begun + Millisecond * IntMax
  /\ call.pc \in {"transfer", "poll"} => /\ call.begun <= call.before
                                         /\ call.before < call.deadline
                                         /\ call.before <= clock

LInv ==
  /\ TypeOK
  /\ DescriptorsAreReleased
  /\ InProgress
  /\ CleanOutcomeIsClean
  /\ WriteMeetsContract
  /\ ReadMeetsContract

-----------------------------------------------------------------------------
(* Arithmetic *)

LEMMA ClockFacts ==
  /\ 0 \in Time /\ 0 \in 0..FrameSize
  /\ \A x \in Time: x \in Nat /\ x <= Int64Max
  /\ \A x \in Nat: x <= Int64Max => x \in Time
BY ClockAssumption, SizesAssumption DEF Time

LEMMA DivisionFacts ==
  ASSUME NEW x \in Int, NEW m \in Int, m > 0, NEW q \in Int, q = x \div m
  PROVE  m * q + m > x
OBVIOUS

\* Rounded up, the timeout given to poll(2) covers the rest of the deadline.
LEMMA TimeoutCovers ==
  ASSUME NEW remaining \in Nat, remaining <= Millisecond * IntMax
  PROVE  /\ TimeoutMilliseconds(remaining) \in Int
         /\ Millisecond * TimeoutMilliseconds(remaining) >= remaining
<1> DEFINE x == remaining + Millisecond - 1
           q == x \div Millisecond
<1>1. Millisecond \in Int /\ Millisecond > 0 /\ IntMax \in Int /\ x \in Int
  BY SizesAssumption
<1>2. q \in Int
  BY <1>1
<1>3. Millisecond * q + Millisecond > x
  BY <1>1, <1>2, DivisionFacts
<1>4. TimeoutMilliseconds(remaining) = IF IntMax <= q THEN IntMax ELSE q
  BY DEF TimeoutMilliseconds, Smaller
<1> HIDE DEF q
<1>5. Millisecond * q >= remaining
  <2> DEFINE y == Millisecond * q
  <2>1. y \in Int
    BY <1>1, <1>2
  <2>2. y + Millisecond > remaining + Millisecond - 1
    BY <1>3
  <2> HIDE DEF y
  <2>3. y >= remaining
    BY <1>1, <2>1, <2>2
  <2> QED BY <2>3 DEF y
<1> QED BY <1>1, <1>2, <1>4, <1>5

\* A time after the call began is in every interval of the contract that is
\* open to the end of the clock.
LEMMA LatestIsTheEnd ==
  ASSUME NEW begun \in Time, NEW deadline \in Time
  PROVE  Smaller(Int64Max, Larger(begun, deadline) + MaxOverrun) = Int64Max
BY ClockAssumption, OverrunAssumption, ClockFacts DEF Smaller, Larger

-----------------------------------------------------------------------------
(* The contract, result by result *)

LEMMA WriteContract ==
  ASSUME NEW begun \in Time, NEW deadline \in Time, NEW completion \in Time,
         NEW status, NEW complete,
         begun <= completion,
         \/ status \in {"kIoError", "kDisconnected"} /\ complete = FALSE
         \/ status = "kDeadlineExceeded" /\ complete = FALSE /\ completion >= deadline
         \/ /\ status = "kDeadlineExceeded" /\ complete = TRUE
            /\ begun < deadline /\ completion > deadline
         \/ /\ status = "kOk" /\ complete = TRUE
            /\ begun < deadline /\ completion <= deadline
  PROVE  [status |-> status, complete |-> complete, completion |-> completion]
           \in WriteResults("kReadWrite", begun, deadline)
<1> DEFINE latest == Smaller(Int64Max, Larger(begun, deadline) + MaxOverrun)
           r == [status |-> status, complete |-> complete, completion |-> completion]
           inTime == WriteResult("kOk", TRUE, begun..deadline)
           late == WriteResult("kDeadlineExceeded", TRUE, (deadline + 1)..latest)
           expired == WriteResult("kDeadlineExceeded", FALSE, Larger(begun, deadline)..latest)
           failed == WriteResult("kIoError", FALSE, begun..latest)
           gone == WriteResult("kDisconnected", FALSE, begun..latest)
<1>1. WriteResults("kReadWrite", begun, deadline) =
        UNION {IF begun < deadline THEN inTime \cup late ELSE {}, expired, failed, gone}
  BY DEF WriteResults
<1>2. latest = Int64Max
  BY LatestIsTheEnd
<1>3. /\ begun \in Int /\ deadline \in Int /\ completion \in Int /\ completion <= Int64Max
      /\ Int64Max \in Int
  BY ClockAssumption, ClockFacts
<1> HIDE DEF latest
<1>4. completion \in begun..latest
  BY <1>2, <1>3
<1>5. CASE status \in {"kIoError", "kDisconnected"} /\ complete = FALSE
  <2>1. r \in failed \/ r \in gone
    BY <1>4, <1>5 DEF WriteResult
  <2> HIDE DEF r, inTime, late, expired, failed, gone
  <2> QED BY <1>1, <2>1 DEF r
<1>6. CASE status = "kDeadlineExceeded" /\ complete = FALSE /\ completion >= deadline
  <2>1. completion \in Larger(begun, deadline)..latest
    BY <1>2, <1>3, <1>6 DEF Larger
  <2>2. r \in expired
    BY <1>6, <2>1 DEF WriteResult
  <2> HIDE DEF r, inTime, late, expired, failed, gone
  <2> QED BY <1>1, <2>2 DEF r
<1>7. CASE /\ status = "kDeadlineExceeded" /\ complete = TRUE
           /\ begun < deadline /\ completion > deadline
  <2>1. completion \in (deadline + 1)..latest
    BY <1>2, <1>3, <1>7
  <2>2. r \in late
    BY <1>7, <2>1 DEF WriteResult
  <2> HIDE DEF r, inTime, late, expired, failed, gone
  <2> QED BY <1>1, <1>7, <2>2 DEF r
<1>8. CASE /\ status = "kOk" /\ complete = TRUE
           /\ begun < deadline /\ completion <= deadline
  <2>1. completion \in begun..deadline
    BY <1>3, <1>8
  <2>2. r \in inTime
    BY <1>8, <2>1 DEF WriteResult
  <2> HIDE DEF r, inTime, late, expired, failed, gone
  <2> QED BY <1>1, <1>8, <2>2 DEF r
<1> QED BY <1>5, <1>6, <1>7, <1>8

LEMMA ReadContract ==
  ASSUME NEW begun \in Time, NEW deadline \in Time, NEW completion \in Time,
         NEW status, NEW data,
         begun <= completion,
         \/ status \in {"kIoError", "kDisconnected"} /\ data = FALSE
         \/ status = "kDeadlineExceeded" /\ data = FALSE /\ completion >= deadline
         \/ /\ status = "kDeadlineExceeded" /\ data = TRUE
            /\ begun < deadline /\ completion > deadline
         \/ /\ status = "kOk" /\ data = TRUE
            /\ begun < deadline /\ completion <= deadline
  PROVE  [status |-> status, data |-> data, completion |-> completion]
           \in ReadResults(begun, deadline)
<1> DEFINE latest == Smaller(Int64Max, Larger(begun, deadline) + MaxOverrun)
           r == [status |-> status, data |-> data, completion |-> completion]
           inTime == ReadResult("kOk", TRUE, begun..deadline)
           late == ReadResult("kDeadlineExceeded", TRUE, (deadline + 1)..latest)
           expired == ReadResult("kDeadlineExceeded", FALSE, Larger(begun, deadline)..latest)
           failed == ReadResult("kIoError", FALSE, begun..latest)
           gone == ReadResult("kDisconnected", FALSE, begun..latest)
<1>1. ReadResults(begun, deadline) =
        UNION {IF begun < deadline THEN inTime \cup late ELSE {}, expired, failed, gone}
  BY DEF ReadResults
<1>2. latest = Int64Max
  BY LatestIsTheEnd
<1>3. /\ begun \in Int /\ deadline \in Int /\ completion \in Int /\ completion <= Int64Max
      /\ Int64Max \in Int
  BY ClockAssumption, ClockFacts
<1> HIDE DEF latest
<1>4. completion \in begun..latest
  BY <1>2, <1>3
<1>5. CASE status \in {"kIoError", "kDisconnected"} /\ data = FALSE
  <2>1. r \in failed \/ r \in gone
    BY <1>4, <1>5 DEF ReadResult
  <2> HIDE DEF r, inTime, late, expired, failed, gone
  <2> QED BY <1>1, <2>1 DEF r
<1>6. CASE status = "kDeadlineExceeded" /\ data = FALSE /\ completion >= deadline
  <2>1. completion \in Larger(begun, deadline)..latest
    BY <1>2, <1>3, <1>6 DEF Larger
  <2>2. r \in expired
    BY <1>6, <2>1 DEF ReadResult
  <2> HIDE DEF r, inTime, late, expired, failed, gone
  <2> QED BY <1>1, <2>2 DEF r
<1>7. CASE /\ status = "kDeadlineExceeded" /\ data = TRUE
           /\ begun < deadline /\ completion > deadline
  <2>1. completion \in (deadline + 1)..latest
    BY <1>2, <1>3, <1>7
  <2>2. r \in late
    BY <1>7, <2>1 DEF ReadResult
  <2> HIDE DEF r, inTime, late, expired, failed, gone
  <2> QED BY <1>1, <1>7, <2>2 DEF r
<1>8. CASE /\ status = "kOk" /\ data = TRUE
           /\ begun < deadline /\ completion <= deadline
  <2>1. completion \in begun..deadline
    BY <1>3, <1>8
  <2>2. r \in inTime
    BY <1>8, <2>1 DEF ReadResult
  <2> HIDE DEF r, inTime, late, expired, failed, gone
  <2> QED BY <1>1, <1>8, <2>2 DEF r
<1> QED BY <1>5, <1>6, <1>7, <1>8

-----------------------------------------------------------------------------
(* Opening and closing *)

LEMMA Shape ==
  TypeOK <=> /\ clock \in Time /\ line \in Line /\ kernel \in Kernel
             /\ call \in Call /\ result \in Result
BY DEF TypeOK, Line, Kernel, Call, Result

LEMMA ClosedFields ==
  ASSUME NEW l \in Line, NEW k \in Kernel, Released(l, k)
  PROVE  /\ ClosedLine(l) \in Line /\ ~ClosedLine(l).held
         /\ ClosedLine(l).access = l.access
         /\ ClosedKernel(l, k) \in Kernel /\ ClosedKernel(l, k).sent = k.sent
         /\ Released(ClosedLine(l), ClosedKernel(l, k))
<1> DEFINE c == ClosedLine(l)
<1>1. c \in Line /\ c.held = FALSE /\ c.connected = FALSE /\ c.access = l.access
  BY DEF ClosedLine, Line
<1>2. CASE l.held
  <2> DEFINE f == [k EXCEPT !.exclusive = FALSE]
             d == ReleaseExclusiveAndClose(k)
  <2>1. f \in Kernel /\ f.exclusive = FALSE /\ f.descriptors = 1 /\ f.sent = k.sent
    BY <1>2 DEF Released, Kernel
  <2>2. d = [f EXCEPT !.descriptors = f.descriptors - 1]
    BY DEF ReleaseExclusiveAndClose, CloseDescriptor
  <2> HIDE DEF f, d
  <2>3. d \in Kernel /\ d.exclusive = FALSE /\ d.descriptors = 0 /\ d.sent = k.sent
    BY <2>1, <2>2 DEF Kernel
  <2>4. ClosedKernel(l, k) = d
    BY <1>2 DEF ClosedKernel, d
  <2> HIDE DEF c
  <2> QED BY <1>1, <2>3, <2>4 DEF Released, c
<1>3. CASE ~l.held
  <2>1. ClosedKernel(l, k) = k
    BY <1>3 DEF ClosedKernel
  <2>2. k.descriptors = 0 /\ k.exclusive = FALSE
    BY <1>3 DEF Released, Line, Kernel
  <2> HIDE DEF c
  <2> QED BY <1>1, <2>1, <2>2 DEF Released, c
<1> QED BY <1>2, <1>3

\* Whichever way openNewGeneration() ends, nothing is left behind.
LEMMA OpeningReleases ==
  ASSUME NEW l \in Line, NEW k \in Kernel, Released(l, k), ~l.held, OpenNewGeneration(l, k)
  PROVE  /\ line' \in Line /\ kernel' \in Kernel
         /\ line'.access = l.access /\ kernel'.sent = k.sent
         /\ Released(line', kernel')
<1>1. /\ k.descriptors = 0 /\ k.exclusive = FALSE
      /\ l.held = FALSE /\ l.connected = FALSE
  BY DEF Released, Line, Kernel
<1> DEFINE o == OpenDescriptor(k)
           x == SetExclusive(o)
<1>2. o \in Kernel /\ o.descriptors = 1 /\ o.exclusive = FALSE /\ o.sent = k.sent
  BY <1>1 DEF OpenDescriptor, Kernel
<1>3. x \in Kernel /\ x.descriptors = 1 /\ x.exclusive = TRUE /\ x.sent = k.sent
  <2> HIDE DEF o
  <2> QED BY <1>2 DEF SetExclusive, Kernel
<1>4. CASE OpenRefused(l, k)
  BY <1>4 DEF OpenRefused
<1>5. CASE NotUsable(l, k)
  <2>1. line' = l /\ kernel' = CloseDescriptor(o)
    BY <1>5 DEF NotUsable
  <2> HIDE DEF o
  <2>2. /\ kernel' \in Kernel /\ kernel'.descriptors = 0 /\ kernel'.exclusive = FALSE
        /\ kernel'.sent = k.sent
    BY <1>2, <2>1 DEF CloseDescriptor, Kernel
  <2> QED BY <1>1, <2>1, <2>2 DEF Released
<1>6. CASE SettingsRefused(l, k)
  <2>1. line' = l /\ kernel' = ReleaseExclusiveAndClose(x)
    BY <1>6 DEF SettingsRefused
  <2> HIDE DEF o, x
  <2> DEFINE f == [x EXCEPT !.exclusive = FALSE]
  <2>2. f \in Kernel /\ f.exclusive = FALSE /\ f.descriptors = 1 /\ f.sent = k.sent
    BY <1>3 DEF Kernel
  <2>3. kernel' = [f EXCEPT !.descriptors = f.descriptors - 1]
    BY <2>1 DEF ReleaseExclusiveAndClose, CloseDescriptor
  <2> HIDE DEF f
  <2>4. /\ kernel' \in Kernel /\ kernel'.descriptors = 0 /\ kernel'.exclusive = FALSE
        /\ kernel'.sent = k.sent
    BY <2>2, <2>3 DEF Kernel
  <2> QED BY <1>1, <2>1, <2>4 DEF Released
<1>7. CASE Opened(l, k)
  <2>1. /\ line' = [l EXCEPT !.held = TRUE, !.connected = TRUE, !.generation = l.generation + 1]
        /\ kernel' = x /\ l.generation < MaxGeneration
    BY <1>7 DEF Opened, Openable
  <2>2. l.generation + 1 \in 0..MaxGeneration
    BY <2>1, SizesAssumption DEF Line
  <2> HIDE DEF o, x
  <2>3. line' \in Line /\ line'.held = TRUE /\ line'.connected = TRUE /\ line'.access = l.access
    BY <2>1, <2>2 DEF Line
  <2> QED BY <1>3, <2>1, <2>3 DEF Released
<1> QED BY <1>4, <1>5, <1>6, <1>7 DEF OpenNewGeneration

\* Between two calls only the line and the descriptors change.
LEMMA IdleKeeps ==
  ASSUME LInv, call.op = "idle", UNCHANGED <<clock, call, result>>,
         line' \in Line, kernel' \in Kernel, Released(line', kernel'),
         line'.access = line.access, kernel'.sent = kernel.sent
  PROVE  LInv'
<1>1. call' = call /\ result' = result /\ clock' = clock
  OBVIOUS
<1>2. TypeOK'
  BY <1>1 DEF LInv, TypeOK, Line, Kernel
<1>3. DescriptorsAreReleased'
  BY DEF Released, DescriptorsAreReleased
<1>4. InProgress'
  BY <1>1 DEF LInv, InProgress
<1>5. CleanOutcomeIsClean'
  BY <1>1 DEF LInv, CleanOutcomeIsClean
<1>6. WriteMeetsContract' /\ ReadMeetsContract'
  BY <1>1 DEF LInv, WriteMeetsContract, ReadMeetsContract
<1> QED BY <1>2, <1>3, <1>4, <1>5, <1>6 DEF LInv

LEMMA ConnectionKeeps ==
  ASSUME LInv, Open \/ Reopen \/ Close
  PROVE  LInv'
<1>1. line \in Line /\ kernel \in Kernel /\ Released(line, kernel)
  BY Shape DEF LInv, Released, DescriptorsAreReleased
<1>2. call.op = "idle" /\ UNCHANGED <<clock, call, result>>
  BY DEF Open, Reopen, Close
<1>3. CASE Open
  <2>1. ~line.held /\ OpenNewGeneration(line, kernel)
    BY <1>1, <1>3 DEF Open, Released
  <2> QED BY <1>1, <1>2, <2>1, OpeningReleases, IdleKeeps
<1>4. CASE Reopen
  <2> DEFINE l == ClosedLine(line)
             k == ClosedKernel(line, kernel)
  <2>1. /\ l \in Line /\ ~l.held /\ l.access = line.access
        /\ k \in Kernel /\ k.sent = kernel.sent /\ Released(l, k)
    BY <1>1, ClosedFields
  <2>2. OpenNewGeneration(l, k)
    BY <1>4 DEF Reopen
  <2> HIDE DEF l, k
  <2> QED BY <1>2, <2>1, <2>2, OpeningReleases, IdleKeeps
<1>5. CASE Close
  BY <1>1, <1>2, <1>5, ClosedFields, IdleKeeps DEF Close
<1> QED BY <1>3, <1>4, <1>5

-----------------------------------------------------------------------------
(* Returning from a call *)

LEMMA IdleFields ==
  /\ Idle \in Call /\ Idle.op = "idle" /\ Idle.pc = "done"
BY ClockFacts DEF Idle, Call

\* The result of the call c, once it is answered.
LEMMA AnswerFields ==
  ASSUME NEW c \in Call, c.op # "idle", NEW status \in Status, NEW bytes \in Nat,
         NEW complete \in BOOLEAN, NEW uncertain \in BOOLEAN, NEW completion \in Time
  PROVE  LET a == Answer(c, status, bytes, complete, uncertain, completion) IN
         /\ a \in Result /\ a.op = c.op /\ a.status = status /\ a.bytes = bytes
         /\ a.complete = complete /\ a.uncertain = uncertain
         /\ a.completion = completion /\ a.begun = c.begun /\ a.deadline = c.deadline
BY DEF Answer, Call, Result

\* What an answer to the call c has to say for the next call to find the
\* transport as the contract has it; sent is what the kernel has accepted.
Honest(c, sent, status, bytes, complete, uncertain, completion) ==
  /\ c.begun <= completion
  /\ c.op = "write" =>
       /\ bytes = sent /\ complete = (sent = FrameSize)
       /\ ~uncertain => sent = 0 \/ status = "kOk"
       /\ \/ status \in {"kIoError", "kDisconnected"} /\ complete = FALSE
          \/ status = "kDeadlineExceeded" /\ complete = FALSE /\ completion >= c.deadline
          \/ /\ status = "kDeadlineExceeded" /\ complete = TRUE
             /\ c.begun < c.deadline /\ completion > c.deadline
          \/ /\ status = "kOk" /\ complete = TRUE
             /\ c.begun < c.deadline /\ completion <= c.deadline
  /\ c.op = "read" =>
       /\ bytes <= Capacity
       /\ \/ status \in {"kIoError", "kDisconnected"} /\ bytes = 0
          \/ status = "kDeadlineExceeded" /\ bytes = 0 /\ completion >= c.deadline
          \/ /\ status = "kDeadlineExceeded" /\ bytes > 0
             /\ c.begun < c.deadline /\ completion > c.deadline
          \/ /\ status = "kOk" /\ bytes > 0
             /\ c.begun < c.deadline /\ completion <= c.deadline

LEMMA AnswerKeeps ==
  ASSUME LInv, NEW c \in Call, c.op # "idle",
         c.op = "write" => line.access = "kReadWrite",
         NEW status \in Status, NEW bytes \in Nat,
         NEW complete \in BOOLEAN, NEW uncertain \in BOOLEAN, NEW completion \in Time,
         Honest(c, kernel'.sent, status, bytes, complete, uncertain, completion),
         result' = Answer(c, status, bytes, complete, uncertain, completion),
         call' \in Call, call'.op = "idle", call'.pc = "done",
         clock' = clock, line' \in Line, kernel' \in Kernel,
         Released(line', kernel'), line'.access = line.access
  PROVE  LInv'
<1> DEFINE a == Answer(c, status, bytes, complete, uncertain, completion)
<1>1. /\ a \in Result /\ a.op = c.op /\ a.status = status /\ a.bytes = bytes
      /\ a.complete = complete /\ a.uncertain = uncertain
      /\ a.completion = completion /\ a.begun = c.begun /\ a.deadline = c.deadline
  BY AnswerFields
<1>2. result' = a
  OBVIOUS
<1>3. c.op \in {"write", "read"} /\ c.begun \in Time /\ c.deadline \in Time
  BY DEF Call
<1> HIDE DEF a
<1>4. TypeOK'
  <2>1. clock \in Time
    BY DEF LInv, TypeOK
  <2> QED BY <1>1, <1>2, <2>1 DEF TypeOK, Line, Kernel, Call, Result
<1>5. DescriptorsAreReleased'
  BY DEF Released, DescriptorsAreReleased
<1>6. InProgress'
  BY DEF InProgress
<1>7. CleanOutcomeIsClean'
  BY <1>1, <1>2 DEF CleanOutcomeIsClean, Honest
<1>8. WriteMeetsContract'
  <2> SUFFICES ASSUME c.op = "write"
               PROVE  [status |-> status, complete |-> complete, completion |-> completion]
                        \in WriteResults("kReadWrite", c.begun, c.deadline)
    BY <1>1, <1>2 DEF WriteMeetsContract
  <2> QED BY <1>3, WriteContract DEF Honest
<1>9. ReadMeetsContract'
  <2> SUFFICES ASSUME c.op = "read"
               PROVE  /\ [status |-> status, data |-> bytes > 0, completion |-> completion]
                           \in ReadResults(c.begun, c.deadline)
                      /\ bytes <= Capacity
    BY <1>1, <1>2 DEF ReadMeetsContract
  <2>1. bytes = 0 => (bytes > 0) = FALSE
    OBVIOUS
  <2>2. bytes > 0 => (bytes > 0) = TRUE
    OBVIOUS
  <2> QED BY <1>3, <2>1, <2>2, ReadContract DEF Honest
<1> QED BY <1>4, <1>5, <1>6, <1>7, <1>8, <1>9 DEF LInv

\* A call in progress that returns, and closes the transport if it is gone.
LEMMA ReturnKeeps ==
  ASSUME LInv, call.op # "idle",
         NEW status \in Status, NEW bytes \in Nat, NEW complete \in BOOLEAN,
         NEW uncertain \in BOOLEAN, NEW completion \in Time,
         Honest(call, kernel.sent, status, bytes, complete, uncertain, completion),
         Return(status, bytes, complete, uncertain, completion)
  PROVE  LInv'
<1>1. line \in Line /\ kernel \in Kernel /\ call \in Call /\ Released(line, kernel)
  BY Shape DEF LInv, Released, DescriptorsAreReleased
<1>2. /\ line' \in Line /\ kernel' \in Kernel /\ Released(line', kernel')
      /\ line'.access = line.access /\ kernel'.sent = kernel.sent
  <2>1. CASE status = "kDisconnected"
    BY <1>1, <2>1, ClosedFields DEF Return
  <2>2. CASE status # "kDisconnected"
    BY <1>1, <2>2 DEF Return
  <2> QED BY <2>1, <2>2
<1>3. /\ result' = Answer(call, status, bytes, complete, uncertain, completion)
      /\ call' = Idle /\ clock' = clock
  BY DEF Return
<1>4. call.op = "write" => line.access = "kReadWrite"
  BY DEF LInv, InProgress
<1> QED BY <1>1, <1>2, <1>3, <1>4, IdleFields, AnswerKeeps

LEMMA CallParts ==
  ASSUME LInv
  PROVE  /\ clock \in Time /\ line \in Line /\ kernel \in Kernel
         /\ call \in Call /\ result \in Result /\ Released(line, kernel)
         /\ call.begun \in Time /\ call.deadline \in Time /\ call.before \in Time
         /\ call.transferred \in Nat /\ call.op \in {"idle", "write", "read"}
         /\ clock \in Int /\ call.begun \in Int /\ call.deadline \in Int /\ call.before \in Int
<1>1. /\ clock \in Time /\ line \in Line /\ kernel \in Kernel
      /\ call \in Call /\ result \in Result
  BY Shape DEF LInv
<1>2. /\ call.begun \in Time /\ call.deadline \in Time /\ call.before \in Time
      /\ call.transferred \in Nat /\ call.op \in {"idle", "write", "read"}
  BY <1>1, SizesAssumption DEF Call
<1> QED BY <1>1, <1>2, ClockFacts DEF LInv, Released, DescriptorsAreReleased

\* What interrupts a call: an error, or the deadline once it has passed.
LEMMA FailKeeps ==
  ASSUME LInv, call.op # "idle", NEW status, Fail(status, clock),
         \/ status \in {"kIoError", "kDisconnected"}
         \/ status = "kDeadlineExceeded" /\ clock >= call.deadline
  PROVE  LInv'
<1>1. Return(status, call.transferred, FALSE, Torn(status), clock)
  BY DEF Fail
<1>2. status \in Status /\ Torn(status) \in BOOLEAN
  BY DEF Status, Torn
<1>3. call.begun <= clock
  BY DEF LInv, InProgress
<1>4. CASE call.op = "write"
  <2>1. call.transferred = kernel.sent /\ call.transferred < FrameSize
    BY <1>4 DEF LInv, InProgress
  <2>2. (kernel.sent = FrameSize) = FALSE
    BY <2>1, CallParts, SizesAssumption
  <2>3. ~Torn(status) => kernel.sent = 0
    BY <1>4, <2>1 DEF Torn
  <2>4. Honest(call, kernel.sent, status, call.transferred, FALSE, Torn(status), clock)
    BY <1>3, <1>4, <2>1, <2>2, <2>3 DEF Honest
  <2> QED BY <1>1, <1>2, <2>4, CallParts, ReturnKeeps
<1>5. CASE call.op = "read"
  <2>1. call.transferred = 0
    BY <1>5 DEF LInv, InProgress
  <2>2. Honest(call, kernel.sent, status, call.transferred, FALSE, Torn(status), clock)
    BY <1>3, <1>5, <2>1, SizesAssumption DEF Honest
  <2> QED BY <1>1, <1>2, <2>2, CallParts, ReturnKeeps
<1> QED BY <1>4, <1>5, CallParts

\* A call that goes on, to `pc'.
LEMMA GoesOn ==
  ASSUME LInv, call.op # "idle", NEW pc \in {"check", "transfer", "poll_check", "poll"},
         NEW before \in Time,
         pc \in {"transfer", "poll"} =>
           before = clock /\ clock < call.deadline,
         call' = [call EXCEPT !.pc = pc, !.before = before],
         UNCHANGED <<clock, line, kernel, result>>
  PROVE  LInv'
<1>1. /\ call' \in Call /\ call'.pc = pc /\ call'.before = before /\ call'.op = call.op
      /\ call'.begun = call.begun /\ call'.deadline = call.deadline
      /\ call'.transferred = call.transferred
  BY CallParts DEF Call
<1>2. clock' = clock /\ line' = line /\ kernel' = kernel /\ result' = result
  OBVIOUS
<1>3. TypeOK'
  BY <1>1, <1>2, CallParts DEF TypeOK, Line, Kernel, Call, Result
<1>4. InProgress'
  BY <1>1, <1>2, CallParts DEF LInv, InProgress
<1>5. CleanOutcomeIsClean'
  BY <1>1 DEF CleanOutcomeIsClean
<1>6. DescriptorsAreReleased' /\ WriteMeetsContract' /\ ReadMeetsContract'
  BY <1>2 DEF LInv, DescriptorsAreReleased, WriteMeetsContract, ReadMeetsContract
<1> QED BY <1>3, <1>4, <1>5, <1>6 DEF LInv

LEMMA GotoKeeps ==
  ASSUME LInv, call.op # "idle", NEW pc \in {"check", "poll_check"}, Goto(pc)
  PROVE  LInv'
<1>1. call' = [call EXCEPT !.pc = pc, !.before = call.before]
  BY CallParts DEF Goto, Call
<1> QED BY <1>1, CallParts, GoesOn DEF Goto

-----------------------------------------------------------------------------
(* Beginning a call *)

LEMMA BeginFields ==
  ASSUME clock \in Time, NEW op \in {"write", "read"}, NEW deadline \in Time
  PROVE  LET c == Begin(op, deadline) IN
         /\ c \in Call /\ c.op = op /\ c.pc = "check" /\ c.begun = clock
         /\ c.deadline = deadline /\ c.transferred = 0
BY ClockFacts DEF Begin, Idle, Call

\* The kernel has accepted nothing of the frame of a new write.
LEMMA FreshKernel ==
  ASSUME LInv, kernel' = [kernel EXCEPT !.sent = 0], line' = line
  PROVE  /\ kernel' \in Kernel /\ kernel'.sent = 0 /\ Released(line', kernel')
BY CallParts, ClockFacts DEF Kernel, Released

\* A transport opened to receive only refuses every write.
LEMMA RefusalKeeps ==
  ASSUME LInv, NEW deadline \in Time, WriteAll(deadline), line.access # "kReadWrite"
  PROVE  LInv'
<1> DEFINE c == Begin("write", deadline)
           a == Answer(c, "kWriteDisabled", 0, FALSE, FALSE, 0)
<1>1. result' = a /\ call' = call /\ clock' = clock /\ line' = line /\ call.op = "idle"
  BY DEF WriteAll
<1>2. c \in Call /\ c.op = "write" /\ c.begun = clock /\ c.deadline = deadline
  BY CallParts, BeginFields
<1>3. kernel' \in Kernel /\ kernel'.sent = 0 /\ Released(line', kernel')
  BY <1>1, FreshKernel DEF WriteAll
<1> HIDE DEF c
<1>4. /\ a \in Result /\ a.op = "write" /\ a.status = "kWriteDisabled" /\ a.bytes = 0
      /\ a.complete = FALSE /\ a.uncertain = FALSE /\ a.completion = 0
  <2>1. "kWriteDisabled" \in Status /\ 0 \in Nat /\ FALSE \in BOOLEAN /\ 0 \in Time
    BY ClockFacts DEF Status
  <2>2. c \in Call /\ c.op # "idle"
    BY <1>2
  <2>3. a.op = c.op /\ a.status = "kWriteDisabled" /\ a.bytes = 0
    BY DEF Answer
  <2>4. a.complete = FALSE /\ a.uncertain = FALSE /\ a.completion = 0
    BY DEF Answer
  <2>5. a \in Result
    BY <2>1, <2>2 DEF Answer, Call, Result
  <2> HIDE DEF a
  <2> QED BY <1>2, <2>3, <2>4, <2>5
<1> HIDE DEF a
<1>5. TypeOK'
  <2>1. clock' \in Time /\ line' \in Line /\ call' \in Call /\ result' \in Result
    BY <1>1, <1>4, CallParts
  <2> QED BY <1>3, <2>1 DEF TypeOK, Line, Kernel, Call, Result
<1>6. InProgress'
  BY <1>1 DEF LInv, InProgress
<1>7. CleanOutcomeIsClean'
  <2>1. (kernel'.sent = FrameSize) = FALSE
    BY <1>3, SizesAssumption
  <2> QED BY <1>1, <1>3, <1>4, <2>1 DEF CleanOutcomeIsClean
<1>8. WriteMeetsContract'
  <2>1. WriteResults(line.access, a.begun, a.deadline) =
          {[status |-> "kWriteDisabled", complete |-> FALSE, completion |-> t]: t \in {0}}
    BY DEF WriteResults, WriteResult
  <2>2. [status |-> a.status, complete |-> a.complete, completion |-> a.completion]
          \in WriteResults(line.access, a.begun, a.deadline)
    BY <1>4, <2>1
  <2> QED BY <1>1, <2>2 DEF WriteMeetsContract
<1>9. ReadMeetsContract' /\ DescriptorsAreReleased'
  BY <1>1, <1>3, <1>4 DEF ReadMeetsContract, DescriptorsAreReleased, Released
<1> QED BY <1>5, <1>6, <1>7, <1>8, <1>9 DEF LInv

\* A call that starts has sent nothing and has all of its deadline left.
LEMMA StartKeeps ==
  ASSUME LInv, call.op = "idle", NEW op \in {"write", "read"}, NEW deadline \in Time,
         WithinReach(deadline), op = "write" => line.access = "kReadWrite",
         call' = Begin(op, deadline), clock' = clock, line' = line, result' = result,
         kernel' \in Kernel, Released(line, kernel'), op = "write" => kernel'.sent = 0
  PROVE  LInv'
<1>1. /\ call' \in Call /\ call'.op = op /\ call'.pc = "check" /\ call'.begun = clock
      /\ call'.deadline = deadline /\ call'.transferred = 0
  BY CallParts, BeginFields
<1>2. TypeOK'
  BY <1>1, CallParts DEF TypeOK, Line, Kernel, Call, Result
<1>3. InProgress'
  <2>1. 0 < FrameSize /\ clock \in Int
    BY SizesAssumption, CallParts
  <2> QED BY <1>1, <2>1 DEF InProgress, WithinReach
<1>4. CleanOutcomeIsClean'
  BY <1>1 DEF CleanOutcomeIsClean
<1>5. DescriptorsAreReleased' /\ WriteMeetsContract' /\ ReadMeetsContract'
  BY DEF LInv, Released, DescriptorsAreReleased, WriteMeetsContract, ReadMeetsContract
<1> QED BY <1>2, <1>3, <1>4, <1>5 DEF LInv

LEMMA WriteAllKeeps ==
  ASSUME LInv, NEW deadline \in Time, WithinReach(deadline), WriteAll(deadline)
  PROVE  LInv'
<1> DEFINE c == Begin("write", deadline)
<1>1. /\ call.op = "idle" /\ call.pc = "done" /\ line' = line /\ clock' = clock
      /\ kernel' \in Kernel /\ kernel'.sent = 0 /\ Released(line', kernel')
  BY FreshKernel DEF WriteAll, LInv, InProgress
<1>2. CASE line.access # "kReadWrite"
  BY <1>2, RefusalKeeps
<1>3. CASE line.access = "kReadWrite" /\ ~(line.connected /\ line.held)
  <2>1. result' = Answer(c, "kDisconnected", 0, FALSE, TRUE, clock) /\ call' = call
    BY <1>3 DEF WriteAll
  <2>2. c \in Call /\ c.op = "write" /\ c.begun = clock
    BY CallParts, BeginFields
  <2> HIDE DEF c
  <2>3. Honest(c, kernel'.sent, "kDisconnected", 0, FALSE, TRUE, clock)
    <3>1. (kernel'.sent = FrameSize) = FALSE /\ clock \in Int
      BY <1>1, SizesAssumption, CallParts
    <3> QED BY <1>1, <2>2, <3>1 DEF Honest
  <2>4. "kDisconnected" \in Status /\ 0 \in Nat
    BY DEF Status
  <2> QED BY <1>1, <1>3, <2>1, <2>2, <2>3, <2>4, CallParts, AnswerKeeps
<1>4. CASE line.access = "kReadWrite" /\ line.connected /\ line.held
  <2>1. call' = c /\ result' = result
    BY <1>4 DEF WriteAll
  <2> QED BY <1>1, <1>4, <2>1, StartKeeps
<1> QED BY <1>2, <1>3, <1>4

LEMMA ReadSomeKeeps ==
  ASSUME LInv, NEW deadline \in Time, WithinReach(deadline), ReadSome(deadline)
  PROVE  LInv'
<1> DEFINE c == Begin("read", deadline)
<1>1. /\ call.op = "idle" /\ call.pc = "done" /\ line' = line /\ clock' = clock
      /\ kernel' = kernel
  BY DEF ReadSome, LInv, InProgress
<1>2. CASE ~(line.connected /\ line.held)
  <2>1. result' = Answer(c, "kDisconnected", 0, FALSE, FALSE, clock) /\ call' = call
    BY <1>2 DEF ReadSome
  <2>2. c \in Call /\ c.op = "read" /\ c.begun = clock
    BY CallParts, BeginFields
  <2> HIDE DEF c
  <2>3. Honest(c, kernel'.sent, "kDisconnected", 0, FALSE, FALSE, clock)
    BY <2>2, CallParts, SizesAssumption DEF Honest
  <2>4. "kDisconnected" \in Status /\ 0 \in Nat
    BY DEF Status
  <2> QED BY <1>1, <2>1, <2>2, <2>3, <2>4, CallParts, AnswerKeeps
<1>3. CASE line.connected /\ line.held
  <2>1. call' = c /\ result' = result
    BY <1>3 DEF ReadSome
  <2> QED BY <1>1, <2>1, CallParts, StartKeeps
<1> QED BY <1>2, <1>3

-----------------------------------------------------------------------------
(* The steps of a call *)

LEMMA InTransit ==
  ASSUME LInv, call.pc # "done"
  PROVE  /\ call.op # "idle" /\ call.begun <= clock
         /\ call.deadline <= call.begun + Millisecond * IntMax
BY DEF LInv, InProgress

LEMMA CheckDeadlineKeeps ==
  ASSUME LInv, CheckDeadline
  PROVE  LInv'
<1>1. call.op # "idle"
  BY InTransit DEF CheckDeadline
<1>2. CASE clock >= call.deadline /\ Fail("kDeadlineExceeded", clock)
  BY <1>1, <1>2, FailKeeps
<1>3. CASE /\ clock < call.deadline
           /\ call' = [call EXCEPT !.pc = "transfer", !.before = clock]
           /\ UNCHANGED <<clock, line, kernel, result>>
  BY <1>1, <1>3, CallParts, GoesOn
<1> QED BY <1>2, <1>3 DEF CheckDeadline

\* A write(2) that took bytes: the frame is complete, in time or late; or the
\* deadline has passed with part of it sent; or the loop goes round again.
LEMMA WriteProgressKeeps ==
  ASSUME LInv, NEW n \in 1..FrameSize, WriteProgress(n)
  PROVE  LInv'
<1> DEFINE total == call.transferred + n
           late == clock > call.deadline
<1>1. /\ call.op = "write" /\ call.pc = "transfer" /\ total <= FrameSize
      /\ kernel' = [kernel EXCEPT !.sent = total] /\ clock' = clock /\ line' = line
  BY DEF WriteProgress
<1>2. total \in Nat /\ total > 0 /\ total \in 0..FrameSize /\ late \in BOOLEAN
  BY <1>1, CallParts, SizesAssumption
<1>3. /\ result' = IF total = FrameSize
                   THEN Answer(call, IF late THEN "kDeadlineExceeded" ELSE "kOk",
                               total, TRUE, late, clock)
                   ELSE IF clock >= call.deadline
                   THEN Answer(call, "kDeadlineExceeded", total, FALSE, TRUE, clock)
                   ELSE result
      /\ call' = IF total = FrameSize \/ clock >= call.deadline THEN Idle
                 ELSE [call EXCEPT !.pc = "check", !.transferred = total]
  BY DEF WriteProgress
<1> HIDE DEF total
<1>4. /\ kernel' \in Kernel /\ kernel'.sent = total /\ Released(line', kernel')
      /\ line' \in Line /\ line'.access = line.access
  BY <1>1, <1>2, CallParts DEF Kernel, Released
<1>5. /\ call.begun <= call.before /\ call.before < call.deadline
      /\ line.access = "kReadWrite" /\ call.begun <= clock
      /\ call.deadline <= call.begun + Millisecond * IntMax
  BY <1>1 DEF LInv, InProgress
<1>6. call.begun < call.deadline
  BY <1>5, CallParts
<1>7. CASE total = FrameSize
  <2> DEFINE status == IF late THEN "kDeadlineExceeded" ELSE "kOk"
  <2>1. result' = Answer(call, status, total, TRUE, late, clock) /\ call' = Idle
    BY <1>3, <1>7
  <2>2. status \in Status /\ TRUE \in BOOLEAN
    BY DEF Status
  <2>3. Honest(call, kernel'.sent, status, total, TRUE, late, clock)
    <3>1. (kernel'.sent = FrameSize) = TRUE
      BY <1>4, <1>7
    <3>2. late => status = "kDeadlineExceeded" /\ clock > call.deadline
      OBVIOUS
    <3>3. ~late => status = "kOk" /\ clock <= call.deadline
      BY CallParts
    <3> HIDE DEF late, status
    <3> QED BY <1>1, <1>4, <1>5, <1>6, <1>7, <3>1, <3>2, <3>3 DEF Honest
  <2> HIDE DEF late, status
  <2> QED BY <1>1, <1>2, <1>4, <1>5, <2>1, <2>2, <2>3, CallParts, IdleFields, AnswerKeeps
<1>8. CASE total # FrameSize /\ clock >= call.deadline
  <2>1. result' = Answer(call, "kDeadlineExceeded", total, FALSE, TRUE, clock) /\ call' = Idle
    BY <1>3, <1>8
  <2>2. "kDeadlineExceeded" \in Status
    BY DEF Status
  <2>3. Honest(call, kernel'.sent, "kDeadlineExceeded", total, FALSE, TRUE, clock)
    <3>1. (kernel'.sent = FrameSize) = FALSE
      BY <1>4, <1>8
    <3> QED BY <1>1, <1>4, <1>5, <1>8, <3>1 DEF Honest
  <2> QED BY <1>1, <1>2, <1>4, <1>5, <2>1, <2>2, <2>3, CallParts, IdleFields, AnswerKeeps
<1>9. CASE total # FrameSize /\ ~(clock >= call.deadline)
  <2>1. result' = result /\ call' = [call EXCEPT !.pc = "check", !.transferred = total]
    BY <1>3, <1>9
  <2>2. /\ call' \in Call /\ call'.op = "write" /\ call'.pc = "check"
        /\ call'.transferred = total /\ call'.begun = call.begun
        /\ call'.deadline = call.deadline
    BY <1>1, <1>2, <2>1, CallParts DEF Call
  <2>3. TypeOK'
    BY <1>1, <1>4, <2>1, <2>2, CallParts DEF TypeOK, Line, Kernel, Call, Result
  <2>4. InProgress'
    <3>1. total < FrameSize
      BY <1>1, <1>2, <1>9, SizesAssumption
    <3> QED BY <1>1, <1>4, <1>5, <2>2, <3>1 DEF InProgress
  <2>5. CleanOutcomeIsClean'
    BY <2>2 DEF CleanOutcomeIsClean
  <2>6. DescriptorsAreReleased'
    BY <1>4 DEF DescriptorsAreReleased, Released
  <2>7. WriteMeetsContract' /\ ReadMeetsContract'
    BY <1>1, <2>1 DEF LInv, WriteMeetsContract, ReadMeetsContract
  <2> QED BY <2>3, <2>4, <2>5, <2>6, <2>7 DEF LInv
<1> QED BY <1>7, <1>8, <1>9

LEMMA WriteFailsKeeps ==
  ASSUME LInv, WriteFails
  PROVE  LInv'
<1>1. /\ call.op = "write" /\ call.transferred = kernel.sent /\ call.transferred < FrameSize
      /\ call.begun <= call.before /\ call.begun <= clock
  BY DEF WriteFails, LInv, InProgress
<1>2. (kernel.sent = FrameSize) = FALSE
  BY <1>1, CallParts, SizesAssumption
<1>3. "kIoError" \in Status /\ "kDisconnected" \in Status
  BY DEF Status
<1>4. CASE Return("kIoError", call.transferred, FALSE, call.transferred # 0, call.before)
  <2> DEFINE some == call.transferred # 0
  <2>1. some \in BOOLEAN /\ (~some => kernel.sent = 0)
    BY <1>1
  <2>2. Return("kIoError", call.transferred, FALSE, some, call.before)
    BY <1>4
  <2> HIDE DEF some
  <2>3. Honest(call, kernel.sent, "kIoError", call.transferred, FALSE, some, call.before)
    BY <1>1, <1>2, <2>1 DEF Honest
  <2> QED BY <1>1, <1>3, <2>1, <2>2, <2>3, CallParts, ReturnKeeps
<1>5. CASE Return("kDisconnected", call.transferred, FALSE, TRUE, clock)
  <2>1. Honest(call, kernel.sent, "kDisconnected", call.transferred, FALSE, TRUE, clock)
    BY <1>1, <1>2 DEF Honest
  <2> QED BY <1>1, <1>3, <1>5, <2>1, CallParts, ReturnKeeps
<1>6. CASE \E status \in {"kDisconnected", "kIoError"}: Fail(status, clock)
  BY <1>1, <1>6, FailKeeps
<1> QED BY <1>4, <1>5, <1>6 DEF WriteFails

LEMMA ReadDataKeeps ==
  ASSUME LInv, NEW n \in 1..Capacity, ReadData(n)
  PROVE  LInv'
<1> DEFINE status == IF clock > call.deadline THEN "kDeadlineExceeded" ELSE "kOk"
<1>1. /\ call.op = "read" /\ Return(status, n, FALSE, FALSE, clock)
      /\ call.begun <= call.before /\ call.before < call.deadline /\ call.begun <= clock
  BY DEF ReadData, LInv, InProgress
<1>2. status \in Status /\ n \in Nat /\ n > 0 /\ n <= Capacity
  BY SizesAssumption DEF Status
<1>3. \/ status = "kDeadlineExceeded" /\ clock > call.deadline
      \/ status = "kOk" /\ clock <= call.deadline
  BY CallParts
<1>4. call.begun < call.deadline
  BY <1>1, CallParts
<1> HIDE DEF status
<1>5. Honest(call, kernel.sent, status, n, FALSE, FALSE, clock)
  BY <1>1, <1>2, <1>3, <1>4 DEF Honest
<1> QED BY <1>1, <1>2, <1>5, CallParts, ReturnKeeps

\* An error of read(2) or of poll(2), a hangup.
LEMMA ErrorKeeps ==
  ASSUME LInv, ReadFails \/ PollFails
  PROVE  LInv'
<1>1. call.op # "idle"
  BY InTransit DEF ReadFails, PollFails
<1>2. PICK status \in {"kDisconnected", "kIoError"}: Fail(status, clock)
  BY DEF ReadFails, PollFails
<1> QED BY <1>1, <1>2, FailKeeps

\* An interrupted call, one that would block and a spurious wake-up go round.
LEMMA RetryKeeps ==
  ASSUME LInv, Interrupted \/ WouldBlock \/ PollAgain
  PROVE  LInv'
<1>1. call.op # "idle"
  BY InTransit DEF Interrupted, WouldBlock, PollAgain
<1>2. \E pc \in {"check", "poll_check"}: Goto(pc)
  BY DEF Interrupted, WouldBlock, PollAgain
<1> QED BY <1>1, <1>2, GotoKeeps

LEMMA PollCheckKeeps ==
  ASSUME LInv, PollCheck
  PROVE  LInv'
<1>1. call.op # "idle"
  BY InTransit DEF PollCheck
<1>2. CASE clock >= call.deadline /\ Fail("kDeadlineExceeded", clock)
  BY <1>1, <1>2, FailKeeps
<1>3. CASE /\ clock < call.deadline
           /\ call' = [call EXCEPT !.pc = "poll", !.before = clock]
           /\ UNCHANGED <<clock, line, kernel, result>>
  BY <1>1, <1>3, CallParts, GoesOn
<1> QED BY <1>2, <1>3 DEF PollCheck

LEMMA PollReadyKeeps ==
  ASSUME LInv, PollReady
  PROVE  LInv'
<1>1. call.op # "idle"
  BY InTransit DEF PollReady
<1>2. CASE clock > call.deadline /\ Fail("kDeadlineExceeded", clock)
  <2>1. clock >= call.deadline
    BY <1>2, CallParts
  <2> QED BY <1>1, <1>2, <2>1, FailKeeps
<1>3. CASE clock <= call.deadline /\ Goto("check")
  BY <1>1, <1>3, GotoKeeps
<1> QED BY <1>2, <1>3 DEF PollReady

\* A poll(2) that times out has waited for the whole of the deadline: the
\* timeout was rounded up and INT_MAX milliseconds were enough.
LEMMA PollTimeoutKeeps ==
  ASSUME LInv, PollTimeout
  PROVE  LInv'
<1> DEFINE remaining == call.deadline - call.before
           timeout == Millisecond * TimeoutMilliseconds(remaining)
<1>1. /\ call.op # "idle" /\ call.deadline <= call.begun + Millisecond * IntMax
      /\ call.begun <= call.before /\ call.before < call.deadline
  BY InTransit DEF PollTimeout, LInv, InProgress
<1>2. clock >= call.before + timeout /\ Fail("kDeadlineExceeded", clock)
  BY DEF PollTimeout
<1>3. Millisecond * IntMax \in Int /\ Millisecond \in Int
  BY SizesAssumption
<1>4. remaining \in Nat /\ remaining <= Millisecond * IntMax
  BY <1>1, <1>3, CallParts
<1>5. timeout \in Int /\ timeout >= remaining
  <2> HIDE DEF remaining
  <2> QED BY <1>3, <1>4, TimeoutCovers
<1> HIDE DEF timeout
<1>6. clock >= call.deadline
  BY <1>2, <1>5, CallParts
<1> QED BY <1>1, <1>2, <1>6, FailKeeps

LEMMA AdvanceKeeps ==
  ASSUME LInv, Advance
  PROVE  LInv'
<1>1. /\ clock' = clock + 1 /\ clock < Int64Max
      /\ line' = line /\ kernel' = kernel /\ call' = call /\ result' = result
  BY DEF Advance
<1>2. clock' \in Time /\ \A x \in Int: x <= clock => x <= clock'
  BY <1>1, CallParts, ClockFacts, ClockAssumption
<1>3. TypeOK'
  BY <1>1, <1>2, CallParts DEF TypeOK, Line, Kernel, Call, Result
<1>4. InProgress'
  BY <1>1, <1>2, CallParts DEF LInv, InProgress
<1>5. CleanOutcomeIsClean' /\ DescriptorsAreReleased'
  BY <1>1 DEF LInv, CleanOutcomeIsClean, DescriptorsAreReleased
<1>6. WriteMeetsContract' /\ ReadMeetsContract'
  BY <1>1 DEF LInv, WriteMeetsContract, ReadMeetsContract
<1> QED BY <1>3, <1>4, <1>5, <1>6 DEF LInv

-----------------------------------------------------------------------------
(* The theorems *)

LEMMA InitHolds == Init => LInv
<1> SUFFICES ASSUME Init PROVE LInv
  OBVIOUS
<1>1. /\ clock = 0 /\ call = Idle /\ result = NoResult
      /\ kernel = [descriptors |-> 0, exclusive |-> FALSE, sent |-> 0]
      /\ line.held = FALSE /\ line.connected = FALSE /\ line \in Line
  <2>1. line \in [held: {FALSE}, connected: {FALSE}, generation: {0}, access: SerialAccess]
    BY DEF Init
  <2>2. line.held = FALSE /\ line.connected = FALSE
    BY <2>1
  <2>3. 0 \in 0..MaxGeneration
    BY SizesAssumption
  <2>4. line \in Line
    BY <2>1, <2>3 DEF Line
  <2> QED BY <2>2, <2>4 DEF Init
<1>2. kernel \in Kernel /\ kernel.descriptors = 0 /\ kernel.exclusive = FALSE
  BY <1>1, ClockFacts DEF Kernel
<1>3. NoResult \in Result /\ NoResult.op = "none"
  BY ClockFacts DEF NoResult, Result, Status
<1>4. TypeOK
  <2>1. clock \in Time /\ call \in Call /\ result \in Result /\ line \in Line
    BY <1>1, <1>3, ClockFacts, IdleFields
  <2> QED BY <1>2, <2>1, Shape
<1>5. DescriptorsAreReleased
  BY <1>1, <1>2 DEF DescriptorsAreReleased
<1>6. InProgress
  BY <1>1, IdleFields DEF InProgress
<1>7. CleanOutcomeIsClean /\ WriteMeetsContract /\ ReadMeetsContract
  BY <1>1, <1>3 DEF CleanOutcomeIsClean, WriteMeetsContract, ReadMeetsContract
<1> QED BY <1>4, <1>5, <1>6, <1>7 DEF LInv

LEMMA StepKeeps ==
  ASSUME LInv, Step
  PROVE  LInv'
<1>1. ASSUME NEW n \in 1..FrameSize, WriteProgress(n) PROVE LInv'
  BY <1>1, WriteProgressKeeps
<1>2. ASSUME NEW n \in 1..Capacity, ReadData(n) PROVE LInv'
  BY <1>2, ReadDataKeeps
<1> QED BY <1>1, <1>2, CheckDeadlineKeeps, WriteFailsKeeps, ErrorKeeps, RetryKeeps,
           PollCheckKeeps, PollReadyKeeps, PollTimeoutKeeps DEF Step

LEMMA NextKeeps ==
  ASSUME LInv, [Next]_vars
  PROVE  LInv'
<1>1. CASE UNCHANGED vars
  <2>1. clock' = clock /\ line' = line /\ kernel' = kernel /\ call' = call /\ result' = result
    BY <1>1 DEF vars
  <2> QED BY <2>1 DEF LInv, TypeOK, DescriptorsAreReleased, InProgress,
                      CleanOutcomeIsClean, WriteMeetsContract, ReadMeetsContract
<1>2. ASSUME NEW deadline \in Deadline, WithinReach(deadline),
             WriteAll(deadline) \/ ReadSome(deadline)
      PROVE  LInv'
  <2>1. deadline \in Time
    BY SizesAssumption
  <2> QED BY <1>2, <2>1, WriteAllKeeps, ReadSomeKeeps
<1>3. CASE Open \/ Reopen \/ Close
  BY <1>3, ConnectionKeeps
<1>4. CASE Step
  BY <1>4, StepKeeps
<1>5. CASE Advance
  BY <1>5, AdvanceKeeps
<1> QED BY <1>1, <1>2, <1>3, <1>4, <1>5 DEF Next

\* The transport's state has its shape and its invariant in every reachable
\* state: the loops of transport.cpp keep count of what the kernel accepted.
THEOREM TransportInvariant == Spec => []LInv
<1>1. Init => LInv
  BY InitHolds
<1>2. LInv /\ [Next]_vars => LInv'
  BY NextKeeps
<1> QED BY <1>1, <1>2, PTL DEF Spec

\* Every way that open(), reopen(), close() and a hangup can end gives back the
\* descriptor and TIOCEXCL.
THEOREM DescriptorsReleased == Spec => []DescriptorsAreReleased
<1>1. LInv => DescriptorsAreReleased
  BY DEF LInv
<1> QED BY <1>1, TransportInvariant, PTL

\* writeAllWithOperations() reports what reached the kernel: a result that is
\* not transmission-uncertain means a whole frame in time, or nothing.
THEOREM CleanOutcomes == Spec => []CleanOutcomeIsClean
<1>1. LInv => CleanOutcomeIsClean
  BY DEF LInv
<1> QED BY <1>1, TransportInvariant, PTL

\* Every result of writeAll() is one the safety session is written against,
\* whatever the frame size and the granularity of poll(2).
THEOREM WritesMeetContract == Spec => []WriteMeetsContract
<1>1. LInv => WriteMeetsContract
  BY DEF LInv
<1> QED BY <1>1, TransportInvariant, PTL

\* Every result of readSome() is one its callers are written against.
THEOREM ReadsMeetContract == Spec => []ReadMeetsContract
<1>1. LInv => ReadMeetsContract
  BY DEF LInv
<1> QED BY <1>1, TransportInvariant, PTL

=============================================================================
