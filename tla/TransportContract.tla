------------------------- MODULE TransportContract -------------------------
(***************************************************************************)
(* What a caller of ITransport::writeAll may rely on: the results a write  *)
(* can return, by the time it was begun and its deadline.  SafetySession   *)
(* is written against this contract; SerialTransport, the model of         *)
(* src/src/transport.cpp, is checked to keep it.                           *)
(***************************************************************************)
EXTENDS Integers

CONSTANTS
  Int64Max,   \* the last instant an int64_t nanosecond clock can show
  MaxOverrun  \* bound: how far past its deadline a blocked write may return

ASSUME ClockAssumption == Int64Max \in Nat /\ MaxOverrun \in Nat

Time == 0..Int64Max
SerialAccess == {"kReadOnly", "kReadWrite"}

Larger(a, b) == IF a >= b THEN a ELSE b
Smaller(a, b) == IF a <= b THEN a ELSE b

\* An IoResult of a write: complete is host_write_complete.
WriteResult(status, complete, times) ==
  {[status |-> status, complete |-> complete, completion |-> c]: c \in times}

\* Every result of a write begun no earlier than `now': complete in time,
\* complete too late, given up at the deadline, failed, or disconnected.  A
\* write that throws is a failure that completes at `now'; a receive-only
\* transport refuses without looking at the clock.
WriteResults(access, now, deadline) ==
  LET latest == Smaller(Int64Max, Larger(now, deadline) + MaxOverrun) IN
  IF access # "kReadWrite" THEN WriteResult("kWriteDisabled", FALSE, {0})
  ELSE UNION {
    IF now < deadline
    THEN WriteResult("kOk", TRUE, now..deadline)
         \cup WriteResult("kDeadlineExceeded", TRUE, (deadline + 1)..latest)
    ELSE {},
    WriteResult("kDeadlineExceeded", FALSE, Larger(now, deadline)..latest),
    WriteResult("kIoError", FALSE, now..latest),
    WriteResult("kDisconnected", FALSE, now..latest)}

\* Every result of a read begun no earlier than `now'; data says whether bytes
\* were taken off the line.  Data that came too late is returned all the same,
\* with kDeadlineExceeded.
ReadResult(status, data, times) ==
  {[status |-> status, data |-> data, completion |-> c]: c \in times}
ReadResults(now, deadline) ==
  LET latest == Smaller(Int64Max, Larger(now, deadline) + MaxOverrun) IN
  UNION {
    IF now < deadline
    THEN ReadResult("kOk", TRUE, now..deadline)
         \cup ReadResult("kDeadlineExceeded", TRUE, (deadline + 1)..latest)
    ELSE {},
    ReadResult("kDeadlineExceeded", FALSE, Larger(now, deadline)..latest),
    ReadResult("kIoError", FALSE, now..latest),
    ReadResult("kDisconnected", FALSE, now..latest)}

\* A disconnected result has closed the transport.
TransportAfter(t, r) ==
  [t EXCEPT !.connected = t.connected /\ r.status # "kDisconnected"]
Succeeded(r) == r.status = "kOk" /\ r.complete

=============================================================================
