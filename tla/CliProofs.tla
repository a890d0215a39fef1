----------------------------- MODULE CliProofs -----------------------------
(***************************************************************************)
(* The process of wheeltec_vcu_cli.cpp around the session, proved for      *)
(* every configuration, every set of lines and every bound: its calls keep *)
(* the invariants of the session and the gate, and what it promises about  *)
(* refused input, QUIT and its exit code holds in every interleaving of    *)
(* signals, kills, restarts and failing writes.                            *)
(***************************************************************************)
EXTENDS Cli, SafetySessionProofs

-----------------------------------------------------------------------------
(* The invariant *)

\* No motion can leave before a zero frame and a new permission have.
Barring(s, t) == GateState(s, t) \in {"lost", "stopping", "failed"}
Barred == Barring(session, transport)

\* A process that is not running has no session and no line.
Resting ==
  cli.pc \in {"start", "exited"} =>
    /\ session = NewSession(FALSE) /\ ~transport.connected
    /\ ~cli.input_failed /\ ~cli.quit

\* What refused input, a QUIT and the shutdown path have done to the session
\* by the time run() gets to each of its positions.
Ordered ==
  /\ cli.input_failed =>
       /\ ~Authorized(session)
       /\ cli.pc \notin {"serial", "observe", "trailing"}
       /\ At("lines") => Barred
       /\ cli.pc \in {"loop", "tick", "poll"} => cli.quit
  /\ cli.quit =>
       /\ cli.pc \notin {"serial", "observe"}
       /\ cli.pc \in {"lines", "tick"} => cli.eof \/ Barred
  /\ At("trailing") => cli.eof
  /\ At("stop_tick") => Barred

CInv == CliTypeOK /\ SInv /\ Resting /\ Ordered /\ ExitCodeTellsTruth

-----------------------------------------------------------------------------
(* The permission: who gives it, and what bars it *)

\* Whatever writes nothing leaves a barred gate barred.
LEMMA BarringKept ==
  ASSUME NEW s, NEW r, NEW t, Kept(s, r, t), Barring(s, t)
  PROVE  Barring(r, t)
BY DEF Kept, Silent, Barring

LEMMA BeginAuthorized ==
  ASSUME NEW s \in Session, NEW t, SyncedWith(s, t), ~Authorized(s), NEW after, NEW earliest
  PROVE  ~Authorized(BeginZeroEpisode(s, t, after, earliest))
BY DEF Session, BeginZeroEpisode, SyncedWith, Authorized

LEMMA StopAuthorized ==
  ASSUME NEW s \in Session, NEW t, SyncedWith(s, t), ~Authorized(s), NEW after, NEW earliest
  PROVE  ~Authorized(StopWithZero(s, t, after, earliest))
<1> DEFINE c == ClearMotionIntent(s)
<1>1. /\ c \in Session /\ Authorized(c) = Authorized(s)
      /\ c.connection_known = s.connection_known
      /\ c.connection_generation = s.connection_generation
  BY ClearFields
<1>2. StopWithZero(s, t, after, earliest) = BeginZeroEpisode(c, t, after, earliest)
  BY DEF StopWithZero
<1> HIDE DEF c
<1>3. SyncedWith(c, t)
  BY <1>1 DEF SyncedWith
<1> QED BY <1>1, <1>2, <1>3, BeginAuthorized

LEMMA RevokeAuthorized ==
  ASSUME NEW s \in Session, NEW t, SyncedWith(s, t), NEW after, NEW earliest
  PROVE  ~Authorized(RevokeWithZero(s, t, after, earliest))
<1> DEFINE v == RevokeAuthorization(s)
<1>1. /\ v \in Session /\ ~v.authorization_active
      /\ v.connection_known = s.connection_known
      /\ v.connection_generation = s.connection_generation
  BY RevokeFields
<1>2. RevokeWithZero(s, t, after, earliest) = StopWithZero(v, t, after, earliest)
  BY DEF RevokeWithZero, StopWithZero
<1> HIDE DEF v
<1>3. SyncedWith(v, t) /\ ~Authorized(v)
  BY <1>1 DEF SyncedWith, Authorized
<1> QED BY <1>1, <1>2, <1>3, StopAuthorized

\* The entry of a method gives no permission; one that does not go on takes it.
LEMMA EntryBars ==
  ASSUME SInv, NEW now \in Time
  PROVE  LET e == Entered(now) IN
         /\ ~Authorized(session) => ~Authorized(e)
         /\ ~Goes(now) => ~Authorized(e) /\ Barring(e, transport)
<1> DEFINE e == Entered(now)
<1>1. /\ session \in Session /\ transport \in Transport /\ e \in Session
      /\ Linked(session, transport) /\ Tracked(session, transport)
      /\ Tracked(e, transport)
      /\ Goes(now) => Found(session, e, transport, now)
  BY EnteredSInv DEF SInv, IInv, TypeOK, Good, Coherent
<1>2. CASE ~session.configuration_valid
  <2>1. e = session
    BY <1>2 DEF Entered, Enter
  <2>2. ~Authorized(session) /\ ~SyncedWith(session, transport)
    BY <1>1, <1>2 DEF Authorized, Linked, SyncedWith
  <2> QED BY <1>1, <2>1, <2>2, GateOf DEF Barring
<1>3. CASE session.configuration_valid /\ ~TimeValid(session, now)
  <2>1. e = HandleClockFailure(session, transport)
    BY <1>3 DEF Entered, Enter
  <2> HIDE DEF e
  <2>2. /\ e.connection_known = session.connection_known
        /\ ~e.authorization_active
        /\ session.connection_known /\ transport.connected /\ session.state # "kFaulted"
             => e.state = "kStopPending"
        /\ session.state = "kFaulted" \/ ~(session.connection_known /\ transport.connected)
             => e.state = session.state
    BY <1>1, <2>1, ClockFailureFields DEF Linked
  <2>3. ~Authorized(e)
    BY <2>2 DEF Authorized
  <2>4. Barring(e, transport)
    <3>1. CASE SyncedWith(e, transport)
      <4>1. e.state \in {"kStopPending", "kFaulted"}
        BY <2>2, <3>1 DEF SyncedWith
      <4> QED BY <1>1, <3>1, <4>1, GateOf DEF Barring
    <3>2. CASE ~SyncedWith(e, transport)
      BY <1>1, <3>2, GateOf DEF Barring
    <3> QED BY <3>1, <3>2
  <2> QED BY <2>3, <2>4 DEF e
<1>4. CASE session.configuration_valid /\ TimeValid(session, now) /\ ~Attached(transport)
  <2> DEFINE o == ObserveMonotonicTime(session, now)
  <2>1. e = HandleDisconnect(o)
    BY <1>4 DEF Entered, Enter, SynchronizeConnection
  <2>2. o \in Session /\ o.configuration_valid
    BY <1>1, <1>4, ObserveFields
  <2> HIDE DEF e, o
  <2>3. ~e.connection_known
    BY <2>1, <2>2, DisconnectFields
  <2> QED BY <1>1, <2>3, GateOf DEF Authorized, SyncedWith, Barring, e
<1>5. CASE Goes(now)
  <2>1. CASE NewGeneration(session, transport)
    BY <1>1, <1>5, <2>1 DEF Found, Tracked
  <2>2. CASE ~NewGeneration(session, transport)
    BY <1>1, <1>5, <2>2, ObserveFields DEF Found
  <2> QED BY <1>5, <2>1, <2>2
<1> QED BY <1>2, <1>3, <1>4, <1>5 DEF Goes, Proceeds

\* disarm() and requestStop() bar the gate whatever they find, also at a time
\* that is not valid any more; disarm() takes the permission too.
LEMMA DisarmBars ==
  ASSUME SInv, NEW now \in Time, Disarm(now)
  PROVE  ~Authorized(session') /\ Barring(session', transport)
<1> DEFINE e == Entered(now)
<1>1. /\ e \in Session /\ Linked(e, transport)
      /\ Goes(now) => SyncedWith(e, transport)
  BY EnteredSInv
<1>2. ~Goes(now) => ~Authorized(e) /\ Barring(e, transport)
  BY EntryBars
<1>3. session' = IF Goes(now) /\ e.state # "kFaulted"
                 THEN RevokeWithZero(e, transport, Inhibited(e), now) ELSE e
  BY DEF Disarm
<1> HIDE DEF e
<1>4. CASE Goes(now) /\ e.state # "kFaulted"
  <2> DEFINE r == RevokeWithZero(e, transport, Inhibited(e), now)
  <2>1. Good(r, transport, wire) /\ Stopping(r) /\ SyncedWith(r, transport)
    BY <1>1, <1>4, InhibitedType, RevokeWithZeroGood
  <2>2. ~Authorized(r)
    BY <1>1, <1>4, RevokeAuthorized
  <2> HIDE DEF r
  <2>3. r \in Session /\ r.state \in {"kStopPending", "kFaulted"}
    BY <2>1 DEF Good, Coherent, Linked, Stopping
  <2>4. Barring(r, transport)
    BY <2>1, <2>3, GateOf DEF Barring
  <2> QED BY <1>3, <1>4, <2>2, <2>4 DEF r
<1>5. CASE Goes(now) /\ e.state = "kFaulted"
  <2>1. GateState(e, transport) = "failed"
    BY <1>1, <1>5, GateOf
  <2> QED BY <1>3, <1>5, <2>1 DEF Barring, Authorized
<1>6. CASE ~Goes(now)
  BY <1>2, <1>3, <1>6
<1> QED BY <1>4, <1>5, <1>6

LEMMA RequestStopBars ==
  ASSUME SInv, NEW now \in Time, RequestStop(now)
  PROVE  /\ Barring(session', transport)
         /\ ~Authorized(session) => ~Authorized(session')
<1> DEFINE e == Entered(now)
           after == IF e.estop THEN "kEmergencyStopLatched"
                    ELSE IF Authorized(e) THEN "kRecovering" ELSE "kConnectedInhibited"
<1>1. /\ e \in Session /\ Linked(e, transport)
      /\ Goes(now) => SyncedWith(e, transport)
  BY EnteredSInv
<1>2. /\ ~Authorized(session) => ~Authorized(e)
      /\ ~Goes(now) => ~Authorized(e) /\ Barring(e, transport)
  BY EntryBars
<1>3. session' = IF Goes(now) /\ e.state # "kFaulted"
                 THEN StopWithZero(e, transport, after, now) ELSE e
  BY DEF RequestStop
<1>4. after \in AfterZero
  BY DEF AfterZero
<1> HIDE DEF e, after
<1>5. CASE Goes(now) /\ e.state # "kFaulted"
  <2> DEFINE r == StopWithZero(e, transport, after, now)
  <2>1. Good(r, transport, wire) /\ Stopping(r) /\ SyncedWith(r, transport)
    BY <1>1, <1>4, <1>5, StopWithZeroGood
  <2>2. ~Authorized(e) => ~Authorized(r)
    BY <1>1, <1>5, StopAuthorized
  <2> HIDE DEF r
  <2>3. r \in Session /\ r.state \in {"kStopPending", "kFaulted"}
    BY <2>1 DEF Good, Coherent, Linked, Stopping
  <2>4. Barring(r, transport)
    BY <2>1, <2>3, GateOf DEF Barring
  <2> QED BY <1>2, <1>3, <1>5, <2>2, <2>4 DEF r
<1>6. CASE Goes(now) /\ e.state = "kFaulted"
  <2>1. GateState(e, transport) = "failed"
    BY <1>1, <1>6, GateOf
  <2> QED BY <1>3, <1>6, <2>1 DEF Barring, Authorized
<1>7. CASE ~Goes(now)
  BY <1>2, <1>3, <1>7
<1> QED BY <1>5, <1>6, <1>7

\* authorize() never passes a barred gate.
LEMMA AuthorizeBarred ==
  ASSUME SInv, NEW token \in Token, NEW now \in Time, Authorize(token, now),
         Barred, ~Authorized(session)
  PROVE  ~Authorized(session')
<1> DEFINE e == Entered(now)
<1>1. /\ e \in Session /\ session \in Session
      /\ Linked(e, transport) /\ Tracked(e, transport)
      /\ Goes(now) => SyncedWith(e, transport) /\ Found(session, e, transport, now)
  BY EnteredSInv
<1>2. ~Authorized(e)
  BY EntryBars
<1>3. session' = IF Goes(now) /\ MayAuthorize(e, token, now)
                 THEN Granted(e, token, now) ELSE e
  BY DEF Authorize
<1> HIDE DEF e
<1>4. ~(Goes(now) /\ MayAuthorize(e, token, now))
  <2> SUFFICES ASSUME Goes(now), MayAuthorize(e, token, now) PROVE FALSE
    OBVIOUS
  <2>1. ~e.zero_active /\ e.state # "kFaulted" /\ ~NewGeneration(session, transport)
    BY DEF MayAuthorize
  <2>2. GateState(e, transport) = GateState(session, transport)
    BY <1>1, <2>1 DEF Found
  <2>3. e.state \in {"kConnectedInhibited", "kRecovering", "kActive", "kEmergencyStopLatched"}
    BY <1>1, <2>1 DEF Session, SessionState, Linked, Tracked, SyncedWith
  <2>4. GateState(e, transport) \in {"shut", "ready", "open"}
    BY <1>1, <2>3, GateOf
  <2> QED BY <2>2, <2>4 DEF Barred, Barring
<1> QED BY <1>2, <1>3, <1>4

LEMMA LatchAuthorized ==
  ASSUME SInv, NEW now \in Time, LatchEmergencyStop(now)
  PROVE  ~Authorized(session')
BY LatchEstop DEF Authorized

LEMMA ResetAuthorized ==
  ASSUME SInv, NEW token \in Token, NEW now \in Time, ResetEmergencyStop(token, now),
         ~Authorized(session)
  PROVE  ~Authorized(session')
<1> DEFINE e == Entered(now)
           c == ClearMotionIntent(RevokeAuthorization(e))
<1>1. e \in Session /\ ~Authorized(e)
  BY EnteredSInv, EntryBars
<1>2. \/ session' \in {session, e}
      \/ session' = [c EXCEPT !.highest_reset = token, !.estop = FALSE,
                              !.state = "kConnectedInhibited"]
  BY DEF ResetEmergencyStop
<1> HIDE DEF e
<1>3. c \in Session /\ ~c.authorization_active
  BY <1>1, RevokeFields, ClearFields
<1> HIDE DEF c
<1>4. CASE session' \in {session, e}
  BY <1>1, <1>4
<1>5. CASE session' = [c EXCEPT !.highest_reset = token, !.estop = FALSE,
                                !.state = "kConnectedInhibited"]
  BY <1>3, <1>5 DEF Session, Authorized
<1> QED BY <1>2, <1>4, <1>5

\* submit() uses a permission and never gives one.
LEMMA SubmitAuthorized ==
  ASSUME SInv, NEW c \in Command, NEW now \in Time, Submit(c, now), ~Authorized(session)
  PROVE  ~Authorized(session')
<1> DEFINE e == Entered(now)
           u == Consume(e, c)
           status == SubmissionStatus(e, c, now)
<1>1. /\ e \in Session /\ Linked(e, transport) /\ ~Authorized(e)
      /\ Goes(now) => SyncedWith(e, transport)
  BY EnteredSInv, EntryBars
<1>2. session' = IF Goes(now) THEN Submitted(e, c, now) ELSE e
  BY DEF Submit
<1>3. CASE ~Goes(now)
  BY <1>1, <1>2, <1>3
<1>4. CASE Goes(now)
  <2> HIDE DEF e
  <2>1. u \in Session /\ SyncedWith(u, transport) /\ ~Authorized(u)
    BY <1>1, <1>4, ConsumeLinked
  <2>2. status \in {"kEmergencyStopLatched", "kFaulted", "kSequenceInvalid",
                    "kTimestampInvalid", "kStale", "kNotAuthorized"}
    BY <1>1 DEF SubmissionStatus
  <2>3. \/ Submitted(e, c, now) = e
        \/ \E after: Submitted(e, c, now) = RevokeWithZero(e, transport, after, now)
        \/ \E after: Submitted(e, c, now) = RevokeWithZero(u, transport, after, now)
        \/ \E after: Submitted(e, c, now) = StopWithZero(u, transport, after, now)
        \/ Submitted(e, c, now) = ClearMotionIntent(u)
    <3> HIDE DEF u
    <3> QED BY <2>2 DEF Submitted, u, status
  <2> HIDE DEF u
  <2>4. ~Authorized(ClearMotionIntent(u))
    BY <2>1, ClearFields
  <2> QED BY <1>1, <1>2, <1>4, <2>1, <2>3, <2>4, RevokeAuthorized, StopAuthorized
<1> QED BY <1>3, <1>4

-----------------------------------------------------------------------------
(* The tick: it gives no permission, and moves only with one *)

LEMMA ZeroWriteAuthorized ==
  ASSUME NEW s \in Session, NEW t \in Transport, s.configuration_valid,
         s.state = "kStopPending", ~Authorized(s), NEW now \in Time, NEW r,
         r.completion \in Time, s.zero_attempts < MaximumZeroAttempts
  PROVE  ~Authorized(AfterZeroWrite(s, t, now, r))
<1> DEFINE counted == CountZeroAttempt(s, r)
<1>1. /\ counted.configuration_valid = s.configuration_valid
      /\ counted.connection_known = s.connection_known
      /\ counted.authorization_active = s.authorization_active
      /\ counted.estop = s.estop
      /\ counted.authorized_generation = s.authorized_generation
      /\ counted.connection_generation = s.connection_generation
      /\ counted.authorization_ns = s.authorization_ns
      /\ counted.state = "kStopPending"
  BY DEF Session, CountZeroAttempt
<1>2. counted \in Session
  <2>1. Larger(s.last_observed, r.completion) \in Time
    BY LargerTime DEF Session
  <2>2. s.zero_attempts + 1 \in 0..MaximumZeroAttempts
    BY DurationsAssumption DEF Session
  <2> QED BY <2>1, <2>2 DEF Session, CountZeroAttempt
<1>3. AfterZeroWrite(s, t, now, r) \in {HandleDisconnect(counted), ZeroComplete(counted),
        ZeroRetriesExhausted(counted), ScheduleZeroRetry(counted, now, r)}
  BY DEF AfterZeroWrite
<1> HIDE DEF counted
<1>4. ~Authorized(counted) /\ counted.configuration_valid
  BY <1>1 DEF Authorized
<1>5. ~Authorized(HandleDisconnect(counted))
  BY <1>2, <1>4, DisconnectFields DEF Authorized
<1>6. ~Authorized(ZeroComplete(counted))
  BY <1>1, <1>2, <1>4 DEF Session, ZeroComplete, Authorized
<1>7. ~Authorized(ZeroRetriesExhausted(counted))
  BY <1>2 DEF Session, ZeroRetriesExhausted, Authorized
<1>8. ~Authorized(ScheduleZeroRetry(counted, now, r))
  BY <1>2, <1>4 DEF Session, ScheduleZeroRetry, Authorized
<1> QED BY <1>3, <1>5, <1>6, <1>7, <1>8

\* A zero write by itself attempts no motion.
LEMMA ZeroMovesNothing ==
  ASSUME NEW s, NEW now, NEW w, AttemptZero(s, now, Quiet("kNoAction"), w)
  PROVE  ~cycle'.motion_write_attempted
<1> DEFINE q == Quiet("kNoAction")
<1>1. q \in Cycle
  BY QuietType DEF CycleAction
<1>2. ~q.motion_write_attempted
  BY QuietFields
<1> HIDE DEF q
<1>3. \/ cycle' = [q EXCEPT !.action = "kZeroRetryPending"]
      \/ \E r: cycle' = [q EXCEPT !.action = ZeroAction(s, transport, r),
                                   !.zero_write_attempted = TRUE]
  BY DEF AttemptZero, q
<1> QED BY <1>1, <1>2, <1>3 DEF Cycle

\* No tick gives a permission.
LEMMA TickAuthorized ==
  ASSUME SInv, NEW now \in Time, Tick(now), ~Authorized(session)
  PROVE  ~Authorized(session') /\ ~cycle'.motion_write_attempted
<1> DEFINE e == Entered(now)
<1>1. /\ e \in Session /\ Linked(e, transport) /\ ActiveOK(e, transport)
      /\ ~Authorized(e) /\ transport \in Transport
      /\ Goes(now) => SyncedWith(e, transport) /\ e.configuration_valid
  BY EnteredSInv, EntryBars DEF SInv, IInv, TypeOK, Good
<1>2. CASE TickStops(now)
  <2>1. session' = e /\ \E action: cycle' = Quiet(action)
    BY <1>2 DEF TickStops
  <2> QED BY <1>1, <2>1, QuietFields
<1>3. CASE TickIdle(now)
  <2>1. \/ session' = e
        \/ e.estop /\ session' = [e EXCEPT !.state = "kEmergencyStopLatched"]
    BY <1>3 DEF TickIdle
  <2>2. cycle' = Quiet("kNoAction")
    BY <1>3 DEF TickIdle
  <2>3. ~Authorized(session')
    <3> HIDE DEF e
    <3> QED BY <1>1, <2>1 DEF Session, Authorized
  <2> QED BY <2>2, <2>3, QuietFields
<1>4. CASE TickZero(now)
  <2>1. /\ Goes(now) /\ e.zero_active /\ AttemptZero(e, now, Quiet("kNoAction"), wire)
    BY <1>4 DEF TickZero
  <2> HIDE DEF e
  <2>0. ~cycle'.motion_write_attempted
    BY <2>1, ZeroMovesNothing
  <2>2. /\ e.state = "kStopPending" /\ e.configuration_valid
        /\ e.zero_attempts < MaximumZeroAttempts
    BY <1>1, <2>1 DEF Linked
  <2>3. CASE now < e.next_zero
    <3>1. ~(now >= e.next_zero)
      <4>1. e.next_zero \in Int /\ now \in Int
        BY <1>1, TimeFacts DEF Session
      <4> QED BY <2>3, <4>1
    <3>2. session' = e
      BY <2>1, <3>1 DEF AttemptZero
    <3> QED BY <1>1, <2>0, <3>2
  <2>4. CASE ~(now < e.next_zero)
    <3>1. PICK r \in WriteResults(transport.access, now, BoundedWriteDeadline(now, Int64Max)):
            session' = AfterZeroWrite(e, transport, now, r)
      BY <2>1, <2>4 DEF AttemptZero
    <3>2. r.completion \in Time
      <4>1. Int64Max \in Time
        BY ClockAssumption DEF Time
      <4>2. BoundedWriteDeadline(now, Int64Max) \in Time
        BY <4>1, DeadlineTime
      <4> QED BY <4>2, WriteResultsType
    <3>3. ~Authorized(session')
      BY <1>1, <2>2, <3>1, <3>2, ZeroWriteAuthorized
    <3> QED BY <2>0, <3>3
  <2> QED BY <2>3, <2>4
<1>5. CASE Goes(now) /\ ActiveAt(e)
  <2>1. SyncedWith(e, transport) /\ e.state = "kActive"
    BY <1>1, <1>5 DEF ActiveAt
  <2> QED BY <1>1, <2>1 DEF ActiveOK
<1>6. TickExpired(now) \/ TickRateLimited(now) \/ TickMotion(now) => Goes(now) /\ ActiveAt(e)
  BY DEF TickExpired, TickRateLimited, TickMotion, MaySend
<1> QED BY <1>2, <1>3, <1>4, <1>5, <1>6 DEF Tick

\* A motion frame is attempted only with a permission and through an open gate.
LEMMA TickMoves ==
  ASSUME SInv, NEW now \in Time, Tick(now), cycle'.motion_write_attempted
  PROVE  Authorized(session) /\ ~Barred
<1>1. Authorized(session)
  BY TickAuthorized
<1>2. Goes(now) /\ ActiveAt(Entered(now))
  <2>1. CASE TickStops(now)
    <3>1. \E action: cycle' = Quiet(action)
      BY <2>1 DEF TickStops
    <3> QED BY <3>1, QuietFields
  <2>2. CASE TickIdle(now)
    <3>1. cycle' = Quiet("kNoAction")
      BY <2>2 DEF TickIdle
    <3> QED BY <3>1, QuietFields
  <2>3. CASE TickZero(now)
    BY <2>3, ZeroMovesNothing DEF TickZero
  <2>4. CASE TickExpired(now) \/ TickRateLimited(now) \/ TickMotion(now)
    BY <2>4 DEF TickExpired, TickRateLimited, TickMotion, MaySend
  <2> QED BY <2>1, <2>2, <2>3, <2>4 DEF Tick
<1>3. GateState(session, transport) = "open"
  BY <1>2, ActiveEntered
<1> QED BY <1>1, <1>3 DEF Barred, Barring

-----------------------------------------------------------------------------
(* The locals, the clock and the results of the line *)

Locals ==
  [pc: {"start", "loop", "serial", "observe", "lines", "trailing", "tick",
        "poll", "stop", "stop_tick", "final", "exited"},
   now: Time, receipt: Time, next_reconnect: Nat,
   frames: 0..MaxBatch, lines: 0..MaxBatch, eof: BOOLEAN, quit: BOOLEAN,
   input_failed: BOOLEAN, stdin_failed: BOOLEAN,
   attempt: 0..MaximumZeroAttempts, exit: ExitCode]

\* What CliTypeOK adds to the type of the session.
Around == clock \in Time /\ shutdown \in BOOLEAN /\ cli \in Locals /\ inhibited \in BOOLEAN

LEMMA CliTypeParts ==
  CliTypeOK <=> TypeOK /\ Around
BY DEF CliTypeOK, Around, Locals

LEMMA BatchFacts ==
  /\ 0 \in 0..MaxBatch /\ 0 \in Nat
  /\ \A n \in 0..MaxBatch: n < MaxBatch => n + 1 \in 0..MaxBatch
  /\ \A n \in 0..MaximumZeroAttempts: n < MaximumZeroAttempts => n + 1 \in 0..MaximumZeroAttempts
BY CliAssumption, DurationsAssumption

LEMMA NewRunType ==
  ASSUME NEW code \in ExitCode
  PROVE  /\ NewRun \in Locals
         /\ [NewRun EXCEPT !.pc = "exited", !.exit = code] \in Locals
BY TimeFacts, BatchFacts, CountFacts DEF NewRun, Locals, ExitCode

LEMMA EndedFields ==
  ASSUME cli \in Locals,
         NEW pc \in {"loop", "trailing", "tick", "stop", "final"}
  PROVE  /\ Ended(pc) \in Locals
         /\ Ended(pc).pc = pc /\ Ended(pc).eof = cli.eof /\ Ended(pc).quit = cli.quit
         /\ Ended(pc).input_failed = cli.input_failed
BY TimeFacts, BatchFacts DEF Ended, Locals

LEMMA GotoFields ==
  ASSUME cli \in Locals,
         NEW pc \in {"loop", "serial", "lines", "stop", "final"}, Goto(pc)
  PROVE  /\ cli' \in Locals
         /\ cli'.pc = pc /\ cli'.eof = cli.eof /\ cli'.quit = cli.quit
         /\ cli'.input_failed = cli.input_failed
BY DEF Goto, Locals

LEMMA ReadingsTime ==
  ASSUME clock \in Time, NEW now \in Readings
  PROVE  now \in Time /\ now >= clock
BY ClockAssumption, CliAssumption DEF Readings, Time, Smaller

LEMMA ReadCompletion ==
  ASSUME NEW now \in Time, NEW deadline \in Nat, NEW r \in ReadResults(now, deadline)
  PROVE  r.completion \in Nat
<1> DEFINE latest == Smaller(Int64Max, Larger(now, deadline) + MaxOverrun)
           inTime == ReadResult("kOk", TRUE, now..deadline)
           late == ReadResult("kDeadlineExceeded", TRUE, (deadline + 1)..latest)
           expired == ReadResult("kDeadlineExceeded", FALSE, Larger(now, deadline)..latest)
           failed == ReadResult("kIoError", FALSE, now..latest)
           gone == ReadResult("kDisconnected", FALSE, now..latest)
<1>1. now \in Nat /\ latest \in Int /\ Larger(now, deadline) \in Nat
  BY ClockAssumption, TimeFacts DEF Smaller, Larger
<1> HIDE DEF latest
<1>2. /\ now..deadline \subseteq Nat /\ (deadline + 1)..latest \subseteq Nat
      /\ Larger(now, deadline)..latest \subseteq Nat /\ now..latest \subseteq Nat
  BY <1>1
<1>3. r \in inTime \/ r \in late \/ r \in expired \/ r \in failed \/ r \in gone
  <2>1. ReadResults(now, deadline) =
          UNION {IF now < deadline THEN inTime \cup late ELSE {}, expired, failed, gone}
    BY DEF ReadResults, latest
  <2> HIDE DEF inTime, late, expired, failed, gone
  <2> QED BY <2>1
<1>4. ASSUME NEW status, NEW data, NEW times \in SUBSET Nat,
             r \in ReadResult(status, data, times)
      PROVE  r.completion \in Nat
  BY <1>4 DEF ReadResult
<1> QED BY <1>2, <1>3, <1>4

LEMMA WriteCompletion ==
  ASSUME NEW access, NEW now \in Time, NEW deadline \in Int,
         NEW r \in WriteResults(access, now, deadline)
  PROVE  r.completion \in Int
<1> DEFINE latest == Smaller(Int64Max, Larger(now, deadline) + MaxOverrun)
           refused == WriteResult("kWriteDisabled", FALSE, {0})
           inTime == WriteResult("kOk", TRUE, now..deadline)
           late == WriteResult("kDeadlineExceeded", TRUE, (deadline + 1)..latest)
           expired == WriteResult("kDeadlineExceeded", FALSE, Larger(now, deadline)..latest)
           failed == WriteResult("kIoError", FALSE, now..latest)
           gone == WriteResult("kDisconnected", FALSE, now..latest)
<1>1. now \in Nat /\ latest \in Int /\ Larger(now, deadline) \in Int
  BY ClockAssumption, TimeFacts DEF Smaller, Larger
<1> HIDE DEF latest
<1>2. /\ now..deadline \subseteq Int /\ (deadline + 1)..latest \subseteq Int
      /\ Larger(now, deadline)..latest \subseteq Int /\ now..latest \subseteq Int
      /\ {0} \subseteq Int
  BY <1>1
<1>3. r \in refused \/ r \in inTime \/ r \in late \/ r \in expired \/ r \in failed \/ r \in gone
  <2>1. WriteResults(access, now, deadline) =
          IF access # "kReadWrite" THEN refused
          ELSE UNION {IF now < deadline THEN inTime \cup late ELSE {}, expired, failed, gone}
    BY DEF WriteResults, latest
  <2> HIDE DEF refused, inTime, late, expired, failed, gone
  <2> QED BY <2>1
<1>4. ASSUME NEW status, NEW complete, NEW times \in SUBSET Int,
             r \in WriteResult(status, complete, times)
      PROVE  r.completion \in Int
  <2>1. PICK c \in times: r = [status |-> status, complete |-> complete, completion |-> c]
    BY <1>4 DEF WriteResult
  <2>2. c \in Int
    BY <2>1, <1>4
  <2> QED BY <2>1, <2>2
<1> QED BY <1>2, <1>3, <1>4

-----------------------------------------------------------------------------
(* What one step does to the session, the gate and the line *)

\* A step of the process that is a call of the session or of the transport.
LEMMA CallSteps ==
  ASSUME SInv, Next
  PROVE  SInv' /\ GateStep
BY NextGood, NextLawful DEF SInv, Lawful

LEMMA NoCallSteps ==
  ASSUME SInv, NoCall
  PROVE  /\ SInv' /\ GateStep /\ ~cycle'.motion_write_attempted
         /\ Barred' = Barred /\ Authorized(session') = Authorized(session)
         /\ wire' = wire
<1>1. session' = session /\ transport' = transport /\ wire' = wire /\ cycle' = NoCycle
  BY DEF NoCall
<1> QED BY <1>1 DEF SInv, IInv, TypeOK, GateStep, NoCycle, Barred

\* What disarm() leaves.
LEMMA DisarmSteps ==
  ASSUME SInv, NEW now \in Time, Disarm(now)
  PROVE  /\ SInv' /\ GateStep /\ ~cycle'.motion_write_attempted
         /\ Barred' /\ ~Authorized(session') /\ wire' = wire
<1>1. Next
  BY DEF Next
<1>2. cycle' = NoCycle /\ transport' = transport /\ wire' = wire
  BY DEF Disarm, OnlySession
<1>3. ~Authorized(session') /\ Barring(session', transport)
  BY DisarmBars
<1> QED BY <1>1, <1>2, <1>3, CallSteps DEF NoCycle, Barred

LEMMA LatchSteps ==
  ASSUME SInv, NEW now \in Time, LatchEmergencyStop(now)
  PROVE  /\ SInv' /\ GateStep /\ ~cycle'.motion_write_attempted
         /\ ~Authorized(session') /\ wire' = wire
<1>1. Next
  BY DEF Next
<1>2. cycle' = NoCycle /\ wire' = wire
  BY DEF LatchEmergencyStop, OnlySession
<1> QED BY <1>1, <1>2, CallSteps, LatchAuthorized DEF NoCycle

LEMMA TickSteps ==
  ASSUME SInv, NEW now \in Time, Tick(now)
  PROVE  /\ SInv' /\ GateStep
         /\ cycle'.motion_write_attempted => Authorized(session) /\ ~Barred
         /\ ~Authorized(session) => ~Authorized(session')
<1>1. Next
  BY DEF Next
<1> QED BY <1>1, CallSteps, TickAuthorized, TickMoves

\* The rest of a line after its clock was read: a barred gate stays barred,
\* and behind one no line gets the permission back.
LEMMA LineSteps ==
  ASSUME SInv, NEW now \in Time, NEW l, LineWith(now, l)
  PROVE  /\ SInv' /\ GateStep /\ ~cycle'.motion_write_attempted /\ wire' = wire
         /\ Barred => Barred'
         /\ Barred /\ ~Authorized(session) => ~Authorized(session')
         /\ \/ cli' = l
            \/ cli' = [l EXCEPT !.quit = TRUE] /\ Barred'
            \/ cli' = [l EXCEPT !.input_failed = TRUE] /\ Barred' /\ ~Authorized(session')
<1> DEFINE Shared == /\ SInv' /\ GateStep /\ ~cycle'.motion_write_attempted /\ wire' = wire
                     /\ Barred => Barred'
                     /\ Barred /\ ~Authorized(session) => ~Authorized(session')
<1>0. ASSUME Next, OnlySession, Kept(session, session', transport),
             Barred /\ ~Authorized(session) => ~Authorized(session')
      PROVE  Shared
  <2>1. SInv' /\ GateStep
    BY <1>0, CallSteps
  <2>2. cycle' = NoCycle /\ transport' = transport /\ wire' = wire
    BY <1>0 DEF OnlySession
  <2>3. Barred => Barred'
    BY <1>0, <2>2, BarringKept DEF Barred
  <2> QED BY <1>0, <2>1, <2>2, <2>3 DEF NoCycle
<1>1. ASSUME NEW token \in Token, Authorize(token, now)
      PROVE  Shared
  <2>1. Next /\ OnlySession
    BY <1>1 DEF Next, Authorize
  <2> QED BY <1>0, <1>1, <2>1, AuthorizeKept, AuthorizeBarred
<1>2. ASSUME NEW token \in Token, ResetEmergencyStop(token, now)
      PROVE  Shared
  <2>1. Next /\ OnlySession
    BY <1>2 DEF Next, ResetEmergencyStop
  <2> QED BY <1>0, <1>2, <2>1, ResetKept, ResetAuthorized
<1>3. ASSUME NEW c \in Command, Submit(c, now)
      PROVE  Shared
  <2>1. Next /\ OnlySession
    BY <1>3 DEF Next, Submit
  <2> QED BY <1>0, <1>3, <2>1, SubmitKept, SubmitAuthorized
<1>4. ASSUME RequestStop(now)
      PROVE  Shared /\ Barred'
  <2>1. Next /\ OnlySession
    BY <1>4 DEF Next, RequestStop
  <2>2. Barred'
    BY <1>4, <2>1, RequestStopBars DEF Barred, OnlySession
  <2> QED BY <1>0, <1>4, <2>1, <2>2, RequestStopKept, RequestStopBars
<1>5. ASSUME LatchEmergencyStop(now)
      PROVE  Shared
  <2>1. Next /\ OnlySession
    BY <1>5 DEF Next, LatchEmergencyStop
  <2> QED BY <1>0, <1>5, <2>1, LatchKept, LatchAuthorized
<1>6. ASSUME Disarm(now)
      PROVE  Shared /\ Barred' /\ ~Authorized(session')
  BY <1>6, DisarmSteps
<1> QED
  <2> HIDE DEF Shared
  <2>1. Shared /\ \/ cli' = l
                  \/ cli' = [l EXCEPT !.quit = TRUE] /\ Barred'
                  \/ cli' = [l EXCEPT !.input_failed = TRUE] /\ Barred' /\ ~Authorized(session')
    BY <1>1, <1>2, <1>3, <1>4, <1>5, <1>6 DEF LineWith, Quit
  <2> QED BY <2>1 DEF Shared

\* processLine(), with the clock it reads.
LEMMA ProcessSteps ==
  ASSUME SInv, clock \in Time, NEW l, ProcessLine(l)
  PROVE  /\ SInv' /\ GateStep /\ ~cycle'.motion_write_attempted /\ wire' = wire
         /\ clock' \in Time
         /\ Barred => Barred'
         /\ Barred /\ ~Authorized(session) => ~Authorized(session')
         /\ \/ cli' = l
            \/ cli' = [l EXCEPT !.quit = TRUE] /\ Barred'
            \/ cli' = [l EXCEPT !.input_failed = TRUE] /\ Barred' /\ ~Authorized(session')
<1>1. CASE \E now \in Readings: ReadClock(now) /\ LineWith(now, l)
  <2>1. PICK now \in Readings: ReadClock(now) /\ LineWith(now, l)
    BY <1>1
  <2>2. now \in Time /\ clock' = now
    BY <2>1, ReadingsTime DEF ReadClock
  <2> QED BY <2>1, <2>2, LineSteps
<1>2. CASE ClockFails /\ Disarm(0) /\ cli' = [l EXCEPT !.input_failed = TRUE]
  <2>1. 0 \in Time
    BY TimeFacts
  <2> QED BY <1>2, <2>1, DisarmSteps DEF ClockFails
<1> QED BY <1>1, <1>2 DEF ProcessLine

-----------------------------------------------------------------------------
(* The steps of the process *)

\* NoMotionAfterTheEnd, of one step.
Moves ==
  cycle'.motion_write_attempted => At("tick") /\ ~cli.input_failed /\ (cli.quit => cli.eof)

Stepped == CInv' /\ GateStep /\ Moves

LEMMA Parts ==
  ASSUME CInv
  PROVE  /\ SInv /\ Around /\ Resting /\ Ordered /\ cli \in Locals
         /\ transport \in Transport /\ wire \in {"none", "motion", "zero"}
         /\ clock \in Time /\ cli.now \in Time /\ cli.receipt \in Time /\ cli.next_reconnect \in Nat
         /\ cli.attempt \in 0..MaximumZeroAttempts
         /\ cli.frames \in 0..MaxBatch /\ cli.lines \in 0..MaxBatch
         /\ shutdown \in BOOLEAN /\ inhibited \in BOOLEAN
<1>1. TypeOK /\ Around
  BY CliTypeParts DEF CInv
<1> QED BY <1>1 DEF CInv, Around, Locals, TypeOK

\* A step after which the process still runs.
LEMMA RunsOn ==
  ASSUME SInv', GateStep, Moves, Around', Ordered', cli'.pc \notin {"start", "exited"}
  PROVE  Stepped
<1>1. TypeOK'
  BY DEF SInv, IInv
<1>2. CliTypeOK'
  BY <1>1 DEF CliTypeOK, Around, Locals
<1>3. Resting' /\ ExitCodeTellsTruth'
  BY DEF Resting, ExitCodeTellsTruth, At
<1> QED BY <1>2, <1>3 DEF Stepped, CInv

LEMMA LineWithFields ==
  ASSUME NEW t \in Transport, NEW connected \in BOOLEAN, NEW generation \in 0..MaxGeneration
  PROVE  LET u == [t EXCEPT !.connected = connected, !.generation = generation] IN
         /\ u \in Transport /\ u.connected = connected /\ u.generation = generation
<1> DEFINE u == [t EXCEPT !.connected = connected, !.generation = generation]
<1>1. u \in Transport
  BY DEF Transport
<1>2. u.connected = connected
  BY DEF Transport
<1>3. u.generation = generation
  BY DEF Transport
<1> QED BY <1>1, <1>2, <1>3

\* A session that was never given a line, or whose process has ended.
LEMMA NoSession ==
  ASSUME NEW t \in Transport, NEW w
  PROVE  /\ Good(NewSession(FALSE), t, w) /\ Tracked(NewSession(FALSE), t)
         /\ GateState(NewSession(FALSE), t) = "lost"
         /\ ~Authorized(NewSession(FALSE))
<1> DEFINE s == NewSession(FALSE)
<1>1. s \in Session
  BY NewSessionType
<1>2. /\ ~s.configuration_valid /\ s.state = "kConfigurationInvalid" /\ ~s.connection_known
      /\ ~s.zero_active /\ ~s.estop /\ ~s.command.valid
  BY DEF NewSession, NoCommand
<1>3. Tracked(s, t)
  BY ConstructedGate
<1> HIDE DEF s
<1>4. ~SyncedWith(s, t) /\ ~Authorized(s)
  BY <1>2 DEF SyncedWith, Authorized
<1>5. Good(s, t, w)
  BY <1>1, <1>2, <1>4 DEF Good, Coherent, Linked, Cached, ActiveOK, OrphanOK
<1> QED BY <1>1, <1>3, <1>4, <1>5, GateOf DEF s

\* The process ends, by itself or not: the line is lost, and whoever says that
\* its zero frame left has sent one.
LEMMA EndSteps ==
  ASSUME CInv, NEW code \in ExitCode, Ends(code), clock' \in Time,
         wire' \in {wire, "zero"},
         wire' = "motion" => code \notin {"0", "7", "130"}
  PROVE  Stepped
<1>1. transport \in Transport /\ wire \in {"none", "motion", "zero"}
  BY Parts
<1>2. /\ session' = NewSession(FALSE) /\ cycle' = NoCycle
      /\ cli' = [NewRun EXCEPT !.pc = "exited", !.exit = code]
      /\ shutdown' = FALSE /\ inhibited' = FALSE
      /\ transport' = [transport EXCEPT !.connected = FALSE, !.generation = 0]
  BY DEF Ends
<1>3. transport' \in Transport /\ ~transport'.connected
  <2>1. 0 \in 0..MaxGeneration
    BY GenerationAssumption
  <2> QED BY <1>1, <1>2, <2>1, LineWithFields
<1>4. /\ Good(session', transport', wire') /\ Tracked(session', transport')
      /\ GateState(session', transport') = "lost" /\ ~Authorized(session')
  BY <1>2, <1>3, NoSession
<1>5. SInv'
  <2>1. TypeOK'
    BY <1>1, <1>2, <1>3, NewSessionType DEF TypeOK
  <2> QED BY <1>4, <2>1 DEF SInv, IInv
<1>6. GateStep
  BY <1>4 DEF GateStep, Gate!Next, Gate!Lose, Gate!AnyFrame
<1>7. /\ cli' \in Locals /\ cli'.pc = "exited" /\ cli'.exit = code
      /\ ~cli'.input_failed /\ ~cli'.quit
  <2>1. cli' \in Locals
    BY <1>2, NewRunType
  <2>2. /\ cli'.pc = "exited" /\ cli'.exit = code
        /\ cli'.input_failed = FALSE /\ cli'.quit = FALSE
    BY <1>2 DEF NewRun
  <2> QED BY <2>1, <2>2
<1>8. CliTypeOK'
  BY <1>2, <1>5, <1>7 DEF SInv, IInv, CliTypeOK, Locals
<1>9. Resting' /\ Ordered' /\ ExitCodeTellsTruth'
  BY <1>2, <1>3, <1>7 DEF Resting, Ordered, ExitCodeTellsTruth, At
<1> QED BY <1>2, <1>5, <1>6, <1>8, <1>9 DEF Stepped, CInv, Moves, NoCycle

LEMMA OpenFailsSteps ==
  ASSUME CInv, OpenFails
  PROVE  Stepped
<1>1. PICK code \in {"3", "4"}: Ends(code)
  BY DEF OpenFails
<1>2. clock' \in Time /\ wire' = wire
  BY Parts DEF OpenFails
<1> QED BY <1>1, <1>2, EndSteps DEF ExitCode

LEMMA KilledSteps ==
  ASSUME CInv, Killed
  PROVE  Stepped
<1>1. clock' \in Time /\ wire' = wire /\ Ends("killed")
  BY Parts DEF Killed
<1> QED BY <1>1, EndSteps DEF ExitCode

LEMMA FinalZeroGivesUpSteps ==
  ASSUME CInv, FinalZeroGivesUp
  PROVE  Stepped
<1>1. clock' \in Time /\ wire' = wire /\ Ends(ExitCodeOf(FALSE))
  BY Parts DEF FinalZeroGivesUp
<1>2. ExitCodeOf(FALSE) \in {"6", "131", "8", "9"}
  BY DEF ExitCodeOf
<1> QED BY <1>1, <1>2, EndSteps DEF ExitCode

LEMMA OpensSteps ==
  ASSUME CInv, Opens
  PROVE  Stepped
<1> DEFINE opened == [transport EXCEPT !.connected = TRUE, !.generation = 1]
           n == NewSession(TRUE)
<1>1. /\ transport \in Transport /\ cli \in Locals /\ Resting /\ Ordered /\ At("start")
      /\ shutdown \in BOOLEAN /\ inhibited \in BOOLEAN /\ wire' = wire /\ clock' = clock
      /\ clock \in Time /\ wire \in {"none", "motion", "zero"}
  BY Parts DEF Opens
<1>2. CASE ~SafetyConfigIsValid
  BY <1>1, <1>2, EndSteps DEF Opens, ExitCode
<1>3. CASE SafetyConfigIsValid
  <2>1. /\ transport' = opened /\ session' = SynchronizeConnection(n, opened)
        /\ cycle' = NoCycle /\ shutdown' = shutdown /\ inhibited' = inhibited
        /\ \/ Goto("loop")
           \/ cli' = [cli EXCEPT !.pc = "final", !.stdin_failed = TRUE]
    BY <1>3 DEF Opens
  <2>2. session = NewSession(FALSE) /\ ~cli.input_failed /\ ~cli.quit
    BY <1>1 DEF Resting, At
  <2>3. opened \in Transport /\ opened.connected /\ opened.generation = 1
    <3>1. 1 \in 0..MaxGeneration
      BY CliAssumption, GenerationAssumption
    <3> QED BY <1>1, <3>1, LineWithFields
  <2>4. n \in Session /\ n.configuration_valid /\ ~n.connection_known
    BY NewSessionType DEF NewSession
  <2>5. MaximumZeroAttempts > 0 /\ FreshCommandsRequired > 0
    BY <1>3 DEF SafetyConfigIsValid
  <2> HIDE DEF opened, n
  <2>6. session' = HandleNewConnection(n, opened)
    BY <2>1, <2>3, <2>4 DEF SynchronizeConnection, Attached, NewGeneration
  <2>7. /\ Good(session', transport', wire') /\ SyncedWith(session', transport')
        /\ session'.state = "kStopPending" /\ session' \in Session
    BY <2>1, <2>3, <2>4, <2>5, <2>6, NewConnectionGood, NewConnectionFields
  <2>8. Tracked(session', transport')
    BY <2>1, <2>3, ConstructedGate DEF n
  <2>9. SInv'
    BY <1>1, <2>1, <2>3, <2>7, <2>8 DEF SInv, IInv, TypeOK
  <2>10. GateStep
    <3>1. GateState(session, transport) = "lost"
      BY <1>1, <2>2, NoSession
    <3>2. GateState(session', transport') = "stopping"
      BY <2>7, GateOf
    <3> QED BY <1>1, <3>1, <3>2 DEF GateStep, Gate!Next, Gate!Halt, Gate!AnyFrame
  <2>11. /\ cli' \in Locals /\ cli'.pc \in {"loop", "final"}
         /\ ~cli'.input_failed /\ ~cli'.quit
    <3>1. CASE Goto("loop")
      BY <1>1, <2>2, <3>1, GotoFields
    <3>2. CASE cli' = [cli EXCEPT !.pc = "final", !.stdin_failed = TRUE]
      BY <1>1, <2>2, <3>2 DEF Locals
    <3> QED BY <2>1, <3>1, <3>2
  <2>12. Around' /\ Ordered'
    BY <1>1, <2>1, <2>11 DEF Around, Ordered, At
  <2>13. Moves
    BY <2>1 DEF Moves, NoCycle
  <2> QED BY <2>9, <2>10, <2>11, <2>12, <2>13, RunsOn
<1> QED BY <1>2, <1>3

LEMMA SignalSteps ==
  ASSUME CInv, Signal
  PROVE  Stepped
<1>1. /\ NoCall /\ cli' = cli /\ clock' = clock /\ shutdown' = TRUE /\ inhibited' = inhibited
      /\ cli.pc \notin {"start", "exited"}
  BY DEF Signal, NoCall
<1>2. SInv' /\ GateStep /\ ~cycle'.motion_write_attempted
      /\ Barred' = Barred /\ Authorized(session') = Authorized(session)
  BY <1>1, Parts, NoCallSteps
<1>3. Around' /\ Ordered'
  BY <1>1, <1>2, Parts DEF Around, Ordered, At
<1> QED BY <1>1, <1>2, <1>3, RunsOn DEF Moves

LEMMA RestartSteps ==
  ASSUME CInv, Restart
  PROVE  Stepped
<1>1. /\ NoCall /\ cli' = NewRun /\ clock' = clock /\ shutdown' = shutdown
      /\ inhibited' = inhibited /\ cli.pc = "exited"
  BY DEF Restart, At
<1>2. SInv' /\ GateStep /\ ~cycle'.motion_write_attempted
  BY <1>1, Parts, NoCallSteps
<1>3. cli' \in Locals
  BY <1>1, NewRunType DEF ExitCode
<1>4. cli'.pc = "start" /\ cli'.input_failed = FALSE /\ cli'.quit = FALSE
  BY <1>1 DEF NewRun
<1>5. Around' /\ Ordered' /\ Resting' /\ ExitCodeTellsTruth'
  BY <1>1, <1>3, <1>4, Parts DEF Around, Ordered, Resting, ExitCodeTellsTruth, At, NoCall
<1>6. CliTypeOK'
  BY <1>2, <1>5 DEF SInv, IInv, CliTypeOK, Around, Locals
<1> QED BY <1>2, <1>5, <1>6 DEF Stepped, CInv, Moves

LEMMA LoopEndsSteps ==
  ASSUME CInv, LoopEnds
  PROVE  Stepped
<1>1. /\ NoCall /\ Goto("stop") /\ clock' = clock /\ shutdown' = shutdown
      /\ inhibited' = inhibited
  BY DEF LoopEnds
<1>2. SInv' /\ GateStep /\ ~cycle'.motion_write_attempted
      /\ Authorized(session') = Authorized(session)
  BY <1>1, Parts, NoCallSteps
<1>3. /\ cli' \in Locals /\ cli'.pc = "stop" /\ cli'.input_failed = cli.input_failed
  BY <1>1, Parts, GotoFields
<1>4. Around' /\ Ordered'
  BY <1>1, <1>2, <1>3, Parts DEF Around, Ordered, At
<1> QED BY <1>2, <1>3, <1>4, RunsOn DEF Moves

\* The locals of a turn that ends with an input failure.
LEMMA FailedFields ==
  ASSUME cli \in Locals, cli' = [Ended("stop") EXCEPT !.input_failed = TRUE]
  PROVE  cli' \in Locals /\ cli'.pc = "stop"
<1> DEFINE l == Ended("stop")
<1>1. l \in Locals /\ l.pc = "stop"
  BY EndedFields
<1>2. cli' = [l EXCEPT !.input_failed = TRUE]
  OBVIOUS
<1> HIDE DEF l
<1> QED BY <1>1, <1>2 DEF Locals

\* ... and the session that was told of it.
LEMMA FailureSteps ==
  ASSUME CInv, SInv', GateStep, ~cycle'.motion_write_attempted, ~Authorized(session'),
         cli' = [Ended("stop") EXCEPT !.input_failed = TRUE],
         UNCHANGED <<clock, shutdown, inhibited>>
  PROVE  Stepped
<1>1. cli' \in Locals /\ cli'.pc = "stop"
  BY Parts, FailedFields
<1>2. Around' /\ Ordered'
  BY <1>1, Parts DEF Around, Ordered, At
<1> QED BY <1>1, <1>2, RunsOn DEF Moves

LEMMA LoopTurnsSteps ==
  ASSUME CInv, LoopTurns
  PROVE  Stepped
<1>1. At("loop") /\ ~cli.quit /\ shutdown' = shutdown /\ inhibited' = inhibited
  BY DEF LoopTurns
<1>2. ~cli.input_failed
  BY <1>1, Parts DEF Ordered, At
<1>3. ASSUME NEW now \in Readings, ReadClock(now), NoCall,
             cli' = [cli EXCEPT !.pc = "serial", !.now = now]
      PROVE  Stepped
  <2>1. now \in Time /\ clock' = now
    BY <1>3, Parts, ReadingsTime DEF ReadClock
  <2>2. SInv' /\ GateStep /\ ~cycle'.motion_write_attempted
    BY <1>3, Parts, NoCallSteps
  <2>3. cli' \in Locals /\ cli'.pc = "serial" /\ ~cli'.quit /\ ~cli'.input_failed
    BY <1>1, <1>2, <1>3, <2>1, Parts DEF Locals
  <2>4. Around' /\ Ordered'
    BY <1>1, <2>1, <2>3, Parts DEF Around, Ordered, At
  <2> QED BY <2>2, <2>3, <2>4, RunsOn DEF Moves
<1>4. ASSUME ClockFails, LatchEmergencyStop(0),
             cli' = [Ended("stop") EXCEPT !.input_failed = TRUE]
      PROVE  Stepped
  <2>1. SInv' /\ GateStep /\ ~cycle'.motion_write_attempted /\ ~Authorized(session')
    BY <1>4, Parts, TimeFacts, LatchSteps
  <2> QED BY <1>1, <1>4, <2>1, FailureSteps DEF ClockFails
<1> QED BY <1>3, <1>4 DEF LoopTurns

\* At the serial line no end was asked for yet, and none is asked for there.
LEMMA SerialSteps ==
  ASSUME CInv, cli.pc \in {"serial", "observe"}, SInv', GateStep,
         ~cycle'.motion_write_attempted,
         cli' \in Locals, cli'.pc \in {"observe", "lines"},
         cli'.quit = cli.quit, cli'.input_failed = cli.input_failed,
         clock' \in Time, inhibited' \in BOOLEAN, shutdown' = shutdown
  PROVE  Stepped
<1>1. ~cli.quit /\ ~cli.input_failed
  BY Parts DEF Ordered
<1>2. Around' /\ Ordered'
  BY <1>1, Parts DEF Around, Ordered, At
<1> QED BY <1>2, RunsOn DEF Moves

LEMMA ReconnectSteps ==
  ASSUME CInv, Reconnect
  PROVE  Stepped
<1>1. /\ At("serial")
      /\ cli' = [cli EXCEPT !.pc = "lines", !.next_reconnect = cli.now + ReconnectInterval]
      /\ cycle' = NoCycle /\ clock' = clock /\ shutdown' = shutdown /\ inhibited' = inhibited
  BY DEF Reconnect
<1>2. TransportReopened \/ NoCall
  BY DEF Reconnect, TransportReopened, NoCall
<1>3. SInv' /\ GateStep
  <2>1. CASE TransportReopened
    BY <2>1, Parts, CallSteps DEF Next
  <2>2. CASE NoCall
    BY <2>2, Parts, NoCallSteps
  <2> QED BY <1>2, <2>1, <2>2
<1>4. cli.now + ReconnectInterval \in Nat
  BY Parts, TimeFacts, CliAssumption
<1>5. /\ cli' \in Locals /\ cli'.pc = "lines" /\ cli'.quit = cli.quit
      /\ cli'.input_failed = cli.input_failed
  BY <1>1, <1>4, Parts DEF Locals
<1> QED BY <1>1, <1>3, <1>5, Parts, SerialSteps DEF At, NoCycle

LEMMA AwaitReconnectSteps ==
  ASSUME CInv, AwaitReconnect
  PROVE  Stepped
<1>1. /\ At("serial") /\ Goto("lines") /\ NoCall
      /\ clock' = clock /\ shutdown' = shutdown /\ inhibited' = inhibited
  BY DEF AwaitReconnect
<1>2. SInv' /\ GateStep /\ ~cycle'.motion_write_attempted
  BY <1>1, Parts, NoCallSteps
<1> QED BY <1>1, <1>2, Parts, GotoFields, SerialSteps DEF At

LEMMA ReadLineSteps ==
  ASSUME CInv, ReadLine
  PROVE  Stepped
<1>1. At("serial") /\ transport.connected /\ shutdown' = shutdown
  BY DEF ReadLine
<1>2. PICK r \in ReadResults(cli.now, cli.now + ReadTimeout):
       /\ Later(r.completion)
       /\ \/ /\ r.status = "kOk"
             /\ cli' = [cli EXCEPT !.pc = "observe", !.receipt = r.completion]
             /\ NoCall /\ UNCHANGED inhibited
          \/ /\ r.status \in {"kDeadlineExceeded", "kDisconnected"}
             /\ transport' = TransportAfter(transport, r)
             /\ inhibited' \in IF r.data THEN BOOLEAN ELSE {inhibited}
             /\ Goto("lines")
             /\ cycle' = NoCycle /\ UNCHANGED <<session, wire>>
          \/ /\ r.status = "kIoError"
             /\ LatchEmergencyStop(cli.now)
             /\ Goto("lines") /\ UNCHANGED inhibited
  BY DEF ReadLine
<1>3. r.completion \in Time
  <2>1. cli.now + ReadTimeout \in Nat
    BY Parts, TimeFacts, CliAssumption
  <2>2. r.completion \in Nat
    BY <2>1, Parts, ReadCompletion
  <2>3. r.completion <= Int64Max
    BY <1>2 DEF Later
  <2> QED BY <2>2, <2>3, TimeFacts
<1>4. clock' \in Time
  BY <1>2, <1>3, Parts, LargerTime DEF Later
<1>5. ASSUME Goto("lines")
      PROVE  /\ cli' \in Locals /\ cli'.pc = "lines" /\ cli'.quit = cli.quit
             /\ cli'.input_failed = cli.input_failed
  BY <1>5, Parts, GotoFields
<1>6. CASE /\ r.status = "kOk"
           /\ cli' = [cli EXCEPT !.pc = "observe", !.receipt = r.completion]
           /\ NoCall /\ UNCHANGED inhibited
  <2>1. SInv' /\ GateStep /\ ~cycle'.motion_write_attempted
    BY <1>6, Parts, NoCallSteps
  <2>2. /\ cli' \in Locals /\ cli'.pc = "observe" /\ cli'.quit = cli.quit
        /\ cli'.input_failed = cli.input_failed
    BY <1>3, <1>6, Parts DEF Locals
  <2> QED BY <1>1, <1>4, <1>6, <2>1, <2>2, Parts, SerialSteps DEF At
<1>7. CASE /\ r.status \in {"kDeadlineExceeded", "kDisconnected"}
           /\ transport' = TransportAfter(transport, r)
           /\ inhibited' \in IF r.data THEN BOOLEAN ELSE {inhibited}
           /\ Goto("lines")
           /\ cycle' = NoCycle /\ UNCHANGED <<session, wire>>
  <2>1. CASE r.status = "kDisconnected"
    <3>1. transport' = [transport EXCEPT !.connected = FALSE]
      BY <1>7, <2>1 DEF TransportAfter
    <3>2. TransportLost
      BY <1>1, <1>7, <3>1 DEF TransportLost
    <3>3. SInv' /\ GateStep
      BY <3>2, Parts, CallSteps DEF Next
    <3>4. inhibited' \in BOOLEAN
      BY <1>7, Parts
    <3> QED BY <1>1, <1>4, <1>5, <1>7, <3>3, <3>4, Parts, SerialSteps DEF At, NoCycle
  <2>2. CASE r.status # "kDisconnected"
    <3>1. TransportAfter(transport, r).connected
      BY <1>1, <2>2, Parts DEF TransportAfter, Transport
    <3>2. transport' = transport
      BY <1>7, <3>1, Parts, TransportAfterFields
    <3>3. NoCall
      BY <1>7, <3>2 DEF NoCall
    <3>4. SInv' /\ GateStep
      BY <3>3, Parts, NoCallSteps
    <3>5. inhibited' \in BOOLEAN
      BY <1>7, Parts
    <3> QED BY <1>1, <1>4, <1>5, <1>7, <3>4, <3>5, Parts, SerialSteps DEF At, NoCycle
  <2> QED BY <2>1, <2>2
<1>8. CASE /\ r.status = "kIoError"
           /\ LatchEmergencyStop(cli.now)
           /\ Goto("lines") /\ UNCHANGED inhibited
  <2>1. SInv' /\ GateStep /\ ~cycle'.motion_write_attempted
    BY <1>8, Parts, LatchSteps
  <2> QED BY <1>1, <1>4, <1>5, <1>8, <2>1, Parts, SerialSteps DEF At
<1> QED BY <1>2, <1>6, <1>7, <1>8

LEMMA ObserveFrameSteps ==
  ASSUME CInv, ObserveFrame
  PROVE  Stepped
<1>1. /\ At("observe") /\ cli.frames < MaxBatch /\ inhibited' \in BOOLEAN
      /\ cli' = [cli EXCEPT !.frames = cli.frames + 1]
      /\ clock' = clock /\ shutdown' = shutdown
  BY DEF ObserveFrame
<1>2. PICK decoded \in {"kControlInhibited", "kControlAllowed"}:
        ObserveFeedback(decoded, cli.receipt)
  BY DEF ObserveFrame
<1>3. Next /\ cycle' = NoCycle
  BY <1>2, Parts DEF Next, ObserveFeedback, OnlySession
<1>4. SInv' /\ GateStep
  BY <1>3, Parts, CallSteps
<1>5. cli.frames + 1 \in 0..MaxBatch
  BY <1>1, Parts, BatchFacts
<1>6. /\ cli' \in Locals /\ cli'.pc = "observe" /\ cli'.quit = cli.quit
      /\ cli'.input_failed = cli.input_failed
  BY <1>1, <1>5, Parts DEF Locals, At
<1> QED BY <1>1, <1>3, <1>4, <1>6, Parts, SerialSteps DEF At, NoCycle

LEMMA FramesDoneSteps ==
  ASSUME CInv, FramesDone
  PROVE  Stepped
<1>1. /\ At("observe") /\ NoCall
      /\ cli' = [cli EXCEPT !.pc = "lines", !.frames = 0, !.receipt = 0]
      /\ clock' = clock /\ shutdown' = shutdown /\ inhibited' = inhibited
  BY DEF FramesDone
<1>2. SInv' /\ GateStep /\ ~cycle'.motion_write_attempted
  BY <1>1, Parts, NoCallSteps
<1>3. /\ cli' \in Locals /\ cli'.pc = "lines" /\ cli'.quit = cli.quit
      /\ cli'.input_failed = cli.input_failed
  BY <1>1, Parts, TimeFacts, BatchFacts DEF Locals
<1> QED BY <1>1, <1>2, <1>3, Parts, SerialSteps DEF At

\* InputFails, and PollFails: a disarm() at the time of the top of the loop.
LEMMA InputFailsSteps ==
  ASSUME CInv, InputFails \/ PollFails
  PROVE  Stepped
<1>1. /\ Disarm(cli.now) /\ UNCHANGED <<clock, shutdown, inhibited>>
      /\ cli' = [Ended("stop") EXCEPT !.input_failed = TRUE]
  BY DEF InputFails, PollFails
<1>2. SInv' /\ GateStep /\ ~cycle'.motion_write_attempted /\ ~Authorized(session')
  BY <1>1, Parts, DisarmSteps
<1> QED BY <1>1, <1>2, FailureSteps

LEMMA NextLineSteps ==
  ASSUME CInv, NextLine
  PROVE  Stepped
<1> DEFINE l == [cli EXCEPT !.lines = cli.lines + 1]
<1>1. /\ At("lines") /\ cli.lines < MaxBatch /\ ProcessLine(l)
      /\ shutdown' = shutdown /\ inhibited' = inhibited
  BY DEF NextLine
<1>2. cli.lines + 1 \in 0..MaxBatch
  BY <1>1, Parts, BatchFacts
<1>3. /\ l \in Locals /\ l.pc = "lines" /\ l.quit = cli.quit /\ l.eof = cli.eof
      /\ l.input_failed = cli.input_failed
  BY <1>1, <1>2, Parts DEF Locals, At
<1> HIDE DEF l
<1>4. /\ SInv' /\ GateStep /\ ~cycle'.motion_write_attempted /\ clock' \in Time
      /\ Barred => Barred'
      /\ Barred /\ ~Authorized(session) => ~Authorized(session')
      /\ \/ cli' = l
         \/ cli' = [l EXCEPT !.quit = TRUE] /\ Barred'
         \/ cli' = [l EXCEPT !.input_failed = TRUE] /\ Barred' /\ ~Authorized(session')
  BY <1>1, Parts, ProcessSteps
<1>5. /\ cli.input_failed => Barred /\ ~Authorized(session)
      /\ cli.quit => cli.eof \/ Barred
  BY <1>1, Parts DEF Ordered, At
<1>6. CASE cli' = l
  <2>1. Around' /\ Ordered'
    BY <1>1, <1>3, <1>4, <1>5, <1>6, Parts DEF Around, Ordered, At
  <2> QED BY <1>3, <1>4, <1>6, <2>1, RunsOn DEF Moves
<1>7. CASE cli' = [l EXCEPT !.quit = TRUE] /\ Barred'
  <2>1. /\ cli' \in Locals /\ cli'.pc = "lines" /\ cli'.eof = cli.eof
        /\ cli'.input_failed = cli.input_failed
    BY <1>3, <1>7 DEF Locals
  <2>2. Around' /\ Ordered'
    BY <1>1, <1>4, <1>5, <1>7, <2>1, Parts DEF Around, Ordered, At
  <2> QED BY <1>4, <2>1, <2>2, RunsOn DEF Moves
<1>8. CASE cli' = [l EXCEPT !.input_failed = TRUE] /\ Barred' /\ ~Authorized(session')
  <2>1. cli' \in Locals /\ cli'.pc = "lines"
    BY <1>3, <1>8 DEF Locals
  <2>2. Around' /\ Ordered'
    BY <1>1, <1>4, <1>8, <2>1, Parts DEF Around, Ordered, At
  <2> QED BY <1>4, <2>1, <2>2, RunsOn DEF Moves
<1> QED BY <1>4, <1>6, <1>7, <1>8

LEMMA LinesDoneSteps ==
  ASSUME CInv, LinesDone
  PROVE  Stepped
<1>1. /\ At("lines") /\ NoCall /\ clock' = clock /\ shutdown' = shutdown /\ inhibited' = inhibited
      /\ \/ cli.input_failed /\ cli' = Ended("stop")
         \/ ~cli.input_failed /\ cli' = Ended("tick")
         \/ ~cli.input_failed /\ cli' = [Ended("trailing") EXCEPT !.eof = TRUE]
  BY DEF LinesDone
<1>2. SInv' /\ GateStep /\ ~cycle'.motion_write_attempted
      /\ Barred' = Barred /\ Authorized(session') = Authorized(session)
  BY <1>1, Parts, NoCallSteps
<1>3. CASE cli.input_failed /\ cli' = Ended("stop")
  <2>1. /\ cli' \in Locals /\ cli'.pc = "stop"
    BY <1>3, Parts, EndedFields
  <2>2. Around' /\ Ordered'
    BY <1>1, <1>2, <1>3, <2>1, Parts DEF Around, Ordered, At
  <2> QED BY <1>2, <2>1, <2>2, RunsOn DEF Moves
<1>4. CASE ~cli.input_failed /\ cli' = Ended("tick")
  <2>1. /\ cli' \in Locals /\ cli'.pc = "tick" /\ ~cli'.input_failed
        /\ cli'.quit = cli.quit /\ cli'.eof = cli.eof
    BY <1>4, Parts, EndedFields
  <2>2. Around' /\ Ordered'
    BY <1>1, <1>2, <2>1, Parts DEF Around, Ordered, At
  <2> QED BY <1>2, <2>1, <2>2, RunsOn DEF Moves
<1>5. CASE ~cli.input_failed /\ cli' = [Ended("trailing") EXCEPT !.eof = TRUE]
  <2> DEFINE l == Ended("trailing")
  <2>1. l \in Locals /\ l.pc = "trailing" /\ ~l.input_failed
    BY <1>5, Parts, EndedFields
  <2>2. cli' = [l EXCEPT !.eof = TRUE]
    BY <1>5
  <2> HIDE DEF l
  <2>3. cli' \in Locals /\ cli'.pc = "trailing" /\ ~cli'.input_failed /\ cli'.eof
    BY <2>1, <2>2 DEF Locals
  <2>4. Around' /\ Ordered'
    BY <1>1, <1>2, <2>3, Parts DEF Around, Ordered, At
  <2> QED BY <1>2, <2>3, <2>4, RunsOn DEF Moves
<1> QED BY <1>1, <1>3, <1>4, <1>5

LEMMA TrailingLineSteps ==
  ASSUME CInv, TrailingLine
  PROVE  Stepped
<1> DEFINE l == [cli EXCEPT !.pc = "tick", !.quit = TRUE]
<1>1. /\ At("trailing") /\ shutdown' = shutdown /\ inhibited' = inhibited
      /\ ProcessLine(l) \/ (cli' = l /\ NoCall /\ UNCHANGED clock)
  BY DEF TrailingLine
<1>2. cli.eof /\ ~cli.input_failed
  BY <1>1, Parts DEF Ordered, At
<1>3. l \in Locals /\ l.pc = "tick" /\ l.quit /\ l.eof /\ ~l.input_failed
  BY <1>2, Parts DEF Locals
<1> HIDE DEF l
<1>4. /\ SInv' /\ GateStep /\ ~cycle'.motion_write_attempted /\ clock' \in Time
      /\ \/ cli' = l
         \/ cli' = [l EXCEPT !.quit = TRUE]
         \/ cli' = [l EXCEPT !.input_failed = TRUE] /\ ~Authorized(session')
  BY <1>1, Parts, ProcessSteps, NoCallSteps
<1>5. /\ cli' \in Locals /\ cli'.pc = "tick" /\ cli'.quit /\ cli'.eof
      /\ cli'.input_failed => ~Authorized(session')
  BY <1>3, <1>4 DEF Locals
<1>6. Around' /\ Ordered'
  BY <1>1, <1>4, <1>5, Parts DEF Around, Ordered, At
<1> QED BY <1>4, <1>5, <1>6, RunsOn DEF Moves

LEMMA LoopTickSteps ==
  ASSUME CInv, LoopTick
  PROVE  Stepped
<1>1. PICK now \in Time:
        /\ At("tick") /\ Tick(now) /\ cli' = [cli EXCEPT !.pc = "poll", !.now = now]
        /\ clock' = Larger(now, session'.last_observed) \/ clock' = clock
        /\ shutdown' = shutdown /\ inhibited' = inhibited
  <2>1. CASE TimedTick
    <3>1. PICK now \in Readings:
            TickAt(now, "poll") /\ clock' = Larger(now, session'.last_observed)
      BY <2>1 DEF TimedTick
    <3>2. now \in Time
      BY Parts, ReadingsTime
    <3> QED BY <2>1, <3>1, <3>2 DEF TimedTick, TickAt
  <2>2. CASE UntimedTick
    BY <2>2, TimeFacts DEF UntimedTick, TickAt, ClockFails
  <2> QED BY <2>1, <2>2 DEF LoopTick
<1>2. /\ SInv' /\ GateStep
      /\ cycle'.motion_write_attempted => Authorized(session) /\ ~Barred
      /\ ~Authorized(session) => ~Authorized(session')
  BY <1>1, Parts, TickSteps
<1>3. /\ cli' \in Locals /\ cli'.pc = "poll" /\ cli'.quit = cli.quit
      /\ cli'.input_failed = cli.input_failed
  BY <1>1, Parts DEF Locals
<1>4. clock' \in Time
  <2>1. session'.last_observed \in Time
    BY <1>2 DEF SInv, IInv, TypeOK, Session
  <2> QED BY <1>1, <2>1, Parts, LargerTime
<1>5. /\ cli.input_failed => ~Authorized(session) /\ cli.quit
      /\ cli.quit => cli.eof \/ Barred
  BY <1>1, Parts DEF Ordered, At
<1>6. Around' /\ Ordered'
  BY <1>1, <1>2, <1>3, <1>4, <1>5, Parts DEF Around, Ordered, At
<1>7. Moves
  BY <1>1, <1>2, <1>5 DEF Moves
<1> QED BY <1>2, <1>3, <1>6, <1>7, RunsOn

LEMMA PollInputSteps ==
  ASSUME CInv, PollInput
  PROVE  Stepped
<1>1. /\ At("poll") /\ NoCall /\ clock' = Smaller(Int64Max, clock + 1)
      /\ cli' = Ended("loop") /\ shutdown' = shutdown /\ inhibited' = inhibited
  BY DEF PollInput
<1>2. SInv' /\ GateStep /\ ~cycle'.motion_write_attempted
      /\ Authorized(session') = Authorized(session)
  BY <1>1, Parts, NoCallSteps
<1>3. /\ cli' \in Locals /\ cli'.pc = "loop" /\ cli'.quit = cli.quit
      /\ cli'.input_failed = cli.input_failed
  BY <1>1, Parts, EndedFields
<1>4. clock' \in Time
  BY <1>1, Parts, ClockAssumption DEF Time, Smaller
<1>5. Around' /\ Ordered'
  BY <1>1, <1>2, <1>3, <1>4, Parts DEF Around, Ordered, At
<1> QED BY <1>2, <1>3, <1>5, RunsOn DEF Moves

LEMMA StopDisarmsSteps ==
  ASSUME CInv, StopDisarms
  PROVE  Stepped
<1>1. At("stop") /\ shutdown' = shutdown /\ inhibited' = inhibited
  BY DEF StopDisarms
<1>2. ASSUME NEW now \in Readings, ReadClock(now), Disarm(now),
             cli' = [cli EXCEPT !.pc = "stop_tick", !.now = now]
      PROVE  Stepped
  <2>1. now \in Time /\ clock' = now
    BY <1>2, Parts, ReadingsTime DEF ReadClock
  <2>2. /\ SInv' /\ GateStep /\ ~cycle'.motion_write_attempted
        /\ Barred' /\ ~Authorized(session')
    BY <1>2, <2>1, Parts, DisarmSteps
  <2>3. cli' \in Locals /\ cli'.pc = "stop_tick"
    BY <1>2, <2>1, Parts DEF Locals
  <2>4. Around' /\ Ordered'
    BY <1>1, <2>1, <2>2, <2>3, Parts DEF Around, Ordered, At
  <2> QED BY <2>2, <2>3, <2>4, RunsOn DEF Moves
<1>3. ASSUME ClockFails, Goto("final"), NoCall
      PROVE  Stepped
  <2>1. SInv' /\ GateStep /\ ~cycle'.motion_write_attempted
        /\ Authorized(session') = Authorized(session)
    BY <1>3, Parts, NoCallSteps
  <2>2. cli' \in Locals /\ cli'.pc = "final" /\ cli'.input_failed = cli.input_failed
    BY <1>3, Parts, GotoFields
  <2>3. Around' /\ Ordered'
    BY <1>1, <1>3, <2>1, <2>2, Parts DEF Around, Ordered, At, ClockFails
  <2> QED BY <2>1, <2>2, <2>3, RunsOn DEF Moves
<1> QED BY <1>2, <1>3 DEF StopDisarms

LEMMA StopTickSteps ==
  ASSUME CInv, StopTick
  PROVE  Stepped
<1>1. /\ At("stop_tick") /\ Tick(cli.now) /\ cli' = Ended("final")
      /\ clock' = Larger(clock, session'.last_observed)
      /\ shutdown' = shutdown /\ inhibited' = inhibited
  BY DEF StopTick
<1>2. /\ SInv' /\ GateStep
      /\ cycle'.motion_write_attempted => ~Barred
      /\ ~Authorized(session) => ~Authorized(session')
  BY <1>1, Parts, TickSteps
<1>3. Barred
  BY <1>1, Parts DEF Ordered, At
<1>4. cli' \in Locals /\ cli'.pc = "final" /\ cli'.input_failed = cli.input_failed
  BY <1>1, Parts, EndedFields
<1>5. clock' \in Time
  <2>1. session'.last_observed \in Time
    BY <1>2 DEF SInv, IInv, TypeOK, Session
  <2> QED BY <1>1, <2>1, Parts, LargerTime
<1>6. Around' /\ Ordered'
  BY <1>1, <1>2, <1>4, <1>5, Parts DEF Around, Ordered, At
<1> QED BY <1>2, <1>3, <1>4, <1>6, RunsOn DEF Moves

\* attemptFinalZero(): behind the session's back, but only with a zero frame.
LEMMA FinalZeroAttemptSteps ==
  ASSUME CInv, FinalZeroAttempt
  PROVE  Stepped
<1>1. At("final") /\ transport.connected /\ cli.attempt < MaximumZeroAttempts
  BY DEF FinalZeroAttempt
<1>2. PICK now \in Readings: \E r \in WriteResults(transport.access, now, now + WriteTimeout):
       /\ Later(Larger(now, r.completion))
       /\ wire' = IF r.complete THEN "zero" ELSE wire
       /\ IF Succeeded(r) THEN Ends(ExitCodeOf(TRUE))
          ELSE /\ transport' = TransportAfter(transport, r)
               /\ cli' = [cli EXCEPT !.attempt = cli.attempt + 1]
               /\ cycle' = NoCycle
               /\ UNCHANGED <<session, shutdown, inhibited>>
  BY DEF FinalZeroAttempt
<1>3. PICK r \in WriteResults(transport.access, now, now + WriteTimeout):
       /\ Later(Larger(now, r.completion))
       /\ wire' = IF r.complete THEN "zero" ELSE wire
       /\ IF Succeeded(r) THEN Ends(ExitCodeOf(TRUE))
          ELSE /\ transport' = TransportAfter(transport, r)
               /\ cli' = [cli EXCEPT !.attempt = cli.attempt + 1]
               /\ cycle' = NoCycle
               /\ UNCHANGED <<session, shutdown, inhibited>>
  BY <1>2
<1>4. clock' \in Time /\ wire' \in {wire, "zero"}
  <2>1. now \in Time
    BY Parts, ReadingsTime
  <2>2. now + WriteTimeout \in Int
    BY <2>1, TimeFacts, DurationsAssumption
  <2>3. r.completion \in Int
    BY <2>1, <2>2, WriteCompletion
  <2>4. Larger(now, r.completion) \in Time
    <3>1. Larger(now, r.completion) \in Int /\ Larger(now, r.completion) >= now
      BY <2>1, <2>3, TimeFacts DEF Larger
    <3>2. Larger(now, r.completion) <= Int64Max
      BY <1>3 DEF Later
    <3>3. Larger(now, r.completion) >= 0
      BY <2>1, <3>1, TimeFacts
    <3> QED BY <3>1, <3>2, <3>3, TimeFacts
  <2> QED BY <1>3, <2>4, Parts, LargerTime DEF Later
<1>5. CASE Succeeded(r)
  <2>1. Ends(ExitCodeOf(TRUE)) /\ wire' = "zero"
    BY <1>3, <1>5 DEF Succeeded
  <2>2. ExitCodeOf(TRUE) \in ExitCode
    BY DEF ExitCodeOf, ExitCode
  <2> QED BY <1>4, <2>1, <2>2, EndSteps
<1>6. CASE ~Succeeded(r)
  <2>1. /\ transport' = TransportAfter(transport, r)
        /\ cli' = [cli EXCEPT !.attempt = cli.attempt + 1]
        /\ cycle' = NoCycle /\ session' = session
        /\ shutdown' = shutdown /\ inhibited' = inhibited
    BY <1>3, <1>6
  <2>2. /\ transport' \in Transport /\ transport'.generation = transport.generation
        /\ transport'.connected => transport' = transport
    BY <2>1, Parts, TransportAfterFields
  <2>3. /\ session \in Session /\ Good(session, transport, wire) /\ Tracked(session, transport)
    BY Parts DEF SInv, IInv, Good
  <2>4. /\ SyncedWith(session, transport') => SyncedWith(session, transport) /\ transport' = transport
        /\ Tracked(session, transport')
    BY <2>2, <2>3 DEF SyncedWith, Tracked
  <2>5. Good(session, transport', wire')
    BY <1>4, <2>2, <2>3, <2>4 DEF Good, Coherent, Linked, ActiveOK, OrphanOK
  <2>6. SInv'
    <3>1. TypeOK'
      BY <1>4, <2>1, <2>2, <2>3, Parts DEF TypeOK
    <3> QED BY <2>1, <2>4, <2>5, <3>1 DEF SInv, IInv
  <2>7. GateStep
    <3>1. CASE transport'.connected
      <4>1. GateState(session', transport') = GateState(session, transport)
        BY <2>1, <2>2, <3>1
      <4> QED BY <1>4, <4>1 DEF GateStep, Gate!Next, Gate!Calm
    <3>2. CASE ~transport'.connected
      <4>1. GateState(session', transport') = "lost"
        BY <2>1, <2>3, <3>2, GateOf DEF SyncedWith
      <4> QED BY <1>4, <4>1 DEF GateStep, Gate!Next, Gate!Lose, Gate!AnyFrame
    <3> QED BY <3>1, <3>2
  <2>8. /\ cli' \in Locals /\ cli'.pc = "final" /\ cli'.input_failed = cli.input_failed
    <3>1. cli.attempt + 1 \in 0..MaximumZeroAttempts
      BY <1>1, Parts, BatchFacts
    <3> QED BY <1>1, <2>1, <3>1, Parts DEF Locals, At
  <2>9. Around' /\ Ordered'
    BY <1>1, <1>4, <2>1, <2>8, Parts DEF Around, Ordered, At
  <2>10. Moves
    BY <2>1 DEF Moves, NoCycle
  <2> QED BY <2>6, <2>7, <2>8, <2>9, <2>10, RunsOn
<1> QED BY <1>5, <1>6

-----------------------------------------------------------------------------
(* The theorems *)

LEMMA CliNextSteps ==
  CInv /\ CliNext => Stepped
BY OpenFailsSteps, OpensSteps, LoopEndsSteps, LoopTurnsSteps, ReconnectSteps,
   AwaitReconnectSteps, ReadLineSteps, ObserveFrameSteps, FramesDoneSteps,
   InputFailsSteps, NextLineSteps, LinesDoneSteps, TrailingLineSteps, LoopTickSteps,
   PollInputSteps, StopDisarmsSteps, StopTickSteps, FinalZeroGivesUpSteps,
   FinalZeroAttemptSteps, SignalSteps, KilledSteps, RestartSteps
   DEF CliNext, Process

LEMMA CliInitInvariant ==
  CliInit => CInv /\ Gate!Init
<1> SUFFICES ASSUME CliInit PROVE CInv /\ Gate!Init
  OBVIOUS
<1>1. Init
  <2>1. transport \in Transport /\ transport.connected = FALSE /\ transport.generation = 0
    BY GenerationAssumption DEF CliInit, Transport, SerialAccess
  <2> QED BY <2>1 DEF CliInit, Init
<1>2. SInv /\ Gate!Init
  BY <1>1, InitTracked
<1>3. cli \in Locals /\ cli.pc = "start" /\ ~cli.input_failed /\ ~cli.quit
  <2>1. cli \in Locals /\ cli = NewRun
    BY NewRunType DEF CliInit, ExitCode
  <2> QED BY <2>1 DEF NewRun
<1>4. Around
  <2>1. clock \in Time
    BY CliAssumption, ClockAssumption DEF CliInit, Time
  <2> QED BY <1>3, <2>1 DEF CliInit, Around
<1>5. CliTypeOK
  BY <1>2, <1>4, CliTypeParts DEF SInv, IInv
<1>6. Resting /\ Ordered /\ ExitCodeTellsTruth
  BY <1>3 DEF CliInit, Resting, Ordered, ExitCodeTellsTruth, At
<1> QED BY <1>2, <1>5, <1>6 DEF CInv

LEMMA CliStutters ==
  ASSUME CInv, UNCHANGED cvars
  PROVE  CInv'
<1>1. UNCHANGED <<session, transport, cycle, wire, clock, shutdown, cli, inhibited>>
  BY DEF cvars
<1>2. CliTypeOK' = CliTypeOK
  BY <1>1 DEF CliTypeOK, TypeOK
<1>3. SInv' = SInv
  BY <1>1 DEF SInv, IInv, TypeOK
<1>4. Resting' /\ Ordered' /\ ExitCodeTellsTruth'
  BY <1>1 DEF CInv, Resting, Ordered, ExitCodeTellsTruth, At, Barred
<1> QED BY <1>2, <1>3, <1>4 DEF CInv

\* The process keeps the invariants of its session through kills, restarts and
\* reconnects, and run() is never at a position its input does not allow.
THEOREM CliInvariant == CliSpec => []CInv
<1>1. CInv /\ [CliNext]_cvars => CInv'
  BY CliNextSteps, CliStutters DEF Stepped
<1> QED BY <1>1, CliInitInvariant, PTL DEF CliSpec

\* Every value the process and its session compute is of its type, whatever
\* the bounds of the clock, the batches and the retries.
THEOREM CliTypeCorrect == CliSpec => []CliTypeOK
<1>1. CInv => CliTypeOK
  BY DEF CInv
<1> QED BY <1>1, CliInvariant, PTL

\* The exit codes 0, 7 and 130 of run() are told only behind a zero frame.
THEOREM ExitCodesTellTruth == CliSpec => []ExitCodeTellsTruth
<1>1. CInv => ExitCodeTellsTruth
  BY DEF CInv
<1> QED BY <1>1, CliInvariant, PTL

\* Input that run() refused, or a poll that failed, takes the permission, and
\* no line after it gets it back.
THEOREM FailedInputDisarms == CliSpec => []InputFailureDisarms
<1>1. CInv => InputFailureDisarms
  BY DEF CInv, Ordered, InputFailureDisarms
<1> QED BY <1>1, CliInvariant, PTL

\* After a QUIT and after refused input neither the rest of the batch nor the
\* ticks of the loop and of the shutdown path attempt a motion frame.
THEOREM EndedRunsDoNotMove == CliSpec => NoMotionAfterTheEnd
<1>1. CInv /\ [CliNext]_cvars =>
        [cycle'.motion_write_attempted =>
           /\ At("tick")
           /\ ~cli.input_failed
           /\ cli.quit => cli.eof]_cvars
  BY CliNextSteps DEF Stepped, Moves
<1> QED BY <1>1, CliInvariant, PTL DEF CliSpec, NoMotionAfterTheEnd

\* The whole process implements the gate, with the final zero frames that run()
\* writes past its session, and across kills and restarts: a session that was
\* killed while the vehicle moved owes the new line a zero frame.
THEOREM CliImplementsGate == CliSpec => ImplementsMotionGate
<1>1. CInv /\ [CliNext]_cvars => [Gate!Next]_<<GateState(session, transport), wire>>
  <2>1. CASE CInv /\ CliNext
    BY <2>1, CliNextSteps DEF Stepped, GateStep
  <2>2. CASE UNCHANGED cvars
    BY <2>2 DEF cvars
  <2> QED BY <2>1, <2>2
<1> QED BY <1>1, CliInitInvariant, CliInvariant, PTL
        DEF CliSpec, ImplementsMotionGate, Gate!Spec

=============================================================================
