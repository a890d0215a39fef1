--------------------------- MODULE SafetySession ---------------------------
(***************************************************************************)
(* The single-threaded safety state machine of src/src/safety_session.cpp. *)
(*                                                                         *)
(* A SafetySession is called by its owner (authorize, disarm, requestStop, *)
(* submit, observeFeedback, latchEmergencyStop, resetEmergencyStop, tick)  *)
(* and writes 11-byte frames through an ITransport.  Every method is one   *)
(* action here, every private helper one operator from a session record to *)
(* a session record; the order of the calls in the code is the nesting of  *)
(* the operators.  The transport is seen through the contract of writeAll  *)
(* (WriteResults), which src/src/transport.cpp provides; it may be lost,   *)
(* and reopened with a new generation, between any two calls.              *)
(*                                                                         *)
(* `wire' is the kind of the last complete frame the host handed to the    *)
(* serial line, that is, what the VCU may still be executing.              *)
(***************************************************************************)
EXTENDS TransportContract

CONSTANTS
  \* SafetyConfig.  SpeedLimitsValid stands for the two floating-point limits.
  MaxCommandAge, FeedbackTimeout, TransmitPeriod, WriteTimeout,
  ZeroRetryInterval, MaximumZeroAttempts, FreshCommandsRequired,
  SpeedLimitsValid,
  \* kMaximumDurationNs, the longest duration safetyConfigIsValid accepts
  MaximumDuration,
  \* the commands and the authorization and reset tokens callers may pass
  Command, Token,
  \* bound: the last generation of the transport
  MaxGeneration

\* What lines 232-256 tell apart in a motion: outside the limits (yaw,
\* lateral or encodeCommand refuses it), exactly zero, or a real motion.
MotionClass == {"kRejected", "kExactZero", "kWithinLimits"}

ASSUME DurationsAssumption ==
  /\ MaxCommandAge \in Int /\ FeedbackTimeout \in Int
  /\ TransmitPeriod \in Int /\ WriteTimeout \in Int
  /\ ZeroRetryInterval \in Int /\ MaximumDuration \in Int
  /\ MaximumZeroAttempts \in Nat /\ FreshCommandsRequired \in Nat
  /\ SpeedLimitsValid \in BOOLEAN
ASSUME InputsAssumption ==
  /\ Token \subseteq Nat
  /\ Command \subseteq [sequence: Nat, created: Time, deadline: Time,
                        motion: MotionClass]
ASSUME GenerationAssumption == MaxGeneration \in Nat

VARIABLES
  session,    \* the private fields of SafetySession
  transport,  \* what ITransport shows: connected, generation; access is fixed
  cycle,      \* CycleResult of the last call, NoCycle unless it was a tick
  wire        \* the last complete frame written: none, motion or zero

vars == <<session, transport, cycle, wire>>

-----------------------------------------------------------------------------
(* Types *)

SessionState == {"kConfigurationInvalid", "kDisconnected",
                 "kConnectedInhibited", "kRecovering", "kActive",
                 "kStopPending", "kEmergencyStopLatched", "kFaulted"}
AfterZero == {"kRecovering", "kConnectedInhibited", "kEmergencyStopLatched"}

\* latest_command_ with its receipt time; the frame is its encoding.
CommandSlot == [valid: BOOLEAN, sequence: Nat, created: Time, deadline: Time,
                receipt: Time]
NoCommand == [valid |-> FALSE, sequence |-> 0, created |-> 0, deadline |-> 0,
              receipt |-> 0]

Session == [
  configuration_valid: BOOLEAN, state: SessionState,
  connection_known: BOOLEAN, connection_generation: Nat,
  last_observed: Time,
  authorization_active: BOOLEAN, highest_token: Nat,
  authorized_generation: Nat, authorization_ns: Time,
  highest_sequence: Nat, fresh: 0..FreshCommandsRequired,
  command: CommandSlot, last_motion: Time,
  feedback_seen: BOOLEAN, feedback_receipt: Time,
  zero_active: BOOLEAN, after_zero: AfterZero,
  zero_attempts: 0..MaximumZeroAttempts, next_zero: Time,
  estop: BOOLEAN, highest_reset: Nat]

Transport == [connected: BOOLEAN, generation: 0..MaxGeneration, access: SerialAccess]

CycleAction == {"kNoAction", "kTransmitRateLimited",
                "kMotionHostWriteComplete", "kZeroHostWriteComplete",
                "kZeroHostWriteFailed", "kZeroRetryPending",
                "kZeroRetriesExhausted", "kDisconnected",
                "kConfigurationInvalid", "kClockInvalid"}
\* motion_completion stands for motion_host_write_complete: when a motion frame
\* was complete on the line, in time or late, and 0 if none was.
Cycle == [action: CycleAction, motion_write_attempted: BOOLEAN,
          motion_completion: Time, zero_write_attempted: BOOLEAN]
\* A tick that has written nothing.
Quiet(action) == [action |-> action, motion_write_attempted |-> FALSE,
                  motion_completion |-> 0, zero_write_attempted |-> FALSE]
\* The step was not a tick.
NoCycle == [action |-> "none", motion_write_attempted |-> FALSE,
            motion_completion |-> 0, zero_write_attempted |-> FALSE]
\* A tick whose motion write returned r.
MotionTried(action, r) ==
  [Quiet(action) EXCEPT !.motion_write_attempted = TRUE,
                        !.motion_completion = IF r.complete THEN r.completion ELSE 0]

TypeOK ==
  /\ session \in Session
  /\ transport \in Transport
  /\ cycle \in Cycle \cup {NoCycle}
  /\ wire \in {"none", "motion", "zero"}

-----------------------------------------------------------------------------
(* Arithmetic and freshness *)

\* Mutant: an addition that may leave int64_t.
WrappingAdd(value, delta) == value + delta

SaturatingAdd(value, delta) ==
  IF delta <= 0 THEN value
  ELSE IF value > Int64Max - delta THEN Int64Max ELSE value + delta

BoundedWriteDeadline(now, command_deadline) ==
  Smaller(SaturatingAdd(now, WriteTimeout), command_deadline)

SafetyConfigIsValid ==
  /\ SpeedLimitsValid
  /\ \A d \in {MaxCommandAge, FeedbackTimeout, TransmitPeriod, WriteTimeout,
               ZeroRetryInterval}: d > 0 /\ d <= MaximumDuration
  /\ WriteTimeout <= TransmitPeriod
  /\ TransmitPeriod < MaxCommandAge
  /\ TransmitPeriod < FeedbackTimeout
  /\ MaximumZeroAttempts > 0 /\ MaximumZeroAttempts <= 20
  /\ FreshCommandsRequired > 0 /\ FreshCommandsRequired <= 100

FeedbackIsFresh(s, now) ==
  /\ s.feedback_seen
  /\ s.feedback_receipt > 0
  /\ s.feedback_receipt <= now
  /\ now - s.feedback_receipt <= FeedbackTimeout

CommandIsFresh(s, now) ==
  /\ s.command.valid
  /\ s.command.receipt > 0
  /\ s.command.created <= now
  /\ s.command.receipt <= now
  /\ now <= s.command.deadline
  /\ now - s.command.created <= MaxCommandAge
  /\ now - s.command.receipt <= MaxCommandAge

Authorized(s) ==
  /\ s.configuration_valid
  /\ s.connection_known
  /\ s.authorization_active
  /\ ~s.estop
  /\ s.authorized_generation = s.connection_generation
  /\ s.authorization_ns > 0
  /\ s.state # "kFaulted"

-----------------------------------------------------------------------------
(* The private helpers *)

RevokeAuthorization(s) ==
  [s EXCEPT !.authorization_active = FALSE, !.authorized_generation = 0,
            !.authorization_ns = 0]

\* Mutant: the run is restarted but the cached command survives.
ClearRunOnly(s) == [s EXCEPT !.fresh = 0]

ClearMotionIntent(s) == [s EXCEPT !.command = NoCommand, !.fresh = 0]

ForgetFeedback(s) == [s EXCEPT !.feedback_seen = FALSE, !.feedback_receipt = 0]

\* The state a stop ends in when the authorization does not survive it.
Inhibited(s) == IF s.estop THEN "kEmergencyStopLatched" ELSE "kConnectedInhibited"

\* Mutant: a second request restarts the episode, attempts included.
BeginAfresh(s, t, after_zero, earliest) ==
  IF ~s.connection_known \/ ~t.connected THEN [s EXCEPT !.state = "kDisconnected"]
  ELSE IF s.state = "kFaulted" THEN s
  ELSE [s EXCEPT !.zero_active = TRUE, !.after_zero = after_zero,
                 !.zero_attempts = 0, !.next_zero = Larger(0, earliest),
                 !.state = "kStopPending"]

\* A second request never restarts a running episode, and may only make the
\* state after it stricter.
BeginZeroEpisode(s, t, after_zero, earliest) ==
  IF ~s.connection_known \/ ~t.connected THEN [s EXCEPT !.state = "kDisconnected"]
  ELSE IF s.state = "kFaulted" THEN s
  ELSE IF s.zero_active THEN
    IF \/ after_zero = "kEmergencyStopLatched"
       \/ after_zero = "kConnectedInhibited" /\ s.after_zero = "kRecovering"
    THEN [s EXCEPT !.after_zero = after_zero] ELSE s
  ELSE [s EXCEPT !.zero_active = TRUE, !.after_zero = after_zero,
                 !.zero_attempts = 0, !.next_zero = Larger(0, earliest),
                 !.state = "kStopPending"]

\* Mutant: the permission is withdrawn and the vehicle left moving.
RevokeWithoutZero(s, t, after_zero, earliest) ==
  ClearMotionIntent(RevokeAuthorization(s))

\* revokeAuthorization, clearMotionIntent, beginZeroEpisode, as every caller
\* that withdraws the permission composes them.
RevokeWithZero(s, t, after_zero, earliest) ==
  BeginZeroEpisode(ClearMotionIntent(RevokeAuthorization(s)), t, after_zero, earliest)

\* Mutant: the command is dropped without a stop.
StopWithoutZero(s, t, after_zero, earliest) == ClearMotionIntent(s)

\* clearMotionIntent, beginZeroEpisode: the stop that keeps the permission.
StopWithZero(s, t, after_zero, earliest) ==
  BeginZeroEpisode(ClearMotionIntent(s), t, after_zero, earliest)

\* What handleDisconnect and handleNewConnection both forget.
ForgetConnection(s) ==
  [ForgetFeedback(ClearMotionIntent(RevokeAuthorization(s))) EXCEPT
     !.zero_active = FALSE, !.zero_attempts = 0, !.next_zero = 0,
     !.last_motion = 0]

HandleDisconnect(s) ==
  [ForgetConnection(s) EXCEPT
     !.connection_known = FALSE,
     !.state = IF s.configuration_valid THEN "kDisconnected" ELSE s.state]

\* Mutant: a new line is taken for a stopped one.
AttachWithoutZero(s, t) ==
  [ForgetConnection(s) EXCEPT !.connection_known = TRUE,
                              !.connection_generation = t.generation,
                              !.state = Inhibited(s)]

HandleNewConnection(s, t) ==
  BeginZeroEpisode([ForgetConnection(s) EXCEPT
                      !.connection_known = TRUE,
                      !.connection_generation = t.generation,
                      !.state = "kConnectedInhibited"],
                   t, Inhibited(s), 0)

HandleClockFailure(s, t) ==
  LET inhibited == ForgetFeedback(ClearMotionIntent(RevokeAuthorization(s))) IN
  IF s.connection_known /\ t.connected
  THEN BeginZeroEpisode(inhibited, t, Inhibited(s), s.last_observed)
  ELSE inhibited

\* synchronizeConnection: kDisconnected, kNewGeneration or kUnchanged
Attached(t) == t.connected /\ t.generation # 0
\* Mutant: a line reopened between two calls looks like the old one.
GenerationIgnored(s, t) == ~s.connection_known
NewGeneration(s, t) == ~s.connection_known \/ t.generation # s.connection_generation
SynchronizeConnection(s, t) ==
  IF ~Attached(t) THEN HandleDisconnect(s)
  ELSE IF NewGeneration(s, t) THEN HandleNewConnection(s, t)
  ELSE s

\* observeMonotonicTime: the test and, when it passes, the assignment
TimeValid(s, now) == now > 0 /\ ~(s.last_observed > 0 /\ now < s.last_observed)
ObserveMonotonicTime(s, now) ==
  [s EXCEPT !.last_observed = Larger(s.last_observed, now)]

\* How every method but latchEmergencyStop begins, and whether it goes on.
Enter(s, t, now) ==
  IF ~s.configuration_valid THEN s
  ELSE IF ~TimeValid(s, now) THEN HandleClockFailure(s, t)
  ELSE SynchronizeConnection(ObserveMonotonicTime(s, now), t)
Proceeds(s, t, now) == s.configuration_valid /\ TimeValid(s, now) /\ Attached(t)

-----------------------------------------------------------------------------
(* attemptZero *)

CountZeroAttempt(s, r) ==
  [s EXCEPT !.zero_attempts = s.zero_attempts + 1,
            !.last_observed = Larger(s.last_observed, r.completion)]

ZeroComplete(s) ==
  [s EXCEPT !.zero_active = FALSE, !.zero_attempts = 0, !.next_zero = 0,
            !.state = IF s.estop THEN "kEmergencyStopLatched" ELSE s.after_zero]

\* Mutant: the last failure is not reported as a fault.
ExhaustedUnreported(s) == [s EXCEPT !.zero_active = FALSE]

ZeroRetriesExhausted(s) ==
  [s EXCEPT !.zero_active = FALSE, !.state = "kFaulted"]

ScheduleZeroRetry(s, now, r) ==
  [s EXCEPT !.next_zero = SaturatingAdd(Larger(now, r.completion), ZeroRetryInterval)]

\* The session after the zero write begun at `now' returned r.
AfterZeroWrite(s, t, now, r) ==
  LET counted == CountZeroAttempt(s, r) IN
  IF ~TransportAfter(t, r).connected THEN HandleDisconnect(counted)
  ELSE IF Succeeded(r) THEN ZeroComplete(counted)
  ELSE IF counted.zero_attempts >= MaximumZeroAttempts THEN ZeroRetriesExhausted(counted)
  ELSE ScheduleZeroRetry(counted, now, r)

ZeroAction(s, t, r) ==
  IF ~TransportAfter(t, r).connected THEN "kDisconnected"
  ELSE IF Succeeded(r) THEN "kZeroHostWriteComplete"
  ELSE IF s.zero_attempts + 1 >= MaximumZeroAttempts THEN "kZeroRetriesExhausted"
  ELSE "kZeroHostWriteFailed"

\* result and wire_before: what the same tick already did.
AttemptZero(s, now, result, wire_before) ==
  \/ /\ now < s.next_zero
     /\ session' = s
     /\ cycle' = [result EXCEPT !.action = "kZeroRetryPending"]
     /\ wire' = wire_before
     /\ UNCHANGED transport
  \/ /\ now >= s.next_zero
     /\ \E r \in WriteResults(transport.access, now, BoundedWriteDeadline(now, Int64Max)):
          /\ session' = AfterZeroWrite(s, transport, now, r)
          /\ transport' = TransportAfter(transport, r)
          /\ cycle' = [result EXCEPT !.action = ZeroAction(s, transport, r),
                                     !.zero_write_attempted = TRUE]
          /\ wire' = IF r.complete THEN "zero" ELSE wire_before

-----------------------------------------------------------------------------
(* The constructor *)

NewSession(valid) == [
  configuration_valid |-> valid, state |-> "kConfigurationInvalid",
  connection_known |-> FALSE, connection_generation |-> 0,
  last_observed |-> 0,
  authorization_active |-> FALSE, highest_token |-> 0,
  authorized_generation |-> 0, authorization_ns |-> 0,
  highest_sequence |-> 0, fresh |-> 0, command |-> NoCommand,
  last_motion |-> 0, feedback_seen |-> FALSE, feedback_receipt |-> 0,
  zero_active |-> FALSE, after_zero |-> "kConnectedInhibited",
  zero_attempts |-> 0, next_zero |-> 0, estop |-> FALSE, highest_reset |-> 0]

\* A null transport makes the configuration invalid; one that was never
\* opened has generation 0.
Init ==
  /\ transport \in {t \in Transport: t.generation = IF t.connected THEN 1 ELSE 0}
  /\ session \in {NewSession(FALSE)}
                 \cup (IF SafetyConfigIsValid
                       THEN {SynchronizeConnection(NewSession(TRUE), transport)}
                       ELSE {})
  /\ cycle = NoCycle
  /\ wire = "none"

-----------------------------------------------------------------------------
(* The public methods; `now' is the time the caller passes *)

Entered(now) == Enter(session, transport, now)
Goes(now) == Proceeds(session, transport, now)
OnlySession == cycle' = NoCycle /\ UNCHANGED <<transport, wire>>

MayAuthorize(s, token, now) ==
  /\ ~s.estop
  /\ s.state # "kFaulted"
  /\ ~s.zero_active
  /\ ~NewGeneration(session, transport)
  /\ token # 0 /\ token > s.highest_token
  /\ FeedbackIsFresh(s, now)

Granted(s, token, now) ==
  [ClearMotionIntent(s) EXCEPT
     !.highest_token = token, !.authorization_active = TRUE,
     !.authorized_generation = s.connection_generation,
     !.authorization_ns = now, !.state = "kRecovering"]

Authorize(token, now) ==
  LET s == Entered(now) IN
  /\ session' = IF Goes(now) /\ MayAuthorize(s, token, now)
                THEN Granted(s, token, now) ELSE s
  /\ OnlySession

Disarm(now) ==
  LET s == Entered(now) IN
  /\ session' = IF Goes(now) /\ s.state # "kFaulted"
                THEN RevokeWithZero(s, transport, Inhibited(s), now) ELSE s
  /\ OnlySession

RequestStop(now) ==
  LET s == Entered(now)
      after_zero == IF s.estop THEN "kEmergencyStopLatched"
                    ELSE IF Authorized(s) THEN "kRecovering" ELSE "kConnectedInhibited"
  IN /\ session' = IF Goes(now) /\ s.state # "kFaulted"
                   THEN StopWithZero(s, transport, after_zero, now) ELSE s
     /\ OnlySession

\* Feedback is abstracted to what decodeFeedbackFrame reports of it.
ObserveFeedback(decoded, now) ==
  LET s == Entered(now) IN
  /\ session' =
       IF ~Goes(now) \/ decoded = "kInvalid" THEN s
       ELSE IF decoded = "kControlAllowed"
            THEN [s EXCEPT !.feedback_seen = TRUE, !.feedback_receipt = now]
       ELSE RevokeWithZero(ForgetFeedback(s), transport, Inhibited(s), now)
  /\ OnlySession

\* The latch itself needs neither a valid time nor a connection.
LatchEmergencyStop(now) ==
  LET latched == ForgetFeedback(ClearMotionIntent(RevokeAuthorization(
                   [session EXCEPT !.estop = TRUE])))
      timed == IF TimeValid(latched, now) THEN ObserveMonotonicTime(latched, now) ELSE latched
      s == SynchronizeConnection(timed, transport)
  IN /\ session' =
          IF ~session.configuration_valid
          THEN [latched EXCEPT !.state = "kConfigurationInvalid"]
          ELSE IF ~Attached(transport) \/ s.state = "kFaulted" THEN s
          ELSE BeginZeroEpisode(s, transport, "kEmergencyStopLatched",
                 IF TimeValid(latched, now) THEN now ELSE s.last_observed)
     /\ OnlySession

\* Mutants: a reset during the stop it should wait for; a reset of a fault.
MayResetEarly(s, token, now) ==
  /\ ~NewGeneration(session, transport)
  /\ s.state # "kFaulted"
  /\ token # 0 /\ token > s.highest_reset
  /\ FeedbackIsFresh(s, now)

MayResetFaulted(s, token, now) ==
  /\ ~NewGeneration(session, transport)
  /\ ~s.zero_active
  /\ token # 0 /\ token > s.highest_reset
  /\ FeedbackIsFresh(s, now)

MayReset(s, token, now) ==
  /\ ~NewGeneration(session, transport)
  /\ ~s.zero_active
  /\ s.state # "kFaulted"
  /\ token # 0 /\ token > s.highest_reset
  /\ FeedbackIsFresh(s, now)

ResetEmergencyStop(token, now) ==
  LET s == Entered(now) IN
  /\ session' =
       IF ~session.estop THEN session
       ELSE IF Goes(now) /\ MayReset(s, token, now)
            THEN [ClearMotionIntent(RevokeAuthorization(s)) EXCEPT
                    !.highest_reset = token, !.estop = FALSE,
                    !.state = "kConnectedInhibited"]
       ELSE s
  /\ OnlySession

-----------------------------------------------------------------------------
(* submit *)

TimestampMalformed(c, now) ==
  c.created <= 0 \/ c.created > now \/ c.deadline <= c.created
StaleOnArrival(c, now) == now > c.deadline \/ now - c.created > MaxCommandAge
PreviousIsStale(s, now) ==
  now > s.command.deadline \/ now - s.command.receipt > MaxCommandAge

\* The first test of submit that a command fails, in the order of the code.
SubmissionStatus(s, c, now) ==
  IF s.estop THEN "kEmergencyStopLatched"
  ELSE IF s.state = "kFaulted" THEN "kFaulted"
  ELSE IF c.sequence = 0 \/ c.sequence <= s.highest_sequence THEN "kSequenceInvalid"
  ELSE IF TimestampMalformed(c, now) THEN "kTimestampInvalid"
  ELSE IF StaleOnArrival(c, now) THEN "kStale"
  ELSE IF ~Authorized(s) \/ s.zero_active \/ NewGeneration(session, transport)
       THEN "kNotAuthorized"
  ELSE IF c.created <= s.authorization_ns THEN "kPredatesAuthorization"
  ELSE IF c.motion = "kRejected" THEN "kEncodingRejected"
  ELSE IF c.motion = "kExactZero" THEN "kStopAccepted"
  ELSE IF ~FeedbackIsFresh(s, now) THEN "kFeedbackUnavailable"
  ELSE IF s.command.valid /\ ~PreviousIsStale(s, now) /\ c.created <= s.command.created
       THEN "kTimestampInvalid"
  ELSE "kAccepted"

Consume(s, c) == [s EXCEPT !.highest_sequence = c.sequence]

Accept(s, c, now) ==
  LET kept == IF s.command.valid /\ PreviousIsStale(s, now)
              THEN ClearMotionIntent(s) ELSE s
      fresh == Smaller(kept.fresh + 1, FreshCommandsRequired)
  IN [kept EXCEPT
        !.command = [valid |-> TRUE, sequence |-> c.sequence, created |-> c.created,
                     deadline |-> c.deadline, receipt |-> now],
        !.fresh = fresh,
        !.state = IF fresh >= FreshCommandsRequired THEN "kActive" ELSE "kRecovering"]

Submitted(s, c, now) ==
  LET status == SubmissionStatus(s, c, now) IN
  CASE status \in {"kEmergencyStopLatched", "kFaulted"} -> s
    [] status = "kSequenceInvalid" ->
         RevokeWithZero(s, transport, "kConnectedInhibited", now)
    [] status \in {"kTimestampInvalid", "kEncodingRejected"} ->
         RevokeWithZero(Consume(s, c), transport, "kConnectedInhibited", now)
    [] status = "kStale" ->
         StopWithZero(Consume(s, c), transport,
                      IF Authorized(s) THEN "kRecovering" ELSE "kConnectedInhibited", now)
    [] status = "kNotAuthorized" -> ClearMotionIntent(Consume(s, c))
    [] status \in {"kPredatesAuthorization", "kStopAccepted", "kFeedbackUnavailable"} ->
         StopWithZero(Consume(s, c), transport, "kRecovering", now)
    [] status = "kAccepted" -> Accept(Consume(s, c), c, now)

Submit(c, now) ==
  /\ session' = IF Goes(now) THEN Submitted(Entered(now), c, now) ELSE Entered(now)
  /\ OnlySession

-----------------------------------------------------------------------------
(* tick *)

\* The tick ends before it looks at the episode.
TickStops(now) ==
  /\ ~Goes(now)
  /\ session' = Entered(now)
  /\ cycle' = Quiet(IF ~session.configuration_valid THEN "kConfigurationInvalid"
                    ELSE IF ~TimeValid(session, now) THEN "kClockInvalid"
                    ELSE "kDisconnected")
  /\ UNCHANGED <<transport, wire>>

\* No episode, and nothing to send in this state.
TickIdle(now) ==
  LET s == Entered(now) IN
  /\ Goes(now)
  /\ ~s.zero_active
  /\ s.state # "kActive" \/ s.estop
  /\ session' = IF s.state # "kFaulted" /\ s.estop
                THEN [s EXCEPT !.state = "kEmergencyStopLatched"] ELSE s
  /\ cycle' = Quiet("kNoAction")
  /\ UNCHANGED <<transport, wire>>

TickZero(now) ==
  LET s == Entered(now) IN
  /\ Goes(now)
  /\ s.zero_active
  /\ AttemptZero(s, now, Quiet("kNoAction"), wire)

\* The tests an Active session makes before it may send.
ActiveAt(s) == ~s.zero_active /\ s.state = "kActive" /\ ~s.estop
WatchdogsHold(s, now) == FeedbackIsFresh(s, now) /\ CommandIsFresh(s, now)

TickExpired(now) ==
  LET s == Entered(now) IN
  /\ Goes(now)
  /\ ActiveAt(s)
  /\ ~(Authorized(s) /\ WatchdogsHold(s, now))
  /\ AttemptZero(StopWithZero(s, transport,
                   IF Authorized(s) THEN "kRecovering" ELSE "kConnectedInhibited", now),
                 now, Quiet("kNoAction"), wire)

RateLimited(s, now) == s.last_motion > 0 /\ now - s.last_motion < TransmitPeriod
MaySend(s, now) == ActiveAt(s) /\ Authorized(s) /\ WatchdogsHold(s, now)

TickRateLimited(now) ==
  LET s == Entered(now) IN
  /\ Goes(now)
  /\ MaySend(s, now)
  /\ RateLimited(s, now)
  /\ session' = s
  /\ cycle' = Quiet("kTransmitRateLimited")
  /\ UNCHANGED <<transport, wire>>

\* Mutant: the period is counted from the beginning of the write.
MotionBegun(s, now, r) ==
  [s EXCEPT !.last_motion = now,
            !.last_observed = Larger(s.last_observed, r.completion)]

MotionWritten(s, now, r) ==
  LET completion == IF r.completion > 0 THEN r.completion ELSE now IN
  [s EXCEPT !.last_motion = completion,
            !.last_observed = Larger(s.last_observed, completion)]

\* A failed motion write revokes the authorization and goes on to a zero
\* write in the same tick.
TickMotion(now) ==
  LET s == Entered(now)
      revoked == ClearMotionIntent(RevokeAuthorization(s))
  IN
  /\ Goes(now)
  /\ MaySend(s, now)
  /\ ~RateLimited(s, now)
  /\ \E r \in WriteResults(transport.access, now, BoundedWriteDeadline(now, s.command.deadline)):
       LET wire_after == IF r.complete THEN "motion" ELSE wire
           zero_start == Larger(now, r.completion)
       IN
       \/ /\ Succeeded(r)
          /\ session' = MotionWritten(s, now, r)
          /\ cycle' = MotionTried("kMotionHostWriteComplete", r)
          /\ wire' = wire_after
          /\ UNCHANGED transport
       \/ /\ ~Succeeded(r)
          /\ ~TransportAfter(transport, r).connected
          /\ session' = HandleDisconnect(revoked)
          /\ transport' = TransportAfter(transport, r)
          /\ cycle' = MotionTried("kDisconnected", r)
          /\ wire' = wire_after
       \/ /\ ~Succeeded(r)
          /\ TransportAfter(transport, r).connected
          /\ AttemptZero(BeginZeroEpisode(revoked, transport, "kConnectedInhibited", zero_start),
                         zero_start, MotionTried("kNoAction", r), wire_after)

Tick(now) ==
  \/ TickStops(now)
  \/ TickIdle(now)
  \/ TickZero(now)
  \/ TickExpired(now)
  \/ TickRateLimited(now)
  \/ TickMotion(now)

-----------------------------------------------------------------------------
(* The transport between two calls: its owner reads, closes and reopens it *)

TransportLost ==
  /\ transport.connected
  /\ transport' = [transport EXCEPT !.connected = FALSE]
  /\ cycle' = NoCycle
  /\ UNCHANGED <<session, wire>>

\* open and reopen: the descriptor is new, and so is the generation.
TransportReopened ==
  /\ transport.generation < MaxGeneration
  /\ transport' = [transport EXCEPT !.connected = TRUE,
                                    !.generation = transport.generation + 1]
  /\ cycle' = NoCycle
  /\ UNCHANGED <<session, wire>>

Next ==
  \/ \E now \in Time:
       \/ \E token \in Token: Authorize(token, now) \/ ResetEmergencyStop(token, now)
       \/ \E c \in Command: Submit(c, now)
       \/ \E decoded \in {"kInvalid", "kControlAllowed", "kControlInhibited"}:
            ObserveFeedback(decoded, now)
       \/ Disarm(now) \/ RequestStop(now) \/ LatchEmergencyStop(now)
       \/ Tick(now)
  \/ TransportLost \/ TransportReopened

Spec == Init /\ [][Next]_vars

-----------------------------------------------------------------------------
(* Properties *)

\* The session has seen the connection the transport has now.
SyncedWith(s, t) ==
  s.connection_known /\ t.connected /\ t.generation = s.connection_generation
InSync == SyncedWith(session, transport)

\* Whenever the last complete frame on the line is a motion and the session
\* no longer holds the operator's permission on this connection, a zero
\* episode is under way or its retry budget is spent: no way of losing the
\* permission (disarm, inhibiting feedback, emergency stop, clock failure,
\* rejected command, failed write) forgets to stop the vehicle.
NoOrphanMotion ==
  InSync /\ wire = "motion" /\ ~Authorized(session)
    => session.zero_active \/ session.state = "kFaulted"

\* Only a session that is authorized for this very connection, caches a
\* command, has counted the whole run of fresh commands, is not latched and
\* has no zero to send is Active.
ActiveIsEarned ==
  InSync /\ session.state = "kActive"
    => /\ Authorized(session)
       /\ session.command.valid
       /\ session.fresh = FreshCommandsRequired
       /\ ~session.zero_active

\* The cached command is always the newest one ever consumed: no refused,
\* replayed or late command leaves an older motion behind it to be sent.
CachedCommandIsNewest ==
  session.command.valid =>
    /\ session.command.sequence = session.highest_sequence
    /\ session.command.created > session.authorization_ns
    /\ session.command.created <= session.command.receipt
    /\ session.command.receipt <= session.last_observed

\* A session is StopPending exactly while a zero episode runs, whatever a
\* lost line or a bad clock did to it meanwhile, and a running episode always
\* has an attempt left.
EpisodeHasBudget ==
  /\ session.zero_active <=> session.state = "kStopPending"
  /\ session.zero_active => session.zero_attempts < MaximumZeroAttempts

\* kFaulted is left only by losing the connection, and a session that has
\* exhausted its retries never writes again on that connection.
FaultIsFinal ==
  [][session.state = "kFaulted" =>
       /\ session'.state # "kFaulted" =>
            \/ session'.state = "kDisconnected"
            \/ session'.connection_generation > session.connection_generation
       /\ (cycle'.motion_write_attempted \/ cycle'.zero_write_attempted) =>
            session'.connection_generation > session.connection_generation]_vars

\* Once the permission is gone, a motion frame does not stay the last word on
\* the line: a zero frame follows it, the session reports kFaulted, or the
\* line is lost.
UnpermittedMotionEnds ==
  InSync /\ wire = "motion" /\ ~Authorized(session)
    ~> wire # "motion" \/ session.state = "kFaulted" \/ ~InSync

\* The session as a gate for motion frames.  A session that has not seen the
\* transport's present connection is lost to it.
GateState(s, t) ==
  IF ~SyncedWith(s, t) THEN "lost"
  ELSE CASE s.state = "kStopPending" -> "stopping"
         [] s.state = "kRecovering" -> "ready"
         [] s.state = "kActive" -> "open"
         [] s.state = "kFaulted" -> "failed"
         [] s.state \in {"kConnectedInhibited", "kEmergencyStopLatched"} -> "shut"
         [] s.state \in {"kDisconnected", "kConfigurationInvalid"} -> "lost"

Gate == INSTANCE MotionGate WITH gate <- GateState(session, transport), wire <- wire

\* The session implements the gate: a motion frame leaves only through an open
\* gate, which opens only after a zero frame on the present line and a new
\* permission; a line newly found is shut only behind a zero frame; a failed
\* gate stays failed until the line is lost.  No sequence of calls, failed or
\* late writes and reconnects takes a step the gate does not know.
ImplementsMotionGate == Gate!Spec

\* docs/safety.md:25-26 of the feedback watchdog: when no allowing feedback
\* arrives in time, its expiry starts the zero frames.  So a tick that finds
\* nothing to do leaves a motion frame on the line only while the feedback is
\* fresh.
FeedbackWatchdogZeroes ==
  cycle.action = "kNoAction" /\ InSync /\ wire = "motion"
    => FeedbackIsFresh(session, session.last_observed) \/ session.state = "kFaulted"

=============================================================================
