------------------------ MODULE SafetySessionProofs ------------------------
(***************************************************************************)
(* SafetySession, proved for every configuration, every set of commands    *)
(* and tokens and every bound: its invariants, then that it implements     *)
(* MotionGate, then its two action properties.                             *)
(*                                                                         *)
(* Every method first enters (Enter: clock, then connection) and then      *)
(* changes the session it found.  Both parts follow that split: what the   *)
(* entry does, what each helper does, and one lemma per method that puts   *)
(* the two together.                                                       *)
(***************************************************************************)
EXTENDS SafetySession, TLAPS

-----------------------------------------------------------------------------
(* The inductive invariant *)

\* What the connection, the episode and the latch say about each other.
Linked(s, t) ==
  /\ s.configuration_valid => MaximumZeroAttempts > 0 /\ FreshCommandsRequired > 0
  /\ s.configuration_valid <=> s.state # "kConfigurationInvalid"
  /\ s.connection_known => s.configuration_valid
  /\ s.connection_known => s.connection_generation <= t.generation
  /\ s.zero_active <=> s.state = "kStopPending"
  /\ s.zero_active => s.connection_known /\ s.zero_attempts < MaximumZeroAttempts
  /\ s.estop => ~s.authorization_active

\* What a cached command owes to the commands and authorizations before it.
Cached(s) ==
  s.command.valid =>
    /\ s.command.sequence = s.highest_sequence
    /\ s.command.created > s.authorization_ns
    /\ s.command.created <= s.command.receipt
    /\ s.command.receipt <= s.last_observed

\* Both hold also between two helpers of one call; the rest between calls.
Coherent(s, t) == Linked(s, t) /\ Cached(s)
ActiveOK(s, t) ==
  SyncedWith(s, t) /\ s.state = "kActive"
    => Authorized(s) /\ s.command.valid /\ s.fresh = FreshCommandsRequired
OrphanOK(s, t, w) ==
  SyncedWith(s, t) /\ w = "motion" /\ ~Authorized(s)
    => s.zero_active \/ s.state = "kFaulted"
Good(s, t, w) ==
  /\ s \in Session
  /\ Coherent(s, t)
  /\ ActiveOK(s, t)
  /\ OrphanOK(s, t, w)

Stopping(s) == s.zero_active \/ s.state = "kFaulted"

IInv == TypeOK /\ Good(session, transport, wire)

-----------------------------------------------------------------------------
(* Arithmetic *)

LEMMA TimeFacts ==
  /\ 0 \in Time
  /\ \A x \in Time: x \in Int /\ x \in Nat /\ 0 <= x /\ x <= Int64Max
  /\ \A x \in Int: 0 <= x /\ x <= Int64Max => x \in Time
BY ClockAssumption DEF Time

LEMMA CountFacts ==
  /\ 0 \in 0..FreshCommandsRequired
  /\ 0 \in 0..MaximumZeroAttempts
BY DurationsAssumption

LEMMA LargerTime ==
  ASSUME NEW a \in Time, NEW b \in Time
  PROVE  Larger(a, b) \in Time /\ Larger(a, b) >= a /\ Larger(a, b) >= b
BY TimeFacts DEF Larger

LEMMA SaturatingAddTime ==
  ASSUME NEW v \in Time, NEW d \in Int
  PROVE  SaturatingAdd(v, d) \in Time
BY TimeFacts, ClockAssumption DEF SaturatingAdd

LEMMA DeadlineTime ==
  ASSUME NEW now \in Time, NEW d \in Time
  PROVE  BoundedWriteDeadline(now, d) \in Time
<1>1. SaturatingAdd(now, WriteTimeout) \in Time
  BY SaturatingAddTime, DurationsAssumption
<1> QED BY <1>1 DEF BoundedWriteDeadline, Smaller

LEMMA IntervalTime ==
  ASSUME NEW a \in Int, NEW b \in Int, 0 <= a, b <= Int64Max
  PROVE  a..b \subseteq Time
BY ClockAssumption DEF Time

LEMMA WriteResultType ==
  ASSUME NEW status, NEW complete \in BOOLEAN, NEW times \in SUBSET Time,
         NEW r \in WriteResult(status, complete, times)
  PROVE  r.completion \in Time /\ r.complete \in BOOLEAN
BY DEF WriteResult

LEMMA WriteResultsType ==
  ASSUME NEW access, NEW now \in Time, NEW deadline \in Time,
         NEW r \in WriteResults(access, now, deadline)
  PROVE  r.completion \in Time /\ r.complete \in BOOLEAN
<1>1. CASE access # "kReadWrite"
  <2>1. r \in WriteResult("kWriteDisabled", FALSE, {0})
    BY <1>1 DEF WriteResults
  <2>2. {0} \subseteq Time
    BY TimeFacts
  <2> QED BY <2>1, <2>2, WriteResultType
<1>2. CASE access = "kReadWrite"
  <2> DEFINE latest == Smaller(Int64Max, Larger(now, deadline) + MaxOverrun)
             inTime == WriteResult("kOk", TRUE, now..deadline)
             late == WriteResult("kDeadlineExceeded", TRUE, (deadline + 1)..latest)
             expired == WriteResult("kDeadlineExceeded", FALSE, Larger(now, deadline)..latest)
             failed == WriteResult("kIoError", FALSE, now..latest)
             gone == WriteResult("kDisconnected", FALSE, now..latest)
  <2>1. latest \in Int /\ latest <= Int64Max /\ Larger(now, deadline) \in Int
        /\ 0 <= Larger(now, deadline)
    BY TimeFacts, ClockAssumption DEF Smaller, Larger
  <2>2. now \in Int /\ 0 <= now /\ deadline \in Int /\ 0 <= deadline /\ deadline <= Int64Max
        /\ deadline + 1 \in Int /\ 0 <= deadline + 1
    BY TimeFacts
  <2> HIDE DEF latest
  <2>3. /\ now..deadline \in SUBSET Time /\ (deadline + 1)..latest \in SUBSET Time
        /\ Larger(now, deadline)..latest \in SUBSET Time /\ now..latest \in SUBSET Time
    BY <2>1, <2>2, IntervalTime
  <2>4. r \in inTime \/ r \in late \/ r \in expired \/ r \in failed \/ r \in gone
    <3>1. WriteResults(access, now, deadline) =
            UNION {IF now < deadline THEN inTime \cup late ELSE {}, expired, failed, gone}
      BY <1>2 DEF WriteResults, latest
    <3> HIDE DEF inTime, late, expired, failed, gone
    <3> QED BY <3>1
  <2>5. CASE r \in inTime BY <2>3, <2>5, WriteResultType
  <2>6. CASE r \in late BY <2>3, <2>6, WriteResultType
  <2>7. CASE r \in expired BY <2>3, <2>7, WriteResultType
  <2>8. CASE r \in failed BY <2>3, <2>8, WriteResultType
  <2>9. CASE r \in gone BY <2>3, <2>9, WriteResultType
  <2> QED BY <2>4, <2>5, <2>6, <2>7, <2>8, <2>9
<1> QED BY <1>1, <1>2

-----------------------------------------------------------------------------
(* The helpers *)

LEMMA RevokeCoherent ==
  ASSUME NEW s \in Session, NEW t, Coherent(s, t)
  PROVE  /\ RevokeAuthorization(s) \in Session
         /\ Coherent(RevokeAuthorization(s), t)
<1>1. RevokeAuthorization(s) \in Session
  BY TimeFacts DEF Session, RevokeAuthorization
<1>2. Coherent(RevokeAuthorization(s), t)
  BY TimeFacts DEF Session, RevokeAuthorization, Coherent, Linked, Cached, CommandSlot
<1> QED BY <1>1, <1>2

LEMMA ClearCoherent ==
  ASSUME NEW s \in Session, NEW t, Coherent(s, t)
  PROVE  /\ ClearMotionIntent(s) \in Session
         /\ Coherent(ClearMotionIntent(s), t)
<1>1. ClearMotionIntent(s) \in Session
  BY TimeFacts, CountFacts DEF Session, ClearMotionIntent, NoCommand, CommandSlot
<1>2. Coherent(ClearMotionIntent(s), t)
  BY DEF Session, ClearMotionIntent, NoCommand, Coherent, Linked, Cached
<1> QED BY <1>1, <1>2

LEMMA ForgetFeedbackCoherent ==
  ASSUME NEW s \in Session, NEW t, Coherent(s, t)
  PROVE  /\ ForgetFeedback(s) \in Session
         /\ Coherent(ForgetFeedback(s), t)
<1>1. ForgetFeedback(s) \in Session
  BY TimeFacts DEF Session, ForgetFeedback
<1>2. Coherent(ForgetFeedback(s), t)
  BY DEF Session, ForgetFeedback, Coherent, Linked, Cached
<1> QED BY <1>1, <1>2

\* Whatever the session did before, the episode makes it sound again.
LEMMA BeginGood ==
  ASSUME NEW s \in Session, NEW t, NEW after \in AfterZero, NEW earliest \in Time,
         Coherent(s, t), SyncedWith(s, t)
  PROVE  LET r == BeginZeroEpisode(s, t, after, earliest) IN
         /\ r \in Session
         /\ Coherent(r, t)
         /\ Stopping(r)
         /\ SyncedWith(r, t)
         /\ s.state # "kFaulted" => r.zero_active
<1> DEFINE r == BeginZeroEpisode(s, t, after, earliest)
<1>1. r \in Session
  BY ZenonT(60), TimeFacts, CountFacts, LargerTime
  DEF Session, BeginZeroEpisode, SessionState, AfterZero
<1>2. Coherent(r, t)
  BY DEF Session, BeginZeroEpisode, Coherent, Linked, Cached, SyncedWith
<1>3. Stopping(r) /\ SyncedWith(r, t) /\ (s.state # "kFaulted" => r.zero_active)
  BY DEF Session, BeginZeroEpisode, SyncedWith, Stopping
<1> QED BY <1>1, <1>2, <1>3

LEMMA StoppingGood ==
  ASSUME NEW s \in Session, NEW t, NEW w, Coherent(s, t), Stopping(s)
  PROVE  Good(s, t, w)
BY DEF Good, Stopping, ActiveOK, OrphanOK, Coherent, Linked, Cached

LEMMA ForgetConnectionFields ==
  ASSUME NEW s \in Session
  PROVE  LET u == ForgetConnection(s) IN
         /\ u \in Session
         /\ u.configuration_valid = s.configuration_valid
         /\ u.state = s.state
         /\ u.estop = s.estop
         /\ ~u.authorization_active /\ ~u.command.valid /\ ~u.zero_active
<1> DEFINE a == RevokeAuthorization(s)
           b == ClearMotionIntent(a)
           v == ForgetFeedback(b)
<1>1. a \in Session /\ b \in Session /\ v \in Session
  <2>1. a \in Session
    BY TimeFacts DEF Session, RevokeAuthorization
  <2> HIDE DEF a
  <2>2. b \in Session
    BY <2>1, TimeFacts, CountFacts DEF Session, ClearMotionIntent, NoCommand, CommandSlot
  <2> HIDE DEF b
  <2>3. v \in Session
    BY <2>2, TimeFacts DEF Session, ForgetFeedback
  <2> QED BY <2>1, <2>2, <2>3
<1>2. /\ v.configuration_valid = s.configuration_valid /\ v.state = s.state
      /\ v.estop = s.estop /\ ~v.authorization_active /\ ~v.command.valid
  BY DEF Session, ForgetFeedback, ClearMotionIntent, RevokeAuthorization, NoCommand
<1>3. ForgetConnection(s) = [v EXCEPT !.zero_active = FALSE, !.zero_attempts = 0,
                                      !.next_zero = 0, !.last_motion = 0]
  BY DEF ForgetConnection
<1> HIDE DEF v
<1> QED BY ZenonT(60), <1>1, <1>2, <1>3, TimeFacts, CountFacts DEF Session

\* Also in the middle of a call, when the session is not coherent.
LEMMA DisconnectGood ==
  ASSUME NEW s \in Session, s.configuration_valid,
         MaximumZeroAttempts > 0, FreshCommandsRequired > 0,
         NEW t, NEW w
  PROVE  /\ Good(HandleDisconnect(s), t, w)
         /\ HandleDisconnect(s).configuration_valid
<1> DEFINE u == ForgetConnection(s)
           r == HandleDisconnect(s)
<1>1. /\ u \in Session /\ u.configuration_valid /\ u.estop = s.estop
      /\ ~u.authorization_active /\ ~u.command.valid /\ ~u.zero_active
  BY ForgetConnectionFields
<1>2. r = [u EXCEPT !.connection_known = FALSE, !.state = "kDisconnected"]
  BY DEF HandleDisconnect
<1> HIDE DEF u, r
<1>3. r \in Session
  BY <1>1, <1>2 DEF Session, SessionState
<1>4. Coherent(r, t)
  BY <1>1, <1>2 DEF Session, Coherent, Linked, Cached
<1>5. ~r.connection_known /\ r.configuration_valid
  BY <1>1, <1>2 DEF Session
<1> QED BY <1>3, <1>4, <1>5 DEF Good, ActiveOK, OrphanOK, SyncedWith, r

LEMMA InhibitedType ==
  ASSUME NEW s
  PROVE  Inhibited(s) \in AfterZero
BY DEF Inhibited, AfterZero

LEMMA NewConnectionGood ==
  ASSUME NEW s \in Session, NEW t \in Transport, s.configuration_valid,
         MaximumZeroAttempts > 0, FreshCommandsRequired > 0, t.connected, NEW w
  PROVE  LET r == HandleNewConnection(s, t) IN
         Good(r, t, w) /\ SyncedWith(r, t) /\ r.configuration_valid /\ Stopping(r)
<1> DEFINE u == ForgetConnection(s)
           v == [u EXCEPT !.connection_known = TRUE, !.connection_generation = t.generation,
                          !.state = "kConnectedInhibited"]
           r == BeginZeroEpisode(v, t, Inhibited(s), 0)
<1>1. /\ u \in Session /\ u.configuration_valid /\ u.estop = s.estop
      /\ ~u.authorization_active /\ ~u.command.valid /\ ~u.zero_active
  BY ForgetConnectionFields
<1>2. t.generation \in Nat
  BY GenerationAssumption DEF Transport
<1> HIDE DEF u
<1>3. v \in Session
  BY <1>1, <1>2 DEF Session, SessionState
<1>4. Coherent(v, t) /\ SyncedWith(v, t)
  BY <1>1, <1>2 DEF Session, Coherent, Linked, Cached, SyncedWith
<1> HIDE DEF v
<1>5. r \in Session /\ Coherent(r, t) /\ Stopping(r) /\ SyncedWith(r, t)
  BY <1>3, <1>4, TimeFacts, InhibitedType, BeginGood
<1>6. r = HandleNewConnection(s, t)
  BY DEF HandleNewConnection, u, v
<1> HIDE DEF r
<1> QED BY <1>5, <1>6, StoppingGood DEF Coherent, Linked, Cached, SyncedWith

LEMMA ClockFailureGood ==
  ASSUME NEW s \in Session, NEW t, NEW w, Coherent(s, t), OrphanOK(s, t, w)
  PROVE  Good(HandleClockFailure(s, t), t, w)
<1> DEFINE v == ForgetFeedback(ClearMotionIntent(RevokeAuthorization(s)))
<1>1. v \in Session /\ Coherent(v, t)
  BY RevokeCoherent, ClearCoherent, ForgetFeedbackCoherent
<1>2. /\ v.connection_known = s.connection_known
      /\ v.connection_generation = s.connection_generation
  BY DEF Session, ForgetFeedback, ClearMotionIntent, RevokeAuthorization
<1>3. s.last_observed \in Time
  BY DEF Session
<1> HIDE DEF v
<1>4. CASE s.connection_known /\ t.connected /\ t.generation = s.connection_generation
  <2> DEFINE r == BeginZeroEpisode(v, t, Inhibited(s), s.last_observed)
  <2>1. SyncedWith(v, t)
    BY <1>2, <1>4 DEF SyncedWith
  <2>2. r \in Session /\ Coherent(r, t) /\ Stopping(r)
    BY <1>1, <1>3, <2>1, InhibitedType, BeginGood
  <2>3. HandleClockFailure(s, t) = r
    BY <1>4 DEF HandleClockFailure, v
  <2> HIDE DEF r
  <2> QED BY <2>2, <2>3, StoppingGood
<1>5. CASE s.connection_known /\ t.connected /\ t.generation # s.connection_generation
  <2> DEFINE r == BeginZeroEpisode(v, t, Inhibited(s), s.last_observed)
  <2>1. r \in Session
    BY ZenonT(60), <1>1, <1>3, TimeFacts, CountFacts, LargerTime, InhibitedType
    DEF Session, BeginZeroEpisode, SessionState, AfterZero
  <2>2. Coherent(r, t) /\ r.connection_generation = s.connection_generation
    BY <1>1, <1>2, <1>5 DEF Session, BeginZeroEpisode, Coherent, Linked, Cached
  <2>3. HandleClockFailure(s, t) = r
    BY <1>5 DEF HandleClockFailure, v
  <2> HIDE DEF r
  <2> QED BY <1>5, <2>1, <2>2, <2>3 DEF Good, ActiveOK, OrphanOK, SyncedWith
<1>6. CASE ~(s.connection_known /\ t.connected)
  <2>1. HandleClockFailure(s, t) = v
    BY <1>6 DEF HandleClockFailure, v
  <2> QED BY <1>1, <1>2, <1>6, <2>1 DEF Good, ActiveOK, OrphanOK, SyncedWith
<1> QED BY <1>4, <1>5, <1>6

LEMMA ObserveGood ==
  ASSUME NEW s, NEW t, NEW w, NEW now \in Time, Good(s, t, w)
  PROVE  LET r == ObserveMonotonicTime(s, now) IN
         /\ Good(r, t, w)
         /\ r.last_observed >= now
         /\ r.configuration_valid = s.configuration_valid
         /\ r.connection_known = s.connection_known
         /\ r.connection_generation = s.connection_generation
         /\ r.state = s.state
<1> DEFINE r == ObserveMonotonicTime(s, now)
<1>1. s \in Session /\ s.last_observed \in Time
  BY DEF Good, Session
<1>2. r \in Session /\ r.last_observed >= now /\ r.last_observed >= s.last_observed
  BY <1>1, LargerTime DEF Session, ObserveMonotonicTime
<1>3. Coherent(r, t)
  <2>1. Coherent(s, t) BY DEF Good
  <2> QED BY <1>1, <1>2, <2>1, TimeFacts DEF Session, CommandSlot, Coherent, Linked, Cached, ObserveMonotonicTime
<1>4. ActiveOK(r, t) /\ OrphanOK(r, t, w)
  BY <1>1 DEF Good, ActiveOK, OrphanOK, SyncedWith, Authorized, Session, ObserveMonotonicTime
<1> QED BY <1>1, <1>2, <1>3, <1>4 DEF Good, Session, ObserveMonotonicTime

LEMMA SynchronizeGood ==
  ASSUME NEW s, NEW t \in Transport, NEW w, Good(s, t, w), s.configuration_valid
  PROVE  LET r == SynchronizeConnection(s, t) IN
         /\ Good(r, t, w)
         /\ r.configuration_valid
         /\ Attached(t) => SyncedWith(r, t)
         /\ NewGeneration(s, t) /\ Attached(t) => Stopping(r)
<1>1. s \in Session /\ Coherent(s, t)
  BY DEF Good
<1>2. CASE ~Attached(t)
  BY <1>1, <1>2, DisconnectGood DEF SynchronizeConnection, Coherent, Linked
<1>3. CASE Attached(t) /\ NewGeneration(s, t)
  BY <1>1, <1>3, NewConnectionGood DEF SynchronizeConnection, Attached, Coherent, Linked
<1>4. CASE Attached(t) /\ ~NewGeneration(s, t)
  BY <1>4 DEF SynchronizeConnection, Attached, NewGeneration, SyncedWith
<1> QED BY <1>2, <1>3, <1>4

\* Every method enters with a sound session, and goes on only in step with
\* the transport.
LEMMA EnterGood ==
  ASSUME NEW s, NEW t \in Transport, NEW w, NEW now \in Time, Good(s, t, w)
  PROVE  LET e == Enter(s, t, now) IN
         /\ Good(e, t, w)
         /\ Proceeds(s, t, now) => /\ SyncedWith(e, t) /\ e.configuration_valid
                                  /\ now > 0
         /\ Proceeds(s, t, now) /\ NewGeneration(s, t) => Stopping(e)
<1> DEFINE o == ObserveMonotonicTime(s, now)
<1>1. CASE ~s.configuration_valid
  BY <1>1 DEF Enter, Proceeds
<1>2. CASE s.configuration_valid /\ ~TimeValid(s, now)
  BY <1>2, ClockFailureGood DEF Enter, Proceeds, Good
<1>3. CASE s.configuration_valid /\ TimeValid(s, now)
  <2>1. Good(o, t, w) /\ o.configuration_valid /\ NewGeneration(o, t) = NewGeneration(s, t)
    BY <1>3, ObserveGood DEF NewGeneration
  <2>2. Enter(s, t, now) = SynchronizeConnection(o, t)
    BY <1>3 DEF Enter
  <2> HIDE DEF o
  <2> QED BY <1>3, <2>1, <2>2, SynchronizeGood DEF Proceeds, TimeValid
<1> QED BY <1>1, <1>2, <1>3

-----------------------------------------------------------------------------
(* Stops *)

LEMMA ClearLinked ==
  ASSUME NEW s \in Session, NEW t, Linked(s, t)
  PROVE  LET r == ClearMotionIntent(s) IN
         /\ r \in Session
         /\ Coherent(r, t)
         /\ SyncedWith(s, t) => SyncedWith(r, t)
         /\ Authorized(r) = Authorized(s)
         /\ r.state = s.state /\ r.zero_active = s.zero_active
<1>1. ClearMotionIntent(s) \in Session
  BY TimeFacts, CountFacts DEF Session, ClearMotionIntent, NoCommand, CommandSlot
<1>2. Coherent(ClearMotionIntent(s), t)
  BY DEF Session, ClearMotionIntent, NoCommand, Coherent, Linked, Cached
<1> QED BY <1>1, <1>2 DEF Session, ClearMotionIntent, SyncedWith, Authorized

LEMMA StopWithZeroGood ==
  ASSUME NEW s \in Session, NEW t, NEW w, Linked(s, t), SyncedWith(s, t),
         NEW after \in AfterZero, NEW earliest \in Time
  PROVE  LET r == StopWithZero(s, t, after, earliest) IN
         /\ Good(r, t, w) /\ Stopping(r) /\ SyncedWith(r, t)
         /\ s.state # "kFaulted" => r.zero_active
<1> DEFINE c == ClearMotionIntent(s)
           r == BeginZeroEpisode(c, t, after, earliest)
<1>1. c \in Session /\ Coherent(c, t) /\ SyncedWith(c, t) /\ c.state = s.state
  BY ClearLinked
<1> HIDE DEF c
<1>2. r \in Session /\ Coherent(r, t) /\ Stopping(r) /\ SyncedWith(r, t)
      /\ (s.state # "kFaulted" => r.zero_active)
  BY <1>1, BeginGood
<1>3. r = StopWithZero(s, t, after, earliest)
  BY DEF StopWithZero, c
<1> HIDE DEF r
<1> QED BY <1>2, <1>3, StoppingGood

LEMMA RevokeLinked ==
  ASSUME NEW s \in Session, NEW t, Linked(s, t)
  PROVE  LET r == RevokeAuthorization(s) IN
         /\ r \in Session
         /\ Linked(r, t)
         /\ SyncedWith(s, t) => SyncedWith(r, t)
<1>1. RevokeAuthorization(s) \in Session
  BY TimeFacts DEF Session, RevokeAuthorization
<1> QED BY <1>1 DEF Session, RevokeAuthorization, Linked, SyncedWith

LEMMA RevokeWithZeroGood ==
  ASSUME NEW s \in Session, NEW t, NEW w, Linked(s, t), SyncedWith(s, t),
         NEW after \in AfterZero, NEW earliest \in Time
  PROVE  LET r == RevokeWithZero(s, t, after, earliest) IN
         Good(r, t, w) /\ Stopping(r) /\ SyncedWith(r, t)
<1> DEFINE v == RevokeAuthorization(s)
<1>1. v \in Session /\ Linked(v, t) /\ SyncedWith(v, t)
  BY RevokeLinked
<1>2. RevokeWithZero(s, t, after, earliest) = StopWithZero(v, t, after, earliest)
  BY DEF RevokeWithZero, StopWithZero
<1> HIDE DEF v
<1> QED BY <1>1, <1>2, StopWithZeroGood

-----------------------------------------------------------------------------
(* The methods that never write *)

LEMMA AuthorizeGood ==
  ASSUME NEW token \in Token, NEW now \in Time, IInv, Authorize(token, now)
  PROVE  Good(session', transport, wire)
<1> DEFINE e == Entered(now)
<1>1. /\ Good(e, transport, wire)
      /\ Goes(now) => SyncedWith(e, transport) /\ e.configuration_valid /\ now > 0
  BY EnterGood DEF IInv, TypeOK, Entered, Goes
<1> HIDE DEF e
<1>2. CASE Goes(now) /\ MayAuthorize(e, token, now)
  <2> DEFINE c == ClearMotionIntent(e)
             r == [c EXCEPT !.highest_token = token, !.authorization_active = TRUE,
                            !.authorized_generation = e.connection_generation,
                            !.authorization_ns = now, !.state = "kRecovering"]
  <2>1. e \in Session /\ Linked(e, transport) /\ ~e.estop /\ e.state # "kFaulted"
        /\ ~e.zero_active
    BY <1>1, <1>2 DEF Good, Coherent, MayAuthorize
  <2>2. c \in Session /\ Linked(c, transport) /\ SyncedWith(c, transport) /\ ~c.command.valid
        /\ ~c.zero_active /\ ~c.estop /\ c.configuration_valid
        /\ c.connection_generation = e.connection_generation
    <3>1. c \in Session /\ Coherent(c, transport) /\ SyncedWith(c, transport)
      BY <1>1, <1>2, <2>1, ClearLinked
    <3> QED BY <1>1, <1>2, <2>1, <3>1 DEF Session, ClearMotionIntent, NoCommand, Coherent
  <2>3. e.connection_generation \in Nat /\ token \in Nat
    BY <2>1, InputsAssumption DEF Session
  <2> HIDE DEF c
  <2>4. r \in Session
    BY <2>2, <2>3 DEF Session, SessionState
  <2>5. Coherent(r, transport)
    BY <2>2 DEF Session, Coherent, Linked, Cached
  <2>6. Authorized(r) /\ r.state = "kRecovering"
    BY <1>1, <1>2, <2>2 DEF Session, Authorized, SyncedWith
  <2>7. session' = r
    BY <1>2 DEF Authorize, Granted, e, c
  <2> HIDE DEF r
  <2> QED BY <2>4, <2>5, <2>6, <2>7 DEF Good, ActiveOK, OrphanOK
<1>3. CASE ~(Goes(now) /\ MayAuthorize(e, token, now))
  BY <1>1, <1>3 DEF Authorize, e
<1> QED BY <1>2, <1>3

LEMMA DisarmGood ==
  ASSUME NEW now \in Time, IInv, Disarm(now)
  PROVE  Good(session', transport, wire)
<1> DEFINE e == Entered(now)
<1>1. /\ Good(e, transport, wire)
      /\ Goes(now) => SyncedWith(e, transport)
  BY EnterGood DEF IInv, TypeOK, Entered, Goes
<1>2. e \in Session /\ Linked(e, transport)
  BY <1>1 DEF Good, Coherent
<1>3. session' = e
      \/ (Goes(now) /\ session' = RevokeWithZero(e, transport, Inhibited(e), now))
  BY DEF Disarm
<1> HIDE DEF e
<1> QED BY <1>1, <1>2, <1>3, InhibitedType, RevokeWithZeroGood

LEMMA RequestStopGood ==
  ASSUME NEW now \in Time, IInv, RequestStop(now)
  PROVE  Good(session', transport, wire)
<1> DEFINE e == Entered(now)
<1>1. /\ Good(e, transport, wire)
      /\ Goes(now) => SyncedWith(e, transport)
  BY EnterGood DEF IInv, TypeOK, Entered, Goes
<1>2. e \in Session /\ Linked(e, transport)
  BY <1>1 DEF Good, Coherent
<1>3. session' = e
      \/ (Goes(now) /\ \E after \in AfterZero:
                         session' = StopWithZero(e, transport, after, now))
  BY DEF RequestStop, AfterZero
<1> HIDE DEF e
<1> QED BY <1>1, <1>2, <1>3, StopWithZeroGood

LEMMA ObserveFeedbackGood ==
  ASSUME NEW decoded, NEW now \in Time, IInv, ObserveFeedback(decoded, now)
  PROVE  Good(session', transport, wire)
<1> DEFINE e == Entered(now)
<1>1. /\ Good(e, transport, wire)
      /\ Goes(now) => SyncedWith(e, transport)
  BY EnterGood DEF IInv, TypeOK, Entered, Goes
<1>2. e \in Session /\ Coherent(e, transport)
  BY <1>1 DEF Good
<1> HIDE DEF e
<1>3. CASE session' = e
  BY <1>1, <1>3
<1>4. CASE session' = [e EXCEPT !.feedback_seen = TRUE, !.feedback_receipt = now]
  <2>1. session' \in Session
    BY <1>2, <1>4 DEF Session
  <2>2. Coherent(session', transport)
    BY <1>2, <1>4 DEF Session, Coherent, Linked, Cached
  <2>3. ActiveOK(session', transport) /\ OrphanOK(session', transport, wire)
    BY <1>1, <1>2, <1>4 DEF Session, Good, ActiveOK, OrphanOK, SyncedWith, Authorized
  <2> QED BY <2>1, <2>2, <2>3 DEF Good
<1>5. CASE Goes(now) /\ session' = RevokeWithZero(ForgetFeedback(e), transport, Inhibited(e), now)
  <2> DEFINE f == ForgetFeedback(e)
  <2>1. f \in Session /\ Linked(f, transport)
    BY <1>2, ForgetFeedbackCoherent DEF Coherent
  <2>2. SyncedWith(f, transport)
    BY <1>1, <1>2, <1>5 DEF Session, ForgetFeedback, SyncedWith
  <2> HIDE DEF f
  <2> QED BY <1>5, <2>1, <2>2, InhibitedType, RevokeWithZeroGood DEF f
<1> QED BY <1>3, <1>4, <1>5 DEF ObserveFeedback, e

LEMMA LatchGood ==
  ASSUME NEW now \in Time, IInv, LatchEmergencyStop(now)
  PROVE  Good(session', transport, wire)
<1> DEFINE a == [session EXCEPT !.estop = TRUE]
           latched == ForgetFeedback(ClearMotionIntent(RevokeAuthorization(a)))
           timed == IF TimeValid(latched, now) THEN ObserveMonotonicTime(latched, now) ELSE latched
           s == SynchronizeConnection(timed, transport)
<1>1. session \in Session /\ Good(session, transport, wire) /\ transport \in Transport
  BY DEF IInv, TypeOK
<1>2. latched \in Session
  <2>1. RevokeAuthorization(a) \in Session
    BY <1>1, TimeFacts DEF Session, RevokeAuthorization
  <2>2. ClearMotionIntent(RevokeAuthorization(a)) \in Session
    BY <2>1, TimeFacts, CountFacts DEF Session, ClearMotionIntent, NoCommand, CommandSlot
  <2> QED BY <2>2, TimeFacts DEF Session, ForgetFeedback
<1>3. /\ latched.estop /\ ~latched.authorization_active /\ ~latched.command.valid
      /\ latched.state = session.state /\ latched.zero_active = session.zero_active
      /\ latched.configuration_valid = session.configuration_valid
      /\ latched.connection_known = session.connection_known
      /\ latched.connection_generation = session.connection_generation
      /\ latched.zero_attempts = session.zero_attempts
      /\ latched.last_observed = session.last_observed
  BY <1>1 DEF Session, RevokeAuthorization, ClearMotionIntent, ForgetFeedback, NoCommand
<1>4. Coherent(latched, transport)
  <2>1. Linked(session, transport)
    BY <1>1 DEF Good, Coherent
  <2> HIDE DEF latched
  <2> QED BY <1>3, <2>1 DEF Coherent, Linked, Cached
<1> HIDE DEF latched
<1>5. timed \in Session /\ Coherent(timed, transport)
      /\ timed.configuration_valid = session.configuration_valid
      /\ timed.last_observed \in Time
  BY <1>2, <1>3, <1>4, LargerTime, TimeFacts
  DEF Session, ObserveMonotonicTime, Coherent, Linked, Cached
<1> HIDE DEF timed
<1>6. CASE ~session.configuration_valid
  <2>1. session' = [latched EXCEPT !.state = "kConfigurationInvalid"]
    BY <1>6 DEF LatchEmergencyStop, latched
  <2>2. latched.state = "kConfigurationInvalid" /\ ~latched.connection_known
    BY <1>3, <1>4, <1>6 DEF Coherent, Linked
  <2>3. session' = latched
    BY <1>2, <2>1, <2>2 DEF Session
  <2> QED BY <1>2, <1>4, <2>2, <2>3 DEF Good, ActiveOK, OrphanOK, SyncedWith
<1>7. CASE session.configuration_valid /\ ~Attached(transport)
  <2>1. session' = HandleDisconnect(timed)
    BY <1>7 DEF LatchEmergencyStop, SynchronizeConnection, latched, timed
  <2> QED BY <1>5, <1>7, <2>1, DisconnectGood DEF Coherent, Linked
<1>8. CASE session.configuration_valid /\ Attached(transport)
  <2>1. s \in Session /\ Coherent(s, transport) /\ SyncedWith(s, transport)
    <3>1. CASE NewGeneration(timed, transport)
      BY <1>1, <1>5, <1>8, <3>1, NewConnectionGood
      DEF SynchronizeConnection, Attached, Good, Coherent, Linked
    <3>2. CASE ~NewGeneration(timed, transport)
      BY <1>5, <1>8, <3>2 DEF SynchronizeConnection, NewGeneration, Attached, SyncedWith
    <3> QED BY <3>1, <3>2
  <2> HIDE DEF s
  <2>2. CASE s.state = "kFaulted"
    <3>1. session' = s
      BY <1>8, <2>2 DEF LatchEmergencyStop, s, latched, timed
    <3> QED BY <2>1, <2>2, <3>1, StoppingGood DEF Stopping
  <2>3. CASE s.state # "kFaulted"
    <3> DEFINE earliest == IF TimeValid(latched, now) THEN now ELSE s.last_observed
    <3>1. earliest \in Time
      BY <2>1 DEF Session
    <3>2. session' = BeginZeroEpisode(s, transport, "kEmergencyStopLatched", earliest)
      BY <1>8, <2>3 DEF LatchEmergencyStop, s, latched, timed
    <3>3. "kEmergencyStopLatched" \in AfterZero
      BY DEF AfterZero
    <3> HIDE DEF earliest
    <3> QED BY <2>1, <3>1, <3>2, <3>3, BeginGood, StoppingGood
  <2> QED BY <2>2, <2>3
<1> QED BY <1>6, <1>7, <1>8

LEMMA ResetGood ==
  ASSUME NEW token \in Token, NEW now \in Time, IInv, ResetEmergencyStop(token, now)
  PROVE  Good(session', transport, wire)
<1> DEFINE e == Entered(now)
<1>1. /\ Good(e, transport, wire)
      /\ Goes(now) => SyncedWith(e, transport) /\ e.configuration_valid
  BY EnterGood DEF IInv, TypeOK, Entered, Goes
<1>2. e \in Session /\ Linked(e, transport)
  BY <1>1 DEF Good, Coherent
<1> HIDE DEF e
<1>3. CASE session' = session \/ session' = e
  BY <1>1, <1>3 DEF IInv
<1>4. CASE /\ session.estop /\ Goes(now) /\ MayReset(e, token, now)
           /\ session' = [ClearMotionIntent(RevokeAuthorization(e)) EXCEPT
                            !.highest_reset = token, !.estop = FALSE,
                            !.state = "kConnectedInhibited"]
  <2> DEFINE v == RevokeAuthorization(e)
             c == ClearMotionIntent(v)
  <2>1. v \in Session /\ Linked(v, transport) /\ SyncedWith(v, transport)
    BY <1>1, <1>2, <1>4, RevokeLinked
  <2>2. c \in Session /\ Coherent(c, transport) /\ SyncedWith(c, transport)
    BY <2>1, ClearLinked
  <2>3. ~c.authorization_active /\ c.configuration_valid /\ ~c.zero_active
        /\ ~c.command.valid
    BY <1>1, <1>2, <1>4 DEF MayReset, Session, ClearMotionIntent, RevokeAuthorization, NoCommand
  <2> HIDE DEF c
  <2>4. token \in Nat BY InputsAssumption
  <2>5. session' = [c EXCEPT !.highest_reset = token, !.estop = FALSE,
                             !.state = "kConnectedInhibited"]
    BY <1>4 DEF c
  <2>6. session' \in Session
    BY <2>2, <2>4, <2>5 DEF Session, SessionState
  <2>7. Coherent(session', transport) /\ session'.state = "kConnectedInhibited"
    BY <2>2, <2>3, <2>5 DEF Session, Coherent, Linked, Cached
  \* A latched session holds no authorization, so a motion on the line
  \* would have kept the episode open or faulted the session.
  <2>8. wire # "motion"
    <3>1. session \in Session
      BY DEF IInv, TypeOK
    <3>2. e = ObserveMonotonicTime(session, now)
      BY <1>4, <3>1 DEF e, Entered, Enter, Goes, Proceeds, MayReset, SynchronizeConnection,
                        NewGeneration, ObserveMonotonicTime, Session
    <3>3. e.estop
      BY <1>4, <3>1, <3>2 DEF Session, ObserveMonotonicTime
    <3> QED BY <1>1, <1>2, <1>4, <3>3 DEF Good, OrphanOK, Authorized, MayReset
  <2> QED BY <2>6, <2>7, <2>8 DEF Good, ActiveOK, OrphanOK
<1> QED BY <1>3, <1>4 DEF ResetEmergencyStop, e

-----------------------------------------------------------------------------
(* submit *)

LEMMA ConsumeLinked ==
  ASSUME NEW s \in Session, NEW t, NEW c \in Command, Linked(s, t)
  PROVE  LET u == Consume(s, c) IN
         /\ u \in Session
         /\ Linked(u, t)
         /\ SyncedWith(s, t) => SyncedWith(u, t)
         /\ Authorized(u) = Authorized(s)
         /\ u.state = s.state /\ u.zero_active = s.zero_active /\ u.command = s.command
         /\ u.highest_sequence = c.sequence
         /\ u.authorization_ns = s.authorization_ns /\ u.last_observed = s.last_observed
<1>1. c.sequence \in Nat
  BY InputsAssumption
<1>2. Consume(s, c) \in Session
  BY <1>1 DEF Session, Consume
<1> QED BY <1>2 DEF Session, Consume, Linked, SyncedWith, Authorized

LEMMA ClearGood ==
  ASSUME NEW s \in Session, NEW t, NEW w, Linked(s, t), OrphanOK(s, t, w), s.state # "kActive"
  PROVE  Good(ClearMotionIntent(s), t, w)
<1> DEFINE r == ClearMotionIntent(s)
<1>1. r \in Session /\ Coherent(r, t) /\ Authorized(r) = Authorized(s)
      /\ r.state = s.state /\ r.zero_active = s.zero_active
  BY ClearLinked
<1>2. SyncedWith(r, t) = SyncedWith(s, t)
  BY DEF Session, ClearMotionIntent, SyncedWith
<1> HIDE DEF r
<1> QED BY <1>1, <1>2 DEF Good, ActiveOK, OrphanOK, r

LEMMA AcceptGood ==
  ASSUME NEW u \in Session, NEW t, NEW w, NEW c \in Command, NEW now \in Time,
         Linked(u, t), Authorized(u), ~u.zero_active, u.highest_sequence = c.sequence,
         c.created > u.authorization_ns, c.created <= now, now <= u.last_observed
  PROVE  Good(Accept(u, c, now), t, w)
<1> DEFINE kept == IF u.command.valid /\ PreviousIsStale(u, now)
                   THEN ClearMotionIntent(u) ELSE u
           n == Smaller(kept.fresh + 1, FreshCommandsRequired)
           slot == [valid |-> TRUE, sequence |-> c.sequence, created |-> c.created,
                    deadline |-> c.deadline, receipt |-> now]
           r == [kept EXCEPT !.command = slot, !.fresh = n,
                             !.state = IF n >= FreshCommandsRequired
                                       THEN "kActive" ELSE "kRecovering"]
<1>1. kept \in Session /\ Linked(kept, t)
  BY ClearLinked DEF Coherent
<1>2. /\ kept.configuration_valid = u.configuration_valid
      /\ kept.connection_known = u.connection_known
      /\ kept.connection_generation = u.connection_generation
      /\ kept.authorization_active = u.authorization_active
      /\ kept.authorized_generation = u.authorized_generation
      /\ kept.authorization_ns = u.authorization_ns
      /\ kept.estop = u.estop /\ kept.zero_active = u.zero_active
      /\ kept.highest_sequence = u.highest_sequence
      /\ kept.last_observed = u.last_observed
  BY DEF Session, ClearMotionIntent
<1> HIDE DEF kept
<1>3. slot \in CommandSlot
  BY InputsAssumption DEF CommandSlot
<1>4. n \in 0..FreshCommandsRequired /\ (n >= FreshCommandsRequired => n = FreshCommandsRequired)
  BY <1>1, DurationsAssumption DEF Session, Smaller
<1> HIDE DEF n
<1>5. r \in Session
  <2> HIDE DEF slot
  <2> QED BY <1>1, <1>3, <1>4 DEF Session, SessionState
<1>6. /\ r.command = slot /\ r.fresh = n
      /\ r.state = IF n >= FreshCommandsRequired THEN "kActive" ELSE "kRecovering"
      /\ r.configuration_valid = u.configuration_valid
      /\ r.connection_known = u.connection_known
      /\ r.connection_generation = u.connection_generation
      /\ r.authorization_active = u.authorization_active
      /\ r.authorized_generation = u.authorized_generation
      /\ r.authorization_ns = u.authorization_ns
      /\ r.estop = u.estop /\ r.zero_active = u.zero_active
      /\ r.highest_sequence = u.highest_sequence
      /\ r.last_observed = u.last_observed
  BY <1>1, <1>2 DEF Session
<1>7. r = Accept(u, c, now)
  BY DEF Accept, kept, n
<1> HIDE DEF r
<1>8. Coherent(r, t)
  BY <1>6 DEF Coherent, Linked, Cached, Authorized
<1>9. Authorized(r)
  BY <1>6 DEF Authorized
<1> QED BY <1>4, <1>5, <1>6, <1>7, <1>8, <1>9 DEF Good, ActiveOK, OrphanOK

LEMMA SubmitGood ==
  ASSUME NEW c \in Command, NEW now \in Time, IInv, Submit(c, now)
  PROVE  Good(session', transport, wire)
<1> DEFINE e == Entered(now)
           u == Consume(e, c)
           status == SubmissionStatus(e, c, now)
<1>1. /\ Good(e, transport, wire)
      /\ Goes(now) => SyncedWith(e, transport) /\ e.configuration_valid
      /\ Goes(now) /\ NewGeneration(session, transport) => Stopping(e)
  BY EnterGood DEF IInv, TypeOK, Entered, Goes
<1>2. e \in Session /\ Linked(e, transport)
  BY <1>1 DEF Good, Coherent
<1>3. /\ u \in Session /\ Linked(u, transport)
      /\ SyncedWith(e, transport) => SyncedWith(u, transport)
      /\ Authorized(u) = Authorized(e)
      /\ u.state = e.state /\ u.zero_active = e.zero_active
      /\ u.highest_sequence = c.sequence
      /\ u.authorization_ns = e.authorization_ns /\ u.last_observed = e.last_observed
  BY <1>2, ConsumeLinked
<1>4. "kConnectedInhibited" \in AfterZero /\ "kRecovering" \in AfterZero
  BY DEF AfterZero
<1>5. CASE ~Goes(now)
  BY <1>1, <1>5 DEF Submit
<1>6. CASE Goes(now)
  <2>1. session' = Submitted(e, c, now)
    BY <1>6 DEF Submit
  <2>2. status \in {"kEmergencyStopLatched", "kFaulted", "kSequenceInvalid",
                    "kTimestampInvalid", "kStale", "kNotAuthorized",
                    "kPredatesAuthorization", "kEncodingRejected", "kStopAccepted",
                    "kFeedbackUnavailable", "kAccepted"}
    BY DEF SubmissionStatus
  <2> HIDE DEF e, u, status
  <2>3. CASE status \in {"kEmergencyStopLatched", "kFaulted"}
    <3>1. session' = e
      BY <2>1, <2>3 DEF Submitted, status
    <3> QED BY <1>1, <3>1
  <2>4. CASE status = "kSequenceInvalid"
    <3>1. session' = RevokeWithZero(e, transport, "kConnectedInhibited", now)
      BY <2>1, <2>4 DEF Submitted, status
    <3> QED BY <1>1, <1>2, <1>4, <1>6, <3>1, RevokeWithZeroGood
  <2>5. CASE status \in {"kTimestampInvalid", "kEncodingRejected"}
    <3>1. session' = RevokeWithZero(u, transport, "kConnectedInhibited", now)
      BY <2>1, <2>5 DEF Submitted, status, u
    <3> QED BY <1>1, <1>3, <1>4, <1>6, <3>1, RevokeWithZeroGood
  <2>6. CASE status = "kStale"
    <3>1. session' = StopWithZero(u, transport,
                       IF Authorized(e) THEN "kRecovering" ELSE "kConnectedInhibited", now)
      BY <2>1, <2>6 DEF Submitted, status, u
    <3> QED BY <1>1, <1>3, <1>4, <1>6, <3>1, StopWithZeroGood
  <2>7. CASE status \in {"kPredatesAuthorization", "kStopAccepted", "kFeedbackUnavailable"}
    <3>1. session' = StopWithZero(u, transport, "kRecovering", now)
      BY <2>1, <2>7 DEF Submitted, status, u
    <3> QED BY <1>1, <1>3, <1>4, <1>6, <3>1, StopWithZeroGood
  <2>8. CASE status = "kNotAuthorized"
    <3>1. session' = ClearMotionIntent(u)
      BY <2>1, <2>8 DEF Submitted, status, u
    <3>2. ~Authorized(e) \/ e.zero_active \/ NewGeneration(session, transport)
      BY <2>8 DEF SubmissionStatus, status
    <3>3. e.state # "kActive"
      BY <1>1, <1>2, <1>6, <3>2 DEF Good, ActiveOK, Stopping, Linked
    <3>4. OrphanOK(u, transport, wire)
      BY <1>1, <1>3, <1>6 DEF Good, OrphanOK
    <3> QED BY <1>3, <3>1, <3>3, <3>4, ClearGood
  <2>9. CASE status = "kAccepted"
    <3>1. session' = Accept(u, c, now)
      BY <2>1, <2>9 DEF Submitted, status, u
    <3>2. /\ Authorized(e) /\ ~e.zero_active /\ ~NewGeneration(session, transport)
          /\ ~(c.created <= e.authorization_ns) /\ ~TimestampMalformed(c, now)
      BY <2>9 DEF SubmissionStatus, status
    <3>3. session \in Session /\ Good(session, transport, wire)
      BY DEF IInv, TypeOK
    <3>4. e = ObserveMonotonicTime(session, now)
      BY <1>6, <3>2, <3>3 DEF e, Entered, Enter, Goes, Proceeds, SynchronizeConnection,
                              NewGeneration, ObserveMonotonicTime, Session
    <3>5. now <= e.last_observed
      BY <1>2, <3>3, <3>4, ObserveGood, TimeFacts DEF Session
    <3>6. c.created \in Int /\ e.authorization_ns \in Int /\ now \in Int
      BY <1>2, TimeFacts, InputsAssumption DEF Session
    <3>7. c.created > u.authorization_ns /\ c.created <= now
      BY <1>3, <3>2, <3>6 DEF TimestampMalformed
    <3> QED BY <1>3, <3>1, <3>2, <3>5, <3>7, AcceptGood
  <2> QED BY <2>2, <2>3, <2>4, <2>5, <2>6, <2>7, <2>8, <2>9
<1> QED BY <1>5, <1>6

-----------------------------------------------------------------------------
(* tick *)

\* What AttemptZero, and every tick, leaves behind.
Answered ==
  /\ Good(session', transport', wire')
  /\ transport' \in Transport
  /\ cycle' \in Cycle \cup {NoCycle}
  /\ wire' \in {"none", "motion", "zero"}

LEMMA TransportAfterType ==
  ASSUME NEW t \in Transport, NEW r
  PROVE  /\ TransportAfter(t, r) \in Transport
         /\ TransportAfter(t, r).connected => TransportAfter(t, r) = t
BY DEF Transport, TransportAfter

\* The zero write answers: the episode ends, faults, retries or is lost.
LEMMA AfterZeroWriteGood ==
  ASSUME NEW s \in Session, NEW t \in Transport, Coherent(s, t), s.zero_active,
         NEW now \in Time, NEW r, r.completion \in Time, NEW w
  PROVE  Good(AfterZeroWrite(s, t, now, r), TransportAfter(t, r),
              IF r.complete THEN "zero" ELSE w)
<1> DEFINE counted == CountZeroAttempt(s, r)
           after == TransportAfter(t, r)
           result == AfterZeroWrite(s, t, now, r)
           line == IF r.complete THEN "zero" ELSE w
<1>1. /\ s.zero_attempts \in Nat /\ s.zero_attempts < MaximumZeroAttempts
      /\ s.last_observed \in Time
      /\ s.configuration_valid /\ s.state = "kStopPending" /\ s.connection_known
      /\ MaximumZeroAttempts > 0 /\ FreshCommandsRequired > 0
  BY DurationsAssumption DEF Session, Coherent, Linked
<1>2. s.zero_attempts + 1 \in 0..MaximumZeroAttempts
  BY <1>1, DurationsAssumption
<1>3. counted \in Session
  BY <1>1, <1>2, LargerTime DEF Session, CountZeroAttempt
<1>4. /\ counted.zero_attempts = s.zero_attempts + 1
      /\ counted.last_observed >= s.last_observed
      /\ counted.configuration_valid = s.configuration_valid
      /\ counted.state = s.state /\ counted.estop = s.estop
      /\ counted.connection_known = s.connection_known
      /\ counted.connection_generation = s.connection_generation
      /\ counted.zero_active = s.zero_active
      /\ counted.authorization_active = s.authorization_active
      /\ counted.authorization_ns = s.authorization_ns
      /\ counted.command = s.command /\ counted.highest_sequence = s.highest_sequence
  BY <1>1, LargerTime DEF Session, CountZeroAttempt
<1>5. Cached(counted)
  <2>1. counted.last_observed \in Time /\ s.command.receipt \in Time
    BY <1>3 DEF Session, CommandSlot
  <2> QED BY <1>1, <1>4, <2>1, TimeFacts DEF Coherent, Cached
<1> HIDE DEF counted
<1>6. CASE ~after.connected
  <2>1. result = HandleDisconnect(counted)
    BY <1>6 DEF AfterZeroWrite, counted
  <2> QED BY <1>1, <1>3, <1>4, <2>1, DisconnectGood
<1>7. CASE after.connected /\ Succeeded(r)
  <2>1. result = ZeroComplete(counted)
    BY <1>7 DEF AfterZeroWrite, counted
  <2>2. line = "zero"
    BY <1>7 DEF Succeeded
  <2>3. after = t
    BY <1>7, TransportAfterType
  <2>4. result \in Session
    <3> DEFINE ended == IF counted.estop THEN "kEmergencyStopLatched" ELSE counted.after_zero
    <3>1. ended \in SessionState
      BY <1>3 DEF Session, AfterZero, SessionState
    <3>2. result = [counted EXCEPT !.zero_active = FALSE, !.zero_attempts = 0,
                                   !.next_zero = 0, !.state = ended]
      BY <2>1 DEF ZeroComplete
    <3> HIDE DEF ended, result
    <3> QED BY <1>3, <3>1, <3>2, TimeFacts, CountFacts DEF Session
  <2>5. result.state \in AfterZero
    BY <1>3, <2>1 DEF Session, ZeroComplete, AfterZero
  <2>6. Coherent(result, t)
    <3> HIDE DEF result
    <3>1. /\ result.configuration_valid = counted.configuration_valid
          /\ result.connection_known = counted.connection_known
          /\ result.connection_generation = counted.connection_generation
          /\ ~result.zero_active /\ result.estop = counted.estop
          /\ result.authorization_active = counted.authorization_active
          /\ result.authorization_ns = counted.authorization_ns
          /\ result.command = counted.command
          /\ result.highest_sequence = counted.highest_sequence
          /\ result.last_observed = counted.last_observed
      BY <1>3, <2>1 DEF Session, ZeroComplete
    <3> QED BY <1>1, <1>4, <1>5, <2>5, <3>1 DEF Coherent, Linked, Cached, AfterZero
  <2> QED BY <2>2, <2>3, <2>4, <2>5, <2>6 DEF Good, ActiveOK, OrphanOK, AfterZero
<1>8. CASE after.connected /\ ~Succeeded(r) /\ counted.zero_attempts >= MaximumZeroAttempts
  <2>1. result = ZeroRetriesExhausted(counted)
    BY <1>8 DEF AfterZeroWrite, counted
  <2>2. after = t
    BY <1>8, TransportAfterType
  <2>3. result \in Session
    BY ZenonT(60), <1>3, <2>1 DEF Session, ZeroRetriesExhausted, SessionState
  <2>4. Coherent(result, t) /\ result.state = "kFaulted"
    <3> HIDE DEF result
    <3>1. /\ result.configuration_valid = counted.configuration_valid
          /\ result.connection_known = counted.connection_known
          /\ result.connection_generation = counted.connection_generation
          /\ ~result.zero_active /\ result.estop = counted.estop
          /\ result.state = "kFaulted"
          /\ result.authorization_active = counted.authorization_active
          /\ result.authorization_ns = counted.authorization_ns
          /\ result.command = counted.command
          /\ result.highest_sequence = counted.highest_sequence
          /\ result.last_observed = counted.last_observed
      BY <1>3, <2>1 DEF Session, ZeroRetriesExhausted
    <3> QED BY <1>1, <1>4, <1>5, <3>1 DEF Coherent, Linked, Cached
  <2> QED BY <2>2, <2>3, <2>4, StoppingGood DEF Stopping
<1>9. CASE after.connected /\ ~Succeeded(r) /\ ~(counted.zero_attempts >= MaximumZeroAttempts)
  <2>1. result = ScheduleZeroRetry(counted, now, r)
    BY <1>9 DEF AfterZeroWrite, counted
  <2>2. after = t
    BY <1>9, TransportAfterType
  <2>3. SaturatingAdd(Larger(now, r.completion), ZeroRetryInterval) \in Time
    BY LargerTime, SaturatingAddTime, DurationsAssumption
  <2>4. result \in Session
    BY <1>3, <2>1, <2>3 DEF Session, ScheduleZeroRetry
  <2>5. Coherent(result, t) /\ result.zero_active
    <3> HIDE DEF result
    <3>1. /\ result.configuration_valid = counted.configuration_valid
          /\ result.connection_known = counted.connection_known
          /\ result.connection_generation = counted.connection_generation
          /\ result.zero_active /\ result.estop = counted.estop
          /\ result.state = counted.state
          /\ result.zero_attempts = counted.zero_attempts
          /\ result.authorization_active = counted.authorization_active
          /\ result.authorization_ns = counted.authorization_ns
          /\ result.command = counted.command
          /\ result.highest_sequence = counted.highest_sequence
          /\ result.last_observed = counted.last_observed
      BY <1>3, <1>4, <2>1 DEF Session, ScheduleZeroRetry
    <3>2. counted.zero_attempts < MaximumZeroAttempts
      BY <1>1, <1>4, <1>9, DurationsAssumption
    <3> QED BY <1>1, <1>4, <1>5, <3>1, <3>2 DEF Coherent, Linked, Cached
  <2> QED BY <2>2, <2>4, <2>5, StoppingGood DEF Stopping
<1> QED BY <1>6, <1>7, <1>8, <1>9

LEMMA AttemptZeroGood ==
  ASSUME NEW s \in Session, Coherent(s, transport), s.zero_active,
         transport \in Transport, NEW now \in Time, NEW result \in Cycle,
         NEW w \in {"none", "motion", "zero"}, AttemptZero(s, now, result, w)
  PROVE  Answered
<1>1. CASE /\ session' = s
           /\ cycle' = [result EXCEPT !.action = "kZeroRetryPending"]
           /\ wire' = w
           /\ UNCHANGED transport
  <2>1. Good(session', transport', wire')
    BY <1>1, StoppingGood DEF Stopping
  <2>2. cycle' \in Cycle
    BY <1>1 DEF Cycle, CycleAction
  <2> QED BY <1>1, <2>1, <2>2 DEF Answered
<1>2. ASSUME NEW r \in WriteResults(transport.access, now, BoundedWriteDeadline(now, Int64Max)),
             session' = AfterZeroWrite(s, transport, now, r),
             transport' = TransportAfter(transport, r),
             cycle' = [result EXCEPT !.action = ZeroAction(s, transport, r),
                                     !.zero_write_attempted = TRUE],
             wire' = IF r.complete THEN "zero" ELSE w
      PROVE  Answered
  <2>1. r.completion \in Time
    BY ClockAssumption, TimeFacts, DeadlineTime, WriteResultsType
  <2>2. Good(session', transport', wire')
    BY <1>2, <2>1, AfterZeroWriteGood
  <2>3. cycle' \in Cycle
    BY <1>2 DEF Cycle, CycleAction, ZeroAction
  <2> QED BY <1>2, <2>2, <2>3, TransportAfterType DEF Answered
<1> QED BY <1>1, <1>2 DEF AttemptZero

LEMMA QuietType ==
  ASSUME NEW action \in CycleAction
  PROVE  Quiet(action) \in Cycle
BY TimeFacts DEF Quiet, Cycle

LEMMA MotionTriedType ==
  ASSUME NEW action \in CycleAction, NEW r, r.completion \in Time, r.complete \in BOOLEAN
  PROVE  /\ MotionTried(action, r) \in Cycle
         /\ MotionTried(action, r).action = action
         /\ MotionTried(action, r).motion_write_attempted
         /\ MotionTried(action, r).zero_write_attempted = FALSE
         /\ MotionTried(action, r).motion_completion = IF r.complete THEN r.completion ELSE 0
<1>1. (IF r.complete THEN r.completion ELSE 0) \in Time
  BY TimeFacts
<1> QED BY <1>1 DEF MotionTried, Quiet, Cycle

LEMMA TickStopsGood ==
  ASSUME NEW now \in Time, IInv, TickStops(now)
  PROVE  Answered
<1>1. Good(session', transport, wire) /\ transport' = transport /\ wire' = wire
  BY EnterGood DEF IInv, TypeOK, TickStops, Entered
<1>2. cycle' \in Cycle
  BY QuietType DEF TickStops, CycleAction
<1> QED BY <1>1, <1>2 DEF Answered, IInv, TypeOK

LEMMA TickIdleGood ==
  ASSUME NEW now \in Time, IInv, TickIdle(now)
  PROVE  Answered
<1> DEFINE e == Entered(now)
<1>1. Good(e, transport, wire) /\ SyncedWith(e, transport) /\ e.configuration_valid
  BY EnterGood DEF IInv, TypeOK, TickIdle, Entered, Goes
<1>2. cycle' \in Cycle /\ transport' = transport /\ wire' = wire
  BY QuietType DEF TickIdle, CycleAction
<1>3. Good(session', transport, wire)
  <2>1. /\ e \in Session /\ Coherent(e, transport) /\ ~e.zero_active
        /\ session' = IF e.state # "kFaulted" /\ e.estop
                      THEN [e EXCEPT !.state = "kEmergencyStopLatched"] ELSE e
    BY <1>1 DEF Good, TickIdle
  <2> HIDE DEF e
  <2>2. CASE session' = e
    BY <1>1, <2>2
  <2>3. CASE /\ e.state # "kFaulted" /\ e.estop
             /\ session' = [e EXCEPT !.state = "kEmergencyStopLatched"]
    <3>1. session' \in Session
      BY <2>1, <2>3 DEF Session, SessionState
    <3>2. Coherent(session', transport) /\ session'.state = "kEmergencyStopLatched"
      BY <1>1, <2>1, <2>3 DEF Session, Coherent, Linked, Cached
    <3>3. wire # "motion"
      BY <1>1, <2>1, <2>3 DEF Good, OrphanOK, Authorized
    <3> QED BY <3>1, <3>2, <3>3 DEF Good, ActiveOK, OrphanOK
  <2> QED BY <2>1, <2>2, <2>3
<1> QED BY <1>2, <1>3 DEF Answered, IInv, TypeOK

LEMMA TickZeroGood ==
  ASSUME NEW now \in Time, IInv, TickZero(now)
  PROVE  Answered
<1> DEFINE e == Entered(now)
<1>1. Good(e, transport, wire)
  BY EnterGood DEF IInv, TypeOK, Entered
<1>2. e \in Session /\ Coherent(e, transport) /\ e.zero_active
      /\ AttemptZero(e, now, Quiet("kNoAction"), wire)
  BY <1>1 DEF Good, TickZero
<1> HIDE DEF e
<1>3. Quiet("kNoAction") \in Cycle
  BY QuietType DEF CycleAction
<1> QED BY <1>2, <1>3, AttemptZeroGood DEF IInv, TypeOK

LEMMA TickExpiredGood ==
  ASSUME NEW now \in Time, IInv, TickExpired(now)
  PROVE  Answered
<1> DEFINE e == Entered(now)
           after == IF Authorized(e) THEN "kRecovering" ELSE "kConnectedInhibited"
           s == StopWithZero(e, transport, after, now)
<1>1. Good(e, transport, wire) /\ SyncedWith(e, transport)
  BY EnterGood DEF IInv, TypeOK, TickExpired, Entered, Goes
<1>2. e \in Session /\ Linked(e, transport) /\ e.state = "kActive"
      /\ AttemptZero(s, now, Quiet("kNoAction"), wire) /\ after \in AfterZero
  BY <1>1 DEF Good, Coherent, TickExpired, ActiveAt, AfterZero
<1> HIDE DEF e, after
<1>3. Good(s, transport, wire) /\ s.zero_active
  BY <1>1, <1>2, StopWithZeroGood
<1> HIDE DEF s
<1>4. Quiet("kNoAction") \in Cycle
  BY QuietType DEF CycleAction
<1> QED BY <1>2, <1>3, <1>4, AttemptZeroGood DEF IInv, TypeOK, Good

LEMMA TickRateLimitedGood ==
  ASSUME NEW now \in Time, IInv, TickRateLimited(now)
  PROVE  Answered
<1>1. Good(session', transport, wire) /\ transport' = transport /\ wire' = wire
  BY EnterGood DEF IInv, TypeOK, TickRateLimited, Entered
<1>2. cycle' \in Cycle
  BY QuietType DEF TickRateLimited, CycleAction
<1> QED BY <1>1, <1>2 DEF Answered, IInv, TypeOK

LEMMA MotionWrittenGood ==
  ASSUME NEW s, NEW t, NEW w, NEW line, NEW now \in Time, NEW r, r.completion \in Time,
         Good(s, t, w), Authorized(s)
  PROVE  Good(MotionWritten(s, now, r), t, line)
<1> DEFINE completion == IF r.completion > 0 THEN r.completion ELSE now
           result == [s EXCEPT !.last_motion = completion,
                               !.last_observed = Larger(s.last_observed, completion)]
<1>1. s \in Session /\ s.last_observed \in Time /\ completion \in Time
  BY DEF Good, Session
<1> HIDE DEF completion
<1>2. Larger(s.last_observed, completion) \in Time
      /\ Larger(s.last_observed, completion) >= s.last_observed
  BY <1>1, LargerTime
<1>3. result \in Session /\ result.last_observed >= s.last_observed
  BY <1>1, <1>2 DEF Session
<1>4. Coherent(result, t)
  <2>1. Coherent(s, t)
    BY DEF Good
  <2>2. /\ result.configuration_valid = s.configuration_valid
        /\ result.state = s.state /\ result.estop = s.estop
        /\ result.connection_known = s.connection_known
        /\ result.connection_generation = s.connection_generation
        /\ result.zero_active = s.zero_active /\ result.zero_attempts = s.zero_attempts
        /\ result.authorization_active = s.authorization_active
        /\ result.authorization_ns = s.authorization_ns
        /\ result.command = s.command /\ result.highest_sequence = s.highest_sequence
    BY <1>1 DEF Session
  <2>3. /\ s.command.receipt \in Int /\ s.last_observed \in Int
        /\ result.last_observed \in Int
    BY <1>1, <1>3, TimeFacts DEF Session, CommandSlot
  <2> HIDE DEF result
  <2> QED BY <1>3, <2>1, <2>2, <2>3 DEF Coherent, Linked, Cached
<1>5. ActiveOK(result, t) /\ Authorized(result)
  BY <1>1 DEF Good, ActiveOK, SyncedWith, Authorized, Session
<1>6. result = MotionWritten(s, now, r)
  BY DEF MotionWritten, completion
<1> HIDE DEF result
<1> QED BY <1>3, <1>4, <1>5, <1>6 DEF Good, OrphanOK

LEMMA TickMotionGood ==
  ASSUME NEW now \in Time, IInv, TickMotion(now)
  PROVE  Answered
<1> DEFINE e == Entered(now)
           v == RevokeAuthorization(e)
           revoked == ClearMotionIntent(v)
<1>1. Good(e, transport, wire) /\ SyncedWith(e, transport) /\ e.configuration_valid
  BY EnterGood DEF IInv, TypeOK, TickMotion, Entered, Goes
<1>2. /\ e \in Session /\ Linked(e, transport)
      /\ Authorized(e) /\ e.state = "kActive" /\ e.command.deadline \in Time
  BY <1>1 DEF Good, Coherent, TickMotion, MaySend, ActiveAt, Session, CommandSlot
<1>3. /\ revoked \in Session /\ Coherent(revoked, transport)
      /\ SyncedWith(revoked, transport) /\ revoked.state = "kActive"
  <2>1. v \in Session /\ Linked(v, transport) /\ SyncedWith(v, transport)
    BY <1>1, <1>2, RevokeLinked
  <2>2. v.state = "kActive"
    BY <1>2 DEF Session, RevokeAuthorization
  <2> HIDE DEF v
  <2> QED BY <2>1, <2>2, ClearLinked
<1>4. /\ revoked.configuration_valid
      /\ MaximumZeroAttempts > 0 /\ FreshCommandsRequired > 0
  BY <1>3 DEF SyncedWith, Coherent, Linked
<1>5. PICK r \in WriteResults(transport.access, now, BoundedWriteDeadline(now, e.command.deadline)):
        LET wire_after == IF r.complete THEN "motion" ELSE wire
            zero_start == Larger(now, r.completion)
        IN
        \/ /\ Succeeded(r)
           /\ session' = MotionWritten(e, now, r)
           /\ cycle' = MotionTried("kMotionHostWriteComplete", r)
           /\ wire' = wire_after
           /\ UNCHANGED transport
        \/ /\ ~Succeeded(r)
           /\ ~TransportAfter(transport, r).connected
           /\ session' = HandleDisconnect(revoked)
           /\ transport' = TransportAfter(transport, r)
           /\ cycle' = MotionTried("kDisconnected", r)
           /\ wire' = wire_after
        \/ /\ ~Succeeded(r)
           /\ TransportAfter(transport, r).connected
           /\ AttemptZero(BeginZeroEpisode(revoked, transport, "kConnectedInhibited", zero_start),
                          zero_start, MotionTried("kNoAction", r), wire_after)
  BY DEF TickMotion
<1>6. r.completion \in Time /\ r.complete \in BOOLEAN
  BY <1>2, DeadlineTime, WriteResultsType
<1>7. transport \in Transport /\ wire \in {"none", "motion", "zero"}
  BY DEF IInv, TypeOK
<1> DEFINE wire_after == IF r.complete THEN "motion" ELSE wire
           zero_start == Larger(now, r.completion)
<1>8. wire_after \in {"none", "motion", "zero"} /\ zero_start \in Time
  BY <1>6, <1>7, LargerTime
<1> HIDE DEF e, revoked
<1>9. CASE /\ session' = MotionWritten(e, now, r)
           /\ cycle' = MotionTried("kMotionHostWriteComplete", r)
           /\ wire' = wire_after
           /\ UNCHANGED transport
  <2>1. Good(session', transport', wire')
    BY <1>1, <1>2, <1>6, <1>9, MotionWrittenGood
  <2>2. cycle' \in Cycle
    BY <1>6, <1>9, MotionTriedType DEF CycleAction
  <2> QED BY <1>7, <1>8, <1>9, <2>1, <2>2 DEF Answered
<1>10. CASE /\ session' = HandleDisconnect(revoked)
            /\ transport' = TransportAfter(transport, r)
            /\ cycle' = MotionTried("kDisconnected", r)
            /\ wire' = wire_after
  <2>1. Good(session', transport', wire')
    BY <1>3, <1>4, <1>10, DisconnectGood
  <2>2. cycle' \in Cycle
    BY <1>6, <1>10, MotionTriedType DEF CycleAction
  <2> QED BY <1>7, <1>8, <1>10, <2>1, <2>2, TransportAfterType DEF Answered
<1>11. CASE AttemptZero(BeginZeroEpisode(revoked, transport, "kConnectedInhibited", zero_start),
                        zero_start, MotionTried("kNoAction", r), wire_after)
  <2> DEFINE s == BeginZeroEpisode(revoked, transport, "kConnectedInhibited", zero_start)
  <2> HIDE DEF wire_after, zero_start
  <2>1. s \in Session /\ Coherent(s, transport) /\ s.zero_active
    BY <1>3, <1>8, BeginGood DEF AfterZero
  <2>2. MotionTried("kNoAction", r) \in Cycle
    BY <1>6, MotionTriedType DEF CycleAction
  <2> HIDE DEF s
  <2> QED BY <1>7, <1>8, <1>11, <2>1, <2>2, AttemptZeroGood DEF s
<1> QED BY <1>5, <1>9, <1>10, <1>11

LEMMA TickGood ==
  ASSUME NEW now \in Time, IInv, Tick(now)
  PROVE  Answered
BY TickStopsGood, TickIdleGood, TickZeroGood, TickExpiredGood, TickRateLimitedGood,
   TickMotionGood DEF Tick

-----------------------------------------------------------------------------
(* The transport between two calls *)

LEMMA LostGood ==
  ASSUME IInv, TransportLost
  PROVE  Answered
<1>1. transport \in Transport /\ transport' = [transport EXCEPT !.connected = FALSE]
      /\ session' = session /\ wire' = wire /\ cycle' = NoCycle
  BY DEF IInv, TypeOK, TransportLost
<1>2. /\ transport' \in Transport /\ transport'.generation = transport.generation
      /\ ~transport'.connected
  BY <1>1 DEF Transport
<1>3. Good(session', transport', wire')
  BY <1>1, <1>2 DEF IInv, Good, Coherent, Linked, ActiveOK, OrphanOK, SyncedWith
<1> QED BY <1>1, <1>2, <1>3 DEF Answered, IInv, TypeOK

\* No session is in step with a generation that did not exist before.
LEMMA ReopenedGood ==
  ASSUME IInv, TransportReopened
  PROVE  Answered
<1>1. transport \in Transport /\ session \in Session
      /\ transport' = [transport EXCEPT !.connected = TRUE,
                                        !.generation = transport.generation + 1]
      /\ session' = session /\ wire' = wire /\ cycle' = NoCycle
      /\ transport.generation < MaxGeneration
  BY DEF IInv, TypeOK, TransportReopened
<1>2. transport' \in Transport /\ transport'.generation = transport.generation + 1
      /\ transport.generation \in Nat
  <2>1. transport.generation \in 0..MaxGeneration
    BY <1>1 DEF Transport
  <2>2. transport.generation + 1 \in 0..MaxGeneration /\ transport.generation \in Nat
    BY <1>1, <2>1, GenerationAssumption
  <2> QED BY <1>1, <2>2 DEF Transport
<1>3. session.connection_generation \in Nat
  BY <1>1 DEF Session
<1>4. Good(session', transport', wire')
  BY <1>1, <1>2, <1>3 DEF IInv, Good, Coherent, Linked, ActiveOK, OrphanOK, SyncedWith
<1> QED BY <1>1, <1>2, <1>4 DEF Answered, IInv, TypeOK

-----------------------------------------------------------------------------
(* The constructor *)

LEMMA NewSessionType ==
  ASSUME NEW valid \in BOOLEAN
  PROVE  NewSession(valid) \in Session
<1>1. NoCommand \in CommandSlot
  BY TimeFacts DEF NoCommand, CommandSlot
<1> QED BY <1>1, TimeFacts, CountFacts DEF NewSession, Session, SessionState, AfterZero

LEMMA InitGood ==
  Init => IInv
<1> SUFFICES ASSUME Init PROVE IInv
  OBVIOUS
<1>1. transport \in Transport /\ cycle = NoCycle /\ wire = "none"
  BY DEF Init
<1>2. session \in Session /\ Good(session, transport, wire)
  <2>1. CASE session = NewSession(FALSE)
    <3>1. session \in Session
      BY <2>1, NewSessionType
    <3>2. /\ ~session.configuration_valid /\ session.state = "kConfigurationInvalid"
          /\ ~session.connection_known /\ ~session.zero_active /\ ~session.estop
          /\ ~session.command.valid
      BY <2>1 DEF NewSession, NoCommand
    <3> QED BY <3>1, <3>2 DEF Good, Coherent, Linked, Cached, ActiveOK, OrphanOK, SyncedWith
  <2>2. CASE SafetyConfigIsValid /\ session = SynchronizeConnection(NewSession(TRUE), transport)
    <3> DEFINE n == NewSession(TRUE)
    <3>1. n \in Session
      BY NewSessionType
    <3>2. n.configuration_valid /\ ~n.connection_known
      BY DEF NewSession
    <3>3. MaximumZeroAttempts > 0 /\ FreshCommandsRequired > 0
      BY <2>2 DEF SafetyConfigIsValid
    <3> HIDE DEF n
    <3>4. CASE ~Attached(transport)
      BY <2>2, <3>1, <3>2, <3>3, <3>4, DisconnectGood DEF SynchronizeConnection, Good, n
    <3>5. CASE Attached(transport)
      BY <1>1, <2>2, <3>1, <3>2, <3>3, <3>5, NewConnectionGood
      DEF SynchronizeConnection, NewGeneration, Attached, Good, n
    <3> QED BY <3>4, <3>5
  <2> QED BY <2>1, <2>2 DEF Init
<1> QED BY <1>1, <1>2 DEF IInv, TypeOK

-----------------------------------------------------------------------------
(* The theorems *)

LEMMA NextGood ==
  IInv /\ [Next]_vars => IInv'
<1> SUFFICES ASSUME IInv, [Next]_vars PROVE IInv'
  OBVIOUS
<1>1. CASE UNCHANGED vars
  BY <1>1 DEF vars, IInv, TypeOK, Good, Coherent, Linked, Cached, ActiveOK, OrphanOK,
              SyncedWith, Authorized
<1>2. CASE Good(session', transport, wire) /\ OnlySession
  BY <1>2 DEF IInv, TypeOK, OnlySession, Good
<1>3. CASE Answered
  BY <1>3 DEF Answered, IInv, TypeOK, Good
<1>4. ASSUME NEW now \in Time, NEW token \in Token, Authorize(token, now)
      PROVE  IInv'
  BY <1>2, <1>4, AuthorizeGood DEF Authorize
<1>5. ASSUME NEW now \in Time, NEW token \in Token, ResetEmergencyStop(token, now)
      PROVE  IInv'
  BY <1>2, <1>5, ResetGood DEF ResetEmergencyStop
<1>6. ASSUME NEW now \in Time, NEW c \in Command, Submit(c, now)
      PROVE  IInv'
  BY <1>2, <1>6, SubmitGood DEF Submit
<1>7. ASSUME NEW now \in Time, NEW decoded, ObserveFeedback(decoded, now)
      PROVE  IInv'
  BY <1>2, <1>7, ObserveFeedbackGood DEF ObserveFeedback
<1>8. ASSUME NEW now \in Time, Disarm(now)
      PROVE  IInv'
  BY <1>2, <1>8, DisarmGood DEF Disarm
<1>9. ASSUME NEW now \in Time, RequestStop(now)
      PROVE  IInv'
  BY <1>2, <1>9, RequestStopGood DEF RequestStop
<1>10. ASSUME NEW now \in Time, LatchEmergencyStop(now)
       PROVE  IInv'
  BY <1>2, <1>10, LatchGood DEF LatchEmergencyStop
<1>11. ASSUME NEW now \in Time, Tick(now)
       PROVE  IInv'
  BY <1>3, <1>11, TickGood
<1>12. CASE TransportLost
  BY <1>3, <1>12, LostGood
<1>13. CASE TransportReopened
  BY <1>3, <1>13, ReopenedGood
<1> QED BY <1>1, <1>4, <1>5, <1>6, <1>7, <1>8, <1>9, <1>10, <1>11, <1>12, <1>13 DEF Next

\* The inductive invariant holds in every reachable state of every session:
\* the constructor establishes it, every method of safety_session.cpp and
\* every loss or reopening of the transport preserves it.
THEOREM InductiveInvariant == Spec => []IInv
<1>1. Init => IInv
  BY InitGood
<1>2. IInv /\ [Next]_vars => IInv'
  BY NextGood
<1> QED BY <1>1, <1>2, PTL DEF Spec

\* Every field of the session keeps its type; in particular no saturating
\* addition leaves int64_t and no counter its configured bound.
THEOREM TypeCorrect == Spec => []TypeOK
<1>1. IInv => TypeOK
  BY DEF IInv
<1> QED BY <1>1, InductiveInvariant, PTL

\* No way of losing the permission forgets to stop a vehicle whose last frame
\* was a motion: tick() still owes it a zero, or has given up in kFaulted.
THEOREM OrphanMotionIsStopped == Spec => []NoOrphanMotion
<1>1. IInv => NoOrphanMotion
  BY DEF IInv, Good, OrphanOK, NoOrphanMotion, InSync
<1> QED BY <1>1, InductiveInvariant, PTL

\* Active is reached only by the full run of fresh commands under the present
\* authorization, and left with it: the state from which tick() sends motion.
THEOREM ActiveSessionsAreEarned == Spec => []ActiveIsEarned
<1>1. IInv => ActiveIsEarned
  BY DEF IInv, Good, Coherent, Linked, ActiveOK, ActiveIsEarned, InSync
<1> QED BY <1>1, InductiveInvariant, PTL

\* What tick() may send is always the newest sequence submit() consumed,
\* created under the present authorization.
THEOREM CacheHoldsTheNewest == Spec => []CachedCommandIsNewest
<1>1. IInv => CachedCommandIsNewest
  BY DEF IInv, Good, Coherent, Cached, CachedCommandIsNewest
<1> QED BY <1>1, InductiveInvariant, PTL

\* kStopPending means an episode of attemptZero() with an attempt left, and
\* nothing else does.
THEOREM EpisodesHaveBudget == Spec => []EpisodeHasBudget
<1>1. IInv => EpisodeHasBudget
  BY DEF IInv, Good, Coherent, Linked, EpisodeHasBudget
<1> QED BY <1>1, InductiveInvariant, PTL

-----------------------------------------------------------------------------
(* The invariant of the gate *)

\* What the state of a session says beyond IInv: it knows a connection exactly
\* in the states that have one, and none the transport did not have; a latched
\* session is stopping, stopped or faulted; an authorization is always on its
\* way to motion, through the stop it survives if there is one.
Tracked(s, t) ==
  /\ s.connection_known <=> s.state \notin {"kDisconnected", "kConfigurationInvalid"}
  /\ s.connection_generation <= t.generation
  /\ s.connection_known /\ s.estop
       => s.state \in {"kStopPending", "kEmergencyStopLatched", "kFaulted"}
  /\ Authorized(s)
       => IF s.zero_active THEN s.after_zero = "kRecovering"
          ELSE s.state \in {"kRecovering", "kActive"}

SInv == IInv /\ Tracked(session, transport)

\* What a call that writes nothing may do to the gate.
Silent(g, h) ==
  \/ h \in {g, "lost"}
  \/ h = "stopping" /\ g # "failed"
  \/ h = "ready" /\ g \in {"shut", "ready", "open"}
  \/ h = "open" /\ g \in {"ready", "open"}

\* What a fault may become.
FaultKept(s, r) ==
  s.state = "kFaulted" => \/ r.state \in {"kFaulted", "kDisconnected"}
                          \/ r.connection_generation > s.connection_generation

\* What a call that writes nothing does to the session s, leaving r.
Kept(s, r, t) ==
  /\ Tracked(r, t)
  /\ Silent(GateState(s, t), GateState(r, t))
  /\ FaultKept(s, r)

-----------------------------------------------------------------------------
(* The gate of a session *)

LEMMA GateOf ==
  ASSUME NEW s \in Session, NEW t
  PROVE  /\ ~SyncedWith(s, t) => GateState(s, t) = "lost"
         /\ SyncedWith(s, t) =>
              /\ s.state = "kStopPending" => GateState(s, t) = "stopping"
              /\ s.state = "kRecovering" => GateState(s, t) = "ready"
              /\ s.state = "kActive" => GateState(s, t) = "open"
              /\ s.state = "kFaulted" => GateState(s, t) = "failed"
              /\ s.state \in {"kConnectedInhibited", "kEmergencyStopLatched"}
                   => GateState(s, t) = "shut"
              /\ s.state \in {"kDisconnected", "kConfigurationInvalid"}
                   => GateState(s, t) = "lost"
         /\ s.state # "kFaulted" => GateState(s, t) # "failed"
<1>1. s.state \in SessionState
  BY DEF Session
<1> QED BY <1>1 DEF GateState, SessionState

\* The gate depends on the connection and the state alone.
LEMMA SameGate ==
  ASSUME NEW s, NEW r, NEW t, r.state = s.state,
         r.connection_known = s.connection_known,
         r.connection_generation = s.connection_generation
  PROVE  /\ GateState(r, t) = GateState(s, t)
         /\ SyncedWith(r, t) = SyncedWith(s, t)
BY DEF GateState, SyncedWith

-----------------------------------------------------------------------------
(* The helpers, field by field *)

LEMMA ObserveFields ==
  ASSUME NEW s \in Session, NEW now \in Time
  PROVE  LET r == ObserveMonotonicTime(s, now) IN
         /\ r \in Session
         /\ r.configuration_valid = s.configuration_valid /\ r.state = s.state
         /\ r.connection_known = s.connection_known
         /\ r.connection_generation = s.connection_generation
         /\ r.zero_active = s.zero_active /\ r.after_zero = s.after_zero
         /\ r.zero_attempts = s.zero_attempts
         /\ r.estop = s.estop /\ Authorized(r) = Authorized(s)
         /\ r.last_motion = s.last_motion /\ r.command = s.command /\ r.fresh = s.fresh
         /\ r.feedback_seen = s.feedback_seen
         /\ r.feedback_receipt = s.feedback_receipt
         /\ r.highest_token = s.highest_token
<1>1. s.last_observed \in Time
  BY DEF Session
<1>2. ObserveMonotonicTime(s, now) \in Session
  BY <1>1, LargerTime DEF Session, ObserveMonotonicTime
<1> QED BY <1>2 DEF Session, ObserveMonotonicTime, Authorized

LEMMA ForgetFields ==
  ASSUME NEW s \in Session
  PROVE  LET r == ForgetConnection(s) IN
         /\ r.last_motion = 0 /\ ~r.feedback_seen /\ r.fresh = 0
         /\ r.after_zero = s.after_zero /\ r.zero_attempts = 0
         /\ r.connection_generation = s.connection_generation
         /\ r.highest_token = s.highest_token
<1> DEFINE v == ForgetFeedback(ClearMotionIntent(RevokeAuthorization(s)))
<1>1. /\ ~v.feedback_seen /\ v.fresh = 0 /\ v.after_zero = s.after_zero
      /\ v.connection_generation = s.connection_generation
      /\ v.highest_token = s.highest_token
  BY DEF Session, ForgetFeedback, ClearMotionIntent, RevokeAuthorization
<1>2. v \in Session
  <2>1. RevokeAuthorization(s) \in Session
    BY TimeFacts DEF Session, RevokeAuthorization
  <2>2. ClearMotionIntent(RevokeAuthorization(s)) \in Session
    BY <2>1, TimeFacts, CountFacts DEF Session, ClearMotionIntent, NoCommand, CommandSlot
  <2> QED BY <2>2, TimeFacts DEF Session, ForgetFeedback
<1>3. ForgetConnection(s) = [v EXCEPT !.zero_active = FALSE, !.zero_attempts = 0,
                                      !.next_zero = 0, !.last_motion = 0]
  BY DEF ForgetConnection
<1> HIDE DEF v
<1> QED BY <1>1, <1>2, <1>3 DEF Session

LEMMA DisconnectFields ==
  ASSUME NEW s \in Session, s.configuration_valid
  PROVE  LET r == HandleDisconnect(s) IN
         /\ r \in Session
         /\ r.state = "kDisconnected" /\ ~r.connection_known
         /\ r.connection_generation = s.connection_generation
         /\ r.estop = s.estop /\ ~r.zero_active /\ ~r.feedback_seen
         /\ ~r.authorization_active /\ ~r.command.valid
         /\ r.highest_token = s.highest_token
<1> DEFINE u == ForgetConnection(s)
<1>1. /\ u \in Session /\ u.configuration_valid /\ u.estop = s.estop
      /\ ~u.authorization_active /\ ~u.command.valid /\ ~u.zero_active
      /\ ~u.feedback_seen /\ u.connection_generation = s.connection_generation
      /\ u.highest_token = s.highest_token
  BY ForgetConnectionFields, ForgetFields
<1>2. HandleDisconnect(s) = [u EXCEPT !.connection_known = FALSE, !.state = "kDisconnected"]
  BY DEF HandleDisconnect
<1> HIDE DEF u
<1> QED BY ZenonT(60), <1>1, <1>2 DEF Session, SessionState

LEMMA NewConnectionFields ==
  ASSUME NEW s \in Session, NEW t \in Transport, t.connected
  PROVE  LET r == HandleNewConnection(s, t) IN
         /\ r \in Session
         /\ r.state = "kStopPending" /\ r.zero_active /\ r.zero_attempts = 0
         /\ r.after_zero = Inhibited(s) /\ r.connection_known
         /\ r.connection_generation = t.generation
         /\ r.configuration_valid = s.configuration_valid /\ r.estop = s.estop
         /\ ~r.authorization_active /\ ~r.command.valid /\ r.fresh = 0
         /\ ~r.feedback_seen /\ r.last_motion = 0
         /\ r.highest_token = s.highest_token
<1> DEFINE u == ForgetConnection(s)
           v == [u EXCEPT !.connection_known = TRUE, !.connection_generation = t.generation,
                          !.state = "kConnectedInhibited"]
<1>1. /\ u \in Session /\ u.configuration_valid = s.configuration_valid /\ u.estop = s.estop
      /\ ~u.authorization_active /\ ~u.command.valid /\ ~u.zero_active
      /\ u.last_motion = 0 /\ ~u.feedback_seen /\ u.fresh = 0
      /\ u.highest_token = s.highest_token
  BY ForgetConnectionFields, ForgetFields
<1>2. t.generation \in Nat
  BY GenerationAssumption DEF Transport
<1>3. HandleNewConnection(s, t) = BeginZeroEpisode(v, t, Inhibited(s), 0)
  BY DEF HandleNewConnection
<1> HIDE DEF u
<1>4. /\ v \in Session /\ v.configuration_valid = s.configuration_valid /\ v.estop = s.estop
      /\ ~v.authorization_active /\ ~v.command.valid /\ ~v.zero_active
      /\ v.last_motion = 0 /\ ~v.feedback_seen /\ v.fresh = 0
      /\ v.connection_known /\ v.connection_generation = t.generation
      /\ v.state = "kConnectedInhibited" /\ v.highest_token = s.highest_token
  BY <1>1, <1>2 DEF Session, SessionState
<1> HIDE DEF v
<1>5. BeginZeroEpisode(v, t, Inhibited(s), 0) =
        [v EXCEPT !.zero_active = TRUE, !.after_zero = Inhibited(s), !.zero_attempts = 0,
                  !.next_zero = Larger(0, 0), !.state = "kStopPending"]
  BY <1>4 DEF BeginZeroEpisode
<1>6. Larger(0, 0) \in Time /\ Inhibited(s) \in AfterZero
  BY TimeFacts, InhibitedType DEF Larger
<1> DEFINE r == HandleNewConnection(s, t)
<1>7. r = [v EXCEPT !.zero_active = TRUE, !.after_zero = Inhibited(s), !.zero_attempts = 0,
                    !.next_zero = Larger(0, 0), !.state = "kStopPending"]
  BY <1>3, <1>5
<1> HIDE DEF r
<1>8. r \in Session
  BY <1>4, <1>6, <1>7, CountFacts DEF Session, SessionState
<1>9. /\ r.state = "kStopPending" /\ r.zero_active /\ r.zero_attempts = 0
      /\ r.after_zero = Inhibited(s) /\ r.connection_known
      /\ r.connection_generation = t.generation
      /\ r.configuration_valid = s.configuration_valid /\ r.estop = s.estop
      /\ ~r.authorization_active /\ ~r.command.valid /\ r.fresh = 0
      /\ ~r.feedback_seen /\ r.last_motion = 0
      /\ r.highest_token = s.highest_token
  BY <1>4, <1>7 DEF Session
<1> QED BY <1>8, <1>9 DEF r

\* A stop on a connection the session knows.
LEMMA BeginFields ==
  ASSUME NEW s \in Session, NEW t, NEW after \in AfterZero, NEW earliest \in Time,
         s.connection_known, t.connected
  PROVE  LET r == BeginZeroEpisode(s, t, after, earliest) IN
         /\ r \in Session
         /\ r.connection_known /\ r.connection_generation = s.connection_generation
         /\ r.configuration_valid = s.configuration_valid /\ r.estop = s.estop
         /\ s.state = "kFaulted" => r = s
         /\ s.state # "kFaulted" /\ (s.zero_active => s.state = "kStopPending")
              => r.state = "kStopPending" /\ r.zero_active
         /\ r.authorization_active = s.authorization_active
         /\ r.authorized_generation = s.authorized_generation
         /\ r.authorization_ns = s.authorization_ns
         /\ r.after_zero \in {s.after_zero, after}
         /\ ~s.zero_active /\ s.state # "kFaulted"
              => r.after_zero = after /\ r.zero_attempts = 0
         /\ s.zero_active => r.zero_attempts = s.zero_attempts
         /\ r.command = s.command /\ r.fresh = s.fresh
         /\ r.feedback_seen = s.feedback_seen /\ r.last_motion = s.last_motion
         /\ r.highest_token = s.highest_token
<1> DEFINE r == BeginZeroEpisode(s, t, after, earliest)
<1>1. r \in Session
  BY ZenonT(60), TimeFacts, CountFacts, LargerTime
  DEF Session, BeginZeroEpisode, SessionState, AfterZero
<1> QED BY <1>1 DEF Session, BeginZeroEpisode

LEMMA ClearFields ==
  ASSUME NEW s \in Session
  PROVE  LET r == ClearMotionIntent(s) IN
         /\ r \in Session
         /\ r = [s EXCEPT !.command = NoCommand, !.fresh = 0]
         /\ r.configuration_valid = s.configuration_valid /\ r.state = s.state
         /\ r.connection_known = s.connection_known
         /\ r.connection_generation = s.connection_generation
         /\ r.zero_active = s.zero_active /\ r.after_zero = s.after_zero
         /\ r.zero_attempts = s.zero_attempts
         /\ r.estop = s.estop /\ Authorized(r) = Authorized(s)
         /\ r.authorization_active = s.authorization_active
         /\ r.last_motion = s.last_motion /\ ~r.command.valid /\ r.fresh = 0
         /\ r.feedback_seen = s.feedback_seen /\ r.last_observed = s.last_observed
         /\ r.highest_token = s.highest_token
<1>1. ClearMotionIntent(s) \in Session
  BY TimeFacts, CountFacts DEF Session, ClearMotionIntent, NoCommand, CommandSlot
<1> QED BY <1>1 DEF Session, ClearMotionIntent, Authorized, NoCommand

LEMMA RevokeFields ==
  ASSUME NEW s \in Session
  PROVE  LET r == RevokeAuthorization(s) IN
         /\ r \in Session
         /\ r.configuration_valid = s.configuration_valid /\ r.state = s.state
         /\ r.connection_known = s.connection_known
         /\ r.connection_generation = s.connection_generation
         /\ r.zero_active = s.zero_active /\ r.after_zero = s.after_zero
         /\ r.zero_attempts = s.zero_attempts
         /\ r.estop = s.estop /\ ~r.authorization_active
         /\ r.last_motion = s.last_motion
         /\ r.feedback_seen = s.feedback_seen /\ r.last_observed = s.last_observed
         /\ r.highest_token = s.highest_token
<1>1. RevokeAuthorization(s) \in Session
  BY TimeFacts DEF Session, RevokeAuthorization
<1> QED BY <1>1 DEF Session, RevokeAuthorization

LEMMA ForgetFeedbackFields ==
  ASSUME NEW s \in Session
  PROVE  LET r == ForgetFeedback(s) IN
         /\ r \in Session
         /\ r.configuration_valid = s.configuration_valid /\ r.state = s.state
         /\ r.connection_known = s.connection_known
         /\ r.connection_generation = s.connection_generation
         /\ r.zero_active = s.zero_active /\ r.after_zero = s.after_zero
         /\ r.zero_attempts = s.zero_attempts
         /\ r.estop = s.estop /\ Authorized(r) = Authorized(s)
         /\ r.authorization_active = s.authorization_active
         /\ r.last_motion = s.last_motion /\ r.command = s.command /\ r.fresh = s.fresh
         /\ ~r.feedback_seen /\ r.last_observed = s.last_observed
         /\ r.highest_token = s.highest_token
<1>1. ForgetFeedback(s) \in Session
  BY TimeFacts DEF Session, ForgetFeedback
<1> QED BY <1>1 DEF Session, ForgetFeedback, Authorized

\* The three things every interruption takes away.
LEMMA InterruptFields ==
  ASSUME NEW s \in Session
  PROVE  LET r == ForgetFeedback(ClearMotionIntent(RevokeAuthorization(s))) IN
         /\ r \in Session
         /\ r.configuration_valid = s.configuration_valid /\ r.state = s.state
         /\ r.connection_known = s.connection_known
         /\ r.connection_generation = s.connection_generation
         /\ r.zero_active = s.zero_active /\ r.after_zero = s.after_zero
         /\ r.zero_attempts = s.zero_attempts
         /\ r.estop = s.estop /\ ~r.authorization_active
         /\ ~r.command.valid /\ r.fresh = 0
         /\ ~r.feedback_seen /\ r.last_observed = s.last_observed
         /\ r.highest_token = s.highest_token
<1> DEFINE a == RevokeAuthorization(s)
           b == ClearMotionIntent(a)
<1>1. /\ a \in Session
      /\ a.configuration_valid = s.configuration_valid /\ a.state = s.state
      /\ a.connection_known = s.connection_known
      /\ a.connection_generation = s.connection_generation
      /\ a.zero_active = s.zero_active /\ a.after_zero = s.after_zero
      /\ a.zero_attempts = s.zero_attempts
      /\ a.estop = s.estop /\ ~a.authorization_active
      /\ a.last_observed = s.last_observed /\ a.highest_token = s.highest_token
  BY RevokeFields
<1> HIDE DEF a
<1>2. /\ b \in Session
      /\ b.configuration_valid = a.configuration_valid /\ b.state = a.state
      /\ b.connection_known = a.connection_known
      /\ b.connection_generation = a.connection_generation
      /\ b.zero_active = a.zero_active /\ b.after_zero = a.after_zero
      /\ b.zero_attempts = a.zero_attempts
      /\ b.estop = a.estop /\ b.authorization_active = a.authorization_active
      /\ ~b.command.valid /\ b.fresh = 0
      /\ b.last_observed = a.last_observed /\ b.highest_token = a.highest_token
  BY <1>1, ClearFields
<1> HIDE DEF b
<1>3. /\ ForgetFeedback(b) \in Session
      /\ ForgetFeedback(b).configuration_valid = b.configuration_valid
      /\ ForgetFeedback(b).state = b.state
      /\ ForgetFeedback(b).connection_known = b.connection_known
      /\ ForgetFeedback(b).connection_generation = b.connection_generation
      /\ ForgetFeedback(b).zero_active = b.zero_active
      /\ ForgetFeedback(b).after_zero = b.after_zero
      /\ ForgetFeedback(b).zero_attempts = b.zero_attempts
      /\ ForgetFeedback(b).estop = b.estop
      /\ ForgetFeedback(b).authorization_active = b.authorization_active
      /\ ForgetFeedback(b).command = b.command /\ ForgetFeedback(b).fresh = b.fresh
      /\ ~ForgetFeedback(b).feedback_seen
      /\ ForgetFeedback(b).last_observed = b.last_observed
      /\ ForgetFeedback(b).highest_token = b.highest_token
  BY <1>2, ForgetFeedbackFields
<1> DEFINE r == ForgetFeedback(b)
<1>4. r = ForgetFeedback(ClearMotionIntent(RevokeAuthorization(s)))
  BY DEF a, b
<1> QED BY <1>1, <1>2, <1>3, <1>4

LEMMA ClockFailureFields ==
  ASSUME NEW s \in Session, NEW t, s.zero_active => s.state = "kStopPending"
  PROVE  LET r == HandleClockFailure(s, t) IN
         /\ r \in Session
         /\ r.configuration_valid = s.configuration_valid
         /\ r.connection_known = s.connection_known
         /\ r.connection_generation = s.connection_generation
         /\ r.estop = s.estop /\ ~r.authorization_active /\ ~r.command.valid /\ r.fresh = 0
         /\ ~r.feedback_seen /\ r.highest_token = s.highest_token
         /\ s.connection_known /\ t.connected /\ s.state # "kFaulted"
              => r.state = "kStopPending" /\ r.zero_active
         /\ s.state = "kFaulted" \/ ~(s.connection_known /\ t.connected)
              => r.state = s.state /\ r.zero_active = s.zero_active
         /\ s.zero_active => r.zero_attempts = s.zero_attempts
         /\ ~s.zero_active /\ r.zero_active => r.zero_attempts = 0
<1> DEFINE v == ForgetFeedback(ClearMotionIntent(RevokeAuthorization(s)))
           b == BeginZeroEpisode(v, t, Inhibited(s), s.last_observed)
           r == HandleClockFailure(s, t)
<1>1. /\ v \in Session
      /\ v.configuration_valid = s.configuration_valid /\ v.state = s.state
      /\ v.connection_known = s.connection_known
      /\ v.connection_generation = s.connection_generation
      /\ v.zero_active = s.zero_active
      /\ v.zero_attempts = s.zero_attempts
      /\ v.estop = s.estop /\ ~v.authorization_active
      /\ ~v.command.valid /\ v.fresh = 0
      /\ ~v.feedback_seen /\ v.highest_token = s.highest_token
  BY InterruptFields
<1>2. s.last_observed \in Time /\ Inhibited(s) \in AfterZero
  BY InhibitedType DEF Session
<1>3. r = IF s.connection_known /\ t.connected THEN b ELSE v
  BY DEF HandleClockFailure
<1> HIDE DEF v, r
<1>4. CASE s.connection_known /\ t.connected
  <2>0. v.connection_known /\ t.connected /\ (v.zero_active => v.state = "kStopPending")
    BY <1>1, <1>4
  <2>1. /\ b \in Session
        /\ b.connection_known /\ b.connection_generation = v.connection_generation
        /\ b.configuration_valid = v.configuration_valid /\ b.estop = v.estop
        /\ v.state = "kFaulted" => b = v
        /\ v.state # "kFaulted" => b.state = "kStopPending" /\ b.zero_active
        /\ b.authorization_active = v.authorization_active
        /\ ~v.zero_active /\ v.state # "kFaulted" => b.zero_attempts = 0
        /\ v.zero_active => b.zero_attempts = v.zero_attempts
        /\ b.command = v.command /\ b.fresh = v.fresh
        /\ b.feedback_seen = v.feedback_seen
        /\ b.highest_token = v.highest_token
    BY <1>1, <1>2, <2>0, BeginFields
  <2> HIDE DEF b
  <2>2. r = b
    BY <1>3, <1>4
  <2> QED BY <1>1, <1>4, <2>1, <2>2 DEF r
<1>5. CASE ~(s.connection_known /\ t.connected)
  BY <1>1, <1>3, <1>5 DEF r
<1> QED BY <1>4, <1>5

-----------------------------------------------------------------------------
(* How a method enters *)

\* A clock failure stops what moves and touches nothing else.
LEMMA ClockFailureKept ==
  ASSUME NEW s \in Session, NEW t, Linked(s, t), Tracked(s, t)
  PROVE  Kept(s, HandleClockFailure(s, t), t)
<1> DEFINE r == HandleClockFailure(s, t)
<1>1. /\ r \in Session
      /\ r.connection_known = s.connection_known
      /\ r.connection_generation = s.connection_generation
      /\ r.estop = s.estop /\ ~r.authorization_active
      /\ s.connection_known /\ t.connected /\ s.state # "kFaulted"
           => r.state = "kStopPending" /\ r.zero_active
      /\ s.state = "kFaulted" \/ ~(s.connection_known /\ t.connected)
           => r.state = s.state
  BY ClockFailureFields DEF Linked
<1> HIDE DEF r
<1>2. Tracked(r, t)
  BY <1>1 DEF Tracked, Authorized
<1>3. Silent(GateState(s, t), GateState(r, t))
  <2>1. CASE r.state = s.state
    BY <1>1, <2>1, SameGate DEF Silent
  <2>2. CASE r.state = "kStopPending" /\ s.state # "kFaulted"
    <3>1. GateState(r, t) \in {"lost", "stopping"}
      BY <1>1, <2>2, GateOf
    <3>2. GateState(s, t) # "failed"
      BY <2>2, GateOf
    <3> QED BY <3>1, <3>2 DEF Silent
  <2> QED BY <1>1, <2>1, <2>2
<1> QED BY <1>1, <1>2, <1>3 DEF Kept, FaultKept, r

LEMMA DisconnectKept ==
  ASSUME NEW s \in Session, NEW r \in Session, NEW t, s.configuration_valid,
         s.connection_generation <= t.generation
  PROVE  /\ Tracked(HandleDisconnect(s), t)
         /\ GateState(HandleDisconnect(s), t) = "lost"
         /\ Silent(GateState(r, t), GateState(HandleDisconnect(s), t))
         /\ FaultKept(r, HandleDisconnect(s))
<1> DEFINE d == HandleDisconnect(s)
<1>1. /\ d \in Session /\ d.state = "kDisconnected" /\ ~d.connection_known
      /\ d.connection_generation = s.connection_generation
  BY DisconnectFields
<1> HIDE DEF d
<1>2. GateState(d, t) = "lost"
  BY <1>1, GateOf DEF SyncedWith
<1> QED BY <1>1, <1>2 DEF Tracked, Authorized, Silent, FaultKept, d

\* What a call that goes on finds: the session as it was, a little later, or
\* a session that has just found a new line and owes it a zero frame.
Found(s, e, t, now) ==
  \/ /\ ~NewGeneration(s, t)
     /\ e = ObserveMonotonicTime(s, now)
     /\ SyncedWith(s, t)
     /\ GateState(e, t) = GateState(s, t)
  \/ /\ NewGeneration(s, t)
     /\ e.state = "kStopPending" /\ e.zero_active /\ e.after_zero # "kRecovering"
     /\ GateState(s, t) = "lost"
     /\ FaultKept(s, e)
     /\ s.state = "kFaulted" => e.connection_generation > s.connection_generation

LEMMA EnterKept ==
  ASSUME NEW s, NEW t \in Transport, NEW w, NEW now \in Time, Good(s, t, w), Tracked(s, t)
  PROVE  LET e == Enter(s, t, now) IN
         /\ Tracked(e, t)
         /\ Proceeds(s, t, now) => Found(s, e, t, now)
         /\ ~Proceeds(s, t, now) => Kept(s, e, t)
<1> DEFINE e == Enter(s, t, now)
           o == ObserveMonotonicTime(s, now)
<1>1. s \in Session /\ Linked(s, t) /\ t.generation \in Nat
      /\ s.connection_generation \in Nat
  BY GenerationAssumption DEF Good, Coherent, Session, Transport
<1>2. /\ o \in Session /\ o.configuration_valid = s.configuration_valid
      /\ o.state = s.state /\ o.connection_known = s.connection_known
      /\ o.connection_generation = s.connection_generation
      /\ o.zero_active = s.zero_active /\ o.after_zero = s.after_zero
      /\ o.estop = s.estop /\ Authorized(o) = Authorized(s)
  BY <1>1, ObserveFields
<1>3. CASE ~s.configuration_valid
  BY <1>3 DEF Enter, Proceeds, Kept, Silent, FaultKept
<1>4. CASE s.configuration_valid /\ ~TimeValid(s, now)
  BY <1>1, <1>4, ClockFailureKept DEF Enter, Proceeds, Kept
<1>5. CASE s.configuration_valid /\ TimeValid(s, now) /\ ~Attached(t)
  <2>1. e = HandleDisconnect(o)
    BY <1>5 DEF Enter, SynchronizeConnection
  <2>2. o.connection_generation <= t.generation
    BY <1>2 DEF Tracked
  <2> HIDE DEF e, o
  <2> QED BY <1>1, <1>2, <1>5, <2>1, <2>2, DisconnectKept DEF Proceeds, Kept, e
<1>6. CASE s.configuration_valid /\ TimeValid(s, now) /\ Attached(t) /\ NewGeneration(s, t)
  <2>1. e = HandleNewConnection(o, t)
    BY <1>2, <1>6 DEF Enter, SynchronizeConnection, NewGeneration
  <2> HIDE DEF e, o
  <2>2. /\ e \in Session /\ e.state = "kStopPending" /\ e.zero_active
        /\ e.after_zero = Inhibited(o) /\ e.connection_known
        /\ e.connection_generation = t.generation
        /\ ~e.authorization_active
    BY <1>2, <1>6, <2>1, NewConnectionFields DEF Attached
  <2>3. e.after_zero # "kRecovering"
    BY <2>2 DEF Inhibited
  <2>4. Tracked(e, t)
    BY <1>1, <2>2 DEF Tracked, Authorized
  <2>5. ~SyncedWith(s, t)
    BY <1>6 DEF NewGeneration, SyncedWith
  <2>6. s.state = "kFaulted" => e.connection_generation > s.connection_generation
    BY <1>1, <1>6, <2>2 DEF Tracked, NewGeneration
  <2> QED BY <1>1, <1>6, <2>2, <2>3, <2>4, <2>5, <2>6, GateOf
          DEF Found, FaultKept, Proceeds, e
<1>7. CASE s.configuration_valid /\ TimeValid(s, now) /\ Attached(t) /\ ~NewGeneration(s, t)
  <2>1. e = o
    BY <1>2, <1>7 DEF Enter, SynchronizeConnection, NewGeneration
  <2> HIDE DEF e
  <2>2. SyncedWith(s, t)
    BY <1>7 DEF NewGeneration, SyncedWith, Attached
  <2>3. Tracked(o, t)
    <3> HIDE DEF o
    <3> QED BY <1>2 DEF Tracked
  <2>4. GateState(o, t) = GateState(s, t)
    BY <1>2, SameGate
  <2> QED BY <1>7, <2>1, <2>2, <2>3, <2>4 DEF Found, Proceeds, e
<1> QED BY <1>3, <1>4, <1>5, <1>6, <1>7

\* What the rest of a call that writes nothing does to the session e it found.
Settles(e, r, t) ==
  /\ r \in Session
  /\ Tracked(r, t)
  /\ SyncedWith(r, t)
  /\ r.connection_generation = e.connection_generation
  /\ e.state = "kStopPending" => r.state = "kStopPending"
  /\ e.state = "kFaulted" => r.state = "kFaulted"
  /\ Silent(GateState(e, t), GateState(r, t))

LEMMA ProceedKept ==
  ASSUME NEW s \in Session, NEW e \in Session, NEW r, NEW t, NEW now \in Time,
         Found(s, e, t, now), Settles(e, r, t)
  PROVE  Kept(s, r, t)
<1> USE DEF Settles
<1>1. CASE /\ ~NewGeneration(s, t)
           /\ e = ObserveMonotonicTime(s, now)
           /\ GateState(e, t) = GateState(s, t)
  <2>1. e.state = s.state
    BY <1>1, ObserveFields
  <2> QED BY <1>1, <2>1 DEF Kept, FaultKept
<1>2. CASE /\ NewGeneration(s, t)
           /\ e.state = "kStopPending"
           /\ GateState(s, t) = "lost"
           /\ s.state = "kFaulted" => e.connection_generation > s.connection_generation
  <2>1. GateState(r, t) = "stopping"
    BY <1>2, GateOf
  <2> QED BY <1>2, <2>1 DEF Kept, Silent, FaultKept
<1> QED BY <1>1, <1>2 DEF Found

-----------------------------------------------------------------------------
(* Stops *)

LEMMA StopSettles ==
  ASSUME NEW e \in Session, NEW t, Linked(e, t), Tracked(e, t), SyncedWith(e, t),
         NEW after \in AfterZero, NEW earliest \in Time,
         Authorized(e) => after = "kRecovering"
  PROVE  Settles(e, StopWithZero(e, t, after, earliest), t)
<1> DEFINE c == ClearMotionIntent(e)
           r == BeginZeroEpisode(c, t, after, earliest)
<1>1. /\ c \in Session /\ c.state = e.state
      /\ c.configuration_valid = e.configuration_valid
      /\ c.connection_known = e.connection_known
      /\ c.connection_generation = e.connection_generation
      /\ c.zero_active = e.zero_active /\ c.after_zero = e.after_zero
      /\ c.estop = e.estop /\ Authorized(c) = Authorized(e)
  BY ClearFields
<1>2. StopWithZero(e, t, after, earliest) = r
  BY DEF StopWithZero
<1> HIDE DEF c
<1>3. c.connection_known /\ t.connected /\ (c.zero_active => c.state = "kStopPending")
  BY <1>1 DEF SyncedWith, Linked
<1>4. /\ r \in Session
      /\ r.connection_known /\ r.connection_generation = c.connection_generation
      /\ r.configuration_valid = c.configuration_valid /\ r.estop = c.estop
      /\ c.state = "kFaulted" => r = c
      /\ c.state # "kFaulted" => r.state = "kStopPending" /\ r.zero_active
      /\ r.authorization_active = c.authorization_active
      /\ r.authorized_generation = c.authorized_generation
      /\ r.authorization_ns = c.authorization_ns
      /\ r.after_zero \in {c.after_zero, after}
      /\ ~c.zero_active /\ c.state # "kFaulted" => r.after_zero = after
  BY <1>1, <1>3, BeginFields
<1> HIDE DEF r
<1>5. SyncedWith(r, t)
  BY <1>1, <1>4 DEF SyncedWith
<1>6. Authorized(r) => Authorized(c) /\ r.zero_active /\ r.after_zero = "kRecovering"
  <2>1. Authorized(r) => c.state # "kFaulted" /\ Authorized(c)
    BY <1>3, <1>4 DEF Authorized
  <2> QED BY <1>1, <1>4, <2>1 DEF Tracked
<1>7. Tracked(r, t)
  BY <1>1, <1>3, <1>4, <1>6 DEF Tracked
<1>8. Silent(GateState(e, t), GateState(r, t))
  <2>1. CASE e.state = "kFaulted"
    BY <1>1, <1>4, <1>5, <2>1, GateOf DEF Silent
  <2>2. CASE e.state # "kFaulted"
    BY <1>1, <1>4, <1>5, <2>2, GateOf DEF Silent
  <2> QED BY <2>1, <2>2
<1> QED BY <1>1, <1>2, <1>4, <1>5, <1>7, <1>8 DEF Settles

\* The gate does not see an authorization.
LEMMA RevokeSettles ==
  ASSUME NEW e \in Session, NEW t, Linked(e, t), Tracked(e, t), SyncedWith(e, t),
         NEW after \in AfterZero, NEW earliest \in Time
  PROVE  Settles(e, RevokeWithZero(e, t, after, earliest), t)
<1> DEFINE v == RevokeAuthorization(e)
<1>1. /\ v \in Session /\ v.state = e.state
      /\ v.connection_known = e.connection_known
      /\ v.connection_generation = e.connection_generation
      /\ v.zero_active = e.zero_active
      /\ v.estop = e.estop /\ ~v.authorization_active
  BY RevokeFields
<1>2. Linked(v, t) /\ SyncedWith(v, t)
  BY RevokeLinked
<1>3. RevokeWithZero(e, t, after, earliest) = StopWithZero(v, t, after, earliest)
  BY DEF RevokeWithZero, StopWithZero
<1> HIDE DEF v
<1>4. ~Authorized(v)
  BY <1>1 DEF Authorized
<1>5. Tracked(v, t)
  BY <1>1, <1>4 DEF Tracked
<1>6. Settles(v, StopWithZero(v, t, after, earliest), t)
  BY <1>1, <1>2, <1>4, <1>5, StopSettles
<1>7. GateState(v, t) = GateState(e, t)
  BY <1>1, SameGate
<1> QED BY <1>1, <1>3, <1>6, <1>7 DEF Settles

LEMMA NothingSettles ==
  ASSUME NEW e \in Session, NEW t, Tracked(e, t), SyncedWith(e, t)
  PROVE  Settles(e, e, t)
BY DEF Settles, Silent

-----------------------------------------------------------------------------
(* The methods that never write *)

\* What a method that has entered can rely on.
LEMMA EnteredSInv ==
  ASSUME SInv, NEW now \in Time
  PROVE  LET e == Entered(now) IN
         /\ session \in Session /\ e \in Session
         /\ Good(e, transport, wire) /\ Linked(e, transport) /\ Tracked(e, transport)
         /\ Goes(now) => /\ SyncedWith(e, transport) /\ e.configuration_valid /\ now > 0
                         /\ Found(session, e, transport, now)
         /\ ~Goes(now) => Kept(session, e, transport)
<1> DEFINE e == Entered(now)
<1>1. /\ Good(e, transport, wire)
      /\ Goes(now) => SyncedWith(e, transport) /\ e.configuration_valid /\ now > 0
  BY EnterGood DEF SInv, IInv, TypeOK, Entered, Goes
<1>2. /\ Tracked(e, transport)
      /\ Goes(now) => Found(session, e, transport, now)
      /\ ~Goes(now) => Kept(session, e, transport)
  BY EnterKept DEF SInv, IInv, TypeOK, Entered, Goes
<1> QED BY <1>1, <1>2 DEF SInv, IInv, TypeOK, Good, Coherent

LEMMA AuthorizeKept ==
  ASSUME NEW token \in Token, NEW now \in Time, SInv, Authorize(token, now)
  PROVE  Kept(session, session', transport)
<1> DEFINE e == Entered(now)
<1>1. /\ session \in Session /\ e \in Session /\ Tracked(e, transport)
      /\ Linked(e, transport)
      /\ Goes(now) => /\ SyncedWith(e, transport)
                      /\ Found(session, e, transport, now)
      /\ ~Goes(now) => Kept(session, e, transport)
  BY EnteredSInv
<1>2. session' = IF Goes(now) /\ MayAuthorize(e, token, now)
                 THEN Granted(e, token, now) ELSE e
  BY DEF Authorize
<1> HIDE DEF e
<1>3. ~Goes(now) => session' = e
  BY <1>2
<1>4. CASE ~Goes(now)
  BY <1>1, <1>3, <1>4
<1>5. CASE Goes(now) /\ session' = e
  BY <1>1, <1>5, NothingSettles, ProceedKept
<1>6. CASE Goes(now) /\ MayAuthorize(e, token, now) /\ session' = Granted(e, token, now)
  <2> DEFINE c == ClearMotionIntent(e)
             r == Granted(e, token, now)
  <2>1. /\ c \in Session /\ c.connection_known = e.connection_known
        /\ c.connection_generation = e.connection_generation
        /\ c.zero_active = e.zero_active /\ c.estop = e.estop
    BY <1>1, ClearFields
  <2>2. r = [c EXCEPT !.highest_token = token, !.authorization_active = TRUE,
                      !.authorized_generation = e.connection_generation,
                      !.authorization_ns = now, !.state = "kRecovering"]
    BY DEF Granted
  <2>3. /\ ~e.estop /\ e.state # "kFaulted" /\ ~e.zero_active
        /\ e.connection_generation \in Nat /\ token \in Nat
    BY <1>1, <1>6, InputsAssumption DEF MayAuthorize, Session
  <2> HIDE DEF c, r
  <2>4. r \in Session
    BY <2>1, <2>2, <2>3 DEF Session, SessionState
  <2>5. /\ r.state = "kRecovering" /\ r.connection_known = e.connection_known
        /\ r.connection_generation = e.connection_generation
        /\ r.zero_active = e.zero_active /\ r.estop = e.estop
    BY <2>1, <2>2 DEF Session
  <2>6. SyncedWith(r, transport)
    BY <1>1, <1>6, <2>5 DEF SyncedWith
  <2>7. Tracked(r, transport)
    BY <1>1, <1>6, <2>3, <2>5 DEF Tracked, SyncedWith
  <2>8. e.state \notin {"kStopPending", "kFaulted", "kDisconnected", "kConfigurationInvalid"}
    BY <1>1, <1>6, <2>3 DEF Linked, Tracked, SyncedWith
  <2>9. GateState(e, transport) \in {"shut", "ready", "open"}
        /\ GateState(r, transport) = "ready"
    BY <1>1, <1>6, <2>4, <2>5, <2>6, <2>8, GateOf DEF Session, SessionState
  <2>10. Settles(e, r, transport)
    BY <2>4, <2>5, <2>6, <2>7, <2>8, <2>9 DEF Settles, Silent
  <2> QED BY <1>1, <1>6, <2>10, ProceedKept DEF r
<1> QED BY <1>2, <1>4, <1>5, <1>6

LEMMA DisarmKept ==
  ASSUME NEW now \in Time, SInv, Disarm(now)
  PROVE  Kept(session, session', transport)
<1> DEFINE e == Entered(now)
<1>1. /\ session \in Session /\ e \in Session /\ Tracked(e, transport)
      /\ Linked(e, transport)
      /\ Goes(now) => /\ SyncedWith(e, transport)
                      /\ Found(session, e, transport, now)
      /\ ~Goes(now) => Kept(session, e, transport)
  BY EnteredSInv
<1>2. \/ session' = e
      \/ Goes(now) /\ session' = RevokeWithZero(e, transport, Inhibited(e), now)
  BY DEF Disarm
<1> HIDE DEF e
<1> QED BY <1>1, <1>2, InhibitedType, RevokeSettles, NothingSettles, ProceedKept

LEMMA RequestStopKept ==
  ASSUME NEW now \in Time, SInv, RequestStop(now)
  PROVE  Kept(session, session', transport)
<1> DEFINE e == Entered(now)
           after == IF e.estop THEN "kEmergencyStopLatched"
                    ELSE IF Authorized(e) THEN "kRecovering" ELSE "kConnectedInhibited"
<1>1. /\ session \in Session /\ e \in Session /\ Tracked(e, transport)
      /\ Linked(e, transport)
      /\ Goes(now) => /\ SyncedWith(e, transport)
                      /\ Found(session, e, transport, now)
      /\ ~Goes(now) => Kept(session, e, transport)
  BY EnteredSInv
<1>2. \/ session' = e
      \/ Goes(now) /\ session' = StopWithZero(e, transport, after, now)
  BY DEF RequestStop
<1> HIDE DEF e
<1>3. after \in AfterZero /\ (Authorized(e) => after = "kRecovering")
  BY DEF AfterZero, Authorized
<1> HIDE DEF after
<1> QED BY <1>1, <1>2, <1>3, StopSettles, NothingSettles, ProceedKept

LEMMA ObserveFeedbackKept ==
  ASSUME NEW decoded, NEW now \in Time, SInv, ObserveFeedback(decoded, now)
  PROVE  Kept(session, session', transport)
<1> DEFINE e == Entered(now)
           f == ForgetFeedback(e)
           a == [e EXCEPT !.feedback_seen = TRUE, !.feedback_receipt = now]
<1>1. /\ session \in Session /\ e \in Session /\ Tracked(e, transport)
      /\ Linked(e, transport)
      /\ Goes(now) => /\ SyncedWith(e, transport)
                      /\ Found(session, e, transport, now)
      /\ ~Goes(now) => Kept(session, e, transport)
  BY EnteredSInv
<1>2. \/ session' = e
      \/ Goes(now) /\ session' = a
      \/ Goes(now) /\ session' = RevokeWithZero(f, transport, Inhibited(e), now)
  BY DEF ObserveFeedback
<1> HIDE DEF e
<1>3. CASE session' = e
  BY <1>1, <1>3, NothingSettles, ProceedKept
<1>4. CASE Goes(now) /\ session' = a
  <2>1. /\ a \in Session /\ a.state = e.state
        /\ a.connection_known = e.connection_known
        /\ a.connection_generation = e.connection_generation
        /\ a.zero_active = e.zero_active /\ a.after_zero = e.after_zero
        /\ a.estop = e.estop /\ Authorized(a) = Authorized(e)
    BY <1>1 DEF Session, Authorized
  <2> HIDE DEF a
  <2>2. Tracked(a, transport)
    BY <1>1, <2>1 DEF Tracked
  <2>3. GateState(a, transport) = GateState(e, transport) /\ SyncedWith(a, transport)
    BY <1>1, <1>4, <2>1, SameGate
  <2>4. Settles(e, a, transport)
    BY <2>1, <2>2, <2>3 DEF Settles, Silent
  <2> QED BY <1>1, <1>4, <2>4, ProceedKept
<1>5. CASE Goes(now) /\ session' = RevokeWithZero(f, transport, Inhibited(e), now)
  <2>1. /\ f \in Session /\ f.state = e.state
        /\ f.connection_known = e.connection_known
        /\ f.connection_generation = e.connection_generation
        /\ f.zero_active = e.zero_active /\ f.after_zero = e.after_zero
        /\ f.estop = e.estop /\ Authorized(f) = Authorized(e)
        /\ f.configuration_valid = e.configuration_valid
        /\ f.authorization_active = e.authorization_active
        /\ f.zero_attempts = e.zero_attempts
    BY <1>1, ForgetFeedbackFields
  <2> HIDE DEF f
  <2>2. Tracked(f, transport) /\ Linked(f, transport)
    BY <1>1, <2>1 DEF Tracked, Linked
  <2>3. GateState(f, transport) = GateState(e, transport) /\ SyncedWith(f, transport)
    BY <1>1, <1>5, <2>1, SameGate
  <2>4. Settles(f, session', transport)
    BY <1>5, <2>1, <2>2, <2>3, InhibitedType, RevokeSettles
  <2>5. Settles(e, session', transport)
    BY <2>1, <2>3, <2>4 DEF Settles
  <2> QED BY <1>1, <1>5, <2>5, ProceedKept
<1> QED BY <1>2, <1>3, <1>4, <1>5

LEMMA LatchKept ==
  ASSUME NEW now \in Time, SInv, LatchEmergencyStop(now)
  PROVE  Kept(session, session', transport)
<1> DEFINE a == [session EXCEPT !.estop = TRUE]
           latched == ForgetFeedback(ClearMotionIntent(RevokeAuthorization(a)))
           timed == IF TimeValid(latched, now) THEN ObserveMonotonicTime(latched, now) ELSE latched
           s == SynchronizeConnection(timed, transport)
<1>1. /\ session \in Session /\ Linked(session, transport) /\ Tracked(session, transport)
      /\ transport \in Transport /\ transport.generation \in Nat
      /\ session.connection_generation \in Nat
  BY GenerationAssumption DEF SInv, IInv, TypeOK, Good, Coherent, Session, Transport
<1>2. /\ a \in Session /\ a.estop /\ a.state = session.state
      /\ a.configuration_valid = session.configuration_valid
      /\ a.connection_known = session.connection_known
      /\ a.connection_generation = session.connection_generation
      /\ a.zero_active = session.zero_active
  BY <1>1 DEF Session
<1> HIDE DEF a
<1>3. /\ latched \in Session /\ latched.estop /\ latched.state = session.state
      /\ latched.configuration_valid = session.configuration_valid
      /\ latched.connection_known = session.connection_known
      /\ latched.connection_generation = session.connection_generation
      /\ latched.zero_active = session.zero_active /\ ~latched.authorization_active
  BY <1>2, InterruptFields
<1> HIDE DEF latched
<1>4. /\ timed \in Session /\ timed.estop /\ timed.state = session.state
      /\ timed.configuration_valid = session.configuration_valid
      /\ timed.connection_known = session.connection_known
      /\ timed.connection_generation = session.connection_generation
      /\ timed.zero_active = session.zero_active /\ ~Authorized(timed)
  BY <1>3, ObserveFields DEF Authorized
<1> HIDE DEF timed
<1>5. CASE ~session.configuration_valid
  <2>1. session' = [latched EXCEPT !.state = "kConfigurationInvalid"]
    BY <1>5 DEF LatchEmergencyStop, latched, a
  <2>2. session.state = "kConfigurationInvalid" /\ ~session.connection_known
    BY <1>1, <1>5 DEF Linked
  <2>3. /\ session'.state = session.state
        /\ session'.connection_known = session.connection_known
        /\ session'.connection_generation = session.connection_generation
    BY <1>3, <2>1, <2>2 DEF Session
  <2>4. GateState(session', transport) = GateState(session, transport)
    BY <2>3, SameGate
  <2> QED BY <1>1, <2>2, <2>3, <2>4 DEF Kept, Tracked, Authorized, Silent, FaultKept
<1>6. CASE session.configuration_valid /\ ~Attached(transport)
  <2>1. session' = HandleDisconnect(timed)
    BY <1>6 DEF LatchEmergencyStop, SynchronizeConnection, latched, timed, a
  <2>2. timed.configuration_valid /\ timed.connection_generation <= transport.generation
    BY <1>1, <1>4, <1>6 DEF Tracked
  <2> QED BY <1>1, <1>4, <2>1, <2>2, DisconnectKept DEF Kept
<1>7. CASE session.configuration_valid /\ Attached(transport)
  <2>1. /\ s \in Session /\ SyncedWith(s, transport) /\ ~Authorized(s)
        /\ s.connection_generation = transport.generation
        /\ s.zero_active => s.state = "kStopPending"
        /\ IF NewGeneration(session, transport)
           THEN s.state = "kStopPending" ELSE s = timed
    <3>1. CASE NewGeneration(timed, transport)
      <4>1. s = HandleNewConnection(timed, transport)
        BY <1>7, <3>1 DEF SynchronizeConnection
      <4> HIDE DEF s
      <4>2. transport.connected
        BY <1>7 DEF Attached
      <4>3. /\ s \in Session /\ s.state = "kStopPending"
            /\ s.connection_known /\ s.connection_generation = transport.generation
            /\ ~s.authorization_active
        BY <1>1, <1>4, <4>1, <4>2, NewConnectionFields
      <4>4. NewGeneration(session, transport)
        BY <1>4, <3>1 DEF NewGeneration
      <4> QED BY <4>2, <4>3, <4>4 DEF SyncedWith, Authorized, s
    <3>2. CASE ~NewGeneration(timed, transport)
      <4>1. s = timed
        BY <1>7, <3>2 DEF SynchronizeConnection
      <4>2. ~NewGeneration(session, transport)
        BY <1>4, <3>2 DEF NewGeneration
      <4>3. SyncedWith(timed, transport) /\ timed.connection_generation = transport.generation
        BY <1>7, <3>2 DEF NewGeneration, SyncedWith, Attached
      <4>4. timed.zero_active => timed.state = "kStopPending"
        BY <1>1, <1>4 DEF Linked
      <4> QED BY <1>4, <4>1, <4>2, <4>3, <4>4
    <3> QED BY <3>1, <3>2
  <2> HIDE DEF s
  \* The session ends stopping, or as faulted as it was.
  <2>2. /\ session' \in Session /\ SyncedWith(session', transport) /\ ~Authorized(session')
        /\ session'.connection_generation = transport.generation
        /\ \/ session'.state = "kStopPending" /\ s.state # "kFaulted"
           \/ session'.state = "kFaulted" /\ s.state = "kFaulted"
    <3>1. CASE s.state = "kFaulted"
      <4>1. session' = s
        BY <1>7, <3>1 DEF LatchEmergencyStop, s, latched, timed, a
      <4> QED BY <2>1, <3>1, <4>1
    <3>2. CASE s.state # "kFaulted"
      <4> DEFINE earliest == IF TimeValid(latched, now) THEN now ELSE s.last_observed
                 b == BeginZeroEpisode(s, transport, "kEmergencyStopLatched", earliest)
      <4>1. session' = b
        BY <1>7, <3>2 DEF LatchEmergencyStop, s, latched, timed, a
      <4>2. earliest \in Time /\ "kEmergencyStopLatched" \in AfterZero
        BY <2>1 DEF Session, AfterZero
      <4>3. s.connection_known /\ transport.connected
        BY <2>1 DEF SyncedWith
      <4> HIDE DEF earliest
      <4>4. /\ b \in Session /\ b.connection_known /\ b.state = "kStopPending"
            /\ b.connection_generation = s.connection_generation
            /\ b.configuration_valid = s.configuration_valid /\ b.estop = s.estop
            /\ b.authorization_active = s.authorization_active
            /\ b.authorized_generation = s.authorized_generation
            /\ b.authorization_ns = s.authorization_ns
        BY <2>1, <3>2, <4>2, <4>3, BeginFields
      <4> HIDE DEF b
      <4>5. ~Authorized(b)
        BY <2>1, <3>2, <4>3, <4>4 DEF Authorized
      <4> QED BY <2>1, <3>2, <4>1, <4>3, <4>4, <4>5 DEF SyncedWith
    <3> QED BY <3>1, <3>2
  <2>3. Tracked(session', transport)
    BY <1>1, <2>2 DEF Tracked, SyncedWith
  <2>4. CASE NewGeneration(session, transport)
    <3>1. GateState(session, transport) = "lost" /\ GateState(session', transport) = "stopping"
      BY <1>1, <2>1, <2>2, <2>4, GateOf DEF NewGeneration, SyncedWith
    <3>2. FaultKept(session, session')
      BY <1>1, <2>2, <2>4 DEF FaultKept, NewGeneration, Tracked
    <3> QED BY <2>3, <3>1, <3>2 DEF Kept, Silent
  <2>5. CASE ~NewGeneration(session, transport)
    <3>1. s.state = session.state /\ SyncedWith(session, transport)
      BY <1>4, <1>7, <2>1, <2>5 DEF NewGeneration, SyncedWith, Attached
    <3>2. Silent(GateState(session, transport), GateState(session', transport))
      BY <1>1, <2>2, <3>1, GateOf DEF Silent
    <3> QED BY <2>2, <2>3, <3>1, <3>2 DEF Kept, FaultKept
  <2> QED BY <2>4, <2>5
<1> QED BY <1>5, <1>6, <1>7

LEMMA ResetKept ==
  ASSUME NEW token \in Token, NEW now \in Time, SInv, ResetEmergencyStop(token, now)
  PROVE  Kept(session, session', transport)
<1> DEFINE e == Entered(now)
           c == ClearMotionIntent(RevokeAuthorization(e))
           r == [c EXCEPT !.highest_reset = token, !.estop = FALSE,
                          !.state = "kConnectedInhibited"]
<1>1. /\ session \in Session /\ e \in Session /\ Tracked(e, transport)
      /\ Linked(e, transport)
      /\ Goes(now) => /\ SyncedWith(e, transport)
                      /\ Found(session, e, transport, now)
      /\ ~Goes(now) => Kept(session, e, transport)
  BY EnteredSInv
<1>2. session' = IF ~session.estop THEN session
                 ELSE IF Goes(now) /\ MayReset(e, token, now) THEN r ELSE e
  BY DEF ResetEmergencyStop
<1> HIDE DEF e
<1>3. CASE session' = session
  BY <1>3 DEF SInv, Kept, Silent, FaultKept
<1>4. CASE session' = e
  BY <1>1, <1>4, NothingSettles, ProceedKept
<1>5. CASE session.estop /\ Goes(now) /\ MayReset(e, token, now) /\ session' = r
  <2>1. /\ c \in Session /\ c.connection_known = e.connection_known
        /\ c.connection_generation = e.connection_generation
        /\ c.zero_active = e.zero_active /\ ~c.authorization_active
    <3> DEFINE v == RevokeAuthorization(e)
    <3>1. /\ v \in Session /\ v.connection_known = e.connection_known
          /\ v.connection_generation = e.connection_generation
          /\ v.zero_active = e.zero_active /\ ~v.authorization_active
      BY <1>1, RevokeFields
    <3>2. c = ClearMotionIntent(v)
      OBVIOUS
    <3> HIDE DEF v, c
    <3> QED BY <3>1, <3>2, ClearFields
  <2>2. ~NewGeneration(session, transport) /\ ~e.zero_active /\ e.state # "kFaulted"
        /\ token \in Nat
    BY <1>5, InputsAssumption DEF MayReset
  <2>3. e.estop
    BY <1>1, <1>5, <2>2, ObserveFields DEF Found
  <2> HIDE DEF c
  <2>4. /\ r \in Session /\ r.state = "kConnectedInhibited" /\ ~r.estop
        /\ r.connection_known = e.connection_known
        /\ r.connection_generation = e.connection_generation
        /\ r.zero_active = e.zero_active /\ ~r.authorization_active
    BY <2>1, <2>2 DEF Session, SessionState
  <2> HIDE DEF r
  <2>5. e.state = "kEmergencyStopLatched"
    BY <1>1, <1>5, <2>2, <2>3 DEF Tracked, Linked, SyncedWith
  <2>6. SyncedWith(r, transport) /\ Tracked(r, transport)
    BY <1>1, <1>5, <2>2, <2>4 DEF Tracked, SyncedWith, Authorized
  <2>7. GateState(e, transport) = "shut" /\ GateState(r, transport) = "shut"
    BY <1>1, <1>5, <2>4, <2>5, <2>6, GateOf
  <2>8. Settles(e, r, transport)
    BY <2>4, <2>5, <2>6, <2>7 DEF Settles, Silent
  <2> QED BY <1>1, <1>5, <2>8, ProceedKept
<1> QED BY <1>2, <1>3, <1>4, <1>5

-----------------------------------------------------------------------------
(* submit *)

LEMMA AcceptSettles ==
  ASSUME NEW e \in Session, NEW u \in Session, NEW t, NEW c \in Command, NEW now \in Time,
         Tracked(e, t), SyncedWith(e, t), Authorized(e), ~e.zero_active,
         u = Consume(e, c)
  PROVE  Settles(e, Accept(u, c, now), t)
<1> DEFINE kept == IF u.command.valid /\ PreviousIsStale(u, now)
                   THEN ClearMotionIntent(u) ELSE u
           n == Smaller(kept.fresh + 1, FreshCommandsRequired)
           slot == [valid |-> TRUE, sequence |-> c.sequence, created |-> c.created,
                    deadline |-> c.deadline, receipt |-> now]
           r == [kept EXCEPT !.command = slot, !.fresh = n,
                             !.state = IF n >= FreshCommandsRequired
                                       THEN "kActive" ELSE "kRecovering"]
<1>1. /\ u.connection_known = e.connection_known
      /\ u.connection_generation = e.connection_generation
      /\ u.estop = e.estop /\ u.zero_active = e.zero_active
  BY DEF Consume, Session
<1>2. /\ kept \in Session
      /\ kept.connection_known = e.connection_known
      /\ kept.connection_generation = e.connection_generation
      /\ kept.estop = e.estop /\ kept.zero_active = e.zero_active
  BY <1>1, ClearFields
<1> HIDE DEF kept
<1>3. slot \in CommandSlot
  BY InputsAssumption DEF CommandSlot
<1>4. n \in 0..FreshCommandsRequired
  BY <1>2, DurationsAssumption DEF Session, Smaller
<1> HIDE DEF n, slot
<1>5. /\ r \in Session /\ r.state \in {"kActive", "kRecovering"}
      /\ r.connection_known = e.connection_known
      /\ r.connection_generation = e.connection_generation
      /\ r.estop = e.estop /\ r.zero_active = e.zero_active
  BY <1>2, <1>3, <1>4 DEF Session, SessionState
<1>6. r = Accept(u, c, now)
  BY DEF Accept, kept, n, slot
<1> HIDE DEF r
<1>7. ~e.estop /\ e.state \in {"kRecovering", "kActive"}
  BY DEF Tracked, Authorized
<1>8. SyncedWith(r, t) /\ Tracked(r, t)
  BY <1>5, <1>7 DEF SyncedWith, Tracked
<1>9. /\ GateState(e, t) \in {"ready", "open"}
      /\ GateState(r, t) \in {"ready", "open"}
  BY <1>5, <1>7, <1>8, GateOf
<1> QED BY <1>5, <1>6, <1>7, <1>8, <1>9 DEF Settles, Silent

LEMMA SubmitKept ==
  ASSUME NEW c \in Command, NEW now \in Time, SInv, Submit(c, now)
  PROVE  Kept(session, session', transport)
<1> DEFINE e == Entered(now)
           u == Consume(e, c)
           status == SubmissionStatus(e, c, now)
<1>1. /\ session \in Session /\ e \in Session /\ Tracked(e, transport)
      /\ Linked(e, transport)
      /\ Goes(now) => /\ SyncedWith(e, transport)
                      /\ Found(session, e, transport, now)
      /\ ~Goes(now) => Kept(session, e, transport)
  BY EnteredSInv
<1>2. /\ u \in Session /\ Linked(u, transport) /\ u.state = e.state
      /\ u.connection_known = e.connection_known
      /\ u.connection_generation = e.connection_generation
      /\ u.zero_active = e.zero_active /\ u.after_zero = e.after_zero
      /\ u.estop = e.estop /\ Authorized(u) = Authorized(e)
  <2> HIDE DEF e
  <2>1. /\ u \in Session /\ Linked(u, transport) /\ u.state = e.state
        /\ u.zero_active = e.zero_active /\ Authorized(u) = Authorized(e)
    BY <1>1, ConsumeLinked
  <2> QED BY <1>1, <2>1 DEF Consume, Session
<1>3. CASE ~Goes(now)
  BY <1>1, <1>3 DEF Submit
<1>4. CASE Goes(now)
  <2>1. session' = Submitted(e, c, now)
    BY <1>4 DEF Submit
  <2>2. status \in {"kEmergencyStopLatched", "kFaulted", "kSequenceInvalid",
                    "kTimestampInvalid", "kStale", "kNotAuthorized",
                    "kPredatesAuthorization", "kEncodingRejected", "kStopAccepted",
                    "kFeedbackUnavailable", "kAccepted"}
    BY DEF SubmissionStatus
  <2> HIDE DEF e, u, status
  <2>3. Tracked(u, transport) /\ SyncedWith(u, transport)
        /\ GateState(u, transport) = GateState(e, transport)
    BY <1>1, <1>2, <1>4, SameGate DEF Tracked
  <2>4. "kConnectedInhibited" \in AfterZero /\ "kRecovering" \in AfterZero
    BY DEF AfterZero
  <2>5. SUFFICES Settles(e, session', transport)
    BY <1>1, <1>4, ProceedKept
  <2>6. SUFFICES Settles(e, session', transport) \/ Settles(u, session', transport)
    BY <1>2, <2>3 DEF Settles
  <2>7. CASE status \in {"kEmergencyStopLatched", "kFaulted"}
    <3>1. session' = e
      BY <2>1, <2>7 DEF Submitted, status
    <3> QED BY <1>1, <1>4, <3>1, NothingSettles
  <2>8. CASE status = "kSequenceInvalid"
    <3>1. session' = RevokeWithZero(e, transport, "kConnectedInhibited", now)
      BY <2>1, <2>8 DEF Submitted, status
    <3> QED BY <1>1, <1>4, <2>4, <3>1, RevokeSettles
  <2>9. CASE status \in {"kTimestampInvalid", "kEncodingRejected"}
    <3>1. session' = RevokeWithZero(u, transport, "kConnectedInhibited", now)
      BY <2>1, <2>9 DEF Submitted, status, u
    <3> QED BY <1>2, <2>3, <2>4, <3>1, RevokeSettles
  <2>10. CASE status = "kStale"
    <3>1. session' = StopWithZero(u, transport,
                       IF Authorized(e) THEN "kRecovering" ELSE "kConnectedInhibited", now)
      BY <2>1, <2>10 DEF Submitted, status, u
    <3> QED BY <1>2, <2>3, <2>4, <3>1, StopSettles
  <2>11. CASE status \in {"kPredatesAuthorization", "kStopAccepted", "kFeedbackUnavailable"}
    <3>1. session' = StopWithZero(u, transport, "kRecovering", now)
      BY <2>1, <2>11 DEF Submitted, status, u
    <3> QED BY <1>2, <2>3, <2>4, <3>1, StopSettles
  <2>12. CASE status = "kNotAuthorized"
    <3> DEFINE r == ClearMotionIntent(u)
    <3>1. session' = r
      BY <2>1, <2>12 DEF Submitted, status, u
    <3>2. /\ r \in Session /\ r.state = u.state
          /\ r.connection_known = u.connection_known
          /\ r.connection_generation = u.connection_generation
          /\ r.zero_active = u.zero_active /\ r.after_zero = u.after_zero
          /\ r.estop = u.estop /\ Authorized(r) = Authorized(u)
      BY <1>2, ClearFields
    <3> HIDE DEF r
    <3>3. Tracked(r, transport) /\ SyncedWith(r, transport)
          /\ GateState(r, transport) = GateState(u, transport)
      BY <2>3, <3>2, SameGate DEF Tracked
    <3> QED BY <3>1, <3>2, <3>3 DEF Settles, Silent
  <2>13. CASE status = "kAccepted"
    <3>1. session' = Accept(u, c, now)
      BY <2>1, <2>13 DEF Submitted, status, u
    <3>2. Authorized(e) /\ ~e.zero_active
      BY <2>13 DEF SubmissionStatus, status
    <3> QED BY <1>1, <1>2, <1>4, <3>1, <3>2, AcceptSettles DEF u
  <2> QED BY <2>2, <2>7, <2>8, <2>9, <2>10, <2>11, <2>12, <2>13
<1> QED BY <1>3, <1>4

-----------------------------------------------------------------------------
(* tick *)

LEMMA TransportAfterFields ==
  ASSUME NEW t \in Transport, NEW r
  PROVE  /\ TransportAfter(t, r) \in Transport
         /\ TransportAfter(t, r).generation = t.generation
         /\ TransportAfter(t, r).connected => TransportAfter(t, r) = t
BY DEF Transport, TransportAfter

\* What the answer to a zero write makes of the gate.
LEMMA AfterZeroWriteGate ==
  ASSUME NEW s \in Session, NEW t \in Transport, Coherent(s, t), Tracked(s, t),
         s.zero_active, SyncedWith(s, t), NEW now \in Time, NEW r, r.completion \in Time
  PROVE  LET v == AfterZeroWrite(s, t, now, r)
             u == TransportAfter(t, r)
         IN /\ Tracked(v, u)
            /\ v.connection_generation = s.connection_generation
            /\ \/ GateState(v, u) \in {"lost", "stopping", "failed"}
               \/ /\ Succeeded(r)
                  /\ GateState(v, u) \in {"shut", "ready"}
                  /\ GateState(v, u) = "ready" => s.after_zero = "kRecovering"
<1> DEFINE counted == CountZeroAttempt(s, r)
           u == TransportAfter(t, r)
           v == AfterZeroWrite(s, t, now, r)
<1>1. /\ s.zero_attempts \in Nat /\ s.zero_attempts < MaximumZeroAttempts
      /\ s.last_observed \in Time /\ s.after_zero \in AfterZero
      /\ s.configuration_valid /\ s.state = "kStopPending" /\ s.connection_known
  BY DurationsAssumption DEF Session, Coherent, Linked
<1>2. s.zero_attempts + 1 \in 0..MaximumZeroAttempts
  BY <1>1, DurationsAssumption
<1>3. counted \in Session
  BY <1>1, <1>2, LargerTime DEF Session, CountZeroAttempt
<1>4. /\ counted.configuration_valid /\ counted.state = "kStopPending"
      /\ counted.estop = s.estop /\ counted.connection_known
      /\ counted.connection_generation = s.connection_generation
      /\ counted.zero_active /\ counted.after_zero = s.after_zero
      /\ Authorized(counted) = Authorized(s)
  BY <1>1 DEF Session, CountZeroAttempt, Authorized
<1>5. u \in Transport /\ u.generation = t.generation /\ (u.connected => u = t)
  BY TransportAfterFields
<1>6. v = IF ~u.connected THEN HandleDisconnect(counted)
          ELSE IF Succeeded(r) THEN ZeroComplete(counted)
          ELSE IF counted.zero_attempts >= MaximumZeroAttempts THEN ZeroRetriesExhausted(counted)
          ELSE ScheduleZeroRetry(counted, now, r)
  BY DEF AfterZeroWrite
<1>7. s.connection_generation <= t.generation
  BY DEF Tracked
<1> HIDE DEF counted, u, v
<1>8. CASE ~u.connected
  <2>1. Tracked(v, u) /\ GateState(v, u) = "lost"
    BY <1>3, <1>4, <1>5, <1>6, <1>7, <1>8, DisconnectKept
  <2>2. v.connection_generation = s.connection_generation
    BY <1>3, <1>4, <1>6, <1>8, DisconnectFields
  <2> QED BY <2>1, <2>2 DEF u, v
<1>9. CASE u.connected /\ Succeeded(r)
  <2> DEFINE ended == IF counted.estop THEN "kEmergencyStopLatched" ELSE counted.after_zero
  <2>1. v = [counted EXCEPT !.zero_active = FALSE, !.zero_attempts = 0,
                            !.next_zero = 0, !.state = ended]
    BY <1>6, <1>9 DEF ZeroComplete
  <2>2. ended \in AfterZero /\ ended \in SessionState
        /\ (ended = "kRecovering" => s.after_zero = "kRecovering")
    BY <1>1, <1>4 DEF AfterZero, SessionState
  <2>3. Authorized(s) => ended = "kRecovering"
    BY <1>4 DEF Tracked, Authorized
  <2>4. counted.estop => ended = "kEmergencyStopLatched"
    OBVIOUS
  <2> HIDE DEF ended
  <2>5. v \in Session
    BY <1>3, <2>1, <2>2, TimeFacts, CountFacts DEF Session
  <2>6. /\ v.state = ended /\ v.connection_known /\ ~v.zero_active
        /\ v.connection_generation = s.connection_generation /\ v.estop = counted.estop
    BY <1>3, <1>4, <2>1 DEF Session
  <2>7. Authorized(v) => Authorized(s)
    <3>1. Authorized(v) => Authorized(counted)
      BY <1>3, <1>4, <2>1 DEF Session, Authorized
    <3> QED BY <1>4, <3>1
  <2>8. Tracked(v, u)
    BY <1>4, <1>5, <1>7, <2>2, <2>3, <2>4, <2>6, <2>7 DEF Tracked, AfterZero
  <2>9. SyncedWith(v, u)
    BY <1>5, <1>9, <2>6 DEF SyncedWith
  <2>10. GateState(v, u) \in {"shut", "ready"}
         /\ (GateState(v, u) = "ready" => s.after_zero = "kRecovering")
    BY <2>2, <2>5, <2>6, <2>9, GateOf DEF AfterZero
  <2> QED BY <1>9, <2>6, <2>8, <2>10 DEF u, v
<1>10. CASE u.connected /\ ~Succeeded(r) /\ counted.zero_attempts >= MaximumZeroAttempts
  <2>1. v = [counted EXCEPT !.zero_active = FALSE, !.state = "kFaulted"]
    BY <1>6, <1>10 DEF ZeroRetriesExhausted
  <2>2. /\ v \in Session /\ v.state = "kFaulted" /\ v.connection_known
        /\ v.connection_generation = s.connection_generation
    BY <1>3, <1>4, <2>1 DEF Session, SessionState
  <2>3. Tracked(v, u) /\ SyncedWith(v, u)
    BY <1>5, <1>7, <1>10, <2>2 DEF Tracked, Authorized, SyncedWith
  <2> QED BY <2>2, <2>3, GateOf DEF u, v
<1>11. CASE u.connected /\ ~Succeeded(r) /\ ~(counted.zero_attempts >= MaximumZeroAttempts)
  <2>1. v = ScheduleZeroRetry(counted, now, r)
    BY <1>6, <1>11
  <2>2. SaturatingAdd(Larger(now, r.completion), ZeroRetryInterval) \in Time
    BY LargerTime, SaturatingAddTime, DurationsAssumption
  <2>3. /\ v \in Session /\ v.state = "kStopPending" /\ v.connection_known
        /\ v.connection_generation = s.connection_generation
        /\ v.zero_active /\ v.after_zero = s.after_zero /\ v.estop = counted.estop
        /\ Authorized(v) = Authorized(counted)
    BY <1>3, <1>4, <2>1, <2>2 DEF Session, ScheduleZeroRetry, Authorized
  <2>4. Tracked(v, u) /\ SyncedWith(v, u)
    BY <1>1, <1>4, <1>5, <1>7, <1>11, <2>3 DEF Tracked, SyncedWith
  <2> QED BY <2>3, <2>4, GateOf DEF u, v
<1> QED BY <1>8, <1>9, <1>10, <1>11

\* What AttemptZero, called for the session s with w on the line, leaves.
Attempted(s, result, w) ==
  /\ Tracked(session', transport')
  /\ session'.connection_generation = s.connection_generation
  /\ cycle'.motion_write_attempted = result.motion_write_attempted
  /\ cycle'.action # "kMotionHostWriteComplete"
  /\ wire' \in {w, "zero"}
  /\ \/ GateState(session', transport') \in {"lost", "stopping", "failed"}
     \/ /\ wire' = "zero"
        /\ GateState(session', transport') \in {"shut", "ready"}
        /\ GateState(session', transport') = "ready" => s.after_zero = "kRecovering"

LEMMA AttemptZeroGate ==
  ASSUME NEW s \in Session, Coherent(s, transport), Tracked(s, transport), s.zero_active,
         SyncedWith(s, transport), transport \in Transport, NEW now \in Time,
         NEW result \in Cycle, NEW w, AttemptZero(s, now, result, w)
  PROVE  Attempted(s, result, w)
<1>1. CASE /\ session' = s
           /\ cycle' = [result EXCEPT !.action = "kZeroRetryPending"]
           /\ wire' = w
           /\ UNCHANGED transport
  <2>1. s.state = "kStopPending"
    BY DEF Coherent, Linked
  <2>2. GateState(session', transport') = "stopping"
    BY <1>1, <2>1, GateOf
  <2> QED BY <1>1, <2>2 DEF Attempted, Cycle
<1>2. ASSUME NEW r \in WriteResults(transport.access, now, BoundedWriteDeadline(now, Int64Max)),
             session' = AfterZeroWrite(s, transport, now, r),
             transport' = TransportAfter(transport, r),
             cycle' = [result EXCEPT !.action = ZeroAction(s, transport, r),
                                     !.zero_write_attempted = TRUE],
             wire' = IF r.complete THEN "zero" ELSE w
      PROVE  Attempted(s, result, w)
  <2>1. r.completion \in Time
    BY ClockAssumption, TimeFacts, DeadlineTime, WriteResultsType
  <2>2. /\ Tracked(session', transport')
        /\ session'.connection_generation = s.connection_generation
        /\ \/ GateState(session', transport') \in {"lost", "stopping", "failed"}
           \/ /\ Succeeded(r)
              /\ GateState(session', transport') \in {"shut", "ready"}
              /\ GateState(session', transport') = "ready" => s.after_zero = "kRecovering"
    BY <1>2, <2>1, AfterZeroWriteGate
  <2>3. /\ cycle'.action # "kMotionHostWriteComplete"
        /\ cycle'.motion_write_attempted = result.motion_write_attempted
    BY <1>2 DEF ZeroAction, Cycle
  <2> QED BY <1>2, <2>2, <2>3 DEF Attempted, Succeeded
<1> QED BY <1>1, <1>2 DEF AttemptZero

\* A write that is reported in time completes no earlier than it was begun.
LEMMA SucceededLater ==
  ASSUME NEW access, NEW now \in Time, NEW deadline \in Time,
         NEW r \in WriteResults(access, now, deadline), Succeeded(r)
  PROVE  r.completion >= now
<1>1. access = "kReadWrite"
  BY DEF WriteResults, WriteResult, Succeeded
<1> DEFINE latest == Smaller(Int64Max, Larger(now, deadline) + MaxOverrun)
           inTime == WriteResult("kOk", TRUE, now..deadline)
           late == WriteResult("kDeadlineExceeded", TRUE, (deadline + 1)..latest)
           expired == WriteResult("kDeadlineExceeded", FALSE, Larger(now, deadline)..latest)
           failed == WriteResult("kIoError", FALSE, now..latest)
           gone == WriteResult("kDisconnected", FALSE, now..latest)
<1>2. WriteResults(access, now, deadline) =
        UNION {IF now < deadline THEN inTime \cup late ELSE {}, expired, failed, gone}
  BY <1>1 DEF WriteResults
<1> HIDE DEF latest
<1>3. r \notin late /\ r \notin expired /\ r \notin failed /\ r \notin gone
  BY DEF WriteResult, Succeeded
<1> HIDE DEF inTime, late, expired, failed, gone
<1>4. r \in inTime
  BY <1>2, <1>3
<1>5. r.completion \in now..deadline
  BY <1>4 DEF inTime, WriteResult
<1> QED BY <1>5, TimeFacts

\* The steps the two properties allow, as the theorems state them.
GateStep == [Gate!Next]_<<GateState(session, transport), wire>>

FaultStep ==
  session.state = "kFaulted" =>
    /\ session'.state # "kFaulted" =>
         \/ session'.state = "kDisconnected"
         \/ session'.connection_generation > session.connection_generation
    /\ (cycle'.motion_write_attempted \/ cycle'.zero_write_attempted) =>
         session'.connection_generation > session.connection_generation

Lawful == Tracked(session', transport') /\ GateStep /\ FaultStep

LEMMA SilentLawful ==
  ASSUME Kept(session, session', transport), transport' = transport, wire' = wire,
         ~cycle'.motion_write_attempted, ~cycle'.zero_write_attempted
  PROVE  Lawful
<1>1. Tracked(session', transport')
  BY DEF Kept
<1>2. GateStep
  <2>1. Silent(GateState(session, transport), GateState(session', transport'))
    BY DEF Kept
  <2> QED BY <2>1 DEF GateStep, Silent, Gate!Next, Gate!Lose, Gate!Halt, Gate!Permit,
                      Gate!Open, Gate!AnyFrame
<1>3. FaultStep
  BY DEF Kept, FaultKept, FaultStep
<1> QED BY <1>1, <1>2, <1>3 DEF Lawful

LEMMA QuietFields ==
  ASSUME NEW action
  PROVE  /\ Quiet(action).action = action
         /\ Quiet(action).motion_write_attempted = FALSE
         /\ Quiet(action).motion_completion = 0
         /\ Quiet(action).zero_write_attempted = FALSE
BY DEF Quiet

LEMMA TickStopsLawful ==
  ASSUME NEW now \in Time, SInv, TickStops(now)
  PROVE  Lawful
<1>1. Kept(session, session', transport)
  BY EnteredSInv DEF TickStops
<1>2. ~cycle'.motion_write_attempted /\ ~cycle'.zero_write_attempted
  BY ZenonT(60), QuietFields DEF TickStops
<1> QED BY <1>1, <1>2, SilentLawful DEF TickStops

LEMMA TickIdleLawful ==
  ASSUME NEW now \in Time, SInv, TickIdle(now)
  PROVE  Lawful
<1> DEFINE e == Entered(now)
<1>1. /\ session \in Session /\ e \in Session /\ Tracked(e, transport)
      /\ Linked(e, transport) /\ SyncedWith(e, transport)
      /\ Found(session, e, transport, now)
  BY EnteredSInv DEF TickIdle
<1>2. /\ ~e.zero_active /\ transport' = transport /\ wire' = wire
      /\ session' = IF e.state # "kFaulted" /\ e.estop
                    THEN [e EXCEPT !.state = "kEmergencyStopLatched"] ELSE e
  BY DEF TickIdle
<1>3. ~cycle'.motion_write_attempted /\ ~cycle'.zero_write_attempted
  <2>1. cycle' = Quiet("kNoAction")
    BY DEF TickIdle
  <2> QED BY <2>1, QuietFields
<1> HIDE DEF e
\* A latched session that is not stopping or faulted is in that state already.
<1>4. session' = e
  <2>1. CASE e.state # "kFaulted" /\ e.estop
    <3>1. e.state = "kEmergencyStopLatched"
      BY <1>1, <1>2, <2>1 DEF Tracked, Linked, SyncedWith
    <3> QED BY <1>1, <1>2, <3>1 DEF Session
  <2> QED BY <1>2, <2>1
<1>5. Kept(session, session', transport)
  BY <1>1, <1>4, NothingSettles, ProceedKept
<1> QED BY <1>2, <1>3, <1>5, SilentLawful

\* The gate an attempt may start from, and the frame it may find on the line.
LEMMA AttemptLawful ==
  ASSUME NEW s \in Session, NEW result, NEW w, Attempted(s, result, w),
         GateState(session, transport) \in {"lost", "stopping", "open"},
         GateState(session, transport) = "lost" => s.after_zero # "kRecovering",
         w = wire \/ (GateState(session, transport) = "open" /\ w = "motion"),
         session.state = "kFaulted" =>
           s.connection_generation > session.connection_generation
  PROVE  Lawful
<1> DEFINE g == GateState(session, transport)
           h == GateState(session', transport')
<1>1. wire' \in {wire, "zero"} \/ (g = "open" /\ wire' = "motion")
  BY DEF Attempted
<1>2. \/ h \in {"lost", "stopping", "failed"}
      \/ wire' = "zero" /\ h \in {"shut", "ready"} /\ (g = "lost" => h = "shut")
  BY DEF Attempted
<1>3. GateStep
  <2> HIDE DEF g, h
  <2>1. CASE h = "lost"
    BY <1>1, <2>1 DEF GateStep, Gate!Next, Gate!Lose, Gate!AnyFrame, g, h
  <2>2. CASE h = "stopping"
    BY <1>1, <2>2 DEF GateStep, Gate!Next, Gate!Halt, Gate!AnyFrame, g, h
  <2>3. CASE h = "failed"
    BY <1>1, <2>3 DEF GateStep, Gate!Next, Gate!GiveUp, Gate!AnyFrame, g, h
  <2>4. CASE wire' = "zero" /\ h \in {"shut", "ready"} /\ (g = "lost" => h = "shut")
    BY <2>4 DEF GateStep, Gate!Next, Gate!Zeroed, g, h
  <2> QED BY <1>2, <2>1, <2>2, <2>3, <2>4
<1>4. FaultStep
  BY DEF Attempted, FaultStep
<1> QED BY <1>3, <1>4 DEF Lawful, Attempted

LEMMA TickZeroLawful ==
  ASSUME NEW now \in Time, SInv, TickZero(now)
  PROVE  Lawful
<1> DEFINE e == Entered(now)
<1>1. /\ session \in Session /\ e \in Session /\ Tracked(e, transport)
      /\ Coherent(e, transport) /\ SyncedWith(e, transport)
      /\ Found(session, e, transport, now)
  BY EnteredSInv DEF TickZero, Good
<1>2. e.zero_active /\ AttemptZero(e, now, Quiet("kNoAction"), wire)
  BY DEF TickZero
<1> HIDE DEF e
<1>r. Quiet("kNoAction") \in Cycle
  BY QuietType DEF CycleAction
<1>3. Attempted(e, Quiet("kNoAction"), wire)
  BY <1>1, <1>2, <1>r, AttemptZeroGate DEF SInv, IInv, TypeOK
<1>4. e.state = "kStopPending"
  BY <1>1, <1>2 DEF Coherent, Linked
<1>5. /\ GateState(session, transport) \in {"lost", "stopping"}
      /\ GateState(session, transport) = "lost" => e.after_zero # "kRecovering"
      /\ session.state = "kFaulted" =>
           e.connection_generation > session.connection_generation
  <2>1. CASE ~NewGeneration(session, transport)
    <3>1. e = ObserveMonotonicTime(session, now)
          /\ GateState(session, transport) = GateState(e, transport)
      BY <1>1, <2>1 DEF Found
    <3>2. GateState(e, transport) = "stopping" /\ session.state = e.state
      BY <1>1, <1>4, <3>1, GateOf, ObserveFields
    <3> QED BY <1>4, <3>1, <3>2
  <2>2. CASE NewGeneration(session, transport)
    BY <1>1, <2>2 DEF Found
  <2> QED BY <2>1, <2>2
<1> QED BY <1>1, <1>3, <1>5, AttemptLawful

\* An Active session is the one the last call left, and its gate is open.
LEMMA ActiveEntered ==
  ASSUME NEW now \in Time, SInv, Goes(now), ActiveAt(Entered(now))
  PROVE  LET e == Entered(now) IN
         /\ session \in Session /\ e \in Session /\ Linked(e, transport)
         /\ Tracked(e, transport) /\ SyncedWith(e, transport)
         /\ Found(session, e, transport, now)
         /\ e = ObserveMonotonicTime(session, now)
         /\ e.last_motion = session.last_motion /\ session.state = "kActive"
         /\ GateState(session, transport) = "open" /\ GateState(e, transport) = "open"
         /\ e.connection_generation = session.connection_generation
<1> DEFINE e == Entered(now)
<1>1. /\ session \in Session /\ e \in Session /\ Tracked(e, transport)
      /\ Linked(e, transport) /\ SyncedWith(e, transport)
      /\ Found(session, e, transport, now) /\ e.state = "kActive"
  BY EnteredSInv DEF ActiveAt
<1> HIDE DEF e
<1>2. e = ObserveMonotonicTime(session, now)
      /\ GateState(session, transport) = GateState(e, transport)
  BY <1>1 DEF Found
<1>3. e.last_motion = session.last_motion /\ session.state = "kActive"
      /\ e.connection_generation = session.connection_generation
  BY <1>1, <1>2, ObserveFields
<1>4. GateState(e, transport) = "open"
  BY <1>1, GateOf
<1> QED BY <1>1, <1>2, <1>3, <1>4 DEF e

LEMMA TickExpiredLawful ==
  ASSUME NEW now \in Time, SInv, TickExpired(now)
  PROVE  Lawful
<1> DEFINE e == Entered(now)
           after == IF Authorized(e) THEN "kRecovering" ELSE "kConnectedInhibited"
           s == StopWithZero(e, transport, after, now)
<1>1. Goes(now) /\ ActiveAt(e) /\ AttemptZero(s, now, Quiet("kNoAction"), wire)
  BY DEF TickExpired
<1>2. /\ e \in Session /\ Linked(e, transport) /\ Tracked(e, transport)
      /\ SyncedWith(e, transport) /\ session.state = "kActive"
      /\ GateState(session, transport) = "open"
  BY <1>1, ActiveEntered
<1>3. after \in AfterZero /\ (Authorized(e) => after = "kRecovering")
  BY DEF AfterZero
<1>4. e.state = "kActive"
  BY <1>1 DEF ActiveAt
<1> HIDE DEF e, after
<1>5. Good(s, transport, wire) /\ s.zero_active
  BY <1>2, <1>3, <1>4, StopWithZeroGood
<1>6. Settles(e, s, transport)
  BY <1>2, <1>3, StopSettles
<1> HIDE DEF s
<1>r. Quiet("kNoAction") \in Cycle
  BY QuietType DEF CycleAction
<1>7. Attempted(s, Quiet("kNoAction"), wire)
  BY <1>1, <1>5, <1>6, <1>r, AttemptZeroGate DEF Good, Settles, SInv, IInv, TypeOK
<1> QED BY <1>2, <1>5, <1>7, AttemptLawful DEF Good

LEMMA TickRateLimitedLawful ==
  ASSUME NEW now \in Time, SInv, TickRateLimited(now)
  PROVE  Lawful
<1> DEFINE e == Entered(now)
<1>1. Goes(now) /\ session' = e /\ transport' = transport /\ wire' = wire
  BY DEF TickRateLimited
<1>2. ~cycle'.motion_write_attempted /\ ~cycle'.zero_write_attempted
  BY QuietFields DEF TickRateLimited
<1>3. /\ session \in Session /\ e \in Session /\ Tracked(e, transport)
      /\ SyncedWith(e, transport) /\ Found(session, e, transport, now)
  BY <1>1, EnteredSInv
<1> HIDE DEF e
<1>4. Kept(session, session', transport)
  BY <1>1, <1>3, NothingSettles, ProceedKept
<1> QED BY <1>1, <1>2, <1>4, SilentLawful

LEMMA MotionWrittenLawful ==
  ASSUME NEW now \in Time, SInv, Goes(now), ActiveAt(Entered(now)),
         ~RateLimited(Entered(now), now), NEW r, r.completion \in Time, r.completion >= now,
         now > 0, session' = MotionWritten(Entered(now), now, r),
         wire' = "motion", transport' = transport
  PROVE  Lawful
<1> DEFINE e == Entered(now)
<1>1. /\ session \in Session /\ e \in Session /\ Tracked(e, transport)
      /\ SyncedWith(e, transport) /\ e.last_motion = session.last_motion
      /\ session.state = "kActive"
      /\ GateState(session, transport) = "open" /\ GateState(e, transport) = "open"
      /\ e.connection_generation = session.connection_generation
  BY ActiveEntered
<1>2. e.last_observed \in Time /\ e.last_motion \in Time /\ r.completion > 0
  BY <1>1, TimeFacts DEF Session
<1>3. session' = [e EXCEPT !.last_motion = r.completion,
                           !.last_observed = Larger(e.last_observed, r.completion)]
  BY <1>2 DEF MotionWritten
<1>4. ~RateLimited(e, now)
  OBVIOUS
<1> HIDE DEF e
<1>5. /\ session'.last_motion = r.completion /\ session'.state = e.state
      /\ session'.connection_known = e.connection_known
      /\ session'.connection_generation = e.connection_generation
      /\ session'.zero_active = e.zero_active /\ session'.after_zero = e.after_zero
      /\ session'.estop = e.estop /\ Authorized(session') = Authorized(e)
  BY <1>1, <1>3 DEF Session, Authorized
<1>6. Tracked(session', transport')
  BY <1>1, <1>5 DEF Tracked
<1>7. GateStep
  <2>1. GateState(session', transport') = GateState(session, transport)
    BY <1>1, <1>5, SameGate
  <2> QED BY <1>1, <2>1 DEF GateStep, Gate!Next, Gate!Move
<1>8. FaultStep
  BY <1>1 DEF FaultStep
<1> QED BY <1>6, <1>7, <1>8 DEF Lawful

LEMMA TickMotionLawful ==
  ASSUME NEW now \in Time, SInv, TickMotion(now)
  PROVE  Lawful
<1> DEFINE e == Entered(now)
           v == RevokeAuthorization(e)
           revoked == ClearMotionIntent(v)
<1>1. Goes(now) /\ ActiveAt(e) /\ ~RateLimited(e, now)
  BY DEF TickMotion, MaySend
<1>2. /\ e \in Session /\ Linked(e, transport) /\ Tracked(e, transport)
      /\ SyncedWith(e, transport) /\ session.state = "kActive"
      /\ GateState(session, transport) = "open" /\ e.state = "kActive"
      /\ e.command.deadline \in Time /\ now > 0 /\ e.configuration_valid
  BY <1>1, ActiveEntered, EnteredSInv DEF ActiveAt, Session, CommandSlot
<1>3. /\ revoked \in Session /\ Coherent(revoked, transport) /\ Tracked(revoked, transport)
      /\ SyncedWith(revoked, transport) /\ revoked.state = "kActive"
      /\ revoked.configuration_valid /\ ~revoked.zero_active
      /\ revoked.connection_generation = e.connection_generation /\ ~Authorized(revoked)
  <2>1. v \in Session /\ Linked(v, transport) /\ SyncedWith(v, transport)
    BY <1>2, RevokeLinked
  <2>2. /\ v.state = "kActive" /\ v.configuration_valid /\ v.estop = e.estop
        /\ v.connection_known = e.connection_known /\ v.zero_active = e.zero_active
        /\ v.connection_generation = e.connection_generation /\ ~v.authorization_active
    BY <1>2, RevokeFields
  <2> HIDE DEF v
  <2>3. /\ revoked \in Session /\ Coherent(revoked, transport)
        /\ SyncedWith(revoked, transport)
    BY <2>1, ClearLinked
  <2>4. /\ revoked.state = "kActive" /\ revoked.configuration_valid
        /\ revoked.estop = e.estop /\ revoked.connection_known = e.connection_known
        /\ revoked.connection_generation = e.connection_generation
        /\ revoked.zero_active = e.zero_active /\ Authorized(revoked) = Authorized(v)
    BY <2>1, <2>2, ClearFields
  <2>5. ~Authorized(v)
    BY <2>2 DEF Authorized
  <2> HIDE DEF revoked
  <2> QED BY <1>1, <1>2, <2>3, <2>4, <2>5 DEF Tracked, ActiveAt
<1>4. PICK r \in WriteResults(transport.access, now, BoundedWriteDeadline(now, e.command.deadline)):
        LET wire_after == IF r.complete THEN "motion" ELSE wire
            zero_start == Larger(now, r.completion)
        IN
        \/ /\ Succeeded(r)
           /\ session' = MotionWritten(e, now, r)
           /\ wire' = wire_after
           /\ UNCHANGED transport
        \/ /\ session' = HandleDisconnect(revoked)
           /\ transport' = TransportAfter(transport, r)
           /\ ~TransportAfter(transport, r).connected
           /\ cycle' = MotionTried("kDisconnected", r)
           /\ wire' = wire_after
        \/ AttemptZero(BeginZeroEpisode(revoked, transport, "kConnectedInhibited", zero_start),
                       zero_start, MotionTried("kNoAction", r), wire_after)
  BY DEF TickMotion
<1>5. BoundedWriteDeadline(now, e.command.deadline) \in Time
  BY <1>2, DeadlineTime
<1>6. r.completion \in Time /\ r.complete \in BOOLEAN
  BY <1>5, WriteResultsType
<1> DEFINE wire_after == IF r.complete THEN "motion" ELSE wire
           zero_start == Larger(now, r.completion)
<1>7. zero_start \in Time
  BY <1>6, LargerTime
<1>8. CASE Succeeded(r) /\ session' = MotionWritten(e, now, r) /\ wire' = wire_after
           /\ UNCHANGED transport
  <2>1. r.completion >= now
    BY <1>5, <1>8, SucceededLater
  <2>2. wire' = "motion"
    BY <1>8 DEF Succeeded
  <2> QED BY <1>1, <1>2, <1>6, <1>8, <2>1, <2>2, MotionWrittenLawful
<1> HIDE DEF e, revoked
<1>9. CASE /\ session' = HandleDisconnect(revoked)
           /\ transport' = TransportAfter(transport, r)
           /\ cycle' = MotionTried("kDisconnected", r)
           /\ wire' = wire_after
  <2>1. transport'.generation = transport.generation
    BY <1>9, TransportAfterFields DEF SInv, IInv, TypeOK
  <2>2. revoked.connection_generation <= transport'.generation
    BY <1>3, <2>1 DEF Tracked
  <2>3. Tracked(session', transport') /\ GateState(session', transport') = "lost"
    BY <1>3, <1>9, <2>2, DisconnectKept
  <2>4. GateStep
    BY <1>2, <1>9, <2>3 DEF GateStep, Gate!Next, Gate!Lose, Gate!AnyFrame
  <2>5. FaultStep
    BY <1>2 DEF FaultStep
  <2> QED BY <2>3, <2>4, <2>5 DEF Lawful
<1>10. CASE AttemptZero(BeginZeroEpisode(revoked, transport, "kConnectedInhibited", zero_start),
                        zero_start, MotionTried("kNoAction", r), wire_after)
  <2> DEFINE s == BeginZeroEpisode(revoked, transport, "kConnectedInhibited", zero_start)
  <2>1. wire_after = wire \/ wire_after = "motion"
    OBVIOUS
  <2> HIDE DEF wire_after, zero_start
  <2>2. "kConnectedInhibited" \in AfterZero
    BY DEF AfterZero
  <2>3. s \in Session /\ Coherent(s, transport) /\ s.zero_active /\ SyncedWith(s, transport)
    BY <1>3, <1>7, <2>2, BeginGood
  <2>4. revoked.connection_known /\ transport.connected
        /\ (revoked.zero_active => revoked.state = "kStopPending")
    BY <1>3 DEF SyncedWith
  <2>5. /\ s.state = "kStopPending" /\ s.connection_generation = revoked.connection_generation
        /\ s.connection_known /\ s.configuration_valid = revoked.configuration_valid
        /\ s.estop = revoked.estop
        /\ s.authorization_active = revoked.authorization_active
        /\ s.authorized_generation = revoked.authorized_generation
        /\ s.authorization_ns = revoked.authorization_ns
    <3>1. revoked \in Session /\ zero_start \in Time /\ revoked.state # "kFaulted"
      BY <1>3, <1>7
    <3> QED BY <2>2, <2>4, <3>1, BeginFields
  <2> HIDE DEF s
  <2>6. ~Authorized(s)
    BY <1>3, <2>4, <2>5 DEF Authorized
  <2>7. Tracked(s, transport)
    BY <1>3, <2>5, <2>6 DEF Tracked
  <2>r. MotionTried("kNoAction", r) \in Cycle
    BY <1>6, MotionTriedType DEF CycleAction
  <2>8. Attempted(s, MotionTried("kNoAction", r), wire_after)
    BY <1>7, <1>10, <2>3, <2>7, <2>r, AttemptZeroGate DEF SInv, IInv, TypeOK, s
  <2> QED BY <1>2, <2>1, <2>3, <2>8, AttemptLawful
<1> QED BY <1>4, <1>8, <1>9, <1>10

LEMMA TickLawful ==
  ASSUME NEW now \in Time, SInv, Tick(now)
  PROVE  Lawful
BY TickStopsLawful, TickIdleLawful, TickZeroLawful, TickExpiredLawful,
   TickRateLimitedLawful, TickMotionLawful DEF Tick

-----------------------------------------------------------------------------
(* The transport between two calls, and the constructor *)

\* The session does not notice yet; the gate is lost.
LEMMA TransportLawful ==
  ASSUME SInv, TransportLost \/ TransportReopened
  PROVE  Lawful
<1>1. /\ session \in Session /\ transport \in Transport
      /\ session.connection_generation \in Nat /\ transport.generation \in Nat
      /\ Tracked(session, transport)
  BY GenerationAssumption DEF SInv, IInv, TypeOK, Session, Transport
<1>2. session' = session /\ wire' = wire /\ cycle' = NoCycle
  BY DEF TransportLost, TransportReopened
<1>3. /\ ~SyncedWith(session', transport')
      /\ session.connection_generation <= transport'.generation
  <2>1. CASE TransportLost
    BY <1>1, <1>2, <2>1 DEF TransportLost, Transport, SyncedWith, Tracked
  <2>2. CASE TransportReopened
    <3>1. transport'.generation = transport.generation + 1
      BY <1>1, <2>2 DEF TransportReopened, Transport
    <3>2. session.connection_generation <= transport.generation
      BY <1>1 DEF Tracked
    <3>3. session.connection_generation < transport'.generation
      BY <1>1, <3>1, <3>2
    <3> QED BY <1>1, <1>2, <3>1, <3>3 DEF SyncedWith
  <2> QED BY <2>1, <2>2
<1>4. Tracked(session', transport')
  BY <1>1, <1>2, <1>3 DEF Tracked, Authorized
<1>5. GateStep
  <2>1. GateState(session', transport') = "lost"
    BY <1>1, <1>2, <1>3, GateOf
  <2> QED BY <1>2, <2>1 DEF GateStep, Gate!Next, Gate!Lose, Gate!AnyFrame
<1>6. FaultStep
  BY <1>2 DEF FaultStep, NoCycle
<1> QED BY <1>4, <1>5, <1>6 DEF Lawful

\* A session is constructed without a line, or in front of one it must stop.
LEMMA ConstructedGate ==
  ASSUME NEW t \in Transport, NEW s,
         s \in {NewSession(FALSE), SynchronizeConnection(NewSession(TRUE), t)}
  PROVE  Tracked(s, t) /\ GateState(s, t) \in {"lost", "stopping"}
<1>1. t.generation \in Nat
  BY GenerationAssumption DEF Transport
<1>2. NewSession(FALSE) \in Session /\ NewSession(TRUE) \in Session
  BY NewSessionType
<1>3. CASE s = NewSession(FALSE)
  <2>1. /\ s.state = "kConfigurationInvalid" /\ ~s.connection_known
        /\ s.connection_generation = 0
    BY <1>3 DEF NewSession
  <2>2. s \in Session
    BY <1>2, <1>3
  <2> QED BY <1>1, <2>1, <2>2, GateOf DEF Tracked, Authorized, SyncedWith
<1>4. CASE s = SynchronizeConnection(NewSession(TRUE), t)
  <2> DEFINE n == NewSession(TRUE)
  <2>1. n.configuration_valid /\ ~n.connection_known /\ n.connection_generation = 0
    BY DEF NewSession
  <2>2. n \in Session /\ s = SynchronizeConnection(n, t)
    BY <1>2, <1>4
  <2> HIDE DEF n
  <2>3. CASE ~Attached(t)
    <3>1. s = HandleDisconnect(n)
      BY <2>2, <2>3 DEF SynchronizeConnection
    <3> QED BY <1>1, <2>1, <2>2, <3>1, DisconnectKept
  <2>4. CASE Attached(t)
    <3>1. s = HandleNewConnection(n, t)
      BY <2>1, <2>2, <2>4 DEF SynchronizeConnection, NewGeneration
    <3>2. /\ s \in Session /\ s.state = "kStopPending"
          /\ s.connection_known /\ s.connection_generation = t.generation
          /\ ~s.authorization_active
      BY <2>2, <2>4, <3>1, NewConnectionFields DEF Attached
    <3>3. SyncedWith(s, t)
      BY <2>4, <3>2 DEF SyncedWith, Attached
    <3> QED BY <1>1, <3>2, <3>3, GateOf DEF Tracked, Authorized
  <2> QED BY <2>3, <2>4
<1> QED BY <1>3, <1>4

LEMMA InitTracked ==
  Init => SInv /\ Gate!Init
<1> SUFFICES ASSUME Init PROVE SInv /\ Gate!Init
  OBVIOUS
<1>1. transport \in Transport /\ wire = "none"
      /\ session \in {NewSession(FALSE), SynchronizeConnection(NewSession(TRUE), transport)}
  BY DEF Init
<1>2. Tracked(session, transport) /\ GateState(session, transport) \in {"lost", "stopping"}
  BY <1>1, ConstructedGate
<1> QED BY <1>1, <1>2, InitGood DEF SInv, Gate!Init

-----------------------------------------------------------------------------
(* The latch *)

LEMMA BeginEstop ==
  ASSUME NEW s \in Session, NEW t, NEW after, NEW earliest
  PROVE  BeginZeroEpisode(s, t, after, earliest).estop = s.estop
BY DEF Session, BeginZeroEpisode

LEMMA SynchronizeEstop ==
  ASSUME NEW s \in Session, NEW t \in Transport, s.configuration_valid
  PROVE  LET r == SynchronizeConnection(s, t) IN r \in Session /\ r.estop = s.estop
<1>1. CASE ~Attached(t)
  BY <1>1, DisconnectFields DEF SynchronizeConnection
<1>2. CASE Attached(t) /\ NewGeneration(s, t)
  BY <1>2, NewConnectionFields DEF SynchronizeConnection, Attached
<1>3. CASE Attached(t) /\ ~NewGeneration(s, t)
  BY <1>3 DEF SynchronizeConnection
<1> QED BY <1>1, <1>2, <1>3

LEMMA EnteredEstop ==
  ASSUME SInv, NEW now \in Time
  PROVE  Entered(now).estop = session.estop
<1>1. session \in Session /\ transport \in Transport /\ Linked(session, transport)
  BY DEF SInv, IInv, TypeOK, Good, Coherent
<1>2. CASE ~session.configuration_valid
  BY <1>2 DEF Entered, Enter
<1>3. CASE session.configuration_valid /\ ~TimeValid(session, now)
  <2>1. Entered(now) = HandleClockFailure(session, transport)
    BY <1>3 DEF Entered, Enter
  <2> QED BY <1>1, <2>1, ClockFailureFields DEF Linked
<1>4. CASE session.configuration_valid /\ TimeValid(session, now)
  <2> DEFINE o == ObserveMonotonicTime(session, now)
  <2>1. o \in Session /\ o.configuration_valid = session.configuration_valid
        /\ o.estop = session.estop
    BY <1>1, ObserveFields
  <2>2. Entered(now) = SynchronizeConnection(o, transport)
    BY <1>4 DEF Entered, Enter
  <2> HIDE DEF o
  <2> QED BY <1>1, <1>4, <2>1, <2>2, SynchronizeEstop
<1> QED BY <1>2, <1>3, <1>4

LEMMA LatchEstop ==
  ASSUME SInv, NEW now \in Time, LatchEmergencyStop(now)
  PROVE  session'.estop
<1> DEFINE a == [session EXCEPT !.estop = TRUE]
           latched == ForgetFeedback(ClearMotionIntent(RevokeAuthorization(a)))
           timed == IF TimeValid(latched, now) THEN ObserveMonotonicTime(latched, now) ELSE latched
           s == SynchronizeConnection(timed, transport)
<1>1. session \in Session /\ transport \in Transport
  BY DEF SInv, IInv, TypeOK
<1>2. a \in Session /\ a.estop /\ a.configuration_valid = session.configuration_valid
  BY <1>1 DEF Session
<1> HIDE DEF a
<1>3. /\ latched \in Session /\ latched.estop
      /\ latched.configuration_valid = session.configuration_valid
  BY <1>2, InterruptFields
<1> HIDE DEF latched
<1>4. /\ timed \in Session /\ timed.estop
      /\ timed.configuration_valid = session.configuration_valid
  BY <1>3, ObserveFields
<1> HIDE DEF timed
<1>5. CASE ~session.configuration_valid
  <2>1. session' = [latched EXCEPT !.state = "kConfigurationInvalid"]
    BY <1>5 DEF LatchEmergencyStop, latched, a
  <2> QED BY <1>3, <2>1 DEF Session
<1>6. CASE session.configuration_valid
  <2>1. s \in Session /\ s.estop
    BY <1>1, <1>4, <1>6, SynchronizeEstop
  <2>2. \/ session' = s
        \/ \E earliest: session' = BeginZeroEpisode(s, transport, "kEmergencyStopLatched", earliest)
    BY <1>6 DEF LatchEmergencyStop, s, timed, latched, a
  <2> HIDE DEF s
  <2> QED BY <2>1, <2>2, BeginEstop
<1> QED BY <1>5, <1>6

-----------------------------------------------------------------------------
(* The theorems *)

\* What every method that writes nothing does, as a step of the session.
LEMMA CallLawful ==
  ASSUME Kept(session, session', transport), OnlySession
  PROVE  Lawful
BY SilentLawful DEF OnlySession, NoCycle

LEMMA NextLawful ==
  SInv /\ Next => Lawful
<1> SUFFICES ASSUME SInv, Next PROVE Lawful
  OBVIOUS
<1>1. ASSUME NEW now \in Time, NEW token \in Token, Authorize(token, now)
      PROVE  Lawful
  BY <1>1, AuthorizeKept, CallLawful DEF Authorize
<1>2. ASSUME NEW now \in Time, NEW token \in Token, ResetEmergencyStop(token, now)
      PROVE  Lawful
  BY <1>2, ResetKept, CallLawful DEF ResetEmergencyStop
<1>3. ASSUME NEW now \in Time, NEW c \in Command, Submit(c, now)
      PROVE  Lawful
  BY <1>3, SubmitKept, CallLawful DEF Submit
<1>4. ASSUME NEW now \in Time, NEW decoded, ObserveFeedback(decoded, now)
      PROVE  Lawful
  BY <1>4, ObserveFeedbackKept, CallLawful DEF ObserveFeedback
<1>5. ASSUME NEW now \in Time, Disarm(now)
      PROVE  Lawful
  BY <1>5, DisarmKept, CallLawful DEF Disarm
<1>6. ASSUME NEW now \in Time, RequestStop(now)
      PROVE  Lawful
  BY <1>6, RequestStopKept, CallLawful DEF RequestStop
<1>7. ASSUME NEW now \in Time, LatchEmergencyStop(now)
      PROVE  Lawful
  BY <1>7, LatchKept, CallLawful DEF LatchEmergencyStop
<1>8. ASSUME NEW now \in Time, Tick(now)
      PROVE  Lawful
  BY <1>8, TickLawful
<1>9. CASE TransportLost \/ TransportReopened
  BY <1>9, TransportLawful
<1> QED BY <1>1, <1>2, <1>3, <1>4, <1>5, <1>6, <1>7, <1>8, <1>9 DEF Next

\* The strengthened invariant: what the connection, the latch and the
\* authorization say about the state between any two calls of the session.
THEOREM TrackedInvariant == Spec => []SInv
<1>1. Init => SInv
  BY InitTracked
<1>2. SInv /\ [Next]_vars => SInv'
  <2> SUFFICES ASSUME SInv, [Next]_vars PROVE SInv'
    OBVIOUS
  <2>1. IInv'
    BY NextGood DEF SInv
  <2>2. Tracked(session', transport')
    <3>1. CASE Next
      BY <3>1, NextLawful DEF Lawful
    <3>2. CASE UNCHANGED vars
      BY <3>2 DEF vars, SInv
    <3> QED BY <3>1, <3>2
  <2> QED BY <2>1, <2>2 DEF SInv
<1> QED BY <1>1, <1>2, PTL DEF Spec

\* safety_session.cpp implements the gate: whatever the calls, their times and
\* what the line does to the writes, motion frames leave only through a gate
\* opened by a zero frame and a new permission on the present line, every
\* withdrawn permission and every new line owes a zero frame, and a failed
\* gate stays failed until the line is lost.
THEOREM SessionImplementsGate == Spec => ImplementsMotionGate
<1>1. Init => Gate!Init
  BY InitTracked
<1>2. SInv /\ [Next]_vars => [Gate!Next]_<<GateState(session, transport), wire>>
  <2>1. CASE Next
    BY <2>1, NextLawful DEF Lawful, GateStep
  <2>2. CASE UNCHANGED vars
    BY <2>2 DEF vars
  <2> QED BY <2>1, <2>2
<1> QED BY <1>1, <1>2, TrackedInvariant, PTL DEF Spec, ImplementsMotionGate, Gate!Spec

\* kFaulted, which attemptZero() enters when its retries are spent, is left
\* only with the connection, and no frame is attempted in it.
THEOREM FaultsAreFinal == Spec => FaultIsFinal
<1>1. SInv /\ [Next]_vars =>
        [session.state = "kFaulted" =>
           /\ session'.state # "kFaulted" =>
                \/ session'.state = "kDisconnected"
                \/ session'.connection_generation > session.connection_generation
           /\ (cycle'.motion_write_attempted \/ cycle'.zero_write_attempted) =>
                session'.connection_generation > session.connection_generation]_vars
  BY NextLawful DEF Lawful, FaultStep
<1> QED BY <1>1, TrackedInvariant, PTL DEF Spec, FaultIsFinal

=============================================================================
