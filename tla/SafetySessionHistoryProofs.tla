--------------------- MODULE SafetySessionHistoryProofs ---------------------
(***************************************************************************)
(* What the session promises about its past, proved for every              *)
(* configuration, every set of commands and tokens and every bound: motion *)
(* is permitted, the emergency stop is released, the retry budget is spent *)
(* and the rate is kept only as SafetySessionHistory says.                 *)
(*                                                                         *)
(* The proofs tie the fields of the session to the history its owner       *)
(* keeps.  Every method leaves them tied to the old history; what it does  *)
(* to the history then only forgets what the session has forgotten too.    *)
(***************************************************************************)
EXTENDS SafetySessionHistory, SafetySessionProofs

-----------------------------------------------------------------------------
(* The invariant *)

\* A command is cached only under an authorization and outside a stop.
Held(s) ==
  /\ s.command.valid => Authorized(s) /\ ~s.zero_active
  /\ ~s.command.valid => s.fresh = 0

\* What a session in step with the line says about the history.
Told(s, h) ==
  /\ s.zero_active => h.failed_zeros = s.zero_attempts
  /\ ~s.zero_active /\ s.state # "kFaulted" => h.failed_zeros = 0 /\ h.zeroed
  /\ Authorized(s) => h.armed
  /\ s.feedback_seen => h.allowed
  /\ s.estop /\ s.state = "kEmergencyStopLatched" => h.latch_zeroed
  /\ s.command.valid => h.run >= s.fresh /\ h.receipt = s.command.receipt

Tied(s, t, h) ==
  /\ t.connected => t.generation # 0
  /\ h \in History
  /\ h.failed_zeros <= MaximumZeroAttempts
  /\ Held(s)
  /\ IF SyncedWith(s, t) THEN Told(s, h) ELSE h.failed_zeros = 0

HInv == SInv /\ Tied(session, transport, hist)

-----------------------------------------------------------------------------
(* Forgetting *)

LEMMA HistoryTypes ==
  ASSUME NEW h \in History
  PROVE  /\ Stopped(h) \in History /\ Revoked(h) \in History
         /\ Inhibiting(h) \in History /\ NewLine(h) \in History
<1>1. 0 \in Time
  BY TimeFacts
<1>2. Stopped(h) \in History
  BY <1>1 DEF History, Stopped
<1>3. Revoked(h) \in History
  BY <1>2 DEF History, Revoked
<1>4. Inhibiting(h) \in History
  BY <1>3 DEF History, Inhibiting
<1>5. NewLine(h) \in History
  BY <1>1, <1>4 DEF History, NewLine
<1> QED BY <1>2, <1>3, <1>4, <1>5

LEMMA StoppedFields ==
  ASSUME NEW h \in History
  PROVE  /\ Stopped(h).armed = h.armed /\ Stopped(h).zeroed = h.zeroed
         /\ Stopped(h).latch_zeroed = h.latch_zeroed /\ Stopped(h).allowed = h.allowed
         /\ Stopped(h).failed_zeros = h.failed_zeros
BY DEF History, Stopped

LEMMA RevokedFields ==
  ASSUME NEW h \in History
  PROVE  /\ Revoked(h).zeroed = h.zeroed
         /\ Revoked(h).latch_zeroed = h.latch_zeroed /\ Revoked(h).allowed = h.allowed
         /\ Revoked(h).failed_zeros = h.failed_zeros
BY DEF History, Revoked, Stopped

LEMMA InhibitingFields ==
  ASSUME NEW h \in History
  PROVE  /\ Inhibiting(h).zeroed = h.zeroed
         /\ Inhibiting(h).latch_zeroed = h.latch_zeroed
         /\ Inhibiting(h).failed_zeros = h.failed_zeros
BY DEF History, Inhibiting, Revoked, Stopped

\* The history may forget the run with the command ...
LEMMA TiedStopped ==
  ASSUME NEW s \in Session, NEW t, NEW h, Tied(s, t, h), ~s.command.valid
  PROVE  Tied(s, t, Stopped(h))
<1>1. h \in History
  BY DEF Tied
<1> QED BY <1>1, HistoryTypes, StoppedFields DEF Tied, Told

\* ... the authorization with the session's ...
LEMMA TiedRevoked ==
  ASSUME NEW s \in Session, NEW t, NEW h, Tied(s, t, h), ~Authorized(s)
  PROVE  Tied(s, t, Revoked(h))
<1>1. h \in History /\ ~s.command.valid
  BY DEF Tied, Held
<1> QED BY <1>1, HistoryTypes, RevokedFields DEF Tied, Told

\* ... the feedback when the session has forgotten it ...
LEMMA TiedInhibiting ==
  ASSUME NEW s \in Session, NEW t, NEW h, Tied(s, t, h), ~Authorized(s),
         SyncedWith(s, t) => ~s.feedback_seen
  PROVE  Tied(s, t, Inhibiting(h))
<1>1. h \in History /\ ~s.command.valid
  BY DEF Tied, Held
<1> QED BY <1>1, HistoryTypes, InhibitingFields DEF Tied, Told

\* ... and everything about the line with the line.
LEMMA TiedNewLine ==
  ASSUME NEW s, NEW t, NEW h \in History, Held(s), ~SyncedWith(s, t),
         t.connected => t.generation # 0
  PROVE  Tied(s, t, NewLine(h))
<1>1. NewLine(h) \in History
  BY HistoryTypes
<1>2. NewLine(h).failed_zeros = 0
  BY DEF History, NewLine, Inhibiting, Revoked, Stopped
<1> QED BY <1>1, <1>2, DurationsAssumption DEF Tied

-----------------------------------------------------------------------------
(* How a method enters *)

LEMMA EnterTied ==
  ASSUME NEW s, NEW t \in Transport, NEW w, NEW h, NEW now \in Time,
         Good(s, t, w), Tracked(s, t), Tied(s, t, h)
  PROVE  LET e == Enter(s, t, now) IN
         /\ e \in Session
         /\ Tied(e, t, h)
         /\ ~TimeValid(s, now) => ~Authorized(e) /\ (SyncedWith(e, t) => ~e.feedback_seen)
         /\ e.highest_token = s.highest_token
         /\ ~Proceeds(s, t, now) => ~e.command.valid
<1> DEFINE e == Enter(s, t, now)
           o == ObserveMonotonicTime(s, now)
<1>1. s \in Session /\ Linked(s, t) /\ t.generation \in Nat
      /\ s.connection_generation \in Nat /\ h \in History
  BY GenerationAssumption DEF Good, Coherent, Session, Transport, Tied
<1>2. /\ o \in Session /\ o.configuration_valid = s.configuration_valid
      /\ o.state = s.state /\ o.connection_known = s.connection_known
      /\ o.connection_generation = s.connection_generation
      /\ o.zero_active = s.zero_active /\ o.zero_attempts = s.zero_attempts
      /\ o.estop = s.estop /\ Authorized(o) = Authorized(s)
      /\ o.command = s.command /\ o.fresh = s.fresh
      /\ o.feedback_seen = s.feedback_seen /\ o.highest_token = s.highest_token
  BY <1>1, ObserveFields
<1>3. CASE ~s.configuration_valid
  <2>1. e = s
    BY <1>3 DEF Enter
  <2>2. ~Authorized(s) /\ ~SyncedWith(s, t)
    BY <1>1, <1>3 DEF Authorized, Linked, SyncedWith
  <2>3. ~s.command.valid
    BY <2>2 DEF Tied, Held
  <2> QED BY <1>1, <2>1, <2>2, <2>3
<1>4. CASE s.configuration_valid /\ ~TimeValid(s, now)
  <2>1. e = HandleClockFailure(s, t)
    BY <1>4 DEF Enter
  <2> HIDE DEF e
  <2>2. s.zero_active => s.state = "kStopPending"
    BY <1>1 DEF Linked
  <2>3. /\ e \in Session
        /\ e.connection_known = s.connection_known
        /\ e.connection_generation = s.connection_generation
        /\ e.estop = s.estop /\ ~e.authorization_active /\ ~e.command.valid /\ e.fresh = 0
        /\ ~e.feedback_seen /\ e.highest_token = s.highest_token
        /\ s.connection_known /\ t.connected /\ s.state # "kFaulted"
             => e.state = "kStopPending" /\ e.zero_active
        /\ s.state = "kFaulted" \/ ~(s.connection_known /\ t.connected)
             => e.state = s.state /\ e.zero_active = s.zero_active
        /\ s.zero_active => e.zero_attempts = s.zero_attempts
        /\ ~s.zero_active /\ e.zero_active => e.zero_attempts = 0
    BY ZenonT(60), <1>1, <2>1, <2>2, ClockFailureFields
  <2>4. SyncedWith(e, t) = SyncedWith(s, t) /\ ~Authorized(e)
    BY <2>3 DEF SyncedWith, Authorized
  <2>5. Held(e)
    BY <2>3 DEF Held
  <2>6. CASE SyncedWith(s, t)
    <3>1. Told(s, h)
      BY <2>6 DEF Tied
    <3>2. s.state = "kFaulted" => ~s.zero_active
      BY <1>1 DEF Linked
    <3>3. s.connection_known /\ t.connected
      BY <2>6 DEF SyncedWith
    <3>4. Told(e, h)
      BY <2>3, <2>4, <3>1, <3>2, <3>3 DEF Told
    <3> QED BY <2>3, <2>4, <2>5, <2>6, <3>4 DEF Tied, e
  <2>7. CASE ~SyncedWith(s, t)
    BY <2>3, <2>4, <2>5, <2>7 DEF Tied, e
  <2> QED BY <2>6, <2>7
<1>5. CASE s.configuration_valid /\ TimeValid(s, now) /\ ~Attached(t)
  <2>1. e = HandleDisconnect(o)
    BY <1>5 DEF Enter, SynchronizeConnection
  <2>2. o.configuration_valid
    BY <1>2, <1>5
  <2> HIDE DEF e, o
  <2>3. /\ e \in Session /\ ~e.connection_known /\ ~e.zero_active
        /\ ~e.authorization_active /\ ~e.command.valid
        /\ e.highest_token = s.highest_token
    BY <1>2, <2>1, <2>2, DisconnectFields
  <2>4. e.fresh = 0
    <3>1. ForgetConnection(o) \in Session /\ ForgetConnection(o).fresh = 0
      BY <1>2, ForgetConnectionFields, ForgetFields
    <3> QED BY <2>1, <3>1 DEF HandleDisconnect, Session
  <2>5. ~SyncedWith(s, t)
    BY <1>5 DEF SyncedWith, Attached, Tied
  <2> QED BY <1>5, <2>3, <2>4, <2>5 DEF Tied, Held, SyncedWith, Authorized, e
<1>6. CASE s.configuration_valid /\ TimeValid(s, now) /\ Attached(t) /\ NewGeneration(o, t)
  <2>1. e = HandleNewConnection(o, t)
    BY <1>6 DEF Enter, SynchronizeConnection
  <2> HIDE DEF e, o
  <2>2. /\ e \in Session /\ e.state = "kStopPending" /\ e.zero_active /\ e.zero_attempts = 0
        /\ ~e.authorization_active /\ ~e.command.valid /\ e.fresh = 0
        /\ ~e.feedback_seen /\ e.highest_token = s.highest_token
    BY <1>2, <1>6, <2>1, NewConnectionFields DEF Attached
  <2>3. ~SyncedWith(s, t)
    BY <1>2, <1>6 DEF SyncedWith, NewGeneration
  <2>4. Held(e) /\ h.failed_zeros = 0 /\ ~Authorized(e)
    BY <2>2, <2>3 DEF Held, Tied, Authorized
  <2>5. Told(e, h)
    BY <2>2, <2>4 DEF Told
  <2> QED BY <1>6, <2>2, <2>4, <2>5 DEF Tied, Proceeds, e
<1>7. CASE s.configuration_valid /\ TimeValid(s, now) /\ Attached(t) /\ ~NewGeneration(o, t)
  <2>1. e = o
    BY <1>7 DEF Enter, SynchronizeConnection
  <2>2. SyncedWith(o, t) = SyncedWith(s, t)
    BY <1>2, SameGate
  <2>3. Tied(o, t, h)
    BY <1>2, <2>2 DEF Tied, Held, Told
  <2> QED BY <1>2, <1>7, <2>1, <2>3 DEF Proceeds
<1> QED BY <1>3, <1>4, <1>5, <1>6, <1>7

-----------------------------------------------------------------------------
(* What a method may do to the session it entered *)

\* r promises no more than s: both in step with the line, every permission,
\* report and count of r is one of s, and a stop that begins has its whole
\* budget.
Forgets(s, r) ==
  /\ Held(r)
  /\ s.zero_active => r.zero_active /\ r.zero_attempts = s.zero_attempts
  /\ ~s.zero_active /\ r.zero_active => r.zero_attempts = 0 /\ s.state # "kFaulted"
  /\ s.state = "kFaulted" => r.state = "kFaulted"
  /\ Authorized(r) => Authorized(s)
  /\ r.feedback_seen => s.feedback_seen
  /\ r.estop /\ r.state = "kEmergencyStopLatched"
       => s.estop /\ s.state = "kEmergencyStopLatched"
  /\ r.command.valid => /\ s.command.valid /\ r.fresh = s.fresh
                        /\ r.command.receipt = s.command.receipt

LEMMA TiedForgets ==
  ASSUME NEW s, NEW r, NEW t, NEW h, Tied(s, t, h), SyncedWith(s, t), SyncedWith(r, t),
         Forgets(s, r)
  PROVE  Tied(r, t, h)
<1>1. Told(s, h)
  BY DEF Tied
<1>2. Told(r, h)
  BY <1>1 DEF Told, Forgets
<1> QED BY <1>2 DEF Tied, Forgets

LEMMA BeginForgets ==
  ASSUME NEW s \in Session, NEW t, Linked(s, t), SyncedWith(s, t), ~s.command.valid, s.fresh = 0,
         NEW after \in AfterZero, NEW earliest \in Time
  PROVE  LET r == BeginZeroEpisode(s, t, after, earliest) IN
         /\ r \in Session /\ SyncedWith(r, t) /\ Forgets(s, r)
         /\ Authorized(r) = Authorized(s) /\ ~r.command.valid
         /\ r.feedback_seen = s.feedback_seen
         /\ r.highest_token = s.highest_token /\ r.estop = s.estop
         /\ s.state # "kFaulted" => r.zero_active /\ r.state = "kStopPending"
<1> DEFINE r == BeginZeroEpisode(s, t, after, earliest)
<1>1. s.connection_known /\ t.connected /\ t.generation = s.connection_generation
  BY DEF SyncedWith
<1>2. /\ r \in Session
      /\ r.connection_known /\ r.connection_generation = s.connection_generation
      /\ r.configuration_valid = s.configuration_valid /\ r.estop = s.estop
      /\ s.state = "kFaulted" => r = s
      /\ s.state # "kFaulted" /\ (s.zero_active => s.state = "kStopPending")
           => r.state = "kStopPending" /\ r.zero_active
      /\ r.authorization_active = s.authorization_active
      /\ r.authorized_generation = s.authorized_generation
      /\ r.authorization_ns = s.authorization_ns
      /\ ~s.zero_active /\ s.state # "kFaulted" => r.zero_attempts = 0
      /\ s.zero_active => r.zero_attempts = s.zero_attempts
      /\ r.command = s.command /\ r.fresh = s.fresh
      /\ r.feedback_seen = s.feedback_seen
      /\ r.highest_token = s.highest_token
  BY <1>1, BeginFields
<1> HIDE DEF r
<1>3. s.zero_active <=> s.state = "kStopPending"
  BY DEF Linked
<1>4. SyncedWith(r, t)
  BY <1>1, <1>2 DEF SyncedWith
<1>5. Authorized(r) = Authorized(s)
  <2>1. CASE s.state = "kFaulted"
    BY <1>2, <2>1
  <2>2. CASE s.state # "kFaulted"
    BY <1>1, <1>2, <1>3, <2>2 DEF Authorized
  <2> QED BY <2>1, <2>2
<1>6. Forgets(s, r)
  <2>1. CASE s.state = "kFaulted"
    BY <1>2, <1>3, <2>1 DEF Forgets, Held
  <2>2. CASE s.state # "kFaulted"
    BY <1>2, <1>3, <1>5, <2>2 DEF Forgets, Held
  <2> QED BY <2>1, <2>2
<1> QED BY <1>2, <1>3, <1>4, <1>5, <1>6 DEF r

\* A stop keeps the session in step and what is left of it tied.
LEMMA StopTied ==
  ASSUME NEW s \in Session, NEW t, NEW h, Linked(s, t), SyncedWith(s, t), Tied(s, t, h),
         NEW after \in AfterZero, NEW earliest \in Time
  PROVE  LET r == StopWithZero(s, t, after, earliest) IN
         /\ r \in Session /\ SyncedWith(r, t) /\ Tied(r, t, h) /\ ~r.command.valid
         /\ r.highest_token = s.highest_token /\ r.feedback_seen = s.feedback_seen
         /\ r.estop = s.estop /\ Authorized(r) = Authorized(s)
         /\ s.state # "kFaulted" => r.zero_active /\ r.state = "kStopPending"
<1> DEFINE c == ClearMotionIntent(s)
           r == BeginZeroEpisode(c, t, after, earliest)
<1>1. /\ c \in Session /\ c.state = s.state
      /\ c.connection_known = s.connection_known
      /\ c.connection_generation = s.connection_generation
      /\ c.zero_active = s.zero_active /\ c.zero_attempts = s.zero_attempts
      /\ c.estop = s.estop /\ Authorized(c) = Authorized(s)
      /\ ~c.command.valid /\ c.fresh = 0 /\ c.feedback_seen = s.feedback_seen
      /\ c.highest_token = s.highest_token
  BY ClearFields
<1>2. Linked(c, t) /\ SyncedWith(c, t)
  BY <1>1, ClearLinked DEF Coherent
<1>3. StopWithZero(s, t, after, earliest) = r
  BY DEF StopWithZero
<1> HIDE DEF c
<1>4. Forgets(s, c)
  BY <1>1 DEF Forgets, Held
<1>5. Tied(c, t, h)
  BY <1>2, <1>4, TiedForgets
<1>6. /\ r \in Session /\ SyncedWith(r, t) /\ Forgets(c, r)
      /\ Authorized(r) = Authorized(c) /\ ~r.command.valid
      /\ r.feedback_seen = c.feedback_seen
      /\ r.highest_token = c.highest_token /\ r.estop = c.estop
      /\ c.state # "kFaulted" => r.zero_active /\ r.state = "kStopPending"
  BY <1>1, <1>2, BeginForgets
<1> HIDE DEF r
<1>7. Tied(r, t, h)
  BY <1>2, <1>5, <1>6, TiedForgets
<1> QED BY <1>1, <1>3, <1>6, <1>7

LEMMA RevokeTied ==
  ASSUME NEW s \in Session, NEW t, NEW h, Linked(s, t), SyncedWith(s, t), Tied(s, t, h),
         NEW after \in AfterZero, NEW earliest \in Time
  PROVE  LET r == RevokeWithZero(s, t, after, earliest) IN
         /\ r \in Session /\ SyncedWith(r, t) /\ Tied(r, t, h) /\ ~r.command.valid
         /\ r.highest_token = s.highest_token /\ r.feedback_seen = s.feedback_seen
         /\ r.estop = s.estop /\ ~Authorized(r)
         /\ s.state # "kFaulted" => r.zero_active /\ r.state = "kStopPending"
<1> DEFINE v == RevokeAuthorization(s)
           c == ClearMotionIntent(v)
           r == BeginZeroEpisode(c, t, after, earliest)
<1>1. /\ v \in Session /\ v.state = s.state
      /\ v.connection_known = s.connection_known
      /\ v.connection_generation = s.connection_generation
      /\ v.zero_active = s.zero_active /\ v.zero_attempts = s.zero_attempts
      /\ v.estop = s.estop /\ ~v.authorization_active
      /\ v.feedback_seen = s.feedback_seen
      /\ v.highest_token = s.highest_token
  BY RevokeFields
<1>2. Linked(v, t) /\ SyncedWith(v, t)
  BY <1>1, RevokeLinked
<1>3. RevokeWithZero(s, t, after, earliest) = r
  BY DEF RevokeWithZero
<1> HIDE DEF v
<1>4. /\ c \in Session /\ c.state = v.state
      /\ c.zero_active = v.zero_active /\ c.zero_attempts = v.zero_attempts
      /\ c.estop = v.estop /\ Authorized(c) = Authorized(v)
      /\ ~c.command.valid /\ c.fresh = 0 /\ c.feedback_seen = v.feedback_seen
      /\ c.highest_token = v.highest_token
  BY <1>1, ClearFields
<1>5. Linked(c, t) /\ SyncedWith(c, t)
  BY <1>1, <1>2, ClearLinked DEF Coherent
<1> HIDE DEF c
<1>6. ~Authorized(v)
  BY <1>1 DEF Authorized
<1>7. Forgets(s, c)
  BY <1>1, <1>4, <1>6 DEF Forgets, Held
<1>8. Tied(c, t, h)
  BY <1>5, <1>7, TiedForgets
<1>9. /\ r \in Session /\ SyncedWith(r, t) /\ Forgets(c, r)
      /\ Authorized(r) = Authorized(c) /\ ~r.command.valid
      /\ r.feedback_seen = c.feedback_seen
      /\ r.highest_token = c.highest_token /\ r.estop = c.estop
      /\ c.state # "kFaulted" => r.zero_active /\ r.state = "kStopPending"
  BY <1>4, <1>5, BeginForgets
<1> HIDE DEF r
<1>10. Tied(r, t, h)
  BY <1>5, <1>8, <1>9, TiedForgets
<1> QED BY <1>1, <1>3, <1>4, <1>6, <1>9, <1>10

-----------------------------------------------------------------------------
(* The methods that never write *)

\* EnterTied at the state of a call.
LEMMA EnteredTied ==
  ASSUME HInv, NEW now \in Time
  PROVE  LET e == Entered(now) IN
         /\ session \in Session /\ transport \in Transport /\ e \in Session
         /\ hist \in History
         /\ Linked(e, transport) /\ Tracked(e, transport) /\ Tied(e, transport, hist)
         /\ ~TimeValid(session, now) =>
              ~Authorized(e) /\ (SyncedWith(e, transport) => ~e.feedback_seen)
         /\ e.highest_token = session.highest_token
         /\ ~Goes(now) => ~e.command.valid /\ ~Authorized(e)
         /\ Goes(now) => /\ SyncedWith(e, transport) /\ e.configuration_valid /\ now > 0
                         /\ TimeValid(session, now) /\ transport.connected
<1> DEFINE e == Entered(now)
<1>1. SInv /\ Tied(session, transport, hist)
  BY DEF HInv
<1>2. Good(session, transport, wire) /\ Tracked(session, transport) /\ transport \in Transport
  BY <1>1 DEF SInv, IInv, TypeOK
<1>3. /\ e \in Session /\ Tied(e, transport, hist)
      /\ ~TimeValid(session, now) =>
           ~Authorized(e) /\ (SyncedWith(e, transport) => ~e.feedback_seen)
      /\ e.highest_token = session.highest_token
      /\ ~Goes(now) => ~e.command.valid
  BY <1>1, <1>2, EnterTied DEF Entered, Goes
<1>4. /\ session \in Session
      /\ Linked(e, transport) /\ Tracked(e, transport)
      /\ Goes(now) => SyncedWith(e, transport) /\ e.configuration_valid /\ now > 0
  BY <1>1, EnteredSInv
<1>5. Goes(now) => TimeValid(session, now) /\ transport.connected
  BY DEF Goes, Proceeds, Attached
<1>6. ~Goes(now) => ~Authorized(e)
  <2>1. CASE ~session.configuration_valid
    <3>1. e = session
      BY <2>1 DEF Entered, Enter
    <3> QED BY <2>1, <3>1 DEF Authorized
  <2>2. CASE ~TimeValid(session, now)
    BY <1>3, <2>2
  <2>3. CASE session.configuration_valid /\ TimeValid(session, now) /\ ~Attached(transport)
    <3> DEFINE o == ObserveMonotonicTime(session, now)
    <3>1. e = HandleDisconnect(o)
      BY <2>3 DEF Entered, Enter, SynchronizeConnection
    <3>2. o \in Session /\ o.configuration_valid
      BY <1>4, <2>3, ObserveFields
    <3>3. ~HandleDisconnect(o).connection_known
      BY <3>2, DisconnectFields
    <3> QED BY <3>1, <3>3 DEF Authorized
  <2> QED BY <2>1, <2>2, <2>3 DEF Goes, Proceeds
<1>7. hist \in History
  BY <1>1 DEF Tied
<1> QED BY <1>2, <1>3, <1>4, <1>5, <1>6, <1>7

\* A call at an impossible time is an interruption of both.
LEMMA TimedTied ==
  ASSUME NEW s \in Session, NEW t, NEW h, NEW now, Tied(s, t, h),
         ~TimeValid(session, now) =>
           ~Authorized(s) /\ (SyncedWith(s, t) => ~s.feedback_seen)
  PROVE  Tied(s, t, Timed(h, now))
BY TiedInhibiting DEF Timed

LEMMA AuthorizeTied ==
  ASSUME HInv, NEW token \in Token, NEW now \in Time, AuthorizeH(token, now)
  PROVE  Tied(session', transport, hist')
<1> DEFINE e == Entered(now)
           grant == Goes(now) /\ MayAuthorize(e, token, now)
<1>1. /\ e \in Session /\ session \in Session /\ hist \in History
      /\ Linked(e, transport) /\ Tied(e, transport, hist)
      /\ ~TimeValid(session, now) =>
           ~Authorized(e) /\ (SyncedWith(e, transport) => ~e.feedback_seen)
      /\ e.highest_token = session.highest_token
      /\ Goes(now) => SyncedWith(e, transport) /\ e.configuration_valid /\ now > 0
  BY EnteredTied
<1>2. session' = IF grant THEN Granted(e, token, now) ELSE e
  BY DEF AuthorizeH, Authorize
<1>3. hist' = IF session'.highest_token # session.highest_token
              THEN [Stopped(hist) EXCEPT !.armed = TRUE] ELSE Timed(hist, now)
  BY DEF AuthorizeH
<1>4. CASE ~grant
  <2>1. session' = e
    BY <1>2, <1>4
  <2> HIDE DEF e
  <2>2. hist' = Timed(hist, now)
    BY <1>1, <1>3, <2>1
  <2> QED BY <1>1, <2>1, <2>2, TimedTied
<1>5. CASE grant
  <2>1. /\ SyncedWith(e, transport) /\ ~e.estop /\ e.state # "kFaulted" /\ ~e.zero_active
        /\ token > e.highest_token /\ e.highest_token \in Nat /\ token \in Nat /\ e.feedback_seen
    BY <1>1, <1>5, InputsAssumption DEF MayAuthorize, FeedbackIsFresh, Session
  <2>2. session' = Granted(e, token, now)
    BY <1>2, <1>5
  <2> HIDE DEF e
  <2> DEFINE c == ClearMotionIntent(e)
             r == [c EXCEPT !.highest_token = token, !.authorization_active = TRUE,
                            !.authorized_generation = e.connection_generation,
                            !.authorization_ns = now, !.state = "kRecovering"]
             h == [Stopped(hist) EXCEPT !.armed = TRUE]
  <2>3. /\ c \in Session /\ c.connection_known = e.connection_known
        /\ c.connection_generation = e.connection_generation
        /\ c.zero_active = e.zero_active /\ c.estop = e.estop
        /\ ~c.command.valid /\ c.fresh = 0 /\ c.feedback_seen = e.feedback_seen
    BY <1>1, ClearFields
  <2>4. session' = r
    BY <2>2 DEF Granted
  <2> HIDE DEF c
  <2>5. /\ r.highest_token = token /\ r.connection_known = c.connection_known
        /\ r.connection_generation = c.connection_generation
        /\ r.zero_active = c.zero_active /\ r.state = "kRecovering" /\ r.command = c.command
        /\ r.fresh = c.fresh /\ r.feedback_seen = c.feedback_seen
    BY <2>3 DEF Session
  <2> HIDE DEF r
  <2>6. hist' = h
    BY <1>1, <1>3, <2>1, <2>4, <2>5
  <2>7. /\ h \in History /\ h.armed /\ h.zeroed = hist.zeroed /\ h.allowed = hist.allowed
        /\ h.failed_zeros = hist.failed_zeros
    <3>1. Stopped(hist) \in History
      BY <1>1, HistoryTypes
    <3>2. h \in History /\ h.armed
      BY <3>1 DEF History
    <3>3. /\ h.zeroed = Stopped(hist).zeroed /\ h.allowed = Stopped(hist).allowed
          /\ h.failed_zeros = Stopped(hist).failed_zeros
      BY <3>1 DEF History
    <3> QED BY <1>1, <3>2, <3>3, StoppedFields
  <2> HIDE DEF h
  <2>8. Told(e, hist) /\ SyncedWith(r, transport)
    BY <1>1, <2>1, <2>3, <2>5 DEF Tied, SyncedWith
  <2>9. Held(r)
    BY <2>3, <2>5 DEF Held
  <2>10. Told(r, h)
    BY <2>1, <2>3, <2>5, <2>7, <2>8 DEF Told
  <2> QED BY <1>1, <2>4, <2>6, <2>7, <2>8, <2>9, <2>10 DEF Tied
<1> QED BY <1>4, <1>5

LEMMA DisarmTied ==
  ASSUME HInv, NEW now \in Time, Disarm(now), hist' = Timed(Revoked(hist), now)
  PROVE  Tied(session', transport, hist')
<1> DEFINE e == Entered(now)
<1>1. /\ e \in Session /\ hist \in History
      /\ Linked(e, transport) /\ Tied(e, transport, hist)
      /\ ~TimeValid(session, now) =>
           ~Authorized(e) /\ (SyncedWith(e, transport) => ~e.feedback_seen)
      /\ ~Goes(now) => ~Authorized(e)
      /\ Goes(now) => SyncedWith(e, transport) /\ TimeValid(session, now)
  BY EnteredTied
<1>2. session' = IF Goes(now) /\ e.state # "kFaulted"
                 THEN RevokeWithZero(e, transport, Inhibited(e), now) ELSE e
  BY DEF Disarm
<1> HIDE DEF e
<1>3. CASE Goes(now) /\ e.state # "kFaulted"
  <2>1. session' = RevokeWithZero(e, transport, Inhibited(e), now)
    BY <1>2, <1>3
  <2>2. session' \in Session /\ Tied(session', transport, hist) /\ ~Authorized(session')
    BY <1>1, <1>3, <2>1, RevokeTied, InhibitedType
  <2> QED BY <1>1, <1>3, <2>2, TiedRevoked DEF Timed
<1>4. CASE ~(Goes(now) /\ e.state # "kFaulted")
  <2>1. session' = e
    BY <1>2, <1>4
  <2>2. ~Authorized(e)
    BY <1>1, <1>4 DEF Authorized
  <2>3. Tied(e, transport, Revoked(hist))
    BY <1>1, <2>2, TiedRevoked
  <2> QED BY <1>1, <2>1, <2>3, TimedTied
<1> QED BY <1>3, <1>4

LEMMA RequestStopTied ==
  ASSUME HInv, NEW now \in Time, RequestStop(now), hist' = Timed(Stopped(hist), now)
  PROVE  Tied(session', transport, hist')
<1> DEFINE e == Entered(now)
           after == IF e.estop THEN "kEmergencyStopLatched"
                    ELSE IF Authorized(e) THEN "kRecovering" ELSE "kConnectedInhibited"
<1>1. /\ e \in Session /\ hist \in History
      /\ Linked(e, transport) /\ Tied(e, transport, hist)
      /\ ~TimeValid(session, now) =>
           ~Authorized(e) /\ (SyncedWith(e, transport) => ~e.feedback_seen)
      /\ ~Goes(now) => ~e.command.valid
      /\ Goes(now) => SyncedWith(e, transport) /\ TimeValid(session, now)
  BY EnteredTied
<1>2. session' = IF Goes(now) /\ e.state # "kFaulted"
                 THEN StopWithZero(e, transport, after, now) ELSE e
  BY DEF RequestStop
<1>3. after \in AfterZero
  BY DEF AfterZero
<1> HIDE DEF e, after
<1>4. CASE Goes(now) /\ e.state # "kFaulted"
  <2>1. session' = StopWithZero(e, transport, after, now)
    BY <1>2, <1>4
  <2>2. session' \in Session /\ Tied(session', transport, hist) /\ ~session'.command.valid
    BY <1>1, <1>3, <1>4, <2>1, StopTied
  <2> QED BY <1>1, <1>4, <2>2, TiedStopped DEF Timed
<1>5. CASE ~(Goes(now) /\ e.state # "kFaulted")
  <2>1. session' = e
    BY <1>2, <1>5
  <2>2. ~e.command.valid
    BY <1>1, <1>5 DEF Tied, Held, Authorized
  <2>3. Tied(e, transport, Stopped(hist))
    BY <1>1, <2>2, TiedStopped
  <2> QED BY <1>1, <2>1, <2>3, TimedTied
<1> QED BY <1>4, <1>5

LEMMA ObserveFeedbackTied ==
  ASSUME HInv, NEW decoded, NEW now \in Time, ObserveFeedbackH(decoded, now)
  PROVE  Tied(session', transport, hist')
<1> DEFINE e == Entered(now)
<1>1. /\ e \in Session /\ hist \in History
      /\ Linked(e, transport) /\ Tied(e, transport, hist)
      /\ ~TimeValid(session, now) =>
           ~Authorized(e) /\ (SyncedWith(e, transport) => ~e.feedback_seen)
      /\ Goes(now) => SyncedWith(e, transport)
  BY EnteredTied
<1>2. /\ session' = IF ~Goes(now) \/ decoded = "kInvalid" THEN e
                    ELSE IF decoded = "kControlAllowed"
                         THEN [e EXCEPT !.feedback_seen = TRUE, !.feedback_receipt = now]
                    ELSE RevokeWithZero(ForgetFeedback(e), transport, Inhibited(e), now)
      /\ hist' = IF ~Goes(now) \/ decoded = "kInvalid" THEN Timed(hist, now)
                 ELSE IF decoded = "kControlAllowed" THEN [hist EXCEPT !.allowed = TRUE]
                 ELSE Inhibiting(hist)
  BY DEF ObserveFeedbackH, ObserveFeedback
<1> HIDE DEF e
<1>3. CASE ~Goes(now) \/ decoded = "kInvalid"
  BY <1>1, <1>2, <1>3, TimedTied
<1>4. CASE Goes(now) /\ decoded # "kInvalid" /\ decoded = "kControlAllowed"
  <2> DEFINE r == [e EXCEPT !.feedback_seen = TRUE, !.feedback_receipt = now]
             h == [hist EXCEPT !.allowed = TRUE]
  <2>1. session' = r /\ hist' = h
    BY <1>2, <1>4
  <2>2. /\ r.state = e.state /\ r.zero_active = e.zero_active
        /\ r.zero_attempts = e.zero_attempts /\ r.estop = e.estop
        /\ r.connection_known = e.connection_known
        /\ r.connection_generation = e.connection_generation
        /\ Authorized(r) = Authorized(e) /\ r.command = e.command /\ r.fresh = e.fresh
    BY <1>1 DEF Session, Authorized
  <2>3. /\ h \in History /\ h.allowed /\ h.armed = hist.armed /\ h.zeroed = hist.zeroed
        /\ h.latch_zeroed = hist.latch_zeroed /\ h.failed_zeros = hist.failed_zeros
        /\ h.run = hist.run /\ h.receipt = hist.receipt
    BY <1>1 DEF History
  <2> HIDE DEF r, h
  <2>4. SyncedWith(r, transport) /\ Told(e, hist)
    BY <1>1, <1>4, <2>2 DEF SyncedWith, Tied
  <2>5. Told(r, h)
    BY <2>2, <2>3, <2>4 DEF Told
  <2> QED BY <1>1, <2>1, <2>2, <2>3, <2>4, <2>5 DEF Tied, Held
<1>5. CASE Goes(now) /\ decoded # "kInvalid" /\ decoded # "kControlAllowed"
  <2> DEFINE f == ForgetFeedback(e)
  <2>1. /\ f \in Session /\ f.state = e.state
        /\ f.configuration_valid = e.configuration_valid
        /\ f.connection_known = e.connection_known
        /\ f.connection_generation = e.connection_generation
        /\ f.zero_active = e.zero_active /\ f.zero_attempts = e.zero_attempts
        /\ f.estop = e.estop /\ Authorized(f) = Authorized(e)
        /\ f.authorization_active = e.authorization_active
        /\ f.command = e.command /\ f.fresh = e.fresh /\ ~f.feedback_seen
    BY <1>1, ForgetFeedbackFields
  <2>2. session' = RevokeWithZero(f, transport, Inhibited(e), now) /\ hist' = Inhibiting(hist)
    BY <1>2, <1>5
  <2> HIDE DEF f
  <2>3. SyncedWith(f, transport) /\ Linked(f, transport)
    BY <1>1, <1>5, <2>1 DEF SyncedWith, Linked
  <2>4. Forgets(e, f)
    BY <1>1, <2>1 DEF Forgets, Held, Tied
  <2>5. Tied(f, transport, hist)
    BY <1>1, <1>5, <2>3, <2>4, TiedForgets
  <2>6. /\ session' \in Session /\ Tied(session', transport, hist)
        /\ ~Authorized(session') /\ session'.feedback_seen = f.feedback_seen
    BY <2>1, <2>2, <2>3, <2>5, RevokeTied, InhibitedType
  <2> QED BY <2>1, <2>2, <2>6, TiedInhibiting
<1> QED BY <1>3, <1>4, <1>5

\* An emergency stop takes the authorization, the feedback and the zero frame
\* of the last one with it.
LEMMA TiedLatched ==
  ASSUME NEW s \in Session, NEW t, NEW h, Tied(s, t, h), ~Authorized(s),
         SyncedWith(s, t) => ~s.feedback_seen /\ s.state # "kEmergencyStopLatched"
  PROVE  Tied(s, t, [Inhibiting(h) EXCEPT !.latch_zeroed = FALSE])
<1> DEFINE i == Inhibiting(h)
           l == [i EXCEPT !.latch_zeroed = FALSE]
<1>1. Tied(s, t, i) /\ ~s.command.valid
  BY TiedInhibiting DEF Tied, Held
<1>2. i \in History
  BY <1>1 DEF Tied
<1> HIDE DEF i
<1>3. /\ l \in History /\ l.zeroed = i.zeroed /\ l.failed_zeros = i.failed_zeros
      /\ l.armed = i.armed /\ l.allowed = i.allowed
  BY <1>2 DEF History
<1> HIDE DEF l
<1>4. Tied(s, t, l)
  BY <1>1, <1>3 DEF Tied, Told
<1> QED BY <1>4 DEF l, i

LEMMA LatchTied ==
  ASSUME HInv, NEW now \in Time, LatchEmergencyStop(now)
  PROVE  Tied(session', transport, [Inhibiting(hist) EXCEPT !.latch_zeroed = FALSE])
<1> DEFINE a == [session EXCEPT !.estop = TRUE]
           latched == ForgetFeedback(ClearMotionIntent(RevokeAuthorization(a)))
           timed == IF TimeValid(latched, now) THEN ObserveMonotonicTime(latched, now) ELSE latched
           s == SynchronizeConnection(timed, transport)
<1>1. /\ session \in Session /\ Linked(session, transport)
      /\ transport \in Transport /\ Tied(session, transport, hist)
  BY DEF HInv, SInv, IInv, TypeOK, Good, Coherent
<1>2. /\ a \in Session /\ a.state = session.state
      /\ a.configuration_valid = session.configuration_valid
      /\ a.connection_known = session.connection_known
      /\ a.connection_generation = session.connection_generation
      /\ a.zero_active = session.zero_active /\ a.zero_attempts = session.zero_attempts
  BY <1>1 DEF Session
<1> HIDE DEF a
<1>3. /\ latched \in Session /\ latched.state = session.state
      /\ latched.configuration_valid = session.configuration_valid
      /\ latched.connection_known = session.connection_known
      /\ latched.connection_generation = session.connection_generation
      /\ latched.zero_active = session.zero_active /\ ~latched.authorization_active
      /\ latched.zero_attempts = session.zero_attempts
      /\ ~latched.command.valid /\ latched.fresh = 0 /\ ~latched.feedback_seen
  BY <1>2, InterruptFields
<1> HIDE DEF latched
<1>4. /\ timed \in Session /\ timed.state = session.state
      /\ timed.configuration_valid = session.configuration_valid
      /\ timed.connection_known = session.connection_known
      /\ timed.connection_generation = session.connection_generation
      /\ timed.zero_active = session.zero_active /\ ~Authorized(timed)
      /\ timed.zero_attempts = session.zero_attempts
      /\ ~timed.command.valid /\ timed.fresh = 0 /\ ~timed.feedback_seen
  BY <1>3, ObserveFields DEF Authorized
<1> HIDE DEF timed
\* It is enough that the session is tied to the history it had.
<1>5. SUFFICES /\ session' \in Session /\ Tied(session', transport, hist)
               /\ ~Authorized(session')
               /\ SyncedWith(session', transport) =>
                    ~session'.feedback_seen /\ session'.state # "kEmergencyStopLatched"
  BY TiedLatched
<1>6. CASE ~session.configuration_valid
  <2>1. session' = [latched EXCEPT !.state = "kConfigurationInvalid"]
    BY <1>6 DEF LatchEmergencyStop, latched, a
  <2>2. ~session.connection_known
    BY <1>1, <1>6 DEF Linked
  <2>3. /\ session' \in Session /\ ~session'.connection_known
        /\ ~session'.command.valid /\ session'.fresh = 0
    BY <1>3, <2>1, <2>2 DEF Session, SessionState
  <2> QED BY <1>1, <2>2, <2>3 DEF Tied, Held, SyncedWith, Authorized
<1>7. CASE session.configuration_valid /\ ~Attached(transport)
  <2>1. session' = HandleDisconnect(timed)
    BY <1>7 DEF LatchEmergencyStop, SynchronizeConnection, latched, timed, a
  <2>2. /\ session' \in Session /\ ~session'.connection_known
        /\ ~session'.command.valid
    BY <1>4, <1>7, <2>1, DisconnectFields
  <2>3. session'.fresh = 0
    <3>1. ForgetConnection(timed) \in Session /\ ForgetConnection(timed).fresh = 0
      BY <1>4, ForgetConnectionFields, ForgetFields
    <3> QED BY <2>1, <3>1 DEF HandleDisconnect, Session
  <2>4. ~SyncedWith(session, transport)
    BY <1>1, <1>7 DEF SyncedWith, Attached, Tied
  <2> QED BY <1>1, <2>2, <2>3, <2>4 DEF Tied, Held, SyncedWith, Authorized
<1>8. CASE session.configuration_valid /\ Attached(transport)
  <2>1. /\ s \in Session /\ SyncedWith(s, transport) /\ ~Authorized(s)
        /\ s.zero_active <=> s.state = "kStopPending"
        /\ ~s.command.valid /\ s.fresh = 0 /\ ~s.feedback_seen
        /\ Linked(session, transport)
        /\ IF SyncedWith(session, transport)
           THEN /\ s.zero_active = session.zero_active
                /\ s.zero_attempts = session.zero_attempts /\ s.state = session.state
           ELSE s.zero_active /\ s.zero_attempts = 0
    <3>1. CASE NewGeneration(timed, transport)
      <4>1. s = HandleNewConnection(timed, transport)
        BY <1>8, <3>1 DEF SynchronizeConnection
      <4> HIDE DEF s
      <4>2. transport.connected
        BY <1>8 DEF Attached
      <4>3. /\ s \in Session /\ s.state = "kStopPending"
            /\ s.connection_known /\ s.connection_generation = transport.generation
            /\ ~s.authorization_active /\ s.zero_active /\ s.zero_attempts = 0
            /\ ~s.command.valid /\ s.fresh = 0 /\ ~s.feedback_seen
        BY <1>1, <1>4, <4>1, <4>2, NewConnectionFields
      <4>4. ~SyncedWith(session, transport)
        BY <1>4, <3>1 DEF NewGeneration, SyncedWith
      <4> QED BY <1>1, <4>2, <4>3, <4>4 DEF SyncedWith, Authorized, s
    <3>2. CASE ~NewGeneration(timed, transport)
      <4>1. s = timed
        BY <1>8, <3>2 DEF SynchronizeConnection
      <4>2. SyncedWith(session, transport) /\ SyncedWith(timed, transport)
        BY <1>4, <1>8, <3>2 DEF NewGeneration, SyncedWith, Attached
      <4>3. timed.zero_active <=> timed.state = "kStopPending"
        BY <1>1, <1>4 DEF Linked
      <4> QED BY <1>1, <1>4, <4>1, <4>2, <4>3
    <3> QED BY <3>1, <3>2
  <2> HIDE DEF s
  <2>2. /\ session' \in Session /\ SyncedWith(session', transport) /\ ~Authorized(session')
        /\ ~session'.command.valid /\ session'.fresh = 0 /\ ~session'.feedback_seen
        /\ IF s.state = "kFaulted"
           THEN session'.state = "kFaulted" /\ ~session'.zero_active
           ELSE /\ session'.state = "kStopPending" /\ session'.zero_active
                /\ session'.zero_attempts = IF s.zero_active THEN s.zero_attempts ELSE 0
    <3>1. CASE s.state = "kFaulted"
      <4>1. session' = s
        BY <1>8, <3>1 DEF LatchEmergencyStop, s, latched, timed, a
      <4> QED BY <2>1, <3>1, <4>1
    <3>2. CASE s.state # "kFaulted"
      <4> DEFINE earliest == IF TimeValid(latched, now) THEN now ELSE s.last_observed
                 b == BeginZeroEpisode(s, transport, "kEmergencyStopLatched", earliest)
      <4>1. session' = b
        BY <1>8, <3>2 DEF LatchEmergencyStop, s, latched, timed, a
      <4>2. earliest \in Time /\ "kEmergencyStopLatched" \in AfterZero
        BY <2>1 DEF Session, AfterZero
      <4>3. s.connection_known /\ transport.connected
        BY <2>1 DEF SyncedWith
      <4> HIDE DEF earliest
      <4>4. /\ b \in Session /\ b.connection_known
            /\ b.state = "kStopPending" /\ b.zero_active
            /\ b.connection_generation = s.connection_generation
            /\ b.configuration_valid = s.configuration_valid /\ b.estop = s.estop
            /\ b.authorization_active = s.authorization_active
            /\ b.authorized_generation = s.authorized_generation
            /\ b.authorization_ns = s.authorization_ns
            /\ b.command = s.command /\ b.fresh = s.fresh
            /\ b.feedback_seen = s.feedback_seen
            /\ b.zero_attempts = IF s.zero_active THEN s.zero_attempts ELSE 0
        BY <2>1, <3>2, <4>2, <4>3, BeginFields
      <4> HIDE DEF b
      <4>5. ~Authorized(b)
        BY <2>1, <3>2, <4>3, <4>4 DEF Authorized
      <4> QED BY <2>1, <3>2, <4>1, <4>3, <4>4, <4>5 DEF SyncedWith
    <3> QED BY <3>1, <3>2
  <2>3. Held(session')
    BY <2>2 DEF Held
  <2>4. CASE SyncedWith(session, transport)
    <3>1. Forgets(session, session')
      BY <1>1, <2>1, <2>2, <2>3, <2>4 DEF Forgets, Linked
    <3>2. Tied(session', transport, hist)
      BY <1>1, <2>2, <2>4, <3>1, TiedForgets
    <3> QED BY <2>2, <3>2
  <2>5. CASE ~SyncedWith(session, transport)
    <3>1. hist.failed_zeros = 0
      BY <1>1, <2>5 DEF Tied
    <3>2. Told(session', hist)
      BY <2>1, <2>2, <2>5, <3>1 DEF Told
    <3> QED BY <1>1, <2>2, <2>3, <3>2 DEF Tied
  <2> QED BY <2>4, <2>5
<1> QED BY <1>6, <1>7, <1>8

\* What a release found: a session in step with the line, latched, with the
\* feedback it asked for.
LEMMA ReleaseFound ==
  ASSUME HInv, NEW token \in Token, NEW now \in Time, session.estop, Goes(now),
         MayReset(Entered(now), token, now)
  PROVE  LET e == Entered(now) IN
         /\ e.estop /\ e.state = "kEmergencyStopLatched" /\ e.feedback_seen
         /\ Told(e, hist) /\ ~e.zero_active
<1> DEFINE e == Entered(now)
<1>1. /\ e \in Session /\ Linked(e, transport) /\ Tracked(e, transport)
      /\ Tied(e, transport, hist) /\ SyncedWith(e, transport)
  BY EnteredTied
<1>2. session \in Session /\ Found(session, e, transport, now)
  BY EnteredSInv DEF HInv
<1>3. /\ ~NewGeneration(session, transport) /\ ~e.zero_active /\ e.state # "kFaulted"
      /\ e.feedback_seen
  BY DEF MayReset, FeedbackIsFresh
<1> HIDE DEF e
<1>4. e.estop
  BY <1>2, <1>3, ObserveFields DEF Found
<1>5. e.state = "kEmergencyStopLatched"
  BY <1>1, <1>3, <1>4 DEF Tracked, Linked, SyncedWith
<1>6. Told(e, hist)
  BY <1>1 DEF Tied
<1> QED BY <1>3, <1>4, <1>5, <1>6 DEF e

LEMMA ResetTied ==
  ASSUME HInv, NEW token \in Token, NEW now \in Time, ResetH(token, now)
  PROVE  Tied(session', transport, hist')
<1> DEFINE e == Entered(now)
           v == RevokeAuthorization(e)
           c == ClearMotionIntent(v)
           r == [c EXCEPT !.highest_reset = token, !.estop = FALSE,
                          !.state = "kConnectedInhibited"]
<1>1. /\ session \in Session /\ e \in Session /\ hist \in History
      /\ Linked(e, transport) /\ Tracked(e, transport) /\ Tied(e, transport, hist)
      /\ ~TimeValid(session, now) =>
           ~Authorized(e) /\ (SyncedWith(e, transport) => ~e.feedback_seen)
      /\ ~Goes(now) => ~Authorized(e)
      /\ Goes(now) => SyncedWith(e, transport) /\ TimeValid(session, now)
  BY EnteredTied
<1>2. Goes(now) => Found(session, e, transport, now)
  BY EnteredSInv DEF HInv
<1>3. session' = IF ~session.estop THEN session
                 ELSE IF Goes(now) /\ MayReset(e, token, now) THEN r ELSE e
  BY DEF ResetH, ResetEmergencyStop
<1>4. hist' = IF session.estop THEN Timed(Revoked(hist), now) ELSE hist
  BY DEF ResetH
<1>5. CASE ~session.estop
  BY <1>3, <1>4, <1>5 DEF HInv
<1>6. CASE session.estop /\ ~(Goes(now) /\ MayReset(e, token, now))
  <2>1. session' = e
    BY <1>3, <1>6
  <2> HIDE DEF e
  <2>2. ~Authorized(e)
    <3>1. CASE ~Goes(now)
      BY <1>1, <3>1
    <3>2. CASE Goes(now) /\ NewGeneration(session, transport)
      BY <1>1, <1>2, <3>2 DEF Found, Tracked
    <3>3. CASE Goes(now) /\ ~NewGeneration(session, transport)
      <4>1. e.estop
        BY <1>1, <1>2, <1>6, <3>3, ObserveFields DEF Found
      <4> QED BY <4>1 DEF Authorized
    <3> QED BY <3>1, <3>2, <3>3
  <2>3. Tied(e, transport, Revoked(hist))
    BY <1>1, <2>2, TiedRevoked
  <2> QED BY <1>1, <1>4, <1>6, <2>1, <2>3, TimedTied
<1>7. CASE session.estop /\ Goes(now) /\ MayReset(e, token, now)
  <2>1. session' = r
    BY <1>3, <1>7
  <2>2. /\ e.estop /\ e.state = "kEmergencyStopLatched" /\ e.feedback_seen
        /\ Told(e, hist) /\ ~e.zero_active
    BY <1>7, ReleaseFound
  <2>3. hist' = Revoked(hist)
    BY <1>1, <1>4, <1>7 DEF Timed
  <2> HIDE DEF e
  <2>4. /\ v \in Session /\ v.connection_known = e.connection_known
        /\ v.connection_generation = e.connection_generation
        /\ v.zero_active = e.zero_active /\ ~v.authorization_active
        /\ v.feedback_seen = e.feedback_seen
    BY <1>1, RevokeFields
  <2> HIDE DEF v
  <2>5. /\ c \in Session /\ c.connection_known = v.connection_known
        /\ c.connection_generation = v.connection_generation
        /\ c.zero_active = v.zero_active /\ c.authorization_active = v.authorization_active
        /\ c.feedback_seen = v.feedback_seen /\ ~c.command.valid /\ c.fresh = 0
    BY <2>4, ClearFields
  <2> HIDE DEF c
  <2>6. token \in Nat
    BY InputsAssumption
  <2>7. r \in Session
    BY <2>5, <2>6 DEF Session, SessionState
  <2>8. /\ r.state = "kConnectedInhibited" /\ ~r.estop
        /\ r.connection_known = c.connection_known
        /\ r.connection_generation = c.connection_generation
        /\ r.zero_active = c.zero_active /\ r.authorization_active = c.authorization_active
        /\ r.feedback_seen = c.feedback_seen /\ r.command = c.command /\ r.fresh = c.fresh
    BY <2>5 DEF Session
  <2> HIDE DEF r
  <2>9. ~Authorized(r)
    BY <2>4, <2>5, <2>8 DEF Authorized
  <2>10. Forgets(e, r)
    BY <2>2, <2>4, <2>5, <2>8, <2>9 DEF Forgets, Held
  <2>11. SyncedWith(r, transport)
    BY <1>1, <1>7, <2>4, <2>5, <2>8 DEF SyncedWith
  <2>12. Tied(r, transport, hist)
    BY <1>1, <1>7, <2>10, <2>11, TiedForgets
  <2> QED BY <2>1, <2>3, <2>7, <2>9, <2>12, TiedRevoked
<1> QED BY <1>5, <1>6, <1>7

\* An accepted command counts as many in a row as the session counts.
LEMMA AcceptTied ==
  ASSUME NEW u \in Session, NEW t, NEW h, NEW c \in Command, NEW now \in Time,
         Tied(u, t, h), SyncedWith(u, t), Authorized(u), ~u.zero_active
  PROVE  LET r == Accept(u, c, now) IN
         /\ Tied(r, t, Counted(h, now))
         /\ r.command.valid /\ r.command.sequence = c.sequence
<1> DEFINE kept == IF u.command.valid /\ PreviousIsStale(u, now)
                   THEN ClearMotionIntent(u) ELSE u
           n == Smaller(kept.fresh + 1, FreshCommandsRequired)
           slot == [valid |-> TRUE, sequence |-> c.sequence, created |-> c.created,
                    deadline |-> c.deadline, receipt |-> now]
           r == [kept EXCEPT !.command = slot, !.fresh = n,
                             !.state = IF n >= FreshCommandsRequired
                                       THEN "kActive" ELSE "kRecovering"]
           g == Counted(h, now)
<1>1. Told(u, h) /\ h \in History /\ Held(u)
  BY DEF Tied
<1>2. r = Accept(u, c, now)
  BY DEF Accept
<1>3. /\ kept \in Session /\ kept.connection_known = u.connection_known
      /\ kept.connection_generation = u.connection_generation
      /\ kept.zero_active = u.zero_active /\ kept.estop = u.estop
      /\ kept.configuration_valid = u.configuration_valid
      /\ kept.feedback_seen = u.feedback_seen /\ Authorized(kept)
      /\ kept.fresh = IF u.command.valid /\ PreviousIsStale(u, now) THEN 0 ELSE u.fresh
  BY ClearFields
<1>4. /\ u.fresh \in Nat /\ kept.fresh \in Nat /\ FreshCommandsRequired \in Nat
      /\ h.run \in Nat /\ h.receipt \in Int /\ MaxCommandAge \in Int /\ now \in Int
      /\ h.failed_zeros \in Nat
  BY <1>1, <1>3, DurationsAssumption, TimeFacts DEF Session, History
<1>5. n \in Nat /\ n <= kept.fresh + 1
  BY <1>4 DEF Smaller
<1> HIDE DEF kept, n, slot
<1>6. /\ r.command = slot /\ r.fresh = n /\ r.state \in {"kActive", "kRecovering"}
      /\ r.connection_known = kept.connection_known
      /\ r.connection_generation = kept.connection_generation
      /\ r.zero_active = kept.zero_active /\ r.feedback_seen = kept.feedback_seen
      /\ Authorized(r)
  BY <1>3 DEF Session, Authorized
<1>7. slot.valid /\ slot.sequence = c.sequence /\ slot.receipt = now
  BY DEF slot
<1> HIDE DEF r
<1>8. /\ g.run = IF h.run > 0 /\ now - h.receipt > MaxCommandAge THEN 1 ELSE h.run + 1
      /\ g.receipt = now /\ g.armed = h.armed /\ g.zeroed = h.zeroed /\ g.allowed = h.allowed
      /\ g.failed_zeros = h.failed_zeros
  BY <1>1 DEF Counted, History
<1>9. g \in History
  <2> DEFINE m == IF h.run > 0 /\ now - h.receipt > MaxCommandAge THEN 1 ELSE h.run + 1
  <2>1. m \in Nat
    BY <1>4
  <2>2. g = [h EXCEPT !.run = m, !.receipt = now]
    BY DEF Counted
  <2> HIDE DEF m
  <2> QED BY <1>1, <2>1, <2>2 DEF History
<1> HIDE DEF g
<1>10. g.run >= n
  <2>1. CASE ~u.command.valid
    <3>1. kept.fresh = 0
      BY <1>1, <1>3, <2>1 DEF Held
    <3> QED BY <1>4, <1>5, <1>8, <3>1
  <2>2. CASE u.command.valid
    <3>1. h.run >= u.fresh /\ h.receipt = u.command.receipt
      BY <1>1, <2>2 DEF Told
    <3>2. CASE now - h.receipt > MaxCommandAge
      <4>1. kept.fresh = 0
        BY <1>3, <2>2, <3>1, <3>2 DEF PreviousIsStale
      <4> QED BY <1>4, <1>5, <1>8, <4>1
    <3>3. CASE ~(now - h.receipt > MaxCommandAge)
      <4>1. g.run = h.run + 1 /\ kept.fresh <= u.fresh
        BY <1>3, <1>4, <1>8, <3>3
      <4> QED BY <1>4, <1>5, <3>1, <4>1
    <3> QED BY <3>2, <3>3
  <2> QED BY <2>1, <2>2
<1>11. Held(r)
  BY <1>3, <1>6, <1>7 DEF Held
<1>12. SyncedWith(r, t)
  BY <1>3, <1>6 DEF SyncedWith
<1>13. Told(r, g)
  <2>1. ~u.zero_active /\ u.state # "kFaulted"
    BY DEF Authorized
  <2>2. /\ h.failed_zeros = 0 /\ h.zeroed /\ h.armed /\ (u.feedback_seen => h.allowed)
    BY <1>1, <2>1 DEF Told
  <2>3. ~r.zero_active /\ r.state # "kEmergencyStopLatched"
    BY <1>3, <1>6
  <2>4. /\ r.feedback_seen = u.feedback_seen /\ r.command.receipt = now
        /\ r.fresh = n
    BY <1>3, <1>6, <1>7
  <2> QED BY <1>8, <1>10, <2>2, <2>3, <2>4 DEF Told
<1>14. Tied(r, t, g)
  BY <1>8, <1>9, <1>11, <1>12, <1>13 DEF Tied
<1> QED BY <1>2, <1>6, <1>7, <1>14 DEF g

LEMMA SubmitTied ==
  ASSUME HInv, NEW c \in Command, NEW now \in Time, SubmitH(c, now)
  PROVE  Tied(session', transport, hist')
<1> DEFINE e == Entered(now)
           u == Consume(e, c)
           status == SubmissionStatus(e, c, now)
<1>1. /\ session \in Session /\ e \in Session /\ hist \in History
      /\ Linked(e, transport) /\ Tied(e, transport, hist)
      /\ ~TimeValid(session, now) =>
           ~Authorized(e) /\ (SyncedWith(e, transport) => ~e.feedback_seen)
      /\ ~Goes(now) => ~e.command.valid
      /\ Goes(now) => SyncedWith(e, transport) /\ TimeValid(session, now)
  BY EnteredTied
<1>2. /\ hist' = IF session'.command.valid /\ session'.command.sequence = c.sequence
                 THEN Counted(hist, now)
                 ELSE IF Rejected(c, now) THEN Revoked(hist) ELSE Timed(Stopped(hist), now)
      /\ session' = IF Goes(now) THEN Submitted(e, c, now) ELSE e
      /\ Rejected(c, now) => Goes(now) /\ status \in {"kSequenceInvalid", "kTimestampInvalid",
                                                     "kEncodingRejected"}
  BY DEF SubmitH, Submit, Rejected
<1>3. /\ u \in Session /\ Linked(u, transport) /\ u.state = e.state
      /\ u.connection_known = e.connection_known
      /\ u.connection_generation = e.connection_generation
      /\ u.zero_active = e.zero_active /\ u.zero_attempts = e.zero_attempts
      /\ u.estop = e.estop /\ Authorized(u) = Authorized(e)
      /\ u.feedback_seen = e.feedback_seen /\ u.command = e.command /\ u.fresh = e.fresh
  <2> HIDE DEF e
  <2>1. /\ u \in Session /\ Linked(u, transport) /\ u.state = e.state
        /\ u.zero_active = e.zero_active /\ Authorized(u) = Authorized(e)
        /\ u.command = e.command
    BY <1>1, ConsumeLinked
  <2> QED BY <1>1, <2>1 DEF Consume, Session
<1>4. status \in {"kEmergencyStopLatched", "kFaulted", "kSequenceInvalid",
                  "kTimestampInvalid", "kStale", "kNotAuthorized",
                  "kPredatesAuthorization", "kEncodingRejected", "kStopAccepted",
                  "kFeedbackUnavailable", "kAccepted"}
  BY DEF SubmissionStatus
\* A refused command leaves no command behind.
<1>5. ASSUME session' \in Session, Tied(session', transport, hist), ~session'.command.valid,
             ~TimeValid(session, now) => session' = e,
             Rejected(c, now) => ~Authorized(session')
      PROVE  Tied(session', transport, hist')
  <2>1. CASE Rejected(c, now)
    <3>1. hist' = Revoked(hist)
      BY <1>2, <1>5, <2>1
    <3> QED BY <1>5, <2>1, <3>1, TiedRevoked
  <2>2. CASE ~Rejected(c, now)
    <3>1. hist' = Timed(Stopped(hist), now)
      BY <1>2, <1>5, <2>2
    <3>2. Tied(session', transport, Stopped(hist))
      BY <1>5, TiedStopped
    <3> QED BY <1>1, <1>5, <3>1, <3>2, TimedTied
  <2> QED BY <2>1, <2>2
<1> HIDE DEF e, u, status
<1>6. CASE ~Goes(now)
  BY <1>1, <1>2, <1>5, <1>6
<1>7. CASE Goes(now)
  <2>1. session' = Submitted(e, c, now) /\ SyncedWith(e, transport) /\ TimeValid(session, now)
    BY <1>1, <1>2, <1>7
  <2>2. SyncedWith(u, transport)
    BY <1>3, <2>1 DEF SyncedWith
  <2>3. Tied(u, transport, hist)
    <3>1. Forgets(e, u)
      BY <1>1, <1>3 DEF Forgets, Held, Tied
    <3> QED BY <1>1, <2>1, <2>2, <3>1, TiedForgets
  <2>4. "kConnectedInhibited" \in AfterZero /\ "kRecovering" \in AfterZero
    BY DEF AfterZero
  <2>5. CASE status \in {"kEmergencyStopLatched", "kFaulted"}
    <3>1. session' = e
      BY <2>1, <2>5 DEF Submitted, status
    <3>2. e.estop \/ e.state = "kFaulted"
      BY <2>5 DEF SubmissionStatus, status
    <3>3. ~e.command.valid
      BY <1>1, <3>2 DEF Tied, Held, Authorized
    <3> QED BY <1>1, <1>2, <1>5, <2>1, <2>5, <3>1, <3>3
  <2>6. CASE status = "kSequenceInvalid"
    <3>1. session' = RevokeWithZero(e, transport, "kConnectedInhibited", now)
      BY <2>1, <2>6 DEF Submitted, status
    <3> QED BY <1>1, <1>5, <2>1, <2>4, <3>1, RevokeTied
  <2>7. CASE status \in {"kTimestampInvalid", "kEncodingRejected"}
    <3>1. session' = RevokeWithZero(u, transport, "kConnectedInhibited", now)
      BY <2>1, <2>7 DEF Submitted, status, u
    <3> QED BY <1>3, <1>5, <2>1, <2>2, <2>3, <2>4, <3>1, RevokeTied
  <2>8. CASE status = "kStale"
    <3>1. session' = StopWithZero(u, transport,
                       IF Authorized(e) THEN "kRecovering" ELSE "kConnectedInhibited", now)
      BY <2>1, <2>8 DEF Submitted, status, u
    <3> QED BY <1>2, <1>3, <1>5, <2>1, <2>2, <2>3, <2>4, <2>8, <3>1, StopTied
  <2>9. CASE status \in {"kPredatesAuthorization", "kStopAccepted", "kFeedbackUnavailable"}
    <3>1. session' = StopWithZero(u, transport, "kRecovering", now)
      BY <2>1, <2>9 DEF Submitted, status, u
    <3> QED BY <1>2, <1>3, <1>5, <2>1, <2>2, <2>3, <2>4, <2>9, <3>1, StopTied
  <2>10. CASE status = "kNotAuthorized"
    <3> DEFINE r == ClearMotionIntent(u)
    <3>1. session' = r
      BY <2>1, <2>10 DEF Submitted, status, u
    <3>2. /\ r \in Session /\ r.state = u.state
          /\ r.connection_known = u.connection_known
          /\ r.connection_generation = u.connection_generation
          /\ r.zero_active = u.zero_active /\ r.zero_attempts = u.zero_attempts
          /\ r.estop = u.estop /\ Authorized(r) = Authorized(u)
          /\ ~r.command.valid /\ r.fresh = 0 /\ r.feedback_seen = u.feedback_seen
      BY <1>3, ClearFields
    <3> HIDE DEF r
    <3>3. SyncedWith(r, transport) /\ Forgets(u, r)
      BY <2>2, <3>2 DEF SyncedWith, Forgets, Held
    <3>4. Tied(r, transport, hist)
      BY <2>2, <2>3, <3>3, TiedForgets
    <3> QED BY <1>2, <1>5, <2>1, <2>10, <3>1, <3>2, <3>4
  <2>11. CASE status = "kAccepted"
    <3>1. session' = Accept(u, c, now)
      BY <2>1, <2>11 DEF Submitted, status, u
    <3>2. Authorized(u) /\ ~u.zero_active
      BY <1>3, <2>11 DEF SubmissionStatus, status
    <3>3. /\ Tied(session', transport, Counted(hist, now))
          /\ session'.command.valid /\ session'.command.sequence = c.sequence
      BY <1>3, <2>2, <2>3, <3>1, <3>2, AcceptTied
    <3> QED BY <1>2, <3>3
  <2> QED BY <1>4, <2>5, <2>6, <2>7, <2>8, <2>9, <2>10, <2>11
<1> QED BY <1>6, <1>7

-----------------------------------------------------------------------------
(* tick *)

\* What a zero write that left, or failed, does to the history.
ZeroLeft(h) ==
  [Stopped(h) EXCEPT !.zeroed = TRUE, !.latch_zeroed = TRUE, !.failed_zeros = 0]
ZeroFailed(h) == [Stopped(h) EXCEPT !.failed_zeros = h.failed_zeros + 1]

LEMMA ZeroHistory ==
  ASSUME NEW h \in History
  PROVE  /\ ZeroLeft(h) \in History /\ ZeroFailed(h) \in History
         /\ ZeroLeft(h).zeroed /\ ZeroLeft(h).latch_zeroed /\ ZeroLeft(h).failed_zeros = 0
         /\ ZeroLeft(h).armed = h.armed /\ ZeroLeft(h).allowed = h.allowed
         /\ ZeroFailed(h).failed_zeros = h.failed_zeros + 1
         /\ ZeroFailed(h).armed = h.armed /\ ZeroFailed(h).allowed = h.allowed
<1> DEFINE s == Stopped(h)
<1>1. s \in History /\ s.armed = h.armed /\ s.allowed = h.allowed
  BY HistoryTypes, StoppedFields
<1>2. h.failed_zeros + 1 \in Nat
  BY DEF History
<1>3. /\ ZeroLeft(h) = [s EXCEPT !.zeroed = TRUE, !.latch_zeroed = TRUE, !.failed_zeros = 0]
      /\ ZeroFailed(h) = [s EXCEPT !.failed_zeros = h.failed_zeros + 1]
  BY DEF ZeroLeft, ZeroFailed
<1> HIDE DEF s
<1>4. /\ ZeroLeft(h) \in History /\ ZeroLeft(h).zeroed /\ ZeroLeft(h).latch_zeroed
      /\ ZeroLeft(h).failed_zeros = 0
  <2>1. ZeroLeft(h) \in History
    <3> DEFINE a == [s EXCEPT !.zeroed = TRUE, !.latch_zeroed = TRUE]
    <3>1. a \in History
      BY <1>1 DEF History
    <3>2. ZeroLeft(h) = [a EXCEPT !.failed_zeros = 0]
      BY <1>1, <1>3 DEF History
    <3> HIDE DEF a
    <3> QED BY <3>1, <3>2 DEF History
  <2>2. ZeroLeft(h).zeroed = TRUE
    BY <1>1, <1>3 DEF History
  <2>3. ZeroLeft(h).latch_zeroed = TRUE
    BY <1>1, <1>3 DEF History
  <2>4. ZeroLeft(h).failed_zeros = 0
    BY <1>1, <1>3 DEF History
  <2> QED BY <2>1, <2>2, <2>3, <2>4
<1>5. ZeroLeft(h).armed = s.armed /\ ZeroLeft(h).allowed = s.allowed
  BY <1>1, <1>3 DEF History
<1>6. ZeroFailed(h) \in History /\ ZeroFailed(h).failed_zeros = h.failed_zeros + 1
  BY <1>1, <1>2, <1>3 DEF History
<1>7. ZeroFailed(h).armed = s.armed /\ ZeroFailed(h).allowed = s.allowed
  BY <1>1, <1>3 DEF History
<1> QED BY <1>1, <1>4, <1>5, <1>6, <1>7

\* What a tick that found the history m leaves of it.
TickHistory(m) ==
  IF ~transport'.connected THEN NewLine(m)
  ELSE IF ~cycle'.zero_write_attempted THEN m
  ELSE IF cycle'.action = "kZeroHostWriteComplete" THEN ZeroLeft(m) ELSE ZeroFailed(m)

LEMMA TickRecords ==
  ASSUME NEW now, TickH(now)
  PROVE  /\ cycle'.motion_write_attempted /\ cycle'.action # "kMotionHostWriteComplete"
              => hist' = TickHistory(FrameSeen(Revoked(hist)))
         /\ ~(cycle'.motion_write_attempted /\ cycle'.action # "kMotionHostWriteComplete")
              => hist' = TickHistory(FrameSeen(Timed(hist, now)))
BY DEF TickH, TickHistory, ZeroLeft, ZeroFailed

LEMMA SeenType ==
  ASSUME NEW h \in History, cycle'.motion_completion \in Time
  PROVE  FrameSeen(h) \in History
<1> DEFINE late == cycle'.action # "kMotionHostWriteComplete"
<1>1. late \in BOOLEAN
  OBVIOUS
<1>2. \/ FrameSeen(h) = h
      \/ FrameSeen(h) = [h EXCEPT !.moved = cycle'.motion_completion, !.late = late]
  BY DEF FrameSeen
<1> HIDE DEF late
<1> QED BY <1>1, <1>2 DEF History

\* The frame a tick left on the line ties the session to nothing new.
LEMMA TiedSeen ==
  ASSUME NEW s, NEW t, NEW h, Tied(s, t, h), cycle'.motion_completion \in Time
  PROVE  Tied(s, t, FrameSeen(h))
<1> DEFINE late == cycle'.action # "kMotionHostWriteComplete"
           g == [h EXCEPT !.moved = cycle'.motion_completion, !.late = late]
<1>1. h \in History /\ late \in BOOLEAN
  BY DEF Tied
<1>2. FrameSeen(h) = h \/ FrameSeen(h) = g
  BY DEF FrameSeen
<1> HIDE DEF late
<1>3. g \in History
  BY <1>1 DEF History
<1>4. /\ g.armed = h.armed /\ g.run = h.run /\ g.receipt = h.receipt /\ g.zeroed = h.zeroed
      /\ g.latch_zeroed = h.latch_zeroed /\ g.allowed = h.allowed
      /\ g.failed_zeros = h.failed_zeros
  BY <1>1 DEF History
<1> HIDE DEF g
<1>5. Tied(s, t, g)
  BY <1>3, <1>4 DEF Tied, Told
<1> QED BY <1>2, <1>5

LEMMA CompletionTime ==
  ASSUME HInv, NEW now \in Time, Tick(now)
  PROVE  cycle'.motion_completion \in Time
<1>1. TypeOK'
  <2>1. Next
    BY DEF Next
  <2> QED BY <2>1, NextGood DEF HInv, SInv, IInv
<1>2. cycle' \in Cycle \/ cycle' = NoCycle
  BY <1>1 DEF TypeOK
<1> QED BY <1>2, TimeFacts DEF Cycle, NoCycle

\* The zero write answers: what the session learns of it is what its owner does.
LEMMA AttemptTied ==
  ASSUME NEW s \in Session, Coherent(s, transport), s.zero_active,
         SyncedWith(s, transport), transport \in Transport, NEW now \in Time,
         NEW result \in Cycle, ~result.zero_write_attempted,
         NEW w, AttemptZero(s, now, result, w), NEW m, Tied(s, transport, m)
  PROVE  /\ Tied(session', transport', TickHistory(m))
         /\ cycle'.motion_write_attempted = result.motion_write_attempted
         /\ cycle'.action # "kMotionHostWriteComplete"
         /\ session'.estop = s.estop
<1>1. /\ s.zero_attempts \in Nat /\ s.zero_attempts < MaximumZeroAttempts
      /\ s.last_observed \in Time /\ s.after_zero \in AfterZero
      /\ s.configuration_valid /\ s.state = "kStopPending" /\ s.connection_known
      /\ transport.connected
  BY DurationsAssumption DEF Session, Coherent, Linked, SyncedWith
<1>2. Told(s, m) /\ m \in History /\ Held(s) /\ m.failed_zeros = s.zero_attempts
  BY DEF Tied, Told
<1>3. ~s.command.valid /\ s.fresh = 0
  BY <1>2 DEF Held
<1>4. CASE /\ session' = s
           /\ cycle' = [result EXCEPT !.action = "kZeroRetryPending"]
           /\ UNCHANGED transport
  <2>1. /\ cycle'.action = "kZeroRetryPending"
        /\ cycle'.motion_write_attempted = result.motion_write_attempted
        /\ ~cycle'.zero_write_attempted
    BY <1>4 DEF Cycle
  <2>2. TickHistory(m) = m
    BY <1>1, <1>4, <2>1 DEF TickHistory
  <2> QED BY <1>4, <2>1, <2>2
<1>5. ASSUME NEW r \in WriteResults(transport.access, now, BoundedWriteDeadline(now, Int64Max)),
             session' = AfterZeroWrite(s, transport, now, r),
             transport' = TransportAfter(transport, r),
             cycle' = [result EXCEPT !.action = ZeroAction(s, transport, r),
                                     !.zero_write_attempted = TRUE]
      PROVE  /\ Tied(session', transport', TickHistory(m))
             /\ cycle'.motion_write_attempted = result.motion_write_attempted
             /\ cycle'.action # "kMotionHostWriteComplete"
             /\ session'.estop = s.estop
  <2> DEFINE counted == CountZeroAttempt(s, r)
             u == TransportAfter(transport, r)
             v == AfterZeroWrite(s, transport, now, r)
  <2>1. r.completion \in Time
    BY ClockAssumption, TimeFacts, DeadlineTime, WriteResultsType
  <2>2. s.zero_attempts + 1 \in 0..MaximumZeroAttempts
    BY <1>1, DurationsAssumption
  <2>3. counted \in Session
    BY <1>1, <2>1, <2>2, LargerTime DEF Session, CountZeroAttempt
  <2>4. /\ counted.configuration_valid /\ counted.state = "kStopPending"
        /\ counted.estop = s.estop /\ counted.connection_known
        /\ counted.connection_generation = s.connection_generation
        /\ counted.zero_active /\ counted.after_zero = s.after_zero
        /\ counted.zero_attempts = s.zero_attempts + 1
        /\ counted.command = s.command /\ counted.fresh = s.fresh
        /\ counted.feedback_seen = s.feedback_seen
        /\ Authorized(counted) = Authorized(s)
    BY <1>1 DEF Session, CountZeroAttempt, Authorized
  <2>5. u \in Transport /\ (u.connected => u = transport)
    BY TransportAfterFields
  <2>6. v = IF ~u.connected THEN HandleDisconnect(counted)
            ELSE IF Succeeded(r) THEN ZeroComplete(counted)
            ELSE IF counted.zero_attempts >= MaximumZeroAttempts THEN ZeroRetriesExhausted(counted)
            ELSE ScheduleZeroRetry(counted, now, r)
    BY DEF AfterZeroWrite
  <2>7. /\ cycle'.motion_write_attempted = result.motion_write_attempted
        /\ cycle'.zero_write_attempted
        /\ cycle'.action # "kMotionHostWriteComplete"
        /\ u.connected => (cycle'.action = "kZeroHostWriteComplete" <=> Succeeded(r))
    <3>1. /\ cycle'.motion_write_attempted = result.motion_write_attempted
          /\ cycle'.zero_write_attempted = TRUE
          /\ cycle'.action = ZeroAction(s, transport, r)
      BY <1>5 DEF Cycle
    <3> QED BY <3>1 DEF ZeroAction
  <2>8. session' = v /\ transport' = u
    BY <1>5
  <2> HIDE DEF counted, u, v
  <2>9. CASE ~u.connected
    <3>1. TickHistory(m) = NewLine(m)
      BY <2>8, <2>9 DEF TickHistory
    <3>2. v \in Session /\ ~v.connection_known /\ ~v.command.valid /\ v.estop = s.estop
      BY <2>3, <2>4, <2>6, <2>9, DisconnectFields
    <3>3. v.fresh = 0
      <4>1. ForgetConnection(counted) \in Session /\ ForgetConnection(counted).fresh = 0
        BY <2>3, ForgetConnectionFields, ForgetFields
      <4> QED BY <2>6, <2>9, <4>1 DEF HandleDisconnect, Session
    <3>4. Held(v) /\ ~SyncedWith(v, u)
      BY <2>9, <3>2, <3>3 DEF Held, SyncedWith
    <3>5. Tied(v, u, NewLine(m))
      BY <1>2, <2>9, <3>4, TiedNewLine
    <3> QED BY <2>7, <2>8, <3>1, <3>2, <3>5
  <2>10. CASE u.connected /\ Succeeded(r)
    <3> DEFINE ended == IF counted.estop THEN "kEmergencyStopLatched" ELSE counted.after_zero
               h == ZeroLeft(m)
    <3>1. v = [counted EXCEPT !.zero_active = FALSE, !.zero_attempts = 0,
                              !.next_zero = 0, !.state = ended]
      BY <2>6, <2>10 DEF ZeroComplete
    <3>2. TickHistory(m) = h
      BY <2>7, <2>8, <2>10 DEF TickHistory
    <3> HIDE DEF ended
    <3>3. /\ ~v.zero_active /\ v.command = counted.command /\ v.fresh = counted.fresh
          /\ v.connection_known = counted.connection_known
          /\ v.connection_generation = counted.connection_generation
          /\ v.feedback_seen = counted.feedback_seen /\ v.estop = counted.estop
      BY <2>3, <3>1 DEF Session
    <3>4. Authorized(v) => Authorized(s)
      <4>1. Authorized(v) => Authorized(counted)
        BY <2>3, <2>4, <3>1 DEF Session, Authorized
      <4> QED BY <2>4, <4>1
    <3>5. Held(v) /\ SyncedWith(v, u)
      BY <1>3, <2>4, <2>5, <2>10, <3>3 DEF Held, SyncedWith
    <3>6. /\ h \in History /\ h.zeroed /\ h.latch_zeroed /\ h.failed_zeros = 0
          /\ h.armed = m.armed /\ h.allowed = m.allowed
      BY <1>2, ZeroHistory
    <3> HIDE DEF h
    <3>7. Told(v, h)
      BY <1>2, <1>3, <2>4, <3>3, <3>4, <3>6 DEF Told
    <3>8. Tied(v, u, h)
      BY <2>5, <2>10, <3>5, <3>6, <3>7, DurationsAssumption DEF Tied
    <3> QED BY <2>4, <2>7, <2>8, <3>2, <3>3, <3>8
  <2>11. CASE u.connected /\ ~Succeeded(r)
    <3> DEFINE h == ZeroFailed(m)
    <3>1. TickHistory(m) = h
      BY <2>7, <2>8, <2>11 DEF TickHistory
    <3>2. /\ h \in History /\ h.failed_zeros = m.failed_zeros + 1
          /\ h.armed = m.armed /\ h.allowed = m.allowed
      BY <1>2, ZeroHistory
    <3>3. h.failed_zeros = s.zero_attempts + 1 /\ h.failed_zeros <= MaximumZeroAttempts
      BY <1>1, <1>2, <3>2, DurationsAssumption
    <3> HIDE DEF h
    <3>4. /\ v.command = counted.command /\ v.fresh = counted.fresh
          /\ v.connection_known = counted.connection_known
          /\ v.connection_generation = counted.connection_generation
          /\ v.feedback_seen = counted.feedback_seen /\ v.estop = counted.estop
          /\ (v.state = "kFaulted" /\ ~v.zero_active)
             \/ (v.state = "kStopPending" /\ v.zero_active
                 /\ v.zero_attempts = counted.zero_attempts)
          /\ Authorized(v) => Authorized(counted)
      <4>1. CASE counted.zero_attempts >= MaximumZeroAttempts
        <5>1. v = [counted EXCEPT !.zero_active = FALSE, !.state = "kFaulted"]
          BY <2>6, <2>11, <4>1 DEF ZeroRetriesExhausted
        <5> QED BY <2>3, <5>1 DEF Session, Authorized
      <4>2. CASE ~(counted.zero_attempts >= MaximumZeroAttempts)
        <5>1. v = ScheduleZeroRetry(counted, now, r)
          BY <2>6, <2>11, <4>2
        <5> QED BY <2>3, <2>4, <5>1 DEF Session, ScheduleZeroRetry, Authorized
      <4> QED BY <4>1, <4>2
    <3>5. Held(v) /\ SyncedWith(v, u)
      BY <1>3, <2>4, <2>5, <2>11, <3>4 DEF Held, SyncedWith
    <3>6. Told(v, h)
      BY <1>2, <1>3, <2>4, <3>2, <3>3, <3>4 DEF Told
    <3>7. Tied(v, u, h)
      BY <2>5, <2>11, <3>2, <3>3, <3>5, <3>6 DEF Tied
    <3> QED BY <2>4, <2>7, <2>8, <3>1, <3>4, <3>7
  <2> QED BY <2>9, <2>10, <2>11
<1> QED BY <1>4, <1>5 DEF AttemptZero

\* A tick that only tries to stop.
LEMMA AttemptAloneTied ==
  ASSUME HInv, NEW s \in Session, Coherent(s, transport), s.zero_active,
         SyncedWith(s, transport), transport \in Transport, NEW now \in Time,
         TimeValid(session, now), TickH(now), NEW w,
         AttemptZero(s, now, Quiet("kNoAction"), w), Tied(s, transport, hist)
  PROVE  Tied(session', transport', hist') /\ ~cycle'.motion_write_attempted
<1>1. /\ Quiet("kNoAction") \in Cycle /\ ~Quiet("kNoAction").motion_write_attempted
      /\ ~Quiet("kNoAction").zero_write_attempted
  BY QuietType, QuietFields DEF CycleAction
<1>2. Tied(s, transport, FrameSeen(hist))
  BY CompletionTime, TiedSeen DEF TickH
<1>3. /\ Tied(session', transport', TickHistory(FrameSeen(hist)))
      /\ ~cycle'.motion_write_attempted
  BY <1>1, <1>2, AttemptTied
<1>4. hist' = TickHistory(FrameSeen(hist))
  BY <1>3, TickRecords DEF Timed
<1> QED BY <1>3, <1>4

LEMMA TickStopsTied ==
  ASSUME HInv, NEW now \in Time, TickH(now), TickStops(now)
  PROVE  Tied(session', transport', hist')
<1> DEFINE e == Entered(now)
<1>1. /\ e \in Session /\ hist \in History /\ Tied(e, transport, hist)
      /\ ~TimeValid(session, now) =>
           ~Authorized(e) /\ (SyncedWith(e, transport) => ~e.feedback_seen)
  BY EnteredTied
<1>2. session' = e /\ transport' = transport
  BY DEF TickStops
<1>3. ~cycle'.motion_write_attempted /\ ~cycle'.zero_write_attempted
  BY QuietFields DEF TickStops
<1> DEFINE g == FrameSeen(Timed(hist, now))
<1>4. hist' = TickHistory(g)
  BY <1>3, TickRecords
<1> HIDE DEF e
<1>5. Tied(e, transport, g)
  <2>1. Tied(e, transport, Timed(hist, now))
    BY <1>1, TimedTied
  <2> QED BY <2>1, CompletionTime, TiedSeen DEF TickH
<1> HIDE DEF g
<1>6. CASE transport.connected
  BY <1>2, <1>3, <1>4, <1>5, <1>6 DEF TickHistory
<1>7. CASE ~transport.connected
  <2>1. hist' = NewLine(g)
    BY <1>2, <1>4, <1>7 DEF TickHistory
  <2>2. g \in History /\ Held(e) /\ ~SyncedWith(e, transport)
    BY <1>5, <1>7 DEF Tied, SyncedWith
  <2> QED BY <1>2, <1>7, <2>1, <2>2, TiedNewLine
<1> QED BY <1>6, <1>7

\* A tick that writes nothing and leaves the session as it was entered.
LEMMA TickWaitsTied ==
  ASSUME HInv, NEW now \in Time, TickH(now), Goes(now), session' = Entered(now),
         transport' = transport, ~cycle'.motion_write_attempted, ~cycle'.zero_write_attempted
  PROVE  Tied(session', transport', hist')
<1>1. Tied(Entered(now), transport, hist) /\ TimeValid(session, now) /\ transport.connected
  BY EnteredTied
<1>2. hist' = TickHistory(FrameSeen(Timed(hist, now)))
  BY TickRecords
<1>3. hist' = FrameSeen(hist)
  BY <1>1, <1>2 DEF TickHistory, Timed
<1> QED BY <1>1, <1>3, CompletionTime, TiedSeen DEF TickH

LEMMA TickIdleTied ==
  ASSUME HInv, NEW now \in Time, TickH(now), TickIdle(now)
  PROVE  Tied(session', transport', hist')
<1> DEFINE e == Entered(now)
<1>1. /\ e \in Session /\ Tracked(e, transport) /\ Linked(e, transport)
      /\ SyncedWith(e, transport) /\ Goes(now)
  BY EnteredTied DEF TickIdle
<1>2. /\ ~e.zero_active /\ transport' = transport
      /\ session' = IF e.state # "kFaulted" /\ e.estop
                    THEN [e EXCEPT !.state = "kEmergencyStopLatched"] ELSE e
  BY DEF TickIdle
<1>3. ~cycle'.motion_write_attempted /\ ~cycle'.zero_write_attempted
  <2>1. cycle' = Quiet("kNoAction")
    BY DEF TickIdle
  <2> QED BY <2>1, QuietFields
<1> HIDE DEF e
<1>4. session' = e
  <2>1. CASE e.state # "kFaulted" /\ e.estop
    <3>1. e.state = "kEmergencyStopLatched"
      BY <1>1, <1>2, <2>1 DEF Tracked, Linked, SyncedWith
    <3> QED BY <1>1, <1>2, <3>1 DEF Session
  <2> QED BY <1>2, <2>1
<1> QED BY <1>1, <1>2, <1>3, <1>4, TickWaitsTied DEF e

LEMMA TickRateLimitedTied ==
  ASSUME HInv, NEW now \in Time, TickH(now), TickRateLimited(now)
  PROVE  Tied(session', transport', hist')
<1>1. ~cycle'.motion_write_attempted /\ ~cycle'.zero_write_attempted
  BY QuietFields DEF TickRateLimited
<1> QED BY <1>1, TickWaitsTied DEF TickRateLimited

LEMMA TickZeroTied ==
  ASSUME HInv, NEW now \in Time, TickH(now), TickZero(now)
  PROVE  Tied(session', transport', hist') /\ ~cycle'.motion_write_attempted
<1> DEFINE e == Entered(now)
<1>1. Goes(now) /\ e.zero_active /\ AttemptZero(e, now, Quiet("kNoAction"), wire)
  BY DEF TickZero
<1>2. /\ e \in Session /\ transport \in Transport /\ Tied(e, transport, hist)
      /\ SyncedWith(e, transport) /\ TimeValid(session, now)
  BY <1>1, EnteredTied
<1>3. Coherent(e, transport)
  BY EnteredSInv DEF HInv, Good
<1> HIDE DEF e
<1> QED BY <1>1, <1>2, <1>3, AttemptAloneTied

LEMMA TickExpiredTied ==
  ASSUME HInv, NEW now \in Time, TickH(now), TickExpired(now)
  PROVE  Tied(session', transport', hist') /\ ~cycle'.motion_write_attempted
<1> DEFINE e == Entered(now)
           after == IF Authorized(e) THEN "kRecovering" ELSE "kConnectedInhibited"
           s == StopWithZero(e, transport, after, now)
<1>1. Goes(now) /\ e.state = "kActive" /\ AttemptZero(s, now, Quiet("kNoAction"), wire)
  BY DEF TickExpired, ActiveAt
<1>2. /\ e \in Session /\ transport \in Transport /\ Tied(e, transport, hist)
      /\ Linked(e, transport) /\ SyncedWith(e, transport) /\ TimeValid(session, now)
  BY <1>1, EnteredTied
<1>3. after \in AfterZero
  BY DEF AfterZero
<1> HIDE DEF e, after
<1>4. Coherent(s, transport)
  BY <1>2, <1>3, StopWithZeroGood DEF Good
<1>5. /\ s \in Session /\ SyncedWith(s, transport) /\ Tied(s, transport, hist) /\ s.zero_active
  BY <1>1, <1>2, <1>3, StopTied
<1> HIDE DEF s
<1> QED BY <1>1, <1>2, <1>4, <1>5, AttemptAloneTied

\* A session that may send a motion has earned it.
LEMMA SendEarned ==
  ASSUME HInv, NEW now \in Time, Goes(now), MaySend(Entered(now), now)
  PROVE  /\ hist.zeroed /\ hist.armed /\ hist.allowed
         /\ hist.run >= FreshCommandsRequired
<1> DEFINE e == Entered(now)
<1>1. /\ e.state = "kActive" /\ ~e.zero_active /\ Authorized(e) /\ e.feedback_seen
  BY DEF MaySend, ActiveAt, WatchdogsHold, FeedbackIsFresh
<1>2. /\ Tied(e, transport, hist) /\ SyncedWith(e, transport) /\ hist \in History
  BY EnteredTied
<1>3. ActiveOK(e, transport)
  BY EnteredSInv DEF HInv, Good
<1> HIDE DEF e
<1>4. e.command.valid /\ e.fresh = FreshCommandsRequired
  BY <1>1, <1>2, <1>3 DEF ActiveOK
<1> QED BY <1>1, <1>2, <1>4 DEF Tied, Told

LEMMA TickMotionTied ==
  ASSUME HInv, NEW now \in Time, TickH(now), TickMotion(now)
  PROVE  Tied(session', transport', hist')
<1> DEFINE e == Entered(now)
           v == RevokeAuthorization(e)
           revoked == ClearMotionIntent(v)
<1>1. Goes(now) /\ e.state = "kActive" /\ ~e.zero_active
  BY DEF TickMotion, MaySend, ActiveAt
<1>2. /\ e \in Session /\ transport \in Transport /\ Tied(e, transport, hist)
      /\ Linked(e, transport) /\ SyncedWith(e, transport) /\ TimeValid(session, now)
      /\ e.configuration_valid /\ transport.connected /\ hist \in History
  BY <1>1, EnteredTied
<1>3. e.command.deadline \in Time /\ e.last_observed \in Time
  BY <1>2 DEF Session, CommandSlot
<1>4. PICK r \in WriteResults(transport.access, now, BoundedWriteDeadline(now, e.command.deadline)):
        LET wire_after == IF r.complete THEN "motion" ELSE wire
            zero_start == Larger(now, r.completion)
        IN
        \/ /\ session' = MotionWritten(e, now, r)
           /\ cycle' = MotionTried("kMotionHostWriteComplete", r)
           /\ UNCHANGED transport
        \/ /\ session' = HandleDisconnect(revoked)
           /\ transport' = TransportAfter(transport, r)
           /\ ~TransportAfter(transport, r).connected
           /\ cycle' = MotionTried("kDisconnected", r)
        \/ AttemptZero(BeginZeroEpisode(revoked, transport, "kConnectedInhibited", zero_start),
                       zero_start, MotionTried("kNoAction", r), wire_after)
  BY DEF TickMotion
<1>5. BoundedWriteDeadline(now, e.command.deadline) \in Time
  BY <1>3, DeadlineTime
<1>6. r.completion \in Time /\ r.complete \in BOOLEAN
  BY <1>5, WriteResultsType
<1> DEFINE wire_after == IF r.complete THEN "motion" ELSE wire
           zero_start == Larger(now, r.completion)
<1>7. zero_start \in Time
  BY <1>6, LargerTime
<1>8. /\ v \in Session /\ v.state = e.state /\ v.configuration_valid = e.configuration_valid
      /\ v.estop = e.estop
      /\ v.connection_known = e.connection_known /\ v.zero_active = e.zero_active
      /\ v.connection_generation = e.connection_generation /\ ~v.authorization_active
      /\ v.zero_attempts = e.zero_attempts /\ v.feedback_seen = e.feedback_seen
      /\ Linked(v, transport) /\ SyncedWith(v, transport)
  BY <1>2, RevokeFields, RevokeLinked
<1> HIDE DEF v
<1>9. /\ revoked \in Session /\ revoked.state = v.state
      /\ revoked.configuration_valid = v.configuration_valid
      /\ revoked.estop = v.estop
      /\ revoked.connection_known = v.connection_known
      /\ revoked.zero_active = v.zero_active
      /\ revoked.connection_generation = v.connection_generation
      /\ revoked.zero_attempts = v.zero_attempts /\ revoked.feedback_seen = v.feedback_seen
      /\ ~revoked.command.valid /\ revoked.fresh = 0
      /\ revoked.authorization_active = v.authorization_active
      /\ Coherent(revoked, transport) /\ SyncedWith(revoked, transport)
  BY <1>8, ClearFields, ClearLinked
<1>10. CASE /\ session' = MotionWritten(e, now, r)
            /\ cycle' = MotionTried("kMotionHostWriteComplete", r)
            /\ UNCHANGED transport
  <2> DEFINE completion == IF r.completion > 0 THEN r.completion ELSE now
             z == [e EXCEPT !.last_motion = completion,
                            !.last_observed = Larger(e.last_observed, completion)]
  <2>1. session' = z
    BY <1>10 DEF MotionWritten
  <2>2. /\ cycle'.action = "kMotionHostWriteComplete" /\ ~cycle'.zero_write_attempted
    <3>1. cycle' = MotionTried("kMotionHostWriteComplete", r)
      BY <1>10
    <3>2. "kMotionHostWriteComplete" \in CycleAction
      BY DEF CycleAction
    <3> QED BY <1>6, <3>1, <3>2, MotionTriedType
  <2>3. hist' = FrameSeen(hist)
    <3>1. hist' = TickHistory(FrameSeen(Timed(hist, now)))
      BY <2>2, TickRecords
    <3> QED BY <1>2, <1>10, <2>2, <3>1 DEF TickHistory, Timed
  <2> HIDE DEF completion, e
  <2>4. /\ z.state = e.state /\ z.zero_active = e.zero_active
        /\ z.zero_attempts = e.zero_attempts /\ z.estop = e.estop
        /\ z.connection_known = e.connection_known
        /\ z.connection_generation = e.connection_generation
        /\ z.feedback_seen = e.feedback_seen
        /\ Authorized(z) = Authorized(e) /\ z.command = e.command /\ z.fresh = e.fresh
    BY <1>2 DEF Session, Authorized
  <2> HIDE DEF z
  <2>5. SyncedWith(z, transport) /\ Forgets(e, z)
    BY <1>2, <2>4 DEF SyncedWith, Forgets, Held, Tied
  <2>6. Tied(z, transport, hist)
    BY <1>2, <2>5, TiedForgets
  <2>7. Tied(z, transport, FrameSeen(hist))
    BY <2>6, CompletionTime, TiedSeen DEF TickH
  <2> QED BY <1>10, <2>1, <2>3, <2>7
<1> HIDE DEF e, revoked
<1>11. CASE /\ session' = HandleDisconnect(revoked)
            /\ transport' = TransportAfter(transport, r)
            /\ ~TransportAfter(transport, r).connected
            /\ cycle' = MotionTried("kDisconnected", r)
  <2>1. cycle'.motion_write_attempted /\ cycle'.action # "kMotionHostWriteComplete"
    BY <1>6, <1>11, MotionTriedType DEF CycleAction
  <2>2. /\ hist' = NewLine(FrameSeen(Revoked(hist)))
        /\ FrameSeen(Revoked(hist)) \in History
    BY <1>2, <1>11, <2>1, TickRecords, HistoryTypes, CompletionTime, SeenType DEF TickHistory, TickH
  <2>3. session' \in Session /\ ~session'.connection_known /\ ~session'.command.valid
    BY <1>2, <1>8, <1>9, <1>11, DisconnectFields
  <2>4. session'.fresh = 0
    <3>1. ForgetConnection(revoked) \in Session /\ ForgetConnection(revoked).fresh = 0
      BY <1>9, ForgetConnectionFields, ForgetFields
    <3> QED BY <1>11, <3>1 DEF HandleDisconnect, Session
  <2>5. Held(session') /\ ~SyncedWith(session', transport')
    BY <2>3, <2>4 DEF Held, SyncedWith
  <2> QED BY <1>11, <2>2, <2>5, TiedNewLine
<1>12. CASE AttemptZero(BeginZeroEpisode(revoked, transport, "kConnectedInhibited", zero_start),
                        zero_start, MotionTried("kNoAction", r), wire_after)
  <2> DEFINE s == BeginZeroEpisode(revoked, transport, "kConnectedInhibited", zero_start)
  <2> HIDE DEF wire_after, zero_start
  <2>1. "kConnectedInhibited" \in AfterZero
    BY DEF AfterZero
  <2>2. ~Authorized(revoked)
    BY <1>8, <1>9 DEF Authorized
  <2>3. Tied(revoked, transport, Revoked(hist))
    <3>1. Forgets(e, revoked)
      BY <1>1, <1>8, <1>9, <2>2 DEF Forgets, Held, e
    <3>2. Tied(revoked, transport, hist)
      BY <1>2, <1>9, <3>1, TiedForgets
    <3> QED BY <1>9, <2>2, <3>2, TiedRevoked
  <2>4. Coherent(s, transport)
    BY <1>7, <1>9, <2>1, BeginGood
  <2>5. /\ s \in Session /\ SyncedWith(s, transport) /\ Forgets(revoked, s) /\ s.zero_active
    <3>1. revoked.state # "kFaulted"
      BY <1>1, <1>8, <1>9 DEF e
    <3> QED BY <1>7, <1>9, <2>1, <3>1, BeginForgets DEF Coherent
  <2>6. AttemptZero(s, zero_start, MotionTried("kNoAction", r), wire_after)
    BY <1>12
  <2> HIDE DEF s
  <2>7. Tied(s, transport, Revoked(hist))
    BY <1>9, <2>3, <2>5, TiedForgets
  <2>8. Tied(s, transport, FrameSeen(Revoked(hist)))
    BY <2>7, CompletionTime, TiedSeen DEF TickH
  <2>9. /\ MotionTried("kNoAction", r) \in Cycle
        /\ MotionTried("kNoAction", r).motion_write_attempted
        /\ ~MotionTried("kNoAction", r).zero_write_attempted
    BY <1>6, MotionTriedType DEF CycleAction
  <2>10. /\ Tied(session', transport', TickHistory(FrameSeen(Revoked(hist))))
         /\ cycle'.motion_write_attempted
         /\ cycle'.action # "kMotionHostWriteComplete"
    BY <1>2, <1>7, <2>4, <2>5, <2>6, <2>8, <2>9, AttemptTied
  <2>11. hist' = TickHistory(FrameSeen(Revoked(hist)))
    BY <2>10, TickRecords
  <2> QED BY <2>10, <2>11
<1> QED BY <1>4, <1>10, <1>11, <1>12

LEMMA TickTied ==
  ASSUME HInv, NEW now \in Time, TickH(now)
  PROVE  Tied(session', transport', hist')
BY TickStopsTied, TickIdleTied, TickZeroTied, TickExpiredTied, TickRateLimitedTied,
   TickMotionTied DEF TickH, Tick

-----------------------------------------------------------------------------
(* The transport between two calls, and the constructor *)

LEMMA TransportTied ==
  ASSUME HInv, TransportH
  PROVE  Tied(session', transport', hist')
<1>1. /\ Held(session) /\ hist \in History /\ transport \in Transport
      /\ Tracked(session, transport) /\ session \in Session
      /\ transport.connected => transport.generation # 0
  BY DEF HInv, SInv, IInv, TypeOK, Tied
<1>2. transport.generation \in Nat /\ session.connection_generation \in Nat
  BY <1>1, GenerationAssumption DEF Transport, Session
<1>3. hist' = NewLine(hist) /\ session' = session
  BY DEF TransportH, TransportLost, TransportReopened
<1>4. CASE TransportLost
  <2>1. ~transport'.connected
    BY <1>1, <1>4 DEF TransportLost, Transport
  <2> QED BY <1>1, <1>3, <2>1, TiedNewLine DEF SyncedWith
<1>5. CASE TransportReopened
  <2>1. transport'.generation = transport.generation + 1
    BY <1>1, <1>5 DEF TransportReopened, Transport
  <2>2. transport'.generation # 0 /\ ~SyncedWith(session, transport')
    BY <1>1, <1>2, <2>1 DEF SyncedWith, Tracked
  <2> QED BY <1>1, <1>3, <2>2, TiedNewLine
<1> QED BY <1>4, <1>5 DEF TransportH

LEMMA InitTied ==
  HInit => HInv
<1> SUFFICES ASSUME HInit PROVE HInv
  OBVIOUS
<1>1. SInv /\ hist = NoHistory
  BY InitTracked DEF HInit
<1>2. transport \in Transport /\ (transport.connected => transport.generation # 0)
      /\ session \in {NewSession(FALSE), SynchronizeConnection(NewSession(TRUE), transport)}
  <2>1. transport \in {t \in Transport: t.generation = IF t.connected THEN 1 ELSE 0}
    BY DEF HInit, Init
  <2>2. transport \in Transport /\ (transport.connected => transport.generation = 1)
    BY <2>1
  <2>3. session \in {NewSession(FALSE), SynchronizeConnection(NewSession(TRUE), transport)}
    BY DEF HInit, Init
  <2> QED BY <2>2, <2>3, 1 # 0
<1>3. NewSession(FALSE) \in Session /\ NewSession(TRUE) \in Session
  BY NewSessionType
<1>4. hist \in History /\ hist.failed_zeros = 0
  BY <1>1, TimeFacts DEF NoHistory, History
<1>5. hist.failed_zeros <= MaximumZeroAttempts
  BY <1>4, DurationsAssumption
<1>6. CASE session = NewSession(FALSE)
  <2>1. ~session.connection_known /\ ~session.command.valid /\ session.fresh = 0
    BY <1>6 DEF NewSession, NoCommand
  <2> QED BY <1>1, <1>2, <1>4, <1>5, <2>1 DEF HInv, Tied, Held, SyncedWith
<1>7. CASE session = SynchronizeConnection(NewSession(TRUE), transport)
  <2> DEFINE n == NewSession(TRUE)
  <2>1. n.configuration_valid /\ ~n.connection_known
    BY DEF NewSession
  <2>2. n \in Session /\ session = SynchronizeConnection(n, transport)
    BY <1>3, <1>7
  <2> HIDE DEF n
  <2>3. CASE ~Attached(transport)
    <3>1. session = HandleDisconnect(n)
      BY <2>2, <2>3 DEF SynchronizeConnection
    <3>2. ~session.connection_known /\ ~session.command.valid
      BY <2>1, <2>2, <3>1, DisconnectFields
    <3>3. session.fresh = 0
      <4>1. ForgetConnection(n) \in Session /\ ForgetConnection(n).fresh = 0
        BY <2>2, ForgetConnectionFields, ForgetFields
      <4> QED BY <3>1, <4>1 DEF HandleDisconnect, Session
    <3> QED BY <1>1, <1>2, <1>4, <1>5, <3>2, <3>3 DEF HInv, Tied, Held, SyncedWith
  <2>4. CASE Attached(transport)
    <3>1. session = HandleNewConnection(n, transport)
      BY <2>1, <2>2, <2>4 DEF SynchronizeConnection, NewGeneration
    <3>2. /\ session.zero_active /\ session.zero_attempts = 0 /\ ~session.authorization_active
          /\ ~session.feedback_seen /\ ~session.command.valid /\ session.fresh = 0
          /\ session.state = "kStopPending"
      BY <1>2, <2>2, <2>4, <3>1, NewConnectionFields DEF Attached
    <3>3. Held(session) /\ Told(session, hist)
      BY <1>4, <3>2 DEF Held, Told, Authorized
    <3> QED BY <1>1, <1>2, <1>4, <1>5, <3>3 DEF HInv, Tied
  <2> QED BY <2>3, <2>4
<1> QED BY <1>2, <1>6, <1>7

-----------------------------------------------------------------------------
(* The latch is left only by a reset *)

\* Of all calls only a reset that finds what it asks for releases the latch.
LEMMA LatchIsKept ==
  ASSUME HInv, NEW now \in Time, session.estop,
         \/ \E token \in Token: Authorize(token, now)
         \/ \E c \in Command: Submit(c, now)
         \/ \E decoded: ObserveFeedback(decoded, now)
         \/ Disarm(now)
         \/ RequestStop(now)
         \/ LatchEmergencyStop(now)
         \/ Tick(now)
  PROVE  session'.estop
<1> DEFINE e == Entered(now)
<1>1. e.estop
  BY EnteredEstop DEF HInv
<1>2. /\ e \in Session /\ transport \in Transport /\ Linked(e, transport)
      /\ Tied(e, transport, hist) /\ (Goes(now) => SyncedWith(e, transport))
  BY EnteredTied
<1>3. ASSUME NEW token \in Token, Authorize(token, now)
      PROVE  session'.estop
  <2>1. session' = IF Goes(now) /\ MayAuthorize(e, token, now)
                   THEN Granted(e, token, now) ELSE e
    BY <1>3 DEF Authorize
  <2> HIDE DEF e
  <2> QED BY <1>1, <2>1 DEF MayAuthorize
<1>4. ASSUME NEW c \in Command, Submit(c, now)
      PROVE  session'.estop
  <2>1. session' = IF Goes(now) THEN Submitted(e, c, now) ELSE e
    BY <1>4 DEF Submit
  <2> HIDE DEF e
  <2>2. SubmissionStatus(e, c, now) = "kEmergencyStopLatched"
    BY <1>1 DEF SubmissionStatus
  <2> QED BY <1>1, <2>1, <2>2 DEF Submitted
<1>5. ASSUME NEW decoded, ObserveFeedback(decoded, now)
      PROVE  session'.estop
  <2>1. \/ session' = e
        \/ session' = [e EXCEPT !.feedback_seen = TRUE, !.feedback_receipt = now]
        \/ session' = RevokeWithZero(ForgetFeedback(e), transport, Inhibited(e), now)
    BY <1>5 DEF ObserveFeedback
  <2> HIDE DEF e
  <2>2. CASE session' = RevokeWithZero(ForgetFeedback(e), transport, Inhibited(e), now)
    <3> DEFINE f == ForgetFeedback(e)
               v == RevokeAuthorization(f)
               c == ClearMotionIntent(v)
    <3>1. f \in Session /\ f.estop
      BY <1>1, <1>2, ForgetFeedbackFields
    <3> HIDE DEF f
    <3>2. v \in Session /\ v.estop
      BY <3>1, RevokeFields
    <3> HIDE DEF v
    <3>3. c \in Session /\ c.estop
      BY <3>2, ClearFields
    <3>4. session' = BeginZeroEpisode(c, transport, Inhibited(e), now)
      BY <2>2 DEF RevokeWithZero, c, v, f
    <3> HIDE DEF c
    <3> QED BY <3>3, <3>4, BeginEstop
  <2> QED BY <1>1, <1>2, <2>1, <2>2 DEF Session
<1>6. CASE Disarm(now)
  <2>1. session' = IF Goes(now) /\ e.state # "kFaulted"
                   THEN RevokeWithZero(e, transport, Inhibited(e), now) ELSE e
    BY <1>6 DEF Disarm
  <2> HIDE DEF e
  <2> QED BY <1>1, <1>2, <2>1, RevokeTied, InhibitedType
<1>7. CASE RequestStop(now)
  <2>1. session' = IF Goes(now) /\ e.state # "kFaulted"
                   THEN StopWithZero(e, transport, "kEmergencyStopLatched", now) ELSE e
    BY <1>1, <1>7 DEF RequestStop
  <2>2. "kEmergencyStopLatched" \in AfterZero
    BY DEF AfterZero
  <2> HIDE DEF e
  <2> QED BY <1>1, <1>2, <2>1, <2>2, StopTied
<1>8. CASE LatchEmergencyStop(now)
  BY <1>8, LatchEstop DEF HInv
<1>9. CASE Tick(now)
  <2>1. CASE TickStops(now)
    BY <1>1, <2>1 DEF TickStops
  <2>2. CASE TickIdle(now)
    <3>1. session' = e \/ session' = [e EXCEPT !.state = "kEmergencyStopLatched"]
      BY <2>2 DEF TickIdle
    <3> HIDE DEF e
    <3> QED BY <1>1, <1>2, <3>1 DEF Session
  <2>3. CASE TickZero(now)
    <3>1. Goes(now) /\ e.zero_active /\ AttemptZero(e, now, Quiet("kNoAction"), wire)
      BY <2>3 DEF TickZero
    <3>2. Coherent(e, transport)
      BY EnteredSInv DEF HInv, Good
    <3>3. Quiet("kNoAction") \in Cycle /\ ~Quiet("kNoAction").zero_write_attempted
      BY QuietType, QuietFields DEF CycleAction
    <3> HIDE DEF e
    <3> QED BY <1>1, <1>2, <3>1, <3>2, <3>3, AttemptTied
  \* The other ticks start from an Active session, which is not latched.
  <2>4. CASE TickExpired(now)
    BY <1>1, <2>4 DEF TickExpired, ActiveAt
  <2>5. CASE TickRateLimited(now)
    BY <1>1, <2>5 DEF TickRateLimited, MaySend, ActiveAt
  <2>6. CASE TickMotion(now)
    BY <1>1, <2>6 DEF TickMotion, MaySend, ActiveAt
  <2> QED BY <1>9, <2>1, <2>2, <2>3, <2>4, <2>5, <2>6 DEF Tick
<1> QED BY <1>3, <1>4, <1>5, <1>6, <1>7, <1>8, <1>9

-----------------------------------------------------------------------------
(* The period between two motion frames *)

\* The session remembers the last motion frame its owner saw on the line,
\* unless that one was late.
Rated(s, t, h) ==
  h.moved > 0 => SyncedWith(s, t) /\ (h.late \/ s.last_motion = h.moved)

\* r is on the line s is on and remembers the same frame.
SameLine(s, r) ==
  /\ r.last_motion = s.last_motion
  /\ r.connection_known = s.connection_known
  /\ r.connection_generation = s.connection_generation

\* A call in which no frame was seen.
SameFrame(h, g) == g.moved = h.moved /\ g.late = h.late

LEMMA RatedKept ==
  ASSUME NEW s, NEW r, NEW t, NEW h, NEW g, Rated(s, t, h), SameFrame(h, g),
         h.moved > 0 => SameLine(s, r)
  PROVE  Rated(r, t, g)
BY DEF Rated, SameFrame, SameLine, SyncedWith

LEMMA SameFrames ==
  ASSUME NEW h \in History, NEW now
  PROVE  /\ SameFrame(h, Stopped(h)) /\ SameFrame(h, Revoked(h))
         /\ SameFrame(h, Inhibiting(h)) /\ SameFrame(h, Timed(h, now))
         /\ SameFrame(h, Counted(h, now))
<1>1. SameFrame(h, Stopped(h))
  BY DEF History, Stopped, SameFrame
<1>2. SameFrame(h, Revoked(h))
  BY DEF History, Stopped, Revoked, SameFrame
<1>3. SameFrame(h, Inhibiting(h))
  BY DEF History, Stopped, Revoked, Inhibiting, SameFrame
<1>4. SameFrame(h, Timed(h, now))
  BY <1>3 DEF Timed, SameFrame
<1>5. SameFrame(h, Counted(h, now))
  BY DEF History, Counted, SameFrame
<1> QED BY <1>1, <1>2, <1>3, <1>4, <1>5

LEMMA SameFramesTimed ==
  ASSUME NEW h \in History, NEW now
  PROVE  SameFrame(h, Timed(Stopped(h), now)) /\ SameFrame(h, Timed(Revoked(h), now))
<1>1. Stopped(h) \in History /\ Revoked(h) \in History
  BY HistoryTypes
<1> QED BY <1>1, SameFrames DEF SameFrame

\* None of the private helpers forgets the frame.
LEMMA HelpersKeepLine ==
  ASSUME NEW s \in Session
  PROVE  /\ SameLine(s, ClearMotionIntent(s)) /\ SameLine(s, RevokeAuthorization(s))
         /\ SameLine(s, ForgetFeedback(s))
BY ClearFields, RevokeFields, ForgetFeedbackFields DEF SameLine

LEMMA BeginKeepsLine ==
  ASSUME NEW s \in Session, NEW t, NEW after, NEW earliest
  PROVE  SameLine(s, BeginZeroEpisode(s, t, after, earliest))
<1> DEFINE began == [s EXCEPT !.zero_active = TRUE, !.after_zero = after,
                              !.zero_attempts = 0, !.next_zero = Larger(0, earliest),
                              !.state = "kStopPending"]
<1>1. BeginZeroEpisode(s, t, after, earliest)
        \in {[s EXCEPT !.state = "kDisconnected"], s, [s EXCEPT !.after_zero = after], began}
  BY DEF BeginZeroEpisode
<1>2. SameLine(s, [s EXCEPT !.state = "kDisconnected"])
  BY DEF Session, SameLine
<1>3. SameLine(s, [s EXCEPT !.after_zero = after])
  BY DEF Session, SameLine
<1>4. SameLine(s, began)
  BY DEF Session, SameLine
<1>5. SameLine(s, s)
  BY DEF SameLine
<1> HIDE DEF began
<1> QED BY <1>1, <1>2, <1>3, <1>4, <1>5

LEMMA StopsKeepLine ==
  ASSUME NEW s \in Session, NEW t, NEW after, NEW earliest
  PROVE  /\ SameLine(s, StopWithZero(s, t, after, earliest))
         /\ SameLine(s, RevokeWithZero(s, t, after, earliest))
<1> DEFINE c == ClearMotionIntent(s)
           v == RevokeAuthorization(s)
           d == ClearMotionIntent(v)
<1>1. c \in Session /\ v \in Session /\ d \in Session
  BY ClearFields, RevokeFields
<1>2. SameLine(s, c) /\ SameLine(s, v) /\ SameLine(v, d)
  BY <1>1, HelpersKeepLine
<1>3. /\ StopWithZero(s, t, after, earliest) = BeginZeroEpisode(c, t, after, earliest)
      /\ RevokeWithZero(s, t, after, earliest) = BeginZeroEpisode(d, t, after, earliest)
  BY DEF StopWithZero, RevokeWithZero
<1> HIDE DEF c, v, d
<1>4. /\ SameLine(c, BeginZeroEpisode(c, t, after, earliest))
      /\ SameLine(d, BeginZeroEpisode(d, t, after, earliest))
  BY <1>1, BeginKeepsLine
<1> QED BY <1>2, <1>3, <1>4 DEF SameLine

\* A session in step with its line enters a method still knowing the frame,
\* at an impossible time too.
LEMMA EnterKeepsLine ==
  ASSUME NEW s \in Session, NEW t, SyncedWith(s, t), t.generation # 0, NEW now \in Time
  PROVE  SameLine(s, Enter(s, t, now))
<1> DEFINE o == ObserveMonotonicTime(s, now)
           i == ForgetFeedback(ClearMotionIntent(RevokeAuthorization(s)))
<1>1. o \in Session /\ SameLine(s, o)
  BY ObserveFields DEF SameLine
<1>2. Attached(t) /\ ~NewGeneration(o, t)
  BY <1>1 DEF SyncedWith, Attached, NewGeneration, SameLine
<1>3. i \in Session /\ SameLine(s, i)
  <2> DEFINE v == RevokeAuthorization(s)
             c == ClearMotionIntent(v)
  <2>1. v \in Session /\ SameLine(s, v)
    BY RevokeFields, HelpersKeepLine
  <2> HIDE DEF v
  <2>2. c \in Session /\ SameLine(v, c)
    BY <2>1, ClearFields, HelpersKeepLine
  <2> HIDE DEF c
  <2>3. ForgetFeedback(c) \in Session /\ SameLine(c, ForgetFeedback(c))
    BY <2>2, ForgetFeedbackFields, HelpersKeepLine
  <2> QED BY <2>1, <2>2, <2>3 DEF SameLine, c, v
<1>4. SameLine(s, HandleClockFailure(s, t))
  <2>1. \/ HandleClockFailure(s, t) = i
        \/ \E after, earliest: HandleClockFailure(s, t) = BeginZeroEpisode(i, t, after, earliest)
    BY DEF HandleClockFailure
  <2> HIDE DEF i
  <2> QED BY <1>3, <2>1, BeginKeepsLine DEF SameLine
<1>5. SameLine(s, s)
  BY DEF SameLine
<1>6. Enter(s, t, now) \in {s, HandleClockFailure(s, t), o}
  BY <1>2 DEF Enter, SynchronizeConnection
<1> HIDE DEF o
<1> QED BY <1>1, <1>4, <1>5, <1>6

-----------------------------------------------------------------------------
(* The calls that write nothing *)

\* The invariant with the rate.
RInv == HInv /\ Rated(session, transport, hist)

LEMMA EnteredRated ==
  ASSUME RInv, NEW now \in Time
  PROVE  LET e == Entered(now) IN
         /\ session \in Session /\ e \in Session /\ transport \in Transport /\ hist \in History
         /\ hist.moved > 0 => /\ SyncedWith(session, transport) /\ transport.generation # 0
                              /\ SameLine(session, e)
<1>1. /\ session \in Session /\ Entered(now) \in Session
      /\ transport \in Transport /\ hist \in History
  BY EnteredTied DEF RInv
<1>2. hist.moved > 0 => SyncedWith(session, transport) /\ transport.generation # 0
  BY DEF RInv, HInv, Tied, Rated, SyncedWith
<1> QED BY <1>1, <1>2, EnterKeepsLine DEF Entered

\* What a submission, accepted or not, leaves of the entered session.
LEMMA SubmittedKeepsLine ==
  ASSUME NEW s \in Session, NEW c \in Command, NEW now \in Time
  PROVE  SameLine(s, Submitted(s, c, now))
<1> DEFINE u == Consume(s, c)
           r == Submitted(s, c, now)
           status == SubmissionStatus(s, c, now)
<1>1. u \in Session /\ SameLine(s, u)
  BY InputsAssumption DEF Consume, Session, SameLine
<1>2. SameLine(s, s)
  BY DEF SameLine
<1>3. SameLine(u, Accept(u, c, now))
  <2> HIDE DEF u
  <2>1. ClearMotionIntent(u) \in Session /\ SameLine(u, ClearMotionIntent(u)) /\ SameLine(u, u)
    BY <1>1, ClearFields, HelpersKeepLine DEF SameLine
  <2>2. PICK kept \in {u, ClearMotionIntent(u)}:
          \E slot, fresh, state: Accept(u, c, now) =
            [kept EXCEPT !.command = slot, !.fresh = fresh, !.state = state]
    BY DEF Accept
  <2>3. PICK slot, fresh, state: Accept(u, c, now) =
            [kept EXCEPT !.command = slot, !.fresh = fresh, !.state = state]
    BY <2>2
  <2>4. kept \in Session /\ SameLine(u, kept)
    BY <1>1, <2>1, <2>2
  <2>5. SameLine(kept, Accept(u, c, now))
    BY <2>3, <2>4 DEF Session, SameLine
  <2> QED BY <2>4, <2>5 DEF SameLine
<1>4. status \in {"kEmergencyStopLatched", "kFaulted", "kSequenceInvalid",
                  "kTimestampInvalid", "kStale", "kNotAuthorized",
                  "kPredatesAuthorization", "kEncodingRejected", "kStopAccepted",
                  "kFeedbackUnavailable", "kAccepted"}
  BY DEF SubmissionStatus
<1>5. \/ r = s
      \/ \E after: r = RevokeWithZero(s, transport, after, now)
      \/ \E after: r = RevokeWithZero(u, transport, after, now)
      \/ \E after: r = StopWithZero(u, transport, after, now)
      \/ r = ClearMotionIntent(u)
      \/ r = Accept(u, c, now)
  BY <1>4 DEF Submitted
<1> HIDE DEF u
<1>6. SameLine(u, ClearMotionIntent(u))
  BY <1>1, HelpersKeepLine
<1>7. ASSUME NEW after
      PROVE  /\ SameLine(s, RevokeWithZero(s, transport, after, now))
             /\ SameLine(u, RevokeWithZero(u, transport, after, now))
             /\ SameLine(u, StopWithZero(u, transport, after, now))
  BY <1>1, StopsKeepLine
<1> HIDE DEF r
<1>8. SameLine(s, r) \/ SameLine(u, r)
  BY <1>2, <1>3, <1>5, <1>6, <1>7
<1>9. SameLine(s, r)
  BY <1>1, <1>8 DEF SameLine
<1> QED BY <1>9 DEF r

LEMMA AuthorizeRated ==
  ASSUME RInv, NEW token \in Token, NEW now \in Time, AuthorizeH(token, now)
  PROVE  Rated(session', transport', hist')
<1> DEFINE e == Entered(now)
<1>1. /\ session \in Session /\ e \in Session /\ hist \in History
      /\ hist.moved > 0 => SameLine(session, e)
  BY EnteredRated
<1>2. /\ session' = Granted(e, token, now) \/ session' = e
      /\ transport' = transport
  BY DEF AuthorizeH, Authorize, OnlySession
<1> HIDE DEF e
<1>3. SameLine(e, Granted(e, token, now)) /\ SameLine(e, e)
  <2> DEFINE c == ClearMotionIntent(e)
  <2>1. c \in Session /\ SameLine(e, c)
    BY <1>1, ClearFields, HelpersKeepLine
  <2>2. Granted(e, token, now) =
          [c EXCEPT !.highest_token = token, !.authorization_active = TRUE,
                    !.authorized_generation = e.connection_generation,
                    !.authorization_ns = now, !.state = "kRecovering"]
    BY DEF Granted
  <2> HIDE DEF c
  <2>3. SameLine(c, Granted(e, token, now))
    BY <2>1, <2>2 DEF Session, SameLine
  <2> QED BY <2>1, <2>3 DEF SameLine
<1>4. hist.moved > 0 => SameLine(session, session')
  BY <1>1, <1>2, <1>3 DEF SameLine
<1>5. SameFrame(hist, hist')
  <2>1. hist' = Timed(hist, now) \/ hist' = [Stopped(hist) EXCEPT !.armed = TRUE]
    BY DEF AuthorizeH
  <2>2. Stopped(hist) \in History /\ SameFrame(hist, Stopped(hist))
        /\ SameFrame(hist, Timed(hist, now))
    BY <1>1, HistoryTypes, SameFrames
  <2>3. SameFrame(Stopped(hist), [Stopped(hist) EXCEPT !.armed = TRUE])
    BY <2>2 DEF History, SameFrame
  <2> QED BY <2>1, <2>2, <2>3 DEF SameFrame
<1> QED BY <1>2, <1>4, <1>5, RatedKept DEF RInv

LEMMA ResetRated ==
  ASSUME RInv, NEW token \in Token, NEW now \in Time, ResetH(token, now)
  PROVE  Rated(session', transport', hist')
<1> DEFINE e == Entered(now)
           v == RevokeAuthorization(e)
           c == ClearMotionIntent(v)
           r == [c EXCEPT !.highest_reset = token, !.estop = FALSE,
                          !.state = "kConnectedInhibited"]
<1>1. /\ session \in Session /\ e \in Session /\ hist \in History
      /\ hist.moved > 0 => SameLine(session, e)
  BY EnteredRated
<1>2. session' \in {session, e, r} /\ transport' = transport
  BY DEF ResetH, ResetEmergencyStop, OnlySession
<1> HIDE DEF e
<1>3. v \in Session /\ SameLine(e, v)
  BY <1>1, RevokeFields, HelpersKeepLine
<1> HIDE DEF v
<1>4. c \in Session /\ SameLine(v, c)
  BY <1>3, ClearFields, HelpersKeepLine
<1> HIDE DEF c
<1>5. SameLine(c, r)
  BY <1>4 DEF Session, SameLine
<1> HIDE DEF r
<1>6. hist.moved > 0 => SameLine(session, session')
  BY <1>1, <1>2, <1>3, <1>4, <1>5 DEF SameLine
<1>7. SameFrame(hist, hist')
  <2>1. hist' = Timed(Revoked(hist), now) \/ hist' = hist
    BY DEF ResetH
  <2> QED BY <1>1, <2>1, SameFramesTimed DEF SameFrame
<1> QED BY <1>2, <1>6, <1>7, RatedKept DEF RInv

LEMMA SubmitRated ==
  ASSUME RInv, NEW c \in Command, NEW now \in Time, SubmitH(c, now)
  PROVE  Rated(session', transport', hist')
<1> DEFINE e == Entered(now)
<1>1. /\ session \in Session /\ e \in Session /\ hist \in History
      /\ hist.moved > 0 => SameLine(session, e)
  BY EnteredRated
<1>2. /\ session' = e \/ session' = Submitted(e, c, now)
      /\ transport' = transport
  BY DEF SubmitH, Submit, OnlySession
<1> HIDE DEF e
<1>3. SameLine(e, Submitted(e, c, now))
  BY <1>1, SubmittedKeepsLine
<1>4. hist.moved > 0 => SameLine(session, session')
  BY <1>1, <1>2, <1>3 DEF SameLine
<1>5. SameFrame(hist, hist')
  <2>1. hist' \in {Counted(hist, now), Revoked(hist), Timed(Stopped(hist), now)}
    BY DEF SubmitH
  <2> QED BY <1>1, <2>1, SameFrames, SameFramesTimed
<1> QED BY <1>2, <1>4, <1>5, RatedKept DEF RInv

LEMMA ObserveFeedbackRated ==
  ASSUME RInv, NEW decoded, NEW now \in Time, ObserveFeedbackH(decoded, now)
  PROVE  Rated(session', transport', hist')
<1> DEFINE e == Entered(now)
           f == ForgetFeedback(e)
           a == [e EXCEPT !.feedback_seen = TRUE, !.feedback_receipt = now]
<1>1. /\ session \in Session /\ e \in Session /\ hist \in History
      /\ hist.moved > 0 => SameLine(session, e)
  BY EnteredRated
<1>2. /\ session' \in {e, a, RevokeWithZero(f, transport, Inhibited(e), now)}
      /\ transport' = transport
  BY DEF ObserveFeedbackH, ObserveFeedback, OnlySession
<1> HIDE DEF e
<1>3. SameLine(e, a)
  BY <1>1 DEF Session, SameLine
<1>4. f \in Session /\ SameLine(e, f)
  BY <1>1, ForgetFeedbackFields, HelpersKeepLine
<1> HIDE DEF a, f
<1>5. SameLine(f, RevokeWithZero(f, transport, Inhibited(e), now))
  BY <1>4, StopsKeepLine
<1>6. hist.moved > 0 => SameLine(session, session')
  BY <1>1, <1>2, <1>3, <1>4, <1>5 DEF SameLine
<1>7. SameFrame(hist, hist')
  <2>1. hist' \in {Timed(hist, now), [hist EXCEPT !.allowed = TRUE], Inhibiting(hist)}
    BY DEF ObserveFeedbackH
  <2>2. SameFrame(hist, [hist EXCEPT !.allowed = TRUE])
    BY <1>1 DEF History, SameFrame
  <2> QED BY <1>1, <2>1, <2>2, SameFrames
<1> QED BY <1>2, <1>6, <1>7, RatedKept DEF RInv

LEMMA LatchKeepsLine ==
  ASSUME RInv, NEW now \in Time, LatchEmergencyStop(now), hist.moved > 0
  PROVE  SameLine(session, session')
<1> DEFINE a == [session EXCEPT !.estop = TRUE]
           v == RevokeAuthorization(a)
           c == ClearMotionIntent(v)
           latched == ForgetFeedback(c)
           timed == IF TimeValid(latched, now) THEN ObserveMonotonicTime(latched, now) ELSE latched
           s == SynchronizeConnection(timed, transport)
<1>1. session \in Session /\ SyncedWith(session, transport) /\ transport.generation # 0
  BY EnteredRated
<1>2. \/ session' = [latched EXCEPT !.state = "kConfigurationInvalid"]
      \/ session' = s
      \/ \E earliest: session' = BeginZeroEpisode(s, transport, "kEmergencyStopLatched", earliest)
  BY DEF LatchEmergencyStop
<1>3. a \in Session /\ SameLine(session, a)
  BY <1>1 DEF Session, SameLine
<1> HIDE DEF a
<1>4. v \in Session /\ SameLine(a, v)
  BY <1>3, RevokeFields, HelpersKeepLine
<1> HIDE DEF v
<1>5. c \in Session /\ SameLine(v, c)
  BY <1>4, ClearFields, HelpersKeepLine
<1> HIDE DEF c
<1>6. latched \in Session /\ SameLine(c, latched)
  BY <1>5, ForgetFeedbackFields, HelpersKeepLine
<1> HIDE DEF latched
<1>7. timed \in Session /\ SameLine(latched, timed)
  BY <1>6, ObserveFields DEF SameLine
<1> HIDE DEF timed
<1>8. SameLine(session, latched) /\ SameLine(session, timed)
  BY <1>3, <1>4, <1>5, <1>6, <1>7 DEF SameLine
<1>9. s = timed
  BY <1>1, <1>8 DEF SynchronizeConnection, Attached, NewGeneration, SyncedWith, SameLine
<1> HIDE DEF s
<1>10. SameLine(latched, [latched EXCEPT !.state = "kConfigurationInvalid"])
  BY <1>6 DEF Session, SameLine
<1>11. ASSUME NEW earliest
       PROVE  SameLine(timed, BeginZeroEpisode(timed, transport, "kEmergencyStopLatched", earliest))
  BY <1>7, BeginKeepsLine
<1>12. SameLine(timed, session') \/ SameLine(latched, session')
  BY <1>2, <1>9, <1>10, <1>11 DEF SameLine
<1> QED BY <1>8, <1>12 DEF SameLine

LEMMA StopRated ==
  ASSUME RInv, NEW now \in Time, StopH(now)
  PROVE  Rated(session', transport', hist')
<1> DEFINE e == Entered(now)
<1>1. /\ session \in Session /\ e \in Session /\ hist \in History
      /\ hist.moved > 0 => SameLine(session, e)
  BY EnteredRated
<1>2. transport' = transport
  BY DEF StopH, Disarm, RequestStop, LatchEmergencyStop, OnlySession
<1>3. CASE Disarm(now) /\ hist' = Timed(Revoked(hist), now)
  <2>1. session' = e \/ session' = RevokeWithZero(e, transport, Inhibited(e), now)
    BY <1>3 DEF Disarm
  <2> HIDE DEF e
  <2>2. hist.moved > 0 => SameLine(session, session')
    BY <1>1, <2>1, StopsKeepLine DEF SameLine
  <2> QED BY <1>1, <1>2, <1>3, <2>2, SameFramesTimed, RatedKept DEF RInv
<1>4. CASE RequestStop(now) /\ hist' = Timed(Stopped(hist), now)
  <2>1. session' = e \/ \E after: session' = StopWithZero(e, transport, after, now)
    BY <1>4 DEF RequestStop
  <2> HIDE DEF e
  <2>2. hist.moved > 0 => SameLine(session, session')
    BY <1>1, <2>1, StopsKeepLine DEF SameLine
  <2> QED BY <1>1, <1>2, <1>4, <2>2, SameFramesTimed, RatedKept DEF RInv
<1>5. CASE /\ LatchEmergencyStop(now)
           /\ hist' = [Inhibiting(hist) EXCEPT !.latch_zeroed = FALSE]
  <2>1. hist.moved > 0 => SameLine(session, session')
    BY <1>5, LatchKeepsLine
  <2>2. Inhibiting(hist) \in History /\ SameFrame(hist, Inhibiting(hist))
    BY <1>1, HistoryTypes, SameFrames
  <2>3. SameFrame(Inhibiting(hist), hist')
    BY <1>5, <2>2 DEF History, SameFrame
  <2>4. SameFrame(hist, hist')
    BY <2>2, <2>3 DEF SameFrame
  <2> QED BY <1>2, <2>1, <2>4, RatedKept DEF RInv
<1> QED BY <1>3, <1>4, <1>5 DEF StopH

LEMMA NewLineUnmoved ==
  ASSUME NEW h \in History
  PROVE  NewLine(h).moved = 0
<1>1. Inhibiting(h) \in History
  BY HistoryTypes
<1> QED BY <1>1 DEF NewLine, History

LEMMA TransportRated ==
  ASSUME RInv, TransportH
  PROVE  Rated(session', transport', hist')
<1>1. hist \in History
  BY DEF RInv, HInv, Tied
<1>2. hist'.moved = 0
  BY <1>1, NewLineUnmoved DEF TransportH
<1> QED BY <1>2 DEF Rated

-----------------------------------------------------------------------------
(* The ticks *)

\* What a tick leaves of the frame its owner saw last.
LEMMA TickFrames ==
  ASSUME RInv, NEW now \in Time, TickH(now)
  PROVE  /\ cycle'.motion_completion \in Time
         /\ ~transport'.connected => hist'.moved = 0
         /\ transport'.connected /\ ~(cycle'.motion_completion > 0) => SameFrame(hist, hist')
         /\ transport'.connected /\ cycle'.motion_completion > 0 =>
              /\ hist'.moved = cycle'.motion_completion
              /\ cycle'.action # "kMotionHostWriteComplete" => hist'.late
<1>1. hist \in History /\ cycle'.motion_completion \in Time
  BY CompletionTime DEF RInv, HInv, Tied, TickH
<1>2. PICK x \in {Revoked(hist), Timed(hist, now)}: hist' = TickHistory(FrameSeen(x))
  BY TickRecords
<1>3. x \in History /\ SameFrame(hist, x)
  <2>1. Revoked(hist) \in History /\ Timed(hist, now) \in History
    BY <1>1, HistoryTypes DEF Timed
  <2> QED BY <1>1, <1>2, <2>1, SameFrames
<1> DEFINE g == FrameSeen(x)
<1>4. g \in History
  BY <1>1, <1>3, SeenType
<1>5. ~(cycle'.motion_completion > 0) => SameFrame(hist, g)
  BY <1>3 DEF FrameSeen
<1>6. cycle'.motion_completion > 0 =>
        /\ g.moved = cycle'.motion_completion
        /\ cycle'.action # "kMotionHostWriteComplete" => g.late
  <2> SUFFICES ASSUME cycle'.motion_completion > 0
               PROVE  /\ g.moved = cycle'.motion_completion
                      /\ cycle'.action # "kMotionHostWriteComplete" => g.late
    OBVIOUS
  <2> DEFINE late == cycle'.action # "kMotionHostWriteComplete"
  <2>1. g = [x EXCEPT !.moved = cycle'.motion_completion, !.late = late]
    BY DEF FrameSeen
  <2> HIDE DEF late, g
  <2>2. g.moved = cycle'.motion_completion /\ g.late = late
    BY <1>3, <2>1 DEF History
  <2> QED BY <2>2 DEF late
<1> HIDE DEF g
<1>7. SameFrame(g, ZeroLeft(g)) /\ SameFrame(g, ZeroFailed(g)) /\ SameFrame(g, g)
  <2>1. Stopped(g) \in History /\ SameFrame(g, Stopped(g))
    BY <1>4, HistoryTypes, SameFrames
  <2>2. SameFrame(Stopped(g), ZeroLeft(g))
    BY <2>1 DEF ZeroLeft, History, SameFrame
  <2>3. SameFrame(Stopped(g), ZeroFailed(g))
    BY <2>1 DEF ZeroFailed, History, SameFrame
  <2> QED BY <2>1, <2>2, <2>3 DEF SameFrame
<1>8. CASE ~transport'.connected
  <2>1. hist' = NewLine(g)
    BY <1>2, <1>8 DEF TickHistory, g
  <2> QED BY <1>1, <1>4, <1>8, <2>1, NewLineUnmoved
<1>9. CASE transport'.connected
  <2>1. hist' \in {g, ZeroLeft(g), ZeroFailed(g)}
    BY <1>2, <1>9 DEF TickHistory, g
  <2>2. SameFrame(g, hist')
    BY <1>7, <2>1
  <2> QED BY <1>1, <1>5, <1>6, <1>9, <2>2 DEF SameFrame
<1> QED BY <1>8, <1>9

\* A zero write that leaves the line open leaves the frame alone.
LEMMA AttemptKeepsLine ==
  ASSUME NEW s \in Session, transport \in Transport, NEW now \in Time,
         NEW result \in Cycle, NEW w, AttemptZero(s, now, result, w)
  PROVE  /\ cycle'.motion_completion = result.motion_completion
         /\ cycle'.action # "kMotionHostWriteComplete"
         /\ transport'.connected => transport' = transport /\ SameLine(s, session')
<1>1. CASE /\ session' = s /\ UNCHANGED transport
           /\ cycle' = [result EXCEPT !.action = "kZeroRetryPending"]
  <2>1. cycle'.motion_completion = result.motion_completion /\ cycle'.action = "kZeroRetryPending"
    BY <1>1 DEF Cycle
  <2> QED BY <1>1, <2>1 DEF SameLine
<1>2. ASSUME NEW r, session' = AfterZeroWrite(s, transport, now, r),
             transport' = TransportAfter(transport, r),
             cycle' = [result EXCEPT !.action = ZeroAction(s, transport, r),
                                     !.zero_write_attempted = TRUE]
      PROVE  /\ cycle'.motion_completion = result.motion_completion
             /\ cycle'.action # "kMotionHostWriteComplete"
             /\ transport'.connected => transport' = transport /\ SameLine(s, session')
  <2> DEFINE counted == CountZeroAttempt(s, r)
             u == TransportAfter(transport, r)
  <2>1. /\ cycle'.motion_completion = result.motion_completion
        /\ cycle'.action = ZeroAction(s, transport, r)
    BY <1>2 DEF Cycle
  <2>2. ZeroAction(s, transport, r) # "kMotionHostWriteComplete"
    BY DEF ZeroAction
  <2>3. u.connected => u = transport
    BY TransportAfterFields
  <2>4. u.connected =>
          session' \in {ZeroComplete(counted), ZeroRetriesExhausted(counted),
                        ScheduleZeroRetry(counted, now, r)}
    BY <1>2 DEF AfterZeroWrite
  <2>5. /\ SameLine(s, ZeroComplete(counted)) /\ SameLine(s, ZeroRetriesExhausted(counted))
        /\ SameLine(s, ScheduleZeroRetry(counted, now, r))
    BY DEF CountZeroAttempt, ZeroComplete, ZeroRetriesExhausted, ScheduleZeroRetry, Session, SameLine
  <2> QED BY <1>2, <2>1, <2>2, <2>3, <2>4, <2>5
<1> QED BY <1>1, <1>2 DEF AttemptZero

\* A complete write, in time or late, is complete no earlier than it began.
LEMMA CompleteLater ==
  ASSUME NEW access, NEW now \in Time, NEW deadline \in Time,
         NEW r \in WriteResults(access, now, deadline), r.complete
  PROVE  r.completion >= now
<1>1. access = "kReadWrite"
  BY DEF WriteResults, WriteResult
<1> DEFINE latest == Smaller(Int64Max, Larger(now, deadline) + MaxOverrun)
           inTime == WriteResult("kOk", TRUE, now..deadline)
           late == WriteResult("kDeadlineExceeded", TRUE, (deadline + 1)..latest)
           expired == WriteResult("kDeadlineExceeded", FALSE, Larger(now, deadline)..latest)
           failed == WriteResult("kIoError", FALSE, now..latest)
           gone == WriteResult("kDisconnected", FALSE, now..latest)
<1>2. WriteResults(access, now, deadline) =
        UNION {IF now < deadline THEN inTime \cup late ELSE {}, expired, failed, gone}
  BY <1>1 DEF WriteResults
<1> HIDE DEF latest
<1>3. r \notin expired /\ r \notin failed /\ r \notin gone
  BY DEF WriteResult
<1> HIDE DEF inTime, late, expired, failed, gone
<1>4. now < deadline /\ (r \in inTime \/ r \in late)
  BY <1>2, <1>3
<1>5. now \in Int /\ deadline \in Int
  BY TimeFacts
<1>6. CASE r \in inTime
  <2>1. r.completion \in now..deadline
    BY <1>6 DEF inTime, WriteResult
  <2> QED BY <1>5, <2>1
<1>7. CASE r \in late
  <2>1. r.completion \in (deadline + 1)..latest
    BY <1>7 DEF late, WriteResult
  <2>2. latest \in Int
    BY <1>5, ClockAssumption DEF latest, Smaller, Larger
  <2> QED BY <1>4, <1>5, <2>1, <2>2
<1> QED BY <1>4, <1>6, <1>7

\* The step the property allows.
RateStep ==
  cycle'.motion_completion > 0 /\ hist.moved > 0 /\ ~hist.late
    => cycle'.motion_completion - hist.moved >= TransmitPeriod

\* A tick that leaves no motion frame on the line.
LEMMA UnmovedRated ==
  ASSUME RInv, NEW now \in Time, TickH(now), cycle'.motion_completion = 0,
         transport'.connected => transport' = transport,
         transport'.connected /\ hist.moved > 0 => SameLine(session, session')
  PROVE  RateStep /\ Rated(session', transport', hist')
<1>1. ~(cycle'.motion_completion > 0)
  OBVIOUS
<1>2. CASE transport'.connected
  BY <1>1, <1>2, TickFrames, RatedKept DEF RInv, RateStep
<1>3. CASE ~transport'.connected
  <2>1. hist'.moved = 0
    BY <1>3, TickFrames
  <2> QED BY <1>1, <2>1 DEF Rated, RateStep
<1> QED BY <1>2, <1>3

LEMMA QuietTicksRated ==
  ASSUME RInv, NEW now \in Time, TickH(now),
         TickStops(now) \/ TickIdle(now) \/ TickRateLimited(now)
  PROVE  RateStep /\ Rated(session', transport', hist')
<1> DEFINE e == Entered(now)
<1>1. /\ session \in Session /\ e \in Session
      /\ hist.moved > 0 => SameLine(session, e)
  BY EnteredRated
<1>2. \/ session' = e
      \/ session' = [e EXCEPT !.state = "kEmergencyStopLatched"]
  BY DEF TickStops, TickIdle, TickRateLimited
<1>3. transport' = transport /\ \E action: cycle' = Quiet(action)
  BY DEF TickStops, TickIdle, TickRateLimited
<1>4. cycle'.motion_completion = 0
  BY <1>3, QuietFields
<1> HIDE DEF e
<1>5. SameLine(e, [e EXCEPT !.state = "kEmergencyStopLatched"]) /\ SameLine(e, e)
  BY <1>1 DEF Session, SameLine
<1>6. hist.moved > 0 => SameLine(session, session')
  BY <1>1, <1>2, <1>5 DEF SameLine
<1> QED BY <1>3, <1>4, <1>6, UnmovedRated

\* A tick that only tries to stop, from a session on the same line.
LEMMA AttemptRated ==
  ASSUME RInv, NEW now \in Time, TickH(now), NEW s \in Session,
         hist.moved > 0 => SameLine(session, s),
         AttemptZero(s, now, Quiet("kNoAction"), wire)
  PROVE  RateStep /\ Rated(session', transport', hist')
<1>1. Quiet("kNoAction") \in Cycle /\ Quiet("kNoAction").motion_completion = 0
  BY QuietType, QuietFields DEF CycleAction
<1>2. /\ cycle'.motion_completion = 0
      /\ transport'.connected => transport' = transport /\ SameLine(s, session')
  BY <1>1, EnteredRated, AttemptKeepsLine
<1>3. transport'.connected /\ hist.moved > 0 => SameLine(session, session')
  BY <1>2 DEF SameLine
<1> QED BY <1>2, <1>3, UnmovedRated

LEMMA ZeroTicksRated ==
  ASSUME RInv, NEW now \in Time, TickH(now), TickZero(now) \/ TickExpired(now)
  PROVE  RateStep /\ Rated(session', transport', hist')
<1> DEFINE e == Entered(now)
           after == IF Authorized(e) THEN "kRecovering" ELSE "kConnectedInhibited"
           s == StopWithZero(e, transport, after, now)
<1>1. /\ session \in Session /\ e \in Session
      /\ hist.moved > 0 => SameLine(session, e)
  BY EnteredRated
<1>2. CASE TickZero(now)
  <2>1. AttemptZero(e, now, Quiet("kNoAction"), wire)
    BY <1>2 DEF TickZero
  <2> HIDE DEF e
  <2> QED BY <1>1, <2>1, AttemptRated
<1>3. CASE TickExpired(now)
  <2>1. Goes(now) /\ AttemptZero(s, now, Quiet("kNoAction"), wire)
    BY <1>3 DEF TickExpired
  <2>2. /\ Linked(e, transport) /\ SyncedWith(e, transport) /\ Tied(e, transport, hist)
    BY <2>1, EnteredTied DEF RInv
  <2>3. after \in AfterZero
    BY DEF AfterZero
  <2> HIDE DEF e, after
  <2>4. s \in Session
    BY <1>1, <2>2, <2>3, StopTied
  <2>5. SameLine(e, s)
    BY <1>1, StopsKeepLine
  <2> HIDE DEF s
  <2>6. hist.moved > 0 => SameLine(session, s)
    BY <1>1, <2>5 DEF SameLine
  <2> QED BY <2>1, <2>4, <2>6, AttemptRated
<1> QED BY <1>2, <1>3

\* The write of a motion frame.
LEMMA TickMotionRated ==
  ASSUME RInv, NEW now \in Time, TickH(now), TickMotion(now)
  PROVE  RateStep /\ Rated(session', transport', hist')
<1> DEFINE e == Entered(now)
           v == RevokeAuthorization(e)
           revoked == ClearMotionIntent(v)
<1>1. Goes(now) /\ ~RateLimited(e, now)
  BY DEF TickMotion
<1>2. /\ session \in Session /\ e \in Session /\ transport \in Transport /\ hist \in History
      /\ SyncedWith(e, transport)
      /\ hist.moved > 0 => SameLine(session, e)
  BY <1>1, EnteredRated, EnteredTied DEF RInv
<1>3. PICK r \in WriteResults(transport.access, now, BoundedWriteDeadline(now, e.command.deadline)):
        LET wire_after == IF r.complete THEN "motion" ELSE wire
            zero_start == Larger(now, r.completion)
        IN
        \/ /\ Succeeded(r)
           /\ session' = MotionWritten(e, now, r)
           /\ cycle' = MotionTried("kMotionHostWriteComplete", r)
           /\ UNCHANGED transport
        \/ /\ transport' = TransportAfter(transport, r)
           /\ ~TransportAfter(transport, r).connected
           /\ cycle' = MotionTried("kDisconnected", r)
        \/ AttemptZero(BeginZeroEpisode(revoked, transport, "kConnectedInhibited", zero_start),
                       zero_start, MotionTried("kNoAction", r), wire_after)
  BY DEF TickMotion
<1>4. BoundedWriteDeadline(now, e.command.deadline) \in Time
  <2>1. e.command.deadline \in Time
    BY <1>2 DEF Session, CommandSlot
  <2> QED BY <2>1, DeadlineTime
<1>5. r.completion \in Time /\ r.complete \in BOOLEAN
  BY <1>4, WriteResultsType
<1>6. r.complete => r.completion >= now
  BY <1>4, CompleteLater
<1> DEFINE written == IF r.complete THEN r.completion ELSE 0
           wire_after == IF r.complete THEN "motion" ELSE wire
           zero_start == Larger(now, r.completion)
           s == BeginZeroEpisode(revoked, transport, "kConnectedInhibited", zero_start)
<1>7. ASSUME NEW action \in CycleAction
      PROVE  /\ MotionTried(action, r) \in Cycle /\ MotionTried(action, r).action = action
             /\ MotionTried(action, r).motion_completion = written
  BY <1>5, <1>7, MotionTriedType
\* The period has passed since the frame the session remembers.
<1>8. ASSUME cycle'.motion_completion = written
      PROVE  RateStep
  <2> SUFFICES ASSUME written > 0, hist.moved > 0, ~hist.late
               PROVE  written - hist.moved >= TransmitPeriod
    BY <1>8 DEF RateStep
  <2>1. session.last_motion = hist.moved /\ e.last_motion = hist.moved
    BY <1>2 DEF RInv, Rated, SameLine
  <2>2. ~(now - e.last_motion < TransmitPeriod)
    BY <1>1, <2>1 DEF RateLimited
  <2>3. r.complete /\ written = r.completion
    BY <1>5
  <2>4. now \in Int /\ r.completion \in Int /\ hist.moved \in Int /\ TransmitPeriod \in Int
    BY <1>2, <1>5, TimeFacts, DurationsAssumption DEF History
  <2> HIDE DEF e, written
  <2> QED BY <1>6, <2>1, <2>2, <2>3, <2>4
<1>9. CASE /\ Succeeded(r) /\ session' = MotionWritten(e, now, r)
           /\ cycle' = MotionTried("kMotionHostWriteComplete", r)
           /\ UNCHANGED transport
  <2>1. cycle'.motion_completion = written
    BY <1>7, <1>9 DEF CycleAction
  <2>2. written = r.completion /\ transport'.connected
    BY <1>2, <1>9 DEF Succeeded, SyncedWith
  <2>3. now > 0
    BY <1>1 DEF Goes, Proceeds, TimeValid
  <2>4. r.completion > 0
    BY <1>5, <1>6, <1>9, <2>3, TimeFacts DEF Succeeded
  <2>5. hist'.moved = r.completion
    BY <2>1, <2>2, <2>4, TickFrames
  <2> HIDE DEF e
  <2>6. /\ session'.last_motion = r.completion
        /\ session'.connection_known = e.connection_known
        /\ session'.connection_generation = e.connection_generation
    BY <1>2, <1>9, <2>4 DEF MotionWritten, Session
  <2>7. SyncedWith(session', transport')
    BY <1>2, <1>9, <2>6 DEF SyncedWith
  <2> QED BY <1>8, <2>1, <2>5, <2>6, <2>7 DEF Rated
<1>10. CASE /\ transport' = TransportAfter(transport, r)
            /\ ~TransportAfter(transport, r).connected
            /\ cycle' = MotionTried("kDisconnected", r)
  <2>1. cycle'.motion_completion = written
    BY <1>7, <1>10 DEF CycleAction
  <2>2. hist'.moved = 0
    BY <1>10, TickFrames
  <2> QED BY <1>8, <2>1, <2>2 DEF Rated
<1>11. CASE AttemptZero(s, zero_start, MotionTried("kNoAction", r), wire_after)
  <2>1. v \in Session /\ SameLine(e, v)
    BY <1>2, RevokeFields, HelpersKeepLine
  <2> HIDE DEF e, v
  <2>2. revoked \in Session /\ SameLine(v, revoked)
    BY <2>1, ClearFields, HelpersKeepLine
  <2> HIDE DEF revoked
  <2>3. zero_start \in Time
    BY <1>5, LargerTime
  <2>4. "kConnectedInhibited" \in AfterZero
    BY DEF AfterZero
  <2> HIDE DEF zero_start
  <2>5. SyncedWith(revoked, transport)
    BY <1>2, <2>1, <2>2 DEF SyncedWith, SameLine
  <2>6. s \in Session /\ SameLine(revoked, s)
    BY <2>2, <2>3, <2>4, <2>5, BeginFields, BeginKeepsLine DEF SyncedWith
  <2> HIDE DEF s
  <2>7. /\ MotionTried("kNoAction", r) \in Cycle
        /\ MotionTried("kNoAction", r).motion_completion = written
    BY <1>7 DEF CycleAction
  <2>8. /\ cycle'.motion_completion = written
        /\ cycle'.action # "kMotionHostWriteComplete"
        /\ transport'.connected => transport' = transport /\ SameLine(s, session')
    BY <1>2, <1>11, <2>3, <2>6, <2>7, AttemptKeepsLine
  <2>9. RateStep
    BY <1>8, <2>8
  <2>10. SameLine(e, s)
    BY <2>1, <2>2, <2>6 DEF SameLine
  <2> HIDE DEF written
  <2>11. CASE ~transport'.connected
    BY <2>9, <2>11, TickFrames DEF Rated
  <2>12. CASE transport'.connected /\ cycle'.motion_completion > 0
    <3>1. hist'.late
      BY <2>8, <2>12, TickFrames
    <3>2. SyncedWith(session', transport')
      BY <1>2, <2>8, <2>10, <2>12 DEF SameLine, SyncedWith
    <3> QED BY <2>9, <3>1, <3>2 DEF Rated
  <2>13. CASE transport'.connected /\ ~(cycle'.motion_completion > 0)
    <3>1. SameFrame(hist, hist') /\ transport' = transport
      BY <2>8, <2>13, TickFrames
    <3>2. hist.moved > 0 => SameLine(session, session')
      BY <1>2, <2>8, <2>10, <2>13 DEF SameLine
    <3> QED BY <2>9, <3>1, <3>2, RatedKept DEF RInv
  <2> QED BY <2>11, <2>12, <2>13
<1> QED BY <1>3, <1>9, <1>10, <1>11

LEMMA TickRated ==
  ASSUME RInv, NEW now \in Time, TickH(now)
  PROVE  RateStep /\ Rated(session', transport', hist')
BY QuietTicksRated, ZeroTicksRated, TickMotionRated DEF TickH, Tick

\* A call that is not a tick writes no frame.
LEMMA CallsWriteNothing ==
  ASSUME cycle' = NoCycle
  PROVE  RateStep
BY DEF NoCycle, RateStep

LEMMA HNextRated ==
  RInv /\ HNext => RateStep /\ Rated(session', transport', hist')
<1> SUFFICES ASSUME RInv, HNext PROVE RateStep /\ Rated(session', transport', hist')
  OBVIOUS
<1>1. ASSUME NEW now \in Time, NEW token \in Token, AuthorizeH(token, now) \/ ResetH(token, now)
      PROVE  RateStep /\ Rated(session', transport', hist')
  <2>1. cycle' = NoCycle
    BY <1>1 DEF AuthorizeH, Authorize, ResetH, ResetEmergencyStop, OnlySession
  <2> QED BY <1>1, <2>1, CallsWriteNothing, AuthorizeRated, ResetRated
<1>2. ASSUME NEW now \in Time, NEW c \in Command, SubmitH(c, now)
      PROVE  RateStep /\ Rated(session', transport', hist')
  BY <1>2, CallsWriteNothing, SubmitRated DEF SubmitH, Submit, OnlySession
<1>3. ASSUME NEW now \in Time, NEW decoded, ObserveFeedbackH(decoded, now)
      PROVE  RateStep /\ Rated(session', transport', hist')
  BY <1>3, CallsWriteNothing, ObserveFeedbackRated
     DEF ObserveFeedbackH, ObserveFeedback, OnlySession
<1>4. ASSUME NEW now \in Time, StopH(now)
      PROVE  RateStep /\ Rated(session', transport', hist')
  <2>1. cycle' = NoCycle
    BY <1>4 DEF StopH, Disarm, RequestStop, LatchEmergencyStop, OnlySession
  <2> QED BY <1>4, <2>1, CallsWriteNothing, StopRated
<1>5. ASSUME NEW now \in Time, TickH(now)
      PROVE  RateStep /\ Rated(session', transport', hist')
  BY <1>5, TickRated
<1>6. CASE TransportH
  <2>1. cycle' = NoCycle
    BY <1>6 DEF TransportH, TransportLost, TransportReopened
  <2> QED BY <1>6, <2>1, CallsWriteNothing, TransportRated
<1> QED BY <1>1, <1>2, <1>3, <1>4, <1>5, <1>6 DEF HNext

-----------------------------------------------------------------------------
(* The theorems *)

\* The history only watches.
LEMMA HistoryWatches ==
  HNext => Next
BY DEF HNext, Next, AuthorizeH, ResetH, SubmitH, ObserveFeedbackH, StopH, TickH, TransportH

\* The steps the two action properties allow.
PermittedStep ==
  cycle'.motion_write_attempted =>
    /\ hist.zeroed /\ hist.armed /\ hist.allowed
    /\ hist.run >= FreshCommandsRequired
EarnedStep ==
  session.estop /\ ~session'.estop => hist.latch_zeroed /\ hist.allowed /\ hist.zeroed

LEMMA HNextTied ==
  HInv /\ HNext => Tied(session', transport', hist')
<1> SUFFICES ASSUME HInv, HNext PROVE Tied(session', transport', hist')
  OBVIOUS
<1>1. ASSUME NEW now \in Time, NEW token \in Token, AuthorizeH(token, now)
      PROVE  Tied(session', transport', hist')
  BY <1>1, AuthorizeTied DEF AuthorizeH, Authorize, OnlySession
<1>2. ASSUME NEW now \in Time, NEW token \in Token, ResetH(token, now)
      PROVE  Tied(session', transport', hist')
  BY <1>2, ResetTied DEF ResetH, ResetEmergencyStop, OnlySession
<1>3. ASSUME NEW now \in Time, NEW c \in Command, SubmitH(c, now)
      PROVE  Tied(session', transport', hist')
  BY <1>3, SubmitTied DEF SubmitH, Submit, OnlySession
<1>4. ASSUME NEW now \in Time, NEW decoded, ObserveFeedbackH(decoded, now)
      PROVE  Tied(session', transport', hist')
  BY <1>4, ObserveFeedbackTied DEF ObserveFeedbackH, ObserveFeedback, OnlySession
<1>5. ASSUME NEW now \in Time, StopH(now)
      PROVE  Tied(session', transport', hist')
  <2>1. CASE Disarm(now) /\ hist' = Timed(Revoked(hist), now)
    BY <2>1, DisarmTied DEF Disarm, OnlySession
  <2>2. CASE RequestStop(now) /\ hist' = Timed(Stopped(hist), now)
    BY <2>2, RequestStopTied DEF RequestStop, OnlySession
  <2>3. CASE LatchEmergencyStop(now)
             /\ hist' = [Inhibiting(hist) EXCEPT !.latch_zeroed = FALSE]
    BY <2>3, LatchTied DEF LatchEmergencyStop, OnlySession
  <2> QED BY <1>5, <2>1, <2>2, <2>3 DEF StopH
<1>6. ASSUME NEW now \in Time, TickH(now)
      PROVE  Tied(session', transport', hist')
  BY <1>6, TickTied
<1>7. CASE TransportH
  BY <1>7, TransportTied
<1> QED BY <1>1, <1>2, <1>3, <1>4, <1>5, <1>6, <1>7 DEF HNext

LEMMA HNextPermitted ==
  HInv /\ HNext => PermittedStep
<1> SUFFICES ASSUME HInv, HNext, cycle'.motion_write_attempted PROVE PermittedStep
  BY DEF PermittedStep
<1>1. PICK now \in Time: TickH(now)
  <2>1. cycle' # NoCycle
    BY DEF NoCycle
  <2> QED BY <2>1 DEF HNext, AuthorizeH, ResetH, SubmitH, ObserveFeedbackH, StopH, TransportH,
             Authorize, ResetEmergencyStop, Submit, ObserveFeedback, Disarm, RequestStop,
             LatchEmergencyStop, OnlySession, TransportLost, TransportReopened
<1>2. CASE TickStops(now)
  BY <1>2, QuietFields DEF TickStops
<1>3. CASE TickIdle(now)
  <2>1. cycle' = Quiet("kNoAction")
    BY <1>3 DEF TickIdle
  <2> QED BY <2>1, QuietFields
<1>4. CASE TickZero(now)
  BY <1>1, <1>4, TickZeroTied
<1>5. CASE TickExpired(now)
  BY <1>1, <1>5, TickExpiredTied
<1>6. CASE TickRateLimited(now)
  BY <1>6, QuietFields DEF TickRateLimited
<1>7. CASE TickMotion(now)
  BY <1>7, SendEarned DEF TickMotion, PermittedStep
<1> QED BY <1>1, <1>2, <1>3, <1>4, <1>5, <1>6, <1>7 DEF TickH, Tick

LEMMA HNextEarned ==
  HInv /\ HNext => EarnedStep
<1> SUFFICES ASSUME HInv, HNext, session.estop, ~session'.estop PROVE EarnedStep
  BY DEF EarnedStep
<1>1. CASE TransportH
  BY <1>1 DEF TransportH, TransportLost, TransportReopened
<1>2. ASSUME NEW now \in Time, NEW token \in Token, ResetH(token, now)
      PROVE  EarnedStep
  <2> DEFINE e == Entered(now)
  <2>1. e.estop
    BY EnteredEstop DEF HInv
  <2>2. Goes(now) /\ MayReset(e, token, now)
    BY <1>2, <2>1 DEF ResetH, ResetEmergencyStop
  <2>3. /\ e.estop /\ e.state = "kEmergencyStopLatched" /\ e.feedback_seen
        /\ Told(e, hist) /\ ~e.zero_active
    BY <2>2, ReleaseFound
  <2> HIDE DEF e
  <2> QED BY <2>3 DEF Told, EarnedStep
<1>3. ASSUME NEW now \in Time,
             \/ \E token \in Token: AuthorizeH(token, now)
             \/ \E c \in Command: SubmitH(c, now)
             \/ \E decoded: ObserveFeedbackH(decoded, now)
             \/ StopH(now)
             \/ TickH(now)
      PROVE  EarnedStep
  BY <1>3, LatchIsKept DEF AuthorizeH, SubmitH, ObserveFeedbackH, StopH, TickH
<1> QED BY <1>1, <1>2, <1>3 DEF HNext

LEMMA HInvNext ==
  HInv /\ [HNext]_hvars => HInv'
<1> SUFFICES ASSUME HInv, [HNext]_hvars PROVE HInv'
  OBVIOUS
<1>1. [Next]_vars
  BY HistoryWatches DEF hvars, vars
<1>2. IInv'
  BY <1>1, NextGood DEF HInv, SInv
<1>3. CASE HNext
  <2>1. Tracked(session', transport')
    BY <1>3, HistoryWatches, NextLawful DEF HInv, Lawful
  <2> QED BY <1>2, <1>3, <2>1, HNextTied DEF HInv, SInv
<1>4. CASE UNCHANGED hvars
  BY <1>2, <1>4 DEF hvars, HInv, SInv
<1> QED BY <1>3, <1>4

\* The invariant that ties the session to its history.
THEOREM HistoryInvariant == HSpec => []HInv
BY InitTied, HInvNext, PTL DEF HSpec

\* attemptZero() never writes more than the configured number of zero frames
\* that fail in a row on one line: a stop or an emergency stop requested while
\* an episode runs joins it, and a faulted session writes no more.
THEOREM RetryBudgetHolds == HSpec => []RetryBudgetIsBounded
<1>1. HInv => RetryBudgetIsBounded
  BY DEF HInv, Tied, RetryBudgetIsBounded
<1> QED BY <1>1, HistoryInvariant, PTL

\* tick() writes a motion frame only behind a zero frame on the same line,
\* under an authorization nothing has revoked, with feedback that allowed
\* control last, and after the whole run of commands that came in time.
THEOREM MotionPermitted == HSpec => MotionIsPermitted
<1>1. HInv /\ [HNext]_hvars =>
        [cycle'.motion_write_attempted =>
           /\ hist.zeroed /\ hist.armed /\ hist.allowed
           /\ hist.run >= FreshCommandsRequired]_hvars
  BY HNextPermitted DEF PermittedStep
<1> QED BY <1>1, HistoryInvariant, PTL DEF HSpec, MotionIsPermitted

\* resetEmergencyStop() releases the latch only behind a zero frame written
\* since it was set and feedback that has allowed control since.
THEOREM ReleaseEarned == HSpec => ReleaseIsEarned
<1>1. HInv /\ [HNext]_hvars =>
        [session.estop /\ ~session'.estop
           => hist.latch_zeroed /\ hist.allowed /\ hist.zeroed]_hvars
  BY HNextEarned DEF EarnedStep
<1> QED BY <1>1, HistoryInvariant, PTL DEF HSpec, ReleaseIsEarned

\* tick() leaves two motion frames on one line at least transmit_period_ns apart,
\* measured between the times the transport reported them complete, whatever
\* calls come in between: no stop, re-authorization, emergency stop or clock
\* failure makes the session forget the frame, and only a late one, which it
\* never records, starts no period.
THEOREM MotionRateHolds == HSpec => MotionRateIsLimited
<1>1. HInit => RInv
  <2>1. HInit => hist.moved = 0
    BY DEF HInit, NoHistory
  <2> QED BY <2>1, InitTied DEF RInv, Rated
<1>2. RInv /\ [HNext]_hvars => RInv'
  <2> SUFFICES ASSUME RInv, [HNext]_hvars PROVE RInv'
    OBVIOUS
  <2>1. HInv'
    BY HInvNext DEF RInv
  <2>2. CASE HNext
    BY <2>1, <2>2, HNextRated DEF RInv
  <2>3. CASE UNCHANGED hvars
    BY <2>1, <2>3 DEF hvars, RInv
  <2> QED BY <2>2, <2>3
<1>3. RInv /\ [HNext]_hvars =>
        [cycle'.motion_completion > 0 /\ hist.moved > 0 /\ ~hist.late
           => cycle'.motion_completion - hist.moved >= TransmitPeriod]_hvars
  BY HNextRated DEF RateStep
<1> QED BY <1>1, <1>2, <1>3, PTL DEF HSpec, MotionRateIsLimited

=============================================================================
