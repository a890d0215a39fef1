---------------------------- MODULE TeleopProofs ----------------------------
(***************************************************************************)
(* The keyboard client keeps its promises to the process behind its pipe,  *)
(* for every timing of keys, polls, signals, restarts and bad readings of  *)
(* the clock.                                                              *)
(***************************************************************************)
EXTENDS Teleop, TLAPS

-----------------------------------------------------------------------------
(* The invariant *)

Stop == [op: {"STOP", "ESTOP", "QUIT"}]
Grant == [op: {"AUTH"}, token: Nat]
Command == [op: {"CMD"}, sequence: Nat, created: Nat, deadline: Nat,
            direction: Direction, speed: Nat]
Line == Stop \cup Grant \cup Command
Controller == [
  speed: MinSpeed..MaxSpeed, authorized: BOOLEAN, estop: BOOLEAN,
  active: Direction \cup {"none"}, activity: Time, next: Nat, last_clock: Time,
  token: Time, auth_ns: Time, sequence: Nat, conflict_until: Time,
  stopped: BOOLEAN, quit: BOOLEAN, finished: BOOLEAN,
  out: Seq(Line)]
Loop == [pc: {"start", "top", "poll", "events", "tick", "finish", "ended"},
         now: Time, events: 0..MaxEvents]

\* The lines of a step that carry an identifier, and the line a reader of the
\* pipe saw last when it had seen `line' before.
Commands(t) == {t.out[i]: i \in Lines(t, "CMD")}
Grants(t) == {t.out[i]: i \in Lines(t, "AUTH")}
LastLine(t, line) == IF t.out = <<>> THEN line ELSE t.out[Len(t.out)].op

Shaped ==
  /\ clock \in Time /\ clock > 0 /\ shutdown \in BOOLEAN
  /\ loop \in Loop /\ loop.now <= clock
  /\ tele \in Controller /\ tele.last_clock <= clock
  /\ seen.sequence \in Nat /\ seen.token \in Nat

\* The emergency stop takes the permission away, and a direction is steered
\* only with it.
Lawful(t) == t.authorized => ~t.estop
Permitted(t) == Lawful(t) /\ (t.active # "none" => t.authorized)
\* A command is the last word only while its direction is steered, and the
\* next STOP is not suppressed as a repetition.
Guarded(t, line) == LastLine(t, line) = "CMD" => t.active # "none" /\ ~t.stopped
Spoken == ~At("start") /\ seen.line = "CMD" => tele.active # "none" /\ ~tele.stopped

\* The direction that is steered is the one the operator's hand is on.
Steered == tele.active # "none" => hand.key = tele.active /\ hand.time = tele.activity

\* A reading of the loop that will pass _valid_now.
ValidNow == TimeValid(tele, loop.now)

\* What each position of run_session knows of the age of a direction.
Punctual ==
  /\ At("poll") /\ tele.active # "none" =>
       clock < tele.activity + ReleaseTimeout /\ clock < tele.next
  /\ (At("events") \/ At("tick")) /\ ValidNow => clock <= loop.now + MaxEvents - loop.events
  /\ (At("events") \/ At("tick")) /\ tele.active # "none" =>
       \/ clock <= tele.activity + ReleaseTimeout + MaxDelay
       \/ ValidNow /\ loop.now < tele.activity + ReleaseTimeout

\* The numbers used so far are this process's own, or of the past.
Numbered ==
  /\ tele.sequence <= seen.sequence /\ tele.token <= seen.token
  /\ tele.sequence # seen.sequence => seen.sequence < clock
  /\ tele.token # seen.token => seen.token < clock
  /\ (At("events") \/ At("tick")) /\ ValidNow =>
       /\ tele.sequence # seen.sequence => seen.sequence < loop.now
       /\ tele.token # seen.token => seen.token < loop.now

\* The numbers never run ahead of the clock, so a process that starts later
\* begins above them: a number equal to the clock is that of a direction that
\* has no command due.
Paced ==
  clock < Int64Max =>
    /\ seen.token < clock
    /\ \/ seen.sequence < clock
       \/ /\ seen.sequence = clock
          /\ tele.authorized =>
               /\ tele.active # "none" /\ tele.next > clock
               /\ clock < tele.activity + ReleaseTimeout
    /\ (At("events") \/ At("tick")) /\ ValidNow
         /\ tele.active # "none" /\ tele.next <= loop.now => seen.sequence < loop.now

Begins == At("start") => tele.active = "none" /\ ~tele.finished

TInv ==
  /\ Shaped
  /\ Permitted(tele)
  /\ Spoken
  /\ Steered
  /\ Begins
  /\ CommandFollowsHand
  /\ SilenceIsNoticed
  /\ Punctual
  /\ Numbered
  /\ Paced

-----------------------------------------------------------------------------
(* The lines of a step *)

\* Fields that only the lines do not depend on may change freely.
LEMMA OutDecides ==
  ASSUME NEW t, NEW u, u.out = t.out
  PROVE  /\ Commands(u) = Commands(t) /\ Grants(u) = Grants(t)
         /\ \A line: LastLine(u, line) = LastLine(t, line)
BY DEF Commands, Grants, Lines, LastLine

LEMMA EmptyOut ==
  ASSUME NEW t, t.out = <<>>
  PROVE  /\ Commands(t) = {} /\ Grants(t) = {}
         /\ \A line: LastLine(t, line) = line
BY DEF Commands, Grants, Lines, LastLine

LEMMA AppendFacts ==
  ASSUME NEW s \in Seq(Line), NEW l \in Line
  PROVE  /\ Append(s, l) \in Seq(Line) /\ Append(s, l) # <<>>
         /\ Append(s, l)[Len(Append(s, l))] = l
         /\ {i \in DOMAIN Append(s, l): Append(s, l)[i].op = "CMD"} =
              {i \in DOMAIN s: s[i].op = "CMD"} \cup (IF l.op = "CMD" THEN {Len(s) + 1} ELSE {})
         /\ {i \in DOMAIN Append(s, l): Append(s, l)[i].op = "AUTH"} =
              {i \in DOMAIN s: s[i].op = "AUTH"} \cup (IF l.op = "AUTH" THEN {Len(s) + 1} ELSE {})
<1> DEFINE a == Append(s, l)
<1>1. a \in Seq(Line) /\ Len(a) = Len(s) + 1 /\ a[Len(s) + 1] = l /\ Len(s) \in Nat
  OBVIOUS
<1>2. DOMAIN a = 1..(Len(s) + 1) /\ DOMAIN s = 1..Len(s)
  OBVIOUS
<1>3. \A i \in 1..Len(s): a[i] = s[i]
  OBVIOUS
<1>4. a # <<>>
  BY <1>1
<1> HIDE DEF a
<1>5. DOMAIN a = DOMAIN s \cup {Len(s) + 1} /\ \A i \in DOMAIN s: a[i] = s[i]
  BY <1>1, <1>2, <1>3
<1>6. Len(s) + 1 \notin DOMAIN s
  BY <1>1, <1>2
<1>7. {i \in DOMAIN a: a[i].op = "CMD"} =
        {i \in DOMAIN s: s[i].op = "CMD"} \cup (IF l.op = "CMD" THEN {Len(s) + 1} ELSE {})
  BY <1>1, <1>5
<1>8. {i \in DOMAIN a: a[i].op = "AUTH"} =
        {i \in DOMAIN s: s[i].op = "AUTH"} \cup (IF l.op = "AUTH" THEN {Len(s) + 1} ELSE {})
  BY <1>1, <1>5
<1> QED BY <1>1, <1>4, <1>7, <1>8 DEF a

LEMMA EmitLines ==
  ASSUME NEW t \in Controller, NEW l \in Line
  PROVE  LET u == Emit(t, l) IN
         /\ \A line: LastLine(u, line) = l.op
         /\ Commands(u) = Commands(t) \cup (IF l.op = "CMD" THEN {l} ELSE {})
         /\ Grants(u) = Grants(t) \cup (IF l.op = "AUTH" THEN {l} ELSE {})
<1> DEFINE u == Emit(t, l)
           s == t.out
           a == Append(s, l)
           n == Len(s) + 1
<1>1. s \in Seq(Line)
  BY DEF Controller
<1>2. u.out = a
  BY DEF Emit, Controller
<1>3. /\ a # <<>> /\ a[Len(a)] = l
      /\ Lines(u, "CMD") = Lines(t, "CMD") \cup (IF l.op = "CMD" THEN {n} ELSE {})
      /\ Lines(u, "AUTH") = Lines(t, "AUTH") \cup (IF l.op = "AUTH" THEN {n} ELSE {})
  BY <1>1, <1>2, AppendFacts DEF Lines
<1>4. a[n] = l /\ \A i \in DOMAIN s: a[i] = s[i]
  BY <1>1
<1> HIDE DEF u, a, n
<1>5. \A line: LastLine(u, line) = l.op
  BY <1>2, <1>3 DEF LastLine
<1>6. Commands(u) = Commands(t) \cup (IF l.op = "CMD" THEN {l} ELSE {})
  BY <1>2, <1>3, <1>4 DEF Commands, Lines
<1>7. Grants(u) = Grants(t) \cup (IF l.op = "AUTH" THEN {l} ELSE {})
  BY <1>2, <1>3, <1>4 DEF Grants, Lines
<1> QED BY <1>5, <1>6, <1>7 DEF u

\* u differs from t in the lines and the repetition mark only.
Alike(t, u) ==
  /\ u.speed = t.speed /\ u.authorized = t.authorized /\ u.estop = t.estop
  /\ u.active = t.active /\ u.activity = t.activity /\ u.next = t.next
  /\ u.last_clock = t.last_clock /\ u.token = t.token /\ u.auth_ns = t.auth_ns
  /\ u.sequence = t.sequence /\ u.conflict_until = t.conflict_until
  /\ u.quit = t.quit /\ u.finished = t.finished

LEMMA EmitFields ==
  ASSUME NEW t \in Controller, NEW l \in Line
  PROVE  LET u == Emit(t, l) IN u \in Controller /\ Alike(t, u) /\ u.stopped = t.stopped
<1>1. t.out \in Seq(Line)
  BY DEF Controller
<1>2. Append(t.out, l) \in Seq(Line)
  BY <1>1, AppendFacts
<1>3. Emit(t, l) \in Controller
  BY <1>2 DEF Emit, Controller
<1>4. Alike(t, Emit(t, l)) /\ Emit(t, l).stopped = t.stopped
  BY DEF Emit, Controller, Alike
<1> QED BY <1>3, <1>4

\* A STOP is not suppressed while a command is the last word.
Word(t, line) == LastLine(t, line) = "CMD" => ~t.stopped

LEMMA EmitStopFacts ==
  ASSUME NEW t \in Controller, NEW force \in BOOLEAN
  PROVE  LET u == EmitStop(t, force) IN
         /\ u \in Controller /\ Alike(t, u) /\ u.stopped = TRUE
         /\ Commands(u) = Commands(t) /\ Grants(u) = Grants(t)
         /\ \A line: force \/ Word(t, line) => LastLine(u, line) # "CMD"
<1> DEFINE stop == [op |-> "STOP"]
           e == Emit(t, stop)
           u == EmitStop(t, force)
<1>1. stop \in Line /\ stop.op = "STOP"
  BY DEF Line, Stop
<1>2. CASE force \/ ~t.stopped
  <2> HIDE DEF stop
  <2>1. e \in Controller /\ Alike(t, e)
    BY <1>1, EmitFields
  <2>2. /\ Commands(e) = Commands(t) /\ Grants(e) = Grants(t)
        /\ \A line: LastLine(e, line) = "STOP"
    BY <1>1, EmitLines
  <2>3. u = [e EXCEPT !.stopped = TRUE]
    BY <1>2 DEF EmitStop, stop
  <2> HIDE DEF e, u
  <2>4. u \in Controller /\ u.stopped = TRUE /\ u.out = e.out
    BY <2>1, <2>3 DEF Controller
  <2>5. Alike(t, u)
    BY <2>1, <2>3 DEF Controller, Alike
  <2>6. /\ Commands(u) = Commands(t) /\ Grants(u) = Grants(t)
        /\ \A line: LastLine(u, line) = "STOP"
    BY <2>2, <2>4, OutDecides
  <2> QED BY <2>4, <2>5, <2>6 DEF u
<1>3. CASE ~(force \/ ~t.stopped)
  <2>1. u = t /\ t.stopped = TRUE
    BY <1>3 DEF EmitStop, Controller
  <2> QED BY <1>3, <2>1 DEF Alike, Word
<1> QED BY <1>2, <1>3

-----------------------------------------------------------------------------
(* What a method of the controller makes of its fields *)

\* A controller between two lines of a method: nothing with a number is out.
Ready(t, line) ==
  /\ t \in Controller /\ Permitted(t) /\ Guarded(t, line)
  /\ Commands(t) = {} /\ Grants(t) = {}

SameNumbers(t, u) ==
  u.sequence = t.sequence /\ u.token = t.token /\ u.last_clock = t.last_clock

\* The direction is given up; a reader of the pipe knows.
Halted(t, u, line) ==
  /\ u \in Controller /\ Lawful(u) /\ u.active = "none" /\ LastLine(u, line) # "CMD"
  /\ Commands(u) = {} /\ Grants(u) = {} /\ SameNumbers(t, u)

\* The same, with a new authorization.
Granted(t, u, now, line) ==
  /\ u \in Controller /\ Lawful(u) /\ u.active = "none" /\ LastLine(u, line) # "CMD"
  /\ Commands(u) = {} /\ u.sequence = t.sequence /\ u.last_clock = t.last_clock
  /\ u.token = Larger(now, t.token + 1)
  /\ Grants(u) = {[op |-> "AUTH", token |-> u.token]}

\* The direction stays as it is.
Kept(t, u, line) ==
  /\ Ready(u, line) /\ SameNumbers(t, u)
  /\ u.active = t.active /\ u.activity = t.activity /\ u.next = t.next

\* The direction is the key's, and no command is due.
Held(t, u, key, now, line) ==
  /\ Ready(u, line) /\ SameNumbers(t, u)
  /\ u.active = key /\ u.activity = now /\ u.next > now

\* A command leaves for the direction `key' that was last active at `activity'.
Commanded(t, u, key, activity, now, line) ==
  /\ u \in Controller /\ Permitted(u) /\ Guarded(u, line) /\ u.active # "none"
  /\ u.sequence = Larger(t.sequence + 1, now)
  /\ u.token = t.token /\ u.last_clock = t.last_clock
  /\ u.active = key /\ u.activity = activity /\ u.next = now + CommandPeriod
  /\ Grants(u) = {}
  /\ \E c \in Command: /\ Commands(u) = {c} /\ c.sequence = u.sequence
                       /\ c.direction = u.active /\ c.created = now

LEMMA ConstantFacts ==
  /\ Int64Max \in Nat /\ Int64Max > 0 /\ ReleaseTimeout \in Nat /\ CommandPeriod \in Nat
  /\ CommandPeriod > 0 /\ ReleaseTimeout > CommandPeriod
  /\ MaxDelay \in Nat /\ MaxEvents \in Nat /\ IdleWait \in Nat
  /\ MinSpeed \in Nat /\ MaxSpeed \in Nat /\ MinSpeed <= MaxSpeed /\ SpeedStep \in Nat
  /\ InitialSpeed \in MinSpeed..MaxSpeed
  /\ \A d \in Direction: d \notin {"none", "r", "q", "e", "space", "x", "esc"}
<1>1. /\ Int64Max \in Nat \ {0} /\ ReleaseTimeout \in Nat \ {0} /\ CommandPeriod \in Nat \ {0}
      /\ MinSpeed \in Nat \ {0} /\ InitialSpeed \in Nat \ {0} /\ MaxSpeed \in Nat \ {0}
      /\ SpeedStep \in Nat \ {0} /\ IdleWait \in Nat \ {0} /\ MaxEvents \in Nat \ {0}
  BY TeleopAssumption
<1>2. /\ MaxDelay \in Nat /\ CommandPeriod < ReleaseTimeout
      /\ MinSpeed <= InitialSpeed /\ InitialSpeed <= MaxSpeed
  BY TeleopAssumption
<1>3. \A d \in Direction: d \notin {"none", "r", "q", "e", "space", "x", "esc"}
  BY TeleopAssumption
<1>4. InitialSpeed \in MinSpeed..MaxSpeed /\ MinSpeed <= MaxSpeed
  BY <1>1, <1>2
<1>5. Int64Max > 0 /\ CommandPeriod > 0 /\ ReleaseTimeout > CommandPeriod
  BY <1>1, <1>2
<1> QED BY <1>1, <1>2, <1>3, <1>4, <1>5

LEMMA TimeFacts ==
  /\ 0 \in Time
  /\ \A x \in Time: x \in Nat /\ x <= Int64Max
  /\ \A x \in Nat: x <= Int64Max => x \in Time
BY ConstantFacts DEF Time

LEMMA ClearFields ==
  ASSUME NEW t \in Controller
  PROVE  LET u == ClearDirection(t) IN
         /\ u \in Controller /\ u.active = "none" /\ u.out = t.out /\ u.stopped = t.stopped
         /\ u.authorized = t.authorized /\ u.estop = t.estop /\ u.finished = t.finished
         /\ SameNumbers(t, u)
BY TimeFacts DEF ClearDirection, Controller, SameNumbers

LEMMA UnauthorizedFields ==
  ASSUME NEW t \in Controller
  PROVE  LET u == Unauthorized(t) IN
         /\ u \in Controller /\ u.out = t.out /\ u.stopped = t.stopped
         /\ u.authorized = FALSE /\ u.finished = t.finished /\ SameNumbers(t, u)
BY DEF Unauthorized, Controller, SameNumbers

LEMMA StopAndClearHalts ==
  ASSUME NEW t \in Controller, NEW line, Word(t, line), Lawful(t),
         Commands(t) = {}, Grants(t) = {}
  PROVE  Halted(t, StopAndClear(t), line)
<1> DEFINE c == ClearDirection(t)
           u == EmitStop(c, FALSE)
<1>1. /\ c \in Controller /\ c.active = "none" /\ c.out = t.out /\ c.stopped = t.stopped
      /\ SameNumbers(t, c) /\ Lawful(c)
  BY ClearFields DEF Lawful
<1>2. Commands(c) = {} /\ Grants(c) = {} /\ Word(c, line)
  BY <1>1, OutDecides DEF Word
<1>3. StopAndClear(t) = u
  BY DEF StopAndClear
<1> HIDE DEF c
<1>4. /\ u \in Controller /\ Alike(c, u) /\ Commands(u) = {} /\ Grants(u) = {}
      /\ LastLine(u, line) # "CMD"
  BY <1>1, <1>2, EmitStopFacts
<1> HIDE DEF u
<1> QED BY <1>1, <1>3, <1>4 DEF Halted, Alike, SameNumbers, Lawful

\* Giving up the permission first, as a method does that refuses.
LEMMA RefusalHalts ==
  ASSUME NEW t \in Controller, NEW line, Word(t, line),
         Commands(t) = {}, Grants(t) = {}
  PROVE  Halted(t, StopAndClear(Unauthorized(t)), line)
<1> DEFINE a == Unauthorized(t)
<1>1. /\ a \in Controller /\ a.out = t.out /\ a.stopped = t.stopped /\ SameNumbers(t, a)
      /\ Lawful(a)
  BY UnauthorizedFields DEF Lawful
<1>2. Commands(a) = {} /\ Grants(a) = {} /\ Word(a, line)
  BY <1>1, OutDecides DEF Word
<1> HIDE DEF a
<1>3. Halted(a, StopAndClear(a), line)
  BY <1>1, <1>2, StopAndClearHalts
<1> QED BY <1>1, <1>3 DEF Halted, SameNumbers, a

LEMMA ReadyHasWord ==
  ASSUME NEW t, NEW line, Ready(t, line)
  PROVE  t \in Controller /\ Word(t, line) /\ Lawful(t) /\ Commands(t) = {} /\ Grants(t) = {}
BY DEF Ready, Guarded, Word, Permitted

\* A reading that _valid_now refuses takes the permission away.
LEMMA BadClockHalts ==
  ASSUME NEW t, NEW line, Ready(t, line), NEW now, ~TimeValid(t, now)
  PROVE  Halted(t, ObserveClock(t, now), line) /\ ~ObserveClock(t, now).authorized
<1> DEFINE a == Unauthorized(t)
           c == ClearDirection(a)
           u == EmitStop(c, TRUE)
<1>1. a \in Controller /\ a.out = t.out /\ a.authorized = FALSE /\ SameNumbers(t, a)
  <2>1. t \in Controller
    BY ReadyHasWord
  <2> QED BY <2>1, UnauthorizedFields
<1> HIDE DEF a
<1>2. /\ c \in Controller /\ c.active = "none" /\ c.out = a.out /\ c.authorized = FALSE
      /\ SameNumbers(a, c)
  BY <1>1, ClearFields
<1>3. Commands(c) = {} /\ Grants(c) = {}
  BY <1>1, <1>2, OutDecides DEF Ready
<1> HIDE DEF c
<1>4. /\ u \in Controller /\ Alike(c, u) /\ Commands(u) = {} /\ Grants(u) = {}
      /\ LastLine(u, line) # "CMD"
  BY <1>2, <1>3, EmitStopFacts
<1>5. ObserveClock(t, now) = u
  BY DEF ObserveClock, a, c
<1> HIDE DEF u
<1> QED BY <1>1, <1>2, <1>4, <1>5 DEF Halted, Alike, SameNumbers, Lawful

LEMMA GoodClockKeeps ==
  ASSUME NEW t, NEW line, Ready(t, line), NEW now \in Time, TimeValid(t, now)
  PROVE  LET u == ObserveClock(t, now) IN
         /\ Ready(u, line) /\ u.last_clock = now /\ u.sequence = t.sequence
         /\ u.token = t.token /\ u.authorized = t.authorized
         /\ u.active = t.active /\ u.activity = t.activity /\ u.next = t.next
<1> DEFINE u == ObserveClock(t, now)
<1>1. u = [t EXCEPT !.last_clock = now] /\ t \in Controller
  BY DEF ObserveClock, Ready
<1> HIDE DEF u
<1>2. u \in Controller /\ u.out = t.out
  BY <1>1 DEF Controller
<1>3. /\ u.last_clock = now /\ u.sequence = t.sequence /\ u.token = t.token
      /\ u.authorized = t.authorized /\ u.estop = t.estop /\ u.stopped = t.stopped
      /\ u.active = t.active /\ u.activity = t.activity /\ u.next = t.next
  BY <1>1 DEF Controller
<1>4. Ready(u, line)
  BY <1>2, <1>3, OutDecides DEF Ready, Permitted, Lawful, Guarded
<1> QED BY <1>3, <1>4 DEF u

LEMMA ExpireFacts ==
  ASSUME NEW t, NEW line, Ready(t, line), NEW now \in Time
  PROVE  LET u == ExpireDirection(t, now) IN
         /\ Ready(u, line) /\ SameNumbers(t, u)
         /\ \/ u = t /\ ~Expired(t, now)
            \/ u.active = "none" /\ Expired(t, now)
<1>1. CASE Expired(t, now)
  <2> DEFINE u == StopAndClear(t)
  <2>1. Halted(t, u, line)
    BY ReadyHasWord, StopAndClearHalts
  <2>2. ExpireDirection(t, now) = u
    BY <1>1 DEF ExpireDirection
  <2> HIDE DEF u
  <2> QED BY <1>1, <2>1, <2>2 DEF Halted, Ready, Permitted, Guarded
<1>2. CASE ~Expired(t, now)
  BY <1>2 DEF ExpireDirection, SameNumbers
<1> QED BY <1>1, <1>2

LEMMA AuthorizeFacts ==
  ASSUME NEW t, NEW line, Ready(t, line), NEW now \in Time
  PROVE  LET u == Authorize(t, now) IN Halted(t, u, line) \/ Granted(t, u, now, line)
<1> DEFINE token == Larger(now, t.token + 1)
           grant == [op |-> "AUTH", token |-> token]
           c == ClearDirection(t)
           g == [c EXCEPT !.token = token, !.authorized = TRUE,
                          !.auth_ns = now, !.conflict_until = 0]
           e == Emit(g, grant)
           u == EmitStop(e, TRUE)
<1>1. t \in Controller /\ t.token \in Nat /\ now \in Nat
  BY ReadyHasWord, TimeFacts DEF Controller
<1>2. token \in Nat /\ token > t.token
  BY <1>1 DEF Larger
<1>3. CASE t.estop \/ token > Int64Max
  <2>1. Authorize(t, now) = StopAndClear(Unauthorized(t))
    BY <1>3 DEF Authorize
  <2> QED BY <2>1, ReadyHasWord, RefusalHalts
<1>4. CASE ~(t.estop \/ token > Int64Max)
  <2>1. Authorize(t, now) = u
    BY <1>4 DEF Authorize
  <2>2. token \in Time
    BY <1>2, <1>4, TimeFacts, ConstantFacts
  <2> HIDE DEF token
  <2>3. /\ c \in Controller /\ c.out = t.out /\ c.active = "none" /\ SameNumbers(t, c)
        /\ c.estop = t.estop
    BY <1>1, ClearFields
  <2> HIDE DEF c
  <2>4. g \in Controller /\ g.out = t.out /\ g.token = token
    BY <2>2, <2>3, TimeFacts DEF Controller
  <2>5. /\ g.active = "none" /\ g.sequence = t.sequence /\ g.last_clock = t.last_clock
        /\ g.estop = c.estop
    BY <2>3 DEF Controller, SameNumbers
  <2> HIDE DEF g
  <2>6. Commands(g) = {} /\ Grants(g) = {}
    BY <2>4, OutDecides DEF Ready
  <2>7. grant \in Line /\ grant.op = "AUTH"
    BY <1>2 DEF Line, Grant
  <2> HIDE DEF grant
  <2>8. e \in Controller /\ Alike(g, e) /\ Commands(e) = {} /\ Grants(e) = {grant}
    BY <2>4, <2>6, <2>7, EmitFields, EmitLines
  <2> HIDE DEF e
  <2>9. /\ u \in Controller /\ Alike(e, u) /\ Commands(u) = {} /\ Grants(u) = {grant}
        /\ LastLine(u, line) # "CMD"
    BY <2>8, EmitStopFacts
  <2> HIDE DEF u
  <2>10. /\ u.token = token /\ u.active = "none" /\ u.sequence = t.sequence
         /\ u.last_clock = t.last_clock /\ ~u.estop
    BY <1>4, <2>3, <2>4, <2>5, <2>8, <2>9 DEF Alike
  <2>11. Granted(t, u, now, line)
    BY <2>9, <2>10 DEF Granted, Lawful, token, grant
  <2> QED BY <2>1, <2>11
<1> QED BY <1>3, <1>4

LEMMA ChangeSpeedFacts ==
  ASSUME NEW t, NEW line, Ready(t, line), NEW delta \in Int
  PROVE  LET u == ChangeSpeed(t, delta) IN
         Halted(t, u, line) \/ (u.active = "none" /\ Kept(t, u, line))
<1> DEFINE s == IF t.active # "none" THEN StopAndClear(t) ELSE t
           v == Clamp(t.speed + delta)
           u == [s EXCEPT !.speed = v]
<1>1. t \in Controller /\ t.speed \in Int
  BY ReadyHasWord, ConstantFacts DEF Controller
<1>2. v \in MinSpeed..MaxSpeed
  <2>1. t.speed + delta \in Int /\ MinSpeed \in Int /\ MaxSpeed \in Int /\ MinSpeed <= MaxSpeed
    BY <1>1, ConstantFacts
  <2> QED BY <2>1 DEF Clamp, Smaller, Larger
<1>3. ChangeSpeed(t, delta) = u
  BY DEF ChangeSpeed
<1> HIDE DEF v
<1>4. CASE t.active # "none"
  <2>1. Halted(t, s, line)
    BY <1>4, ReadyHasWord, StopAndClearHalts
  <2> HIDE DEF s
  <2>2. u \in Controller /\ u.out = s.out /\ u.active = s.active /\ SameNumbers(s, u)
    BY <1>2, <2>1 DEF Halted, Controller, SameNumbers
  <2>3. Lawful(u)
    BY <2>1 DEF Halted, Controller, Lawful
  <2> HIDE DEF u
  <2>4. Halted(t, u, line)
    BY <2>1, <2>2, <2>3, OutDecides DEF Halted, SameNumbers
  <2> QED BY <1>3, <2>4
<1>5. CASE t.active = "none"
  <2>1. s = t
    BY <1>5
  <2> HIDE DEF s
  <2>2. u \in Controller /\ u.out = t.out /\ SameNumbers(t, u)
    BY <1>1, <1>2, <2>1 DEF Controller, SameNumbers
  <2>3. /\ u.active = t.active /\ u.activity = t.activity /\ u.next = t.next
        /\ u.authorized = t.authorized /\ u.estop = t.estop /\ u.stopped = t.stopped
    BY <1>1, <2>1 DEF Controller
  <2> HIDE DEF u
  <2>4. u.active = "none" /\ Kept(t, u, line)
    BY <1>5, <2>2, <2>3, OutDecides DEF Kept, Ready, Permitted, Lawful, Guarded
  <2> QED BY <1>3, <2>4
<1> QED BY <1>4, <1>5

LEMMA EmitCommandFacts ==
  ASSUME NEW t, NEW line, Ready(t, line), NEW now \in Time, t.active # "none"
  PROVE  LET u == EmitCommand(t, now) IN 
         \/ Halted(t, u, line)
         \/ Commanded(t, u, t.active, t.activity, now, line)
<1> DEFINE n == NextSequence(t, now)
           cmd == [op |-> "CMD", sequence |-> n, created |-> now,
                   deadline |-> now + ReleaseTimeout, direction |-> t.active,
                   speed |-> t.speed]
           e == Emit(t, cmd)
           u == [e EXCEPT !.sequence = n, !.stopped = FALSE, !.next = now + CommandPeriod]
<1>1. /\ t \in Controller /\ t.sequence \in Nat /\ now \in Nat /\ t.speed \in Nat
      /\ t.active \in Direction
  BY ReadyHasWord, TimeFacts, ConstantFacts DEF Controller
<1>2. n \in Nat /\ n = Larger(t.sequence + 1, now)
  BY <1>1 DEF NextSequence, Larger
<1>3. CASE now > Int64Max - ReleaseTimeout
  <2>1. EmitCommand(t, now) = StopAndClear(Unauthorized(t))
    BY <1>3 DEF EmitCommand
  <2> QED BY <2>1, ReadyHasWord, RefusalHalts
<1>4. CASE ~(now > Int64Max - ReleaseTimeout)
  <2>1. EmitCommand(t, now) = u
    BY <1>4 DEF EmitCommand
  <2> HIDE DEF n
  <2>2. /\ cmd \in Line /\ cmd \in Command /\ cmd.op = "CMD" /\ cmd.sequence = n
        /\ cmd.direction = t.active /\ cmd.created = now
    BY <1>1, <1>2, ConstantFacts DEF Line, Command
  <2> HIDE DEF cmd
  <2>3. /\ e \in Controller /\ Alike(t, e) /\ Commands(e) = {cmd} /\ Grants(e) = {}
    BY <1>1, <2>2, EmitFields, EmitLines DEF Ready
  <2> HIDE DEF e
  <2>4. now + CommandPeriod \in Nat
    BY <1>1, ConstantFacts
  <2>5. u \in Controller /\ u.out = e.out /\ u.stopped = FALSE /\ u.sequence = n
    BY <1>2, <2>3, <2>4 DEF Controller
  <2>6. /\ u.next = now + CommandPeriod /\ u.active = t.active /\ u.activity = t.activity
        /\ u.token = t.token /\ u.last_clock = t.last_clock
    BY <2>3 DEF Controller, Alike
  <2>7. u.authorized = t.authorized /\ u.estop = t.estop
    BY <2>3 DEF Controller, Alike
  <2> HIDE DEF u
  <2>8. Commands(u) = {cmd} /\ Grants(u) = {}
    BY <2>3, <2>5, OutDecides
  <2>9. Permitted(u) /\ Guarded(u, line) /\ u.active # "none"
    BY <2>5, <2>6, <2>7 DEF Ready, Permitted, Lawful, Guarded
  <2>10. Commanded(t, u, t.active, t.activity, now, line)
    BY <1>2, <2>2, <2>5, <2>6, <2>8, <2>9 DEF Commanded
  <2> QED BY <2>1, <2>10
<1> QED BY <1>3, <1>4

\* A method that first notes something else, a conflict or a wish to quit.
LEMMA NotedHalts ==
  ASSUME NEW t, NEW line, Ready(t, line), NEW u \in Controller, SameNumbers(t, u),
         u.out = t.out, u.stopped = t.stopped,
         u.authorized = t.authorized, u.estop = t.estop
  PROVE  Halted(t, StopAndClear(u), line)
<1>1. Commands(u) = {} /\ Grants(u) = {} /\ Word(u, line) /\ Lawful(u)
  BY ReadyHasWord, OutDecides DEF Word, Lawful
<1>2. Halted(u, StopAndClear(u), line)
  BY <1>1, StopAndClearHalts
<1> QED BY <1>2 DEF Halted, SameNumbers

LEMMA ConflictHalts ==
  ASSUME NEW t, NEW line, Ready(t, line), NEW until \in Time
  PROVE  Halted(t, StopAndClear([t EXCEPT !.conflict_until = until]), line)
<1> DEFINE u == [t EXCEPT !.conflict_until = until]
<1>1. t \in Controller
  BY ReadyHasWord
<1>2. u \in Controller /\ u.out = t.out /\ u.stopped = t.stopped
  BY <1>1 DEF Controller
<1>3. SameNumbers(t, u) /\ u.authorized = t.authorized /\ u.estop = t.estop
  BY <1>1 DEF Controller, SameNumbers
<1> HIDE DEF u
<1>4. Halted(t, StopAndClear(u), line)
  BY <1>2, <1>3, NotedHalts
<1> QED BY <1>4 DEF u

LEMMA SteerFacts ==
  ASSUME NEW t, NEW line, Ready(t, line), NEW key \in Direction, NEW now \in Time,
         t.authorized
  PROVE  LET u == Steer(t, key, now) IN
         \/ Halted(t, u, line)
         \/ Held(t, u, key, now, line)
         \/ Commanded(t, u, key, now, now, line) /\ (t.next = 0 \/ now >= t.next)
<1> DEFINE s == [t EXCEPT !.active = key, !.activity = now,
                          !.next = IF t.next = 0 THEN now ELSE t.next]
<1>1. t \in Controller /\ now \in Nat
  BY ReadyHasWord, TimeFacts
<1>2. s \in Controller /\ s.out = t.out /\ s.stopped = t.stopped /\ SameNumbers(t, s)
  BY <1>1 DEF Controller, SameNumbers
<1>3. s.authorized = t.authorized /\ s.estop = t.estop /\ s.active = key /\ s.activity = now
  BY <1>1 DEF Controller
<1>4. Steer(t, key, now) = IF now >= s.next THEN EmitCommand(s, now) ELSE s
  BY DEF Steer
<1>5. s.next \in Nat /\ (s.next = t.next \/ t.next = 0)
  BY <1>1, <1>2 DEF Controller
<1> HIDE DEF s
<1>6. key # "none"
  BY ConstantFacts
<1>7. Ready(s, line)
  <2>1. Commands(s) = {} /\ Grants(s) = {} /\ LastLine(s, line) = LastLine(t, line)
    BY <1>2, OutDecides DEF Ready
  <2>2. Permitted(s)
    BY <1>3 DEF Ready, Permitted, Lawful
  <2>3. Guarded(s, line)
    BY <1>2, <1>3, <1>6, <2>1 DEF Ready, Guarded
  <2> QED BY <1>2, <2>1, <2>2, <2>3 DEF Ready
<1>8. CASE now >= s.next
  <2> DEFINE u == EmitCommand(s, now)
  <2>1. Halted(s, u, line) \/ Commanded(s, u, s.active, s.activity, now, line)
    BY <1>3, <1>6, <1>7, EmitCommandFacts
  <2>2. Steer(t, key, now) = u
    BY <1>4, <1>8
  <2> HIDE DEF u
  <2>3. Halted(t, u, line) \/ Commanded(t, u, key, now, now, line)
    BY <1>2, <1>3, <2>1 DEF Halted, Commanded, SameNumbers
  <2> QED BY <1>5, <1>8, <2>2, <2>3
<1>9. CASE ~(now >= s.next)
  <2>1. s.next > now
    BY <1>1, <1>5, <1>9
  <2>2. Held(t, s, key, now, line)
    BY <1>2, <1>3, <1>7, <2>1 DEF Held
  <2> QED BY <1>4, <1>9, <2>2
<1> QED BY <1>8, <1>9

LEMMA DirectionPressedFacts ==
  ASSUME NEW t, NEW line, Ready(t, line), NEW key \in Direction, NEW now \in Time
  PROVE  LET u == DirectionPressed(t, key, now) IN
         \/ Halted(t, u, line)
         \/ Held(t, u, key, now, line)
         \/ /\ Commanded(t, u, key, now, now, line)
            /\ t.authorized /\ (t.next = 0 \/ now >= t.next)
<1>1. InhibitUntil(now) \in Time
  <2>1. now \in Nat /\ ReleaseTimeout \in Nat /\ Int64Max \in Nat
    BY TimeFacts, ConstantFacts
  <2> QED BY <2>1 DEF InhibitUntil, Smaller, Time
<1>2. Halted(t, StopAndClear([t EXCEPT !.conflict_until = InhibitUntil(now)]), line)
  BY <1>1, ConflictHalts
<1>3. Halted(t, StopAndClear(t), line)
  BY ReadyHasWord, StopAndClearHalts
<1>4. t.authorized => \/ Halted(t, Steer(t, key, now), line)
                      \/ Held(t, Steer(t, key, now), key, now, line)
                      \/ /\ Commanded(t, Steer(t, key, now), key, now, now, line)
                         /\ t.next = 0 \/ now >= t.next
  BY SteerFacts
<1>5. \/ DirectionPressed(t, key, now) =
           StopAndClear([t EXCEPT !.conflict_until = InhibitUntil(now)])
      \/ DirectionPressed(t, key, now) = StopAndClear(t)
      \/ t.authorized /\ DirectionPressed(t, key, now) = Steer(t, key, now)
  BY DEF DirectionPressed
<1> QED BY <1>2, <1>3, <1>4, <1>5

LEMMA EmergencyStopHalts ==
  ASSUME NEW t, NEW line, Ready(t, line)
  PROVE  Halted(t, EmitStop(Emit(ClearDirection([Unauthorized(t) EXCEPT !.estop = TRUE]),
                                 [op |-> "ESTOP"]), TRUE), line)
<1> DEFINE a == Unauthorized(t)
           b == [a EXCEPT !.estop = TRUE]
           c == ClearDirection(b)
           l == [op |-> "ESTOP"]
           e == Emit(c, l)
           u == EmitStop(e, TRUE)
<1>1. t \in Controller
  BY ReadyHasWord
<1>2. a \in Controller /\ a.out = t.out /\ a.authorized = FALSE /\ SameNumbers(t, a)
  BY <1>1, UnauthorizedFields
<1> HIDE DEF a
<1>3. b \in Controller /\ b.out = t.out /\ b.authorized = FALSE /\ SameNumbers(t, b)
  BY <1>2 DEF Controller, SameNumbers
<1> HIDE DEF b
<1>4. /\ c \in Controller /\ c.out = t.out /\ c.authorized = FALSE /\ c.active = "none"
      /\ SameNumbers(b, c)
  BY <1>3, ClearFields
<1> HIDE DEF c
<1>5. Commands(c) = {} /\ Grants(c) = {}
  BY <1>4, OutDecides DEF Ready
<1>6. l \in Line /\ l.op = "ESTOP"
  BY DEF Line, Stop
<1> HIDE DEF l
<1>7. e \in Controller /\ Alike(c, e) /\ Commands(e) = {} /\ Grants(e) = {}
  BY <1>4, <1>5, <1>6, EmitFields, EmitLines
<1> HIDE DEF e
<1>8. /\ u \in Controller /\ Alike(e, u) /\ Commands(u) = {} /\ Grants(u) = {}
      /\ LastLine(u, line) # "CMD"
  BY <1>7, EmitStopFacts
<1> HIDE DEF u
<1>9. Halted(t, u, line)
  BY <1>3, <1>4, <1>7, <1>8 DEF Halted, Alike, SameNumbers, Lawful
<1> QED BY <1>9 DEF a, b, c, l, e, u

\* Every way the handling of a key can end.
KeyEnds(t, u, key, now, line) ==
  \/ Halted(t, u, line)
  \/ Granted(t, u, now, line)
  \/ u.active = "none" /\ Kept(t, u, line)
  \/ key \in Direction /\ Held(t, u, key, now, line)
  \/ /\ key \in Direction /\ Commanded(t, u, key, now, now, line)
     /\ t.authorized /\ (t.next = 0 \/ now >= t.next)

LEMMA KeyPressedFacts ==
  ASSUME NEW t, NEW line, Ready(t, line), NEW key \in Key, NEW now \in Time
  PROVE  KeyEnds(t, KeyPressed(t, key, now), key, now, line)
<1> DEFINE u == KeyPressed(t, key, now)
<1>1. t \in Controller
  BY ReadyHasWord
<1>2. key \in {"r", "q", "e", "space", "x", "esc"} => key \notin Direction
  BY ConstantFacts
<1>3. CASE key = "r"
  <2>1. u = Authorize(t, now)
    BY <1>2, <1>3 DEF KeyPressed
  <2> QED BY <2>1, AuthorizeFacts DEF KeyEnds
<1>4. CASE key = "q" \/ key = "e"
  <2>1. PICK delta \in Int: u = ChangeSpeed(t, delta)
    <3>1. u = ChangeSpeed(t, SpeedStep) \/ u = ChangeSpeed(t, -SpeedStep)
      BY <1>2, <1>4 DEF KeyPressed
    <3> QED BY <3>1, ConstantFacts
  <2>2. Halted(t, u, line) \/ (u.active = "none" /\ Kept(t, u, line))
    BY <2>1, ChangeSpeedFacts
  <2> QED BY <2>2 DEF KeyEnds
<1>5. CASE key = "space"
  <2>1. u = StopAndClear([t EXCEPT !.conflict_until = 0])
    BY <1>2, <1>5 DEF KeyPressed
  <2> QED BY <2>1, TimeFacts, ConflictHalts DEF KeyEnds
<1>6. CASE key = "x"
  <2>1. u = EmitStop(Emit(ClearDirection([Unauthorized(t) EXCEPT !.estop = TRUE]),
                          [op |-> "ESTOP"]), TRUE)
    BY <1>2, <1>6 DEF KeyPressed
  <2> QED BY <2>1, EmergencyStopHalts DEF KeyEnds
<1>7. CASE key = "esc"
  <2> DEFINE v == [t EXCEPT !.quit = TRUE]
  <2>1. u = StopAndClear(v)
    BY <1>2, <1>7 DEF KeyPressed
  <2>2. v \in Controller /\ v.out = t.out /\ v.stopped = t.stopped
    BY <1>1 DEF Controller
  <2>3. SameNumbers(t, v) /\ v.authorized = t.authorized /\ v.estop = t.estop
    BY <1>1 DEF Controller, SameNumbers
  <2> HIDE DEF v
  <2> QED BY <2>1, <2>2, <2>3, NotedHalts DEF KeyEnds
<1>8. CASE key \in Direction
  <2>1. u = DirectionPressed(t, key, now)
    BY <1>8, ConstantFacts DEF KeyPressed
  <2> QED BY <1>8, <2>1, DirectionPressedFacts DEF KeyEnds
<1> QED BY <1>3, <1>4, <1>5, <1>6, <1>7, <1>8 DEF Key

\* What every method leaves whose reading of the clock was accepted.
Accepted(u, now, line) ==
  u \in Controller /\ Permitted(u) /\ Guarded(u, line) /\ u.last_clock = now

NoNumbers(t, u) ==
  Commands(u) = {} /\ Grants(u) = {} /\ u.sequence = t.sequence /\ u.token = t.token
NewToken(t, u, now) ==
  /\ Commands(u) = {} /\ u.sequence = t.sequence
  /\ u.token = Larger(now, t.token + 1) /\ Grants(u) = {[op |-> "AUTH", token |-> u.token]}
NewSequence(t, u, now) ==
  /\ Grants(u) = {} /\ u.token = t.token /\ u.sequence = Larger(t.sequence + 1, now)
  /\ u.active # "none" /\ u.next = now + CommandPeriod
  /\ \E c \in Command: /\ Commands(u) = {c} /\ c.sequence = u.sequence
                       /\ c.direction = u.active /\ c.created = now

SameDirection(t, u) == u.active = t.active /\ u.activity = t.activity /\ u.next = t.next

\* A direction key is told to the reader only if nothing else was lately.
Due(t, now) ==
  t.authorized /\ (t.next = 0 \/ now >= t.next \/ now >= t.activity + ReleaseTimeout)

\* The ways an event can end: no direction; a new authorization; the release of
\* another key; another press of the key, noted or told to the reader.
EventEnds(t, u, key, pressed, now) ==
  \/ u.active = "none" /\ NoNumbers(t, u)
  \/ u.active = "none" /\ NewToken(t, u, now)
  \/ /\ ~pressed /\ key # u.active /\ SameDirection(t, u) /\ NoNumbers(t, u)
     /\ now < t.activity + ReleaseTimeout
  \/ /\ pressed /\ key \in Direction /\ u.active = key /\ u.activity = now
     /\ \/ u.next > now /\ NoNumbers(t, u)
        \/ NewSequence(t, u, now) /\ Due(t, now)

LEMMA EventFacts ==
  ASSUME NEW t, NEW line, Ready(t, line), NEW key \in Key, NEW pressed \in BOOLEAN,
         NEW now \in Time, TimeValid(t, now)
  PROVE  LET u == HandleEvent(t, key, pressed, now) IN
         Accepted(u, now, line) /\ EventEnds(t, u, key, pressed, now)
<1> DEFINE o == ObserveClock(t, now)
           c == ExpireDirection(o, now)
           u == HandleEvent(t, key, pressed, now)
<1>1. /\ Ready(o, line) /\ o.last_clock = now /\ o.sequence = t.sequence
      /\ o.token = t.token /\ SameDirection(t, o) /\ o.authorized = t.authorized
  BY GoodClockKeeps DEF SameDirection
<1> HIDE DEF o
<1>2. /\ Ready(c, line) /\ SameNumbers(o, c)
      /\ \/ c = o /\ ~Expired(o, now)
         \/ c.active = "none" /\ Expired(o, now)
  BY <1>1, ExpireFacts
<1>3. u = IF ~pressed THEN KeyReleased(c, key) ELSE KeyPressed(c, key, now)
  BY DEF HandleEvent, o
<1> HIDE DEF c
<1>4. /\ c.last_clock = now /\ c.sequence = t.sequence /\ c.token = t.token
      /\ c \in Controller /\ Permitted(c) /\ Guarded(c, line)
      /\ Commands(c) = {} /\ Grants(c) = {}
  BY <1>1, <1>2 DEF SameNumbers, Ready
<1>5. c.active # "none" => SameDirection(t, c) /\ now < t.activity + ReleaseTimeout
  <2> SUFFICES ASSUME c.active # "none"
               PROVE  SameDirection(t, c) /\ now < t.activity + ReleaseTimeout
    OBVIOUS
  <2>1. c = o /\ ~Expired(o, now)
    BY <1>2
  <2>2. SameDirection(t, c) /\ o.activity = t.activity /\ o.active # "none"
    BY <1>1, <2>1 DEF SameDirection
  <2>3. o.activity \in Nat /\ now \in Nat
    BY <1>1, TimeFacts DEF Ready, Controller
  <2> QED BY <2>1, <2>2, <2>3, ConstantFacts DEF Expired
<1>6. ASSUME Halted(c, u, line)
      PROVE  Accepted(u, now, line) /\ u.active = "none" /\ NoNumbers(t, u)
  <2> HIDE DEF u
  <2> QED BY <1>4, <1>6 DEF Halted, SameNumbers, Accepted, NoNumbers, Permitted, Guarded
<1>7. CASE ~pressed
  <2>1. u = KeyReleased(c, key)
    BY <1>3, <1>7
  <2>2. CASE c.active = key
    <3>1. Halted(c, u, line)
      BY <1>2, <2>1, <2>2, ReadyHasWord, StopAndClearHalts DEF KeyReleased
    <3> QED BY <1>6, <3>1 DEF EventEnds
  <2>3. CASE c.active # key
    <3>1. u = c
      BY <2>1, <2>3 DEF KeyReleased
    <3> HIDE DEF u
    <3>2. Accepted(u, now, line) /\ NoNumbers(t, u)
      BY <1>4, <3>1 DEF Accepted, NoNumbers
    <3>3. u.active = "none" \/ (key # u.active /\ SameDirection(t, u)
                                /\ now < t.activity + ReleaseTimeout)
      BY <1>5, <2>3, <3>1
    <3> QED BY <1>7, <3>2, <3>3 DEF EventEnds, u
  <2> QED BY <2>2, <2>3
<1>8. CASE pressed
  <2>1. KeyEnds(c, u, key, now, line)
    BY <1>2, <1>3, <1>8, KeyPressedFacts
  <2> HIDE DEF u
  <2>2. CASE Halted(c, u, line)
    BY <1>6, <2>2 DEF EventEnds, u
  <2>3. CASE Granted(c, u, now, line)
    <3>1. Accepted(u, now, line) /\ u.active = "none" /\ NewToken(t, u, now)
      BY <1>4, <2>3 DEF Granted, Accepted, NewToken, Permitted, Guarded
    <3> QED BY <3>1 DEF EventEnds, u
  <2>4. CASE u.active = "none" /\ Kept(c, u, line)
    <3>1. Accepted(u, now, line) /\ NoNumbers(t, u)
      BY <1>4, <2>4 DEF Kept, Ready, SameNumbers, Accepted, NoNumbers
    <3> QED BY <2>4, <3>1 DEF EventEnds, u
  <2>5. CASE key \in Direction /\ Held(c, u, key, now, line)
    <3>1. Accepted(u, now, line) /\ NoNumbers(t, u)
      BY <1>4, <2>5 DEF Held, Ready, SameNumbers, Accepted, NoNumbers
    <3>2. u.active = key /\ u.activity = now /\ u.next > now
      BY <2>5 DEF Held
    <3> QED BY <1>8, <2>5, <3>1, <3>2 DEF EventEnds, u
  <2>6. CASE /\ key \in Direction /\ Commanded(c, u, key, now, now, line)
             /\ c.authorized /\ (c.next = 0 \/ now >= c.next)
    <3>1. Accepted(u, now, line) /\ NewSequence(t, u, now)
      BY <1>4, <2>6 DEF Commanded, Accepted, NewSequence
    <3>2. u.active = key /\ u.activity = now
      BY <2>6 DEF Commanded
    <3>3. Due(t, now)
      <4>1. CASE c = o
        BY <1>1, <2>6, <4>1 DEF Due, SameDirection
      <4>2. CASE Expired(o, now)
        <5>1. o.activity \in Nat /\ now \in Nat /\ o.activity = t.activity /\ t.authorized
          BY <1>1, <4>2, TimeFacts DEF Ready, Controller, Permitted, Expired, SameDirection
        <5> QED BY <4>2, <5>1, ConstantFacts DEF Expired, Due
      <4> QED BY <1>2, <4>1, <4>2
    <3> QED BY <1>8, <2>6, <3>1, <3>2, <3>3 DEF EventEnds, u
  <2> QED BY <2>1, <2>2, <2>3, <2>4, <2>5, <2>6 DEF KeyEnds, u
<1> QED BY <1>7, <1>8

\* The ways a tick can end: nothing is steered; the direction has expired or
\* its command cannot be dated; it goes on; a command is due and leaves.
TickEnds(t, u, now) ==
  \/ t.active = "none" /\ u.active = "none" /\ NoNumbers(t, u) /\ u.authorized = t.authorized
  \/ /\ t.active # "none" /\ u.active = "none" /\ NoNumbers(t, u)
     /\ now >= t.activity + ReleaseTimeout \/ now >= t.next
  \/ /\ u.active # "none" /\ SameDirection(t, u) /\ NoNumbers(t, u)
     /\ now < t.activity + ReleaseTimeout /\ now < t.next
  \/ /\ u.active = t.active /\ u.activity = t.activity /\ NewSequence(t, u, now)
     /\ now < t.activity + ReleaseTimeout /\ now >= t.next

LEMMA TickFacts ==
  ASSUME NEW t, NEW line, Ready(t, line), NEW now \in Time, TimeValid(t, now)
  PROVE  LET u == TickController(t, now) IN Accepted(u, now, line) /\ TickEnds(t, u, now)
<1> DEFINE o == ObserveClock(t, now)
           u == TickController(t, now)
<1>1. /\ Ready(o, line) /\ o.last_clock = now /\ o.sequence = t.sequence
      /\ o.token = t.token /\ SameDirection(t, o) /\ o.authorized = t.authorized
  BY GoodClockKeeps DEF SameDirection
<1>2. u = IF Expired(o, now) THEN ExpireDirection(o, now)
          ELSE IF o.authorized /\ o.active # "none" /\ now >= o.next
          THEN EmitCommand(o, now) ELSE o
  BY DEF TickController
<1> HIDE DEF o, u
<1>3. /\ o \in Controller /\ o.activity \in Nat /\ o.next \in Nat /\ now \in Nat
      /\ ReleaseTimeout \in Nat
  BY <1>1, TimeFacts, ConstantFacts DEF Ready, Controller
<1>4. /\ o.active = t.active /\ o.activity = t.activity /\ o.next = t.next
  BY <1>1 DEF SameDirection
<1>5. Expired(o, now) <=> t.active # "none" /\ now >= t.activity + ReleaseTimeout
  BY <1>3, <1>4 DEF Expired
<1>6. ASSUME Halted(o, u, line)
      PROVE  Accepted(u, now, line) /\ u.active = "none" /\ NoNumbers(t, u)
  BY <1>1, <1>6 DEF Halted, SameNumbers, Accepted, NoNumbers, Permitted, Guarded
<1>7. CASE Expired(o, now)
  <2>1. u = StopAndClear(o)
    BY <1>2, <1>7 DEF ExpireDirection
  <2>2. Halted(o, u, line)
    BY <1>1, <2>1, ReadyHasWord, StopAndClearHalts
  <2> QED BY <1>5, <1>6, <1>7, <2>2 DEF TickEnds, u
<1>8. CASE ~Expired(o, now) /\ o.authorized /\ o.active # "none" /\ now >= o.next
  <2>1. u = EmitCommand(o, now)
    BY <1>2, <1>8
  <2>2. Halted(o, u, line) \/ Commanded(o, u, o.active, o.activity, now, line)
    BY <1>1, <1>8, <2>1, EmitCommandFacts
  <2>3. CASE Halted(o, u, line)
    BY <1>4, <1>6, <1>8, <2>3 DEF TickEnds, u
  <2>4. CASE Commanded(o, u, o.active, o.activity, now, line)
    <3>1. Accepted(u, now, line) /\ NewSequence(t, u, now)
      BY <1>1, <2>4 DEF Commanded, Accepted, NewSequence
    <3>2. u.active = t.active /\ u.activity = t.activity
      BY <1>4, <2>4 DEF Commanded
    <3>3. now < t.activity + ReleaseTimeout /\ now >= t.next
      BY <1>3, <1>4, <1>5, <1>8
    <3> QED BY <3>1, <3>2, <3>3 DEF TickEnds, u
  <2> QED BY <2>2, <2>3, <2>4
<1>9. CASE ~Expired(o, now) /\ ~(o.authorized /\ o.active # "none" /\ now >= o.next)
  <2>1. u = o
    BY <1>2, <1>9
  <2>2. Accepted(u, now, line) /\ NoNumbers(t, u)
    BY <1>1, <2>1 DEF Ready, Accepted, NoNumbers
  <2>3. CASE t.active = "none"
    BY <1>1, <1>4, <2>1, <2>2, <2>3 DEF TickEnds, u
  <2>4. CASE t.active # "none"
    <3>1. o.authorized
      BY <1>1, <1>4, <2>4 DEF Ready, Permitted
    <3>2. now < t.activity + ReleaseTimeout /\ now < t.next
      BY <1>3, <1>4, <1>5, <1>9, <2>4, <3>1
    <3> QED BY <1>1, <1>4, <2>1, <2>2, <2>4, <3>2 DEF TickEnds, SameDirection, u
  <2> QED BY <2>3, <2>4
<1> QED BY <1>7, <1>8, <1>9

\* finish() speaks a STOP and a QUIT, once.
LEMMA FinishFacts ==
  ASSUME NEW t \in Controller, Commands(t) = {}, Grants(t) = {}, ~t.finished, NEW line
  PROVE  LET u == Finish(t) IN
         /\ Halted(t, u, line) /\ ~u.authorized /\ u.finished = TRUE
<1> DEFINE v == Unauthorized(t)
           a == [v EXCEPT !.finished = TRUE]
           c == ClearDirection(a)
           s == EmitStop(c, TRUE)
           l == [op |-> "QUIT"]
           u == Emit(s, l)
<1>1. v \in Controller /\ v.out = t.out /\ v.authorized = FALSE /\ SameNumbers(t, v)
  BY UnauthorizedFields
<1> HIDE DEF v
<1>2. /\ a \in Controller /\ a.out = t.out /\ a.authorized = FALSE /\ a.finished = TRUE
      /\ SameNumbers(t, a)
  BY <1>1 DEF Controller, SameNumbers
<1> HIDE DEF a
<1>3. /\ c \in Controller /\ c.out = t.out /\ c.authorized = FALSE /\ c.finished = TRUE
      /\ c.active = "none" /\ SameNumbers(a, c)
  BY <1>2, ClearFields
<1> HIDE DEF c
<1>4. Commands(c) = {} /\ Grants(c) = {}
  BY <1>3, OutDecides
<1>5. s \in Controller /\ Alike(c, s) /\ Commands(s) = {} /\ Grants(s) = {}
  BY <1>3, <1>4, EmitStopFacts
<1> HIDE DEF s
<1>6. l \in Line /\ l.op = "QUIT"
  BY DEF Line, Stop
<1> HIDE DEF l
<1>7. /\ u \in Controller /\ Alike(s, u) /\ Commands(u) = {} /\ Grants(u) = {}
      /\ LastLine(u, line) = "QUIT"
  BY <1>5, <1>6, EmitFields, EmitLines
<1>8. Finish(t) = u
  BY DEF Finish, v, a, c, s, l
<1> HIDE DEF u
<1>9. Halted(t, u, line) /\ ~u.authorized /\ u.finished = TRUE
  BY <1>2, <1>3, <1>5, <1>7 DEF Halted, Alike, SameNumbers, Lawful
<1> QED BY <1>8, <1>9

-----------------------------------------------------------------------------
(* What the reader of the pipe sees *)

LEMMA SilentFields ==
  ASSUME NEW t \in Controller
  PROVE  LET u == Silent(t) IN
         /\ u \in Controller /\ Alike(t, u) /\ u.stopped = t.stopped /\ u.out = <<>>
         /\ Commands(u) = {} /\ Grants(u) = {} /\ \A line: LastLine(u, line) = line
<1> DEFINE u == Silent(t)
<1>1. <<>> \in Seq(Line)
  OBVIOUS
<1>2. u \in Controller /\ u.out = <<>>
  BY <1>1 DEF Silent, Controller
<1>3. Alike(t, u) /\ u.stopped = t.stopped
  BY DEF Silent, Controller, Alike
<1> HIDE DEF u
<1>4. Commands(u) = {} /\ Grants(u) = {} /\ \A line: LastLine(u, line) = line
  BY <1>2, EmptyOut
<1> QED BY <1>2, <1>3, <1>4 DEF u

LEMMA ReadyNow ==
  ASSUME TInv
  PROVE  LET t == Silent(tele) IN
         /\ t \in Controller /\ Alike(tele, t) /\ Commands(t) = {} /\ Grants(t) = {}
         /\ Permitted(t) /\ (~At("start") => Ready(t, seen.line))
<1> DEFINE t == Silent(tele)
<1>1. tele \in Controller /\ Permitted(tele) /\ Spoken
  BY DEF TInv, Shaped
<1>2. /\ t \in Controller /\ Alike(tele, t) /\ t.stopped = tele.stopped
      /\ Commands(t) = {} /\ Grants(t) = {} /\ LastLine(t, seen.line) = seen.line
  BY <1>1, SilentFields
<1> HIDE DEF t
<1>3. Permitted(t)
  BY <1>1, <1>2 DEF Permitted, Lawful, Alike
<1>4. ~At("start") => Guarded(t, seen.line)
  BY <1>1, <1>2 DEF Spoken, Guarded, Alike
<1> QED BY <1>2, <1>3, <1>4 DEF Ready, t

\* The highest number of a step that has at most one.
LEMMA HighestFacts ==
  ASSUME NEW old, NEW n
  PROVE  /\ Highest(old, {}) = old
         /\ n \in Int => Highest(old, {n}) = n
<1>1. Highest(old, {}) = old
  BY DEF Highest
<1>2. ASSUME n \in Int PROVE Highest(old, {n}) = n
  <2>1. \E m \in {n}: \A k \in {n}: k <= m
    BY <1>2
  <2>2. {n} # {}
    OBVIOUS
  <2> QED BY <2>1, <2>2 DEF Highest
<1> QED BY <1>1, <1>2

LEMMA ShownLines ==
  ASSUME NEW u, Becomes(u)
  PROVE  /\ tele' = u
         /\ seen'.line = LastLine(u, seen.line)
         /\ seen'.sequence = Highest(seen.sequence, {c.sequence: c \in Commands(u)})
         /\ seen'.token = Highest(seen.token, {g.token: g \in Grants(u)})
<1>1. {c.sequence: c \in Commands(u)} = {u.out[i].sequence: i \in Lines(u, "CMD")}
  BY DEF Commands
<1>2. {g.token: g \in Grants(u)} = {u.out[i].token: i \in Lines(u, "AUTH")}
  BY DEF Grants
<1> QED BY <1>1, <1>2 DEF Becomes, Shows, LastLine

LEMMA ShownNumbers ==
  ASSUME NEW t, NEW u, Becomes(u)
  PROVE  /\ NoNumbers(t, u) => seen'.sequence = seen.sequence /\ seen'.token = seen.token
         /\ \A now: NewToken(t, u, now) /\ u.token \in Int =>
                      seen'.sequence = seen.sequence /\ seen'.token = u.token
         /\ \A now: NewSequence(t, u, now) /\ u.sequence \in Int =>
                      seen'.sequence = u.sequence /\ seen'.token = seen.token
<1>1. /\ seen'.sequence = Highest(seen.sequence, {c.sequence: c \in Commands(u)})
      /\ seen'.token = Highest(seen.token, {g.token: g \in Grants(u)})
  BY ShownLines
<1>2. Commands(u) = {} => seen'.sequence = seen.sequence
  <2>1. Commands(u) = {} => {c.sequence: c \in Commands(u)} = {}
    OBVIOUS
  <2> QED BY <1>1, <2>1, HighestFacts
<1>3. Grants(u) = {} => seen'.token = seen.token
  <2>1. Grants(u) = {} => {g.token: g \in Grants(u)} = {}
    OBVIOUS
  <2> QED BY <1>1, <2>1, HighestFacts
<1>4. ASSUME NEW now, NewToken(t, u, now), u.token \in Int
      PROVE  seen'.sequence = seen.sequence /\ seen'.token = u.token
  <2> DEFINE grant == [op |-> "AUTH", token |-> u.token]
  <2>1. Grants(u) = {grant} /\ Commands(u) = {} /\ grant.token = u.token
    BY <1>4 DEF NewToken
  <2> HIDE DEF grant
  <2>2. {g.token: g \in Grants(u)} = {u.token}
    BY <2>1
  <2> QED BY <1>1, <1>2, <1>4, <2>1, <2>2, HighestFacts
<1>5. ASSUME NEW now, NewSequence(t, u, now), u.sequence \in Int
      PROVE  seen'.sequence = u.sequence /\ seen'.token = seen.token
  <2>1. PICK c: Commands(u) = {c} /\ c.sequence = u.sequence
    BY <1>5 DEF NewSequence
  <2>2. {d.sequence: d \in Commands(u)} = {u.sequence}
    BY <2>1
  <2>3. Grants(u) = {}
    BY <1>5 DEF NewSequence
  <2> QED BY <1>1, <1>3, <1>5, <2>2, <2>3, HighestFacts
<1> QED BY <1>2, <1>3, <1>4, <1>5 DEF NoNumbers

-----------------------------------------------------------------------------
(* The steps of the process *)

\* The numbers of a step are above all that the reader has seen.
Ascends ==
  /\ \A c \in Commands(tele'): c.sequence > seen.sequence
  /\ \A g \in Grants(tele'): g.token > seen.token
Stepped == TInv' /\ Ascends

LEMMA Parts ==
  ASSUME TInv
  PROVE  /\ clock \in Time /\ clock \in Nat /\ clock > 0 /\ clock <= Int64Max
         /\ shutdown \in BOOLEAN
         /\ loop \in Loop /\ loop.now \in Time /\ loop.now \in Nat /\ loop.now <= clock
         /\ loop.events \in Nat /\ loop.events <= MaxEvents
         /\ tele \in Controller /\ tele.activity \in Nat /\ tele.next \in Nat
         /\ tele.last_clock \in Nat /\ tele.last_clock <= clock /\ tele.token \in Nat /\ tele.sequence \in Nat
         /\ seen.sequence \in Nat /\ seen.token \in Nat
<1>1. /\ clock \in Time /\ clock > 0 /\ shutdown \in BOOLEAN /\ loop \in Loop
      /\ loop.now <= clock /\ tele \in Controller /\ tele.last_clock <= clock
      /\ seen.sequence \in Nat /\ seen.token \in Nat
  BY DEF TInv, Shaped
<1>2. loop.now \in Time /\ loop.events \in 0..MaxEvents
  BY <1>1 DEF Loop
<1>3. /\ tele.activity \in Time /\ tele.next \in Nat /\ tele.last_clock \in Time
      /\ tele.token \in Time /\ tele.sequence \in Nat
  BY <1>1 DEF Controller
<1>4. loop.events \in Nat /\ loop.events <= MaxEvents
  BY <1>2, ConstantFacts
<1> QED BY <1>1, <1>2, <1>3, <1>4, TimeFacts

LEMMA FollowsHand ==
  CommandFollowsHand <=>
    \A c \in Commands(tele): hand.key = c.direction /\ c.created - hand.time < ReleaseTimeout
BY DEF CommandFollowsHand, Commands

LEMMA QuietFacts ==
  ASSUME TInv, Quiet
  PROVE  /\ tele' \in Controller /\ Alike(tele, tele') /\ tele'.stopped = tele.stopped
         /\ Commands(tele') = {} /\ Grants(tele') = {}
         /\ seen'.line = seen.line /\ seen'.sequence = seen.sequence /\ seen'.token = seen.token
<1> DEFINE u == Silent(tele)
<1>1. tele \in Controller
  BY Parts
<1>2. /\ u \in Controller /\ Alike(tele, u) /\ u.stopped = tele.stopped
      /\ Commands(u) = {} /\ Grants(u) = {} /\ LastLine(u, seen.line) = seen.line
  BY <1>1, SilentFields
<1>3. Becomes(u)
  BY DEF Quiet
<1> HIDE DEF u
<1>4. NoNumbers(u, u)
  BY <1>2 DEF NoNumbers
<1>5. tele' = u /\ seen'.line = LastLine(u, seen.line)
  BY <1>3, ShownLines
<1>6. seen'.sequence = seen.sequence /\ seen'.token = seen.token
  BY <1>3, <1>4, ShownNumbers
<1> QED BY <1>2, <1>5, <1>6

\* Steps that only move the loop on, or note a signal.
LEMMA QuietKeeps ==
  ASSUME TInv, Quiet, clock' = clock, hand' = hand, shutdown' \in BOOLEAN,
         loop' \in Loop, loop'.now <= clock,
         \/ loop'.pc \in {"finish", "ended"} /\ ~At("start")
         \/ /\ loop'.pc = loop.pc \/ (loop'.pc = "tick" /\ At("events"))
            /\ loop'.now = loop.now /\ loop'.events = loop.events
  PROVE  Stepped
<1>1. /\ tele' \in Controller /\ tele'.stopped = tele.stopped
      /\ Commands(tele') = {} /\ Grants(tele') = {}
      /\ seen'.line = seen.line /\ seen'.sequence = seen.sequence /\ seen'.token = seen.token
  BY QuietFacts
<1>2. /\ tele'.authorized = tele.authorized /\ tele'.estop = tele.estop
      /\ tele'.active = tele.active /\ tele'.activity = tele.activity
      /\ tele'.next = tele.next /\ tele'.last_clock = tele.last_clock
      /\ tele'.token = tele.token /\ tele'.sequence = tele.sequence
      /\ tele'.finished = tele.finished
  BY QuietFacts DEF Alike
<1>3. /\ At("start")' <=> At("start")
      /\ At("poll")' => At("poll")
      /\ (At("events") \/ At("tick"))' =>
           /\ At("events") \/ At("tick")
           /\ loop'.now = loop.now /\ loop'.events = loop.events
  BY DEF At
<1>4. (At("events") \/ At("tick"))' => (ValidNow' <=> ValidNow)
  BY <1>2, <1>3 DEF ValidNow, TimeValid
<1>5. Shaped'
  BY <1>1, <1>2, Parts DEF Shaped
<1>6. Permitted(tele)' /\ Spoken' /\ Steered' /\ Begins'
  BY <1>1, <1>2, <1>3 DEF TInv, Permitted, Lawful, Spoken, Steered, Begins
<1>7. CommandFollowsHand' /\ Ascends
  <2>1. \A c \in Commands(tele'): hand'.key = c.direction
                                  /\ c.created - hand'.time < ReleaseTimeout
    BY <1>1
  <2> QED BY <1>1, <2>1, FollowsHand DEF CommandFollowsHand, Commands, Ascends
<1>8. SilenceIsNoticed' /\ Punctual'
  BY <1>2, <1>3, <1>4 DEF TInv, SilenceIsNoticed, Punctual
<1>9. Numbered' /\ Paced'
  BY <1>1, <1>2, <1>3, <1>4 DEF TInv, Numbered, Paced
<1> QED BY <1>5, <1>6, <1>7, <1>8, <1>9 DEF Stepped, TInv

LEMMA QuietSteps ==
  ASSUME TInv, Leave \/ PollFails \/ EventsDone \/ Signal
  PROVE  Stepped
<1>1. loop \in Loop /\ shutdown \in BOOLEAN
  BY Parts
<1>2. CASE Leave
  <2>1. loop' = [loop EXCEPT !.pc = "finish"] /\ ~At("start")
    BY <1>2 DEF Leave, At
  <2>2. /\ loop' \in Loop /\ loop'.now = loop.now /\ loop'.events = loop.events
        /\ loop'.pc = "finish"
    BY <1>1, <2>1 DEF Loop
  <2> QED BY <1>1, <1>2, <2>1, <2>2, Parts, QuietKeeps DEF Leave
<1>3. CASE PollFails
  <2>1. loop' = [loop EXCEPT !.pc = "finish"] /\ ~At("start")
    BY <1>3 DEF PollFails, At
  <2>2. /\ loop' \in Loop /\ loop'.now = loop.now /\ loop'.events = loop.events
        /\ loop'.pc = "finish"
    BY <1>1, <2>1 DEF Loop
  <2> QED BY <1>1, <1>3, <2>1, <2>2, Parts, QuietKeeps DEF PollFails
<1>4. CASE EventsDone
  <2>1. loop' = [loop EXCEPT !.pc = "tick"] /\ At("events")
    BY <1>4 DEF EventsDone
  <2>2. /\ loop' \in Loop /\ loop'.now = loop.now /\ loop'.events = loop.events
        /\ loop'.pc = "tick"
    BY <1>1, <2>1 DEF Loop
  <2> QED BY <1>1, <1>4, <2>1, <2>2, Parts, QuietKeeps DEF EventsDone
<1>5. CASE Signal
  <2>1. loop' = loop /\ shutdown' = TRUE
    BY <1>5 DEF Signal
  <2> QED BY <1>1, <1>5, <2>1, Parts, QuietKeeps DEF Signal
<1> QED BY <1>2, <1>3, <1>4, <1>5

\* What holds whatever method the step called.
LEMMA BecomesKeeps ==
  ASSUME TInv, NEW u, Becomes(u), u \in Controller, Permitted(u), Guarded(u, seen.line),
         clock' \in Time, clock' > 0, u.last_clock <= clock', shutdown' \in BOOLEAN,
         loop' \in Loop, loop'.now <= clock', loop'.pc # "start",
         seen'.sequence \in Nat, seen'.token \in Nat
  PROVE  Shaped' /\ Permitted(tele)' /\ Spoken' /\ Begins'
<1>1. tele' = u /\ seen'.line = LastLine(u, seen.line)
  BY ShownLines
<1>2. Shaped'
  BY <1>1 DEF Shaped
<1>3. Permitted(tele)'
  BY <1>1 DEF Permitted, Lawful
<1>4. Spoken' /\ Begins'
  BY <1>1 DEF Spoken, Begins, Guarded, At
<1> QED BY <1>2, <1>3, <1>4

\* Steps after which nothing is steered.
LEMMA HaltKeeps ==
  ASSUME TInv, NEW u, Becomes(u), u \in Controller, Lawful(u), u.active = "none",
         LastLine(u, seen.line) # "CMD", NoNumbers(tele, u),
         clock' \in Time, clock' >= clock, u.last_clock <= clock', shutdown' \in BOOLEAN,
         loop' \in Loop, loop'.now <= clock', loop'.pc # "start",
         u.authorized /\ clock' < Int64Max => seen.sequence < clock',
         loop'.pc \in {"events", "tick"} /\ TimeValid(u, loop'.now) =>
           /\ clock' <= loop'.now + MaxEvents - loop'.events
           /\ tele.sequence # seen.sequence => seen.sequence < loop'.now
           /\ tele.token # seen.token => seen.token < loop'.now
  PROVE  Stepped
<1>1. tele' = u /\ seen'.sequence = seen.sequence /\ seen'.token = seen.token
  BY ShownLines, ShownNumbers
<1>2. /\ clock \in Nat /\ clock > 0 /\ clock' \in Nat /\ seen.sequence \in Nat
      /\ seen.token \in Nat /\ tele.sequence \in Nat /\ tele.token \in Nat /\ Int64Max \in Nat
  BY Parts, TimeFacts, ConstantFacts
<1>3. u.sequence = tele.sequence /\ u.token = tele.token /\ Commands(u) = {} /\ Grants(u) = {}
  BY DEF NoNumbers
<1>4. Shaped' /\ Permitted(tele)' /\ Spoken' /\ Begins'
  <2>1. Permitted(u) /\ Guarded(u, seen.line)
    BY DEF Permitted, Guarded
  <2> QED BY <1>1, <1>2, <2>1, BecomesKeeps
<1>5. CommandFollowsHand' /\ Ascends
  BY <1>1, <1>3 DEF CommandFollowsHand, Commands, Ascends
<1>6. Steered' /\ SilenceIsNoticed' /\ Punctual'
  BY <1>1 DEF Steered, SilenceIsNoticed, Punctual, ValidNow, At
<1>7. Numbered'
  <2>1. /\ tele.sequence <= seen.sequence /\ tele.token <= seen.token
        /\ tele.sequence # seen.sequence => seen.sequence < clock
        /\ tele.token # seen.token => seen.token < clock
    BY DEF TInv, Numbered
  <2>2. /\ tele.sequence # seen.sequence => seen.sequence < clock'
        /\ tele.token # seen.token => seen.token < clock'
    BY <1>2, <2>1
  <2> QED BY <1>1, <1>3, <2>1, <2>2 DEF Numbered, ValidNow, At
<1>8. Paced'
  <2> SUFFICES ASSUME clock' < Int64Max
               PROVE  /\ seen.token < clock'
                      /\ \/ seen.sequence < clock'
                         \/ seen.sequence = clock' /\ ~u.authorized
    BY <1>1 DEF Paced
  <2>1. clock < Int64Max
    BY <1>2
  <2>2. seen.token < clock /\ seen.sequence <= clock
    BY <1>2, <2>1 DEF TInv, Paced
  <2> QED BY <1>2, <2>2
<1> QED BY <1>4, <1>5, <1>6, <1>7, <1>8 DEF Stepped, TInv

LEMMA StartSteps ==
  ASSUME TInv, Start
  PROVE  Stepped
<1> DEFINE t == Silent(tele)
           c == ClearDirection(t)
           u == EmitStop(c, TRUE)
<1>1. /\ At("start") /\ loop' = [loop EXCEPT !.pc = "top"] /\ clock' = clock
      /\ shutdown' = shutdown /\ Becomes(u)
  BY DEF Start
<1>2. /\ t \in Controller /\ Alike(tele, t) /\ Commands(t) = {} /\ Grants(t) = {}
      /\ Permitted(t)
  BY ReadyNow
<1> HIDE DEF t
<1>3. /\ c \in Controller /\ c.active = "none" /\ c.out = t.out
      /\ c.authorized = t.authorized /\ c.estop = t.estop /\ SameNumbers(t, c)
  BY <1>2, ClearFields
<1>4. Commands(c) = {} /\ Grants(c) = {}
  BY <1>2, <1>3, OutDecides
<1> HIDE DEF c
<1>5. /\ u \in Controller /\ Alike(c, u) /\ Commands(u) = {} /\ Grants(u) = {}
      /\ LastLine(u, seen.line) # "CMD"
  BY <1>3, <1>4, EmitStopFacts
<1> HIDE DEF u
<1>6. /\ u.active = "none" /\ Lawful(u) /\ NoNumbers(tele, u)
      /\ u.last_clock = tele.last_clock /\ u.authorized = tele.authorized
  BY <1>2, <1>3, <1>5 DEF Alike, SameNumbers, NoNumbers, Lawful, Permitted
<1>7. loop' \in Loop /\ loop'.now = loop.now /\ loop'.pc = "top"
  BY <1>1, Parts DEF Loop
<1>8. u.authorized /\ clock' < Int64Max => seen.sequence < clock'
  BY <1>1, <1>6 DEF TInv, Begins, Paced
<1>9. clock' >= clock
  BY <1>1, Parts
<1> QED BY <1>1, <1>5, <1>6, <1>7, <1>8, <1>9, Parts, HaltKeeps

LEMMA FinishSteps ==
  ASSUME TInv, StartFails \/ FinishSession
  PROVE  Stepped
<1> DEFINE t == Silent(tele)
           u == Finish(t)
<1>1. /\ t \in Controller /\ Alike(tele, t) /\ Commands(t) = {} /\ Grants(t) = {}
      /\ ~At("start") => Ready(t, seen.line)
  BY ReadyNow
<1>2. clock' = clock /\ shutdown' = shutdown /\ loop'.pc = "ended"
  BY Parts DEF StartFails, FinishSession, Loop
<1>3. loop' \in Loop /\ loop'.now <= clock'
  <2>1. CASE StartFails
    BY <2>1, Parts DEF StartFails, Loop
  <2>2. CASE FinishSession
    BY <2>2, Parts, TimeFacts, ConstantFacts DEF FinishSession, Loop
  <2> QED BY <2>1, <2>2
<1>4. CASE ~t.finished
  <2>1. Halted(t, u, seen.line) /\ ~u.authorized /\ u.finished = TRUE
    BY <1>1, <1>4, FinishFacts
  <2>2. Finish(u) = u
    BY <2>1 DEF Finish
  <2>3. Becomes(u)
    BY <2>2 DEF StartFails, FinishSession
  <2> HIDE DEF t, u
  <2>4. NoNumbers(tele, u) /\ u.last_clock = tele.last_clock
    BY <1>1, <2>1 DEF Halted, SameNumbers, NoNumbers, Alike
  <2>5. u \in Controller /\ Lawful(u) /\ u.active = "none" /\ LastLine(u, seen.line) # "CMD"
    BY <2>1 DEF Halted
  <2>6. clock' >= clock
    BY <1>2, Parts
  <2> QED BY <1>2, <1>3, <2>1, <2>3, <2>4, <2>5, <2>6, Parts, HaltKeeps
<1>5. CASE t.finished
  <2>1. ~At("start")
    BY <1>1, <1>5 DEF TInv, Begins, Alike
  <2>2. FinishSession /\ u = t /\ Finish(u) = t
    BY <1>5, <2>1 DEF StartFails, Finish
  <2>3. At("finish") /\ Quiet
    BY <2>2 DEF FinishSession, Quiet
  <2>4. hand' = hand
    BY <2>2 DEF FinishSession
  <2> QED BY <1>2, <1>3, <2>1, <2>3, <2>4, Parts, QuietKeeps
<1> QED BY <1>4, <1>5

LEMMA LargerFacts ==
  ASSUME NEW a \in Int, NEW b \in Int
  PROVE  /\ Larger(a, b) \in Int /\ Larger(a, b) >= a /\ Larger(a, b) >= b
         /\ Larger(a, b) = a \/ Larger(a, b) = b
         /\ Smaller(a, b) \in Int /\ Smaller(a, b) <= a /\ Smaller(a, b) <= b
         /\ Smaller(a, b) = a \/ Smaller(a, b) = b
BY DEF Larger, Smaller

\* The ways of an event and of a tick depend on the controller's fields only.
LEMMA SilentEnds ==
  ASSUME TInv, NEW u, NEW key, NEW pressed, NEW now
  PROVE  /\ EventEnds(Silent(tele), u, key, pressed, now)
              => EventEnds(tele, u, key, pressed, now)
         /\ TickEnds(Silent(tele), u, now) => TickEnds(tele, u, now)
         /\ TimeValid(Silent(tele), now) <=> TimeValid(tele, now)
<1> DEFINE t == Silent(tele)
<1>1. /\ t.authorized = tele.authorized /\ t.active = tele.active
      /\ t.activity = tele.activity /\ t.next = tele.next /\ t.last_clock = tele.last_clock
      /\ t.token = tele.token /\ t.sequence = tele.sequence
  BY ReadyNow DEF Alike
<1> HIDE DEF t
<1>2. NoNumbers(t, u) <=> NoNumbers(tele, u)
  BY <1>1 DEF NoNumbers
<1>3. NewToken(t, u, now) <=> NewToken(tele, u, now)
  BY <1>1 DEF NewToken
<1>4. NewSequence(t, u, now) <=> NewSequence(tele, u, now)
  BY <1>1 DEF NewSequence
<1>5. SameDirection(t, u) <=> SameDirection(tele, u)
  BY <1>1 DEF SameDirection
<1>6. Due(t, now) <=> Due(tele, now)
  BY <1>1 DEF Due
<1>7. EventEnds(t, u, key, pressed, now) => EventEnds(tele, u, key, pressed, now)
  BY <1>1, <1>2, <1>3, <1>4, <1>5, <1>6 DEF EventEnds
<1>8. TickEnds(t, u, now) => TickEnds(tele, u, now)
  BY <1>1, <1>2, <1>4, <1>5 DEF TickEnds
<1>9. TimeValid(t, now) <=> TimeValid(tele, now)
  BY <1>1 DEF TimeValid
<1> QED BY <1>7, <1>8, <1>9 DEF t

\* A reading that _valid_now refuses, in a tick or in an event.
LEMMA BadReadingSteps ==
  ASSUME TInv, ~At("start"), NEW now, ~TimeValid(tele, now),
         Becomes(ObserveClock(Silent(tele), now)),
         clock' \in Time, clock' >= clock, shutdown' \in BOOLEAN,
         loop' \in Loop, loop'.now <= clock', loop'.pc # "start",
         loop'.pc \in {"events", "tick"} => loop'.now = now
  PROVE  Stepped
<1> DEFINE t == Silent(tele)
           u == ObserveClock(t, now)
<1>1. Ready(t, seen.line) /\ Alike(tele, t)
  BY ReadyNow
<1>2. ~TimeValid(t, now)
  BY SilentEnds
<1>3. Halted(t, u, seen.line) /\ ~u.authorized
  BY <1>1, <1>2, BadClockHalts
<1>4. Becomes(u)
  OBVIOUS
<1> HIDE DEF t, u
<1>5. NoNumbers(tele, u) /\ u.last_clock = tele.last_clock
  BY <1>1, <1>3 DEF Halted, SameNumbers, NoNumbers, Alike
<1>6. u \in Controller /\ Lawful(u) /\ u.active = "none" /\ LastLine(u, seen.line) # "CMD"
  BY <1>3 DEF Halted
<1>7. ~TimeValid(u, now)
  BY <1>5 DEF TimeValid
<1>8. u.last_clock <= clock'
  <2>1. clock \in Nat /\ clock' \in Nat /\ tele.last_clock \in Nat /\ tele.last_clock <= clock
    BY Parts, TimeFacts
  <2> QED BY <1>5, <2>1
<1> QED BY <1>3, <1>4, <1>5, <1>6, <1>7, <1>8, HaltKeeps

\* A tick with a reading that is accepted; `now' is the clock's, or that of the
\* poll before the events.
LEMMA TickSteps ==
  ASSUME TInv, ~At("start"), NEW now \in Time, TimeValid(tele, now),
         Becomes(TickController(Silent(tele), now)),
         clock' \in Time, clock' >= clock, now <= clock', shutdown' \in BOOLEAN, hand' = hand,
         loop' \in Loop, loop'.now <= clock', loop'.pc \in {"top", "poll"},
         loop'.pc = "poll" => clock' = now,
         tele.sequence # seen.sequence => seen.sequence < now,
         (clock' < Int64Max /\ tele.active # "none" /\ tele.next <= now) =>
           seen.sequence < now,
         (tele.active # "none" /\ now < tele.activity + ReleaseTimeout) =>
           clock' <= tele.activity + ReleaseTimeout + Larger(MaxDelay, MaxEvents)
  PROVE  Stepped
<1> DEFINE u == TickController(Silent(tele), now)
<1>1. Accepted(u, now, seen.line) /\ TickEnds(tele, u, now)
  BY ReadyNow, TickFacts, SilentEnds
<1>2. Becomes(u)
  OBVIOUS
<1> HIDE DEF u
<1>3. tele' = u /\ seen'.line = LastLine(u, seen.line)
  BY <1>2, ShownLines
<1>4. /\ clock \in Nat /\ clock > 0 /\ clock' \in Nat /\ now \in Nat
      /\ tele.activity \in Nat /\ tele.next \in Nat /\ tele.sequence \in Nat
      /\ tele.token \in Nat /\ seen.sequence \in Nat /\ seen.token \in Nat
  BY Parts, TimeFacts
<1>5. u \in Controller /\ Permitted(u) /\ Guarded(u, seen.line) /\ u.last_clock = now
  BY <1>1 DEF Accepted
<1>6. /\ tele.sequence <= seen.sequence /\ tele.token <= seen.token
      /\ tele.token # seen.token => seen.token < clock
      /\ tele.sequence # seen.sequence => seen.sequence < clock
  BY DEF TInv, Numbered
<1>7. clock' < Int64Max =>
        /\ seen.token < clock
        /\ \/ seen.sequence < clock
           \/ /\ seen.sequence = clock
              /\ tele.authorized =>
                   /\ tele.active # "none" /\ tele.next > clock
                   /\ clock < tele.activity + ReleaseTimeout
  <2>1. clock' < Int64Max => clock < Int64Max
    BY <1>4, ConstantFacts
  <2> QED BY <2>1 DEF TInv, Paced
<1>8. tele.active # "none" => tele.authorized /\ hand.key = tele.active
                              /\ hand.time = tele.activity
  BY DEF TInv, Permitted, Steered
<1>9. ReleaseTimeout \in Nat /\ CommandPeriod \in Nat /\ CommandPeriod > 0
  BY ConstantFacts
<1>10. CASE u.active = "none" /\ NoNumbers(tele, u)
                              /\ (u.authorized /\ clock' < Int64Max => seen.sequence < clock')
  <2>1. Lawful(u) /\ LastLine(u, seen.line) # "CMD"
    BY <1>5, <1>10 DEF Permitted, Guarded
  <2> QED BY <1>2, <1>5, <1>10, <2>1, HaltKeeps
<1>11. CASE tele.active = "none" /\ u.active = "none" /\ NoNumbers(tele, u)
            /\ u.authorized = tele.authorized
  BY <1>4, <1>7, <1>10, <1>11
<1>12. CASE /\ tele.active # "none" /\ u.active = "none" /\ NoNumbers(tele, u)
            /\ now >= tele.activity + ReleaseTimeout \/ now >= tele.next
  BY <1>4, <1>7, <1>8, <1>9, <1>10, <1>12
<1>13. CASE /\ u.active # "none" /\ SameDirection(tele, u) /\ NoNumbers(tele, u)
            /\ now < tele.activity + ReleaseTimeout /\ now < tele.next
  <2>1. /\ seen'.sequence = seen.sequence /\ seen'.token = seen.token
        /\ u.sequence = tele.sequence /\ u.token = tele.token
        /\ Commands(u) = {} /\ Grants(u) = {}
    BY <1>2, <1>13, ShownNumbers DEF NoNumbers
  <2>2. u.active = tele.active /\ u.activity = tele.activity /\ u.next = tele.next
    BY <1>13 DEF SameDirection
  <2>3. Shaped' /\ Permitted(tele)' /\ Spoken' /\ Begins'
    BY <1>2, <1>4, <1>5, <2>1, BecomesKeeps
  <2>4. Steered' /\ CommandFollowsHand' /\ Ascends
    BY <1>3, <1>8, <1>13, <2>1, <2>2
       DEF Steered, CommandFollowsHand, Commands, Ascends
  <2>5. SilenceIsNoticed'
    BY <1>3, <1>13, <2>2 DEF SilenceIsNoticed
  <2>6. Punctual'
    BY <1>3, <1>13, <2>2 DEF Punctual, At
  <2>7. Numbered'
    BY <1>3, <1>4, <1>6, <2>1 DEF Numbered, At
  <2>8. Paced'
    <3>1. tele.authorized /\ u.active # "none" /\ tele.active # "none"
      BY <1>8, <1>13, <2>2
    <3>2. clock' < Int64Max =>
            \/ seen.sequence < clock'
            \/ /\ seen.sequence = clock' /\ tele.next > clock'
               /\ clock' < tele.activity + ReleaseTimeout
      BY <1>4, <1>7, <3>1
    <3>3. clock' < Int64Max => seen.token < clock'
      BY <1>4, <1>7
    <3> QED BY <1>3, <2>1, <2>2, <3>1, <3>2, <3>3 DEF Paced, At
  <2> QED BY <2>3, <2>4, <2>5, <2>6, <2>7, <2>8 DEF Stepped, TInv
<1>14. CASE /\ u.active = tele.active /\ u.activity = tele.activity
            /\ NewSequence(tele, u, now)
            /\ now < tele.activity + ReleaseTimeout /\ now >= tele.next
  <2>1. /\ u.active # "none" /\ u.next = now + CommandPeriod
        /\ u.sequence = Larger(tele.sequence + 1, now) /\ u.token = tele.token
        /\ Grants(u) = {}
    BY <1>14 DEF NewSequence
  <2>2. PICK c \in Command: /\ Commands(u) = {c} /\ c.sequence = u.sequence
                            /\ c.direction = u.active /\ c.created = now
    BY <1>14 DEF NewSequence
  <2>3. /\ u.sequence \in Nat /\ u.sequence >= now /\ u.sequence > tele.sequence
        /\ u.sequence = now \/ u.sequence = tele.sequence + 1
    BY <1>4, <2>1 DEF Larger
  <2>4. seen'.sequence = u.sequence /\ seen'.token = seen.token
    BY <1>2, <1>14, <2>3, ShownNumbers
  <2>5. u.sequence > seen.sequence
    BY <1>4, <2>3
  <2>6. clock' < Int64Max => u.sequence = now
    <3>1. clock' < Int64Max => seen.sequence < now
      BY <1>4, <1>14, <2>1
    <3> QED BY <1>4, <1>6, <2>3, <3>1
  <2>7. Shaped' /\ Permitted(tele)' /\ Spoken' /\ Begins'
    BY <1>2, <1>4, <1>5, <2>3, <2>4, BecomesKeeps
  <2>8. Steered'
    BY <1>3, <1>8, <1>14 DEF Steered
  <2>9. CommandFollowsHand'
    <3>1. c.created - hand.time < ReleaseTimeout /\ hand.key = c.direction
      BY <1>4, <1>8, <1>9, <1>14, <2>1, <2>2
    <3>2. \A d \in Commands(tele'): hand'.key = d.direction
                                    /\ d.created - hand'.time < ReleaseTimeout
      BY <1>3, <2>2, <3>1
    <3> QED BY <3>2 DEF CommandFollowsHand, Commands
  <2>10. Ascends
    BY <1>3, <2>1, <2>2, <2>5 DEF Ascends
  <2>11. SilenceIsNoticed'
    BY <1>3, <1>14, <2>1 DEF SilenceIsNoticed
  <2>12. Punctual'
    BY <1>3, <1>4, <1>9, <1>14, <2>1 DEF Punctual, At
  <2>13. Numbered'
    BY <1>3, <1>4, <1>6, <2>1, <2>3, <2>4 DEF Numbered, At
  <2>14. Paced'
    BY <1>3, <1>4, <1>7, <1>9, <1>14, <2>1, <2>4, <2>6 DEF Paced, At
  <2> QED BY <2>7, <2>8, <2>9, <2>10, <2>11, <2>12, <2>13, <2>14 DEF Stepped, TInv
<1> QED BY <1>1, <1>11, <1>12, <1>13, <1>14 DEF TickEnds

\* A reading that is accepted is one of the clock's own.
LEMMA GoodReading ==
  ASSUME TInv, NEW now \in Time, TimeValid(tele, now)
  PROVE  now \notin BadReadings
<1>1. tele.last_clock \in Nat /\ now \in Nat
  BY Parts, TimeFacts
<1> QED BY <1>1 DEF TimeValid, BadReadings

LEMMA FirstTickSteps ==
  ASSUME TInv, FirstTick
  PROVE  Stepped
<1>1. PICK now \in Time:
        /\ ReadsClock(now) /\ Becomes(TickController(Silent(tele), now))
        /\ loop' = [loop EXCEPT !.pc = "poll", !.now = now]
  BY DEF FirstTick
<1>2. At("top") /\ ~At("start") /\ shutdown' = shutdown /\ hand' = hand
  BY DEF FirstTick, At
<1>3. loop' \in Loop /\ loop'.pc = "poll" /\ loop'.now = now
  BY <1>1, Parts DEF Loop
<1>4. /\ clock \in Nat /\ now \in Nat /\ now <= Int64Max /\ clock <= Int64Max
      /\ tele.activity \in Nat /\ tele.next \in Nat /\ ReleaseTimeout \in Nat
      /\ MaxDelay \in Nat /\ MaxEvents \in Nat /\ seen.sequence \in Nat /\ Int64Max \in Nat
  BY Parts, TimeFacts, ConstantFacts
<1>5. clock' = Larger(clock, now)
  BY <1>1 DEF ReadsClock
<1>6. clock' \in Time /\ clock' >= clock /\ now <= clock' /\ shutdown' \in BOOLEAN
  BY <1>2, <1>4, <1>5, Parts, TimeFacts DEF Larger
<1>7. CASE TimeValid(tele, now)
  <2>1. now \in Readings
    BY <1>1, <1>7, GoodReading DEF ReadsClock
  <2>2. now >= clock
    BY <1>4, <2>1, LargerFacts DEF Readings
  <2>3. clock' = now
    BY <1>4, <1>5, <2>2 DEF Larger
  <2>4. tele.sequence # seen.sequence => seen.sequence < now
    BY <1>4, <2>2 DEF TInv, Numbered
  <2>5. clock' < Int64Max /\ tele.active # "none" /\ tele.next <= now => seen.sequence < now
    <3> SUFFICES ASSUME clock' < Int64Max, tele.active # "none", tele.next <= now
                 PROVE  seen.sequence < now
      OBVIOUS
    <3>1. clock < Int64Max /\ tele.authorized
      BY <1>4, <2>2, <2>3 DEF TInv, Permitted
    <3>2. seen.sequence < clock \/ (seen.sequence = clock /\ tele.next > clock)
      BY <3>1 DEF TInv, Paced
    <3> QED BY <1>4, <2>2, <3>2
  <2>6. tele.active # "none" /\ now < tele.activity + ReleaseTimeout =>
          clock' <= tele.activity + ReleaseTimeout + Larger(MaxDelay, MaxEvents)
    BY <1>4, <2>3 DEF Larger
  <2> QED BY <1>1, <1>2, <1>3, <1>6, <1>7, <2>3, <2>4, <2>5, <2>6, TickSteps
<1>8. CASE ~TimeValid(tele, now)
  <2>1. ~TimeValid(Silent(tele), now)
    BY <1>8, SilentEnds
  <2>2. Becomes(ObserveClock(Silent(tele), now))
    BY <1>1, <2>1 DEF TickController
  <2> QED BY <1>2, <1>3, <1>6, <1>8, <2>2, BadReadingSteps
<1> QED BY <1>7, <1>8

LEMMA SecondTickSteps ==
  ASSUME TInv, SecondTick
  PROVE  Stepped
<1> DEFINE now == loop.now
<1>1. /\ At("tick") /\ ~At("start") /\ clock' = clock /\ shutdown' = shutdown /\ hand' = hand
      /\ Becomes(TickController(Silent(tele), now))
      /\ loop' = [loop EXCEPT !.pc = "top", !.now = 0]
  BY DEF SecondTick, At
<1>2. loop' \in Loop /\ loop'.pc = "top" /\ loop'.now = 0
  BY <1>1, Parts, TimeFacts DEF Loop
<1>3. /\ clock \in Nat /\ clock \in Time /\ now \in Nat /\ now \in Time /\ now <= clock
      /\ loop.events \in Nat /\ tele.activity \in Nat /\ ReleaseTimeout \in Nat
      /\ MaxDelay \in Nat /\ MaxEvents \in Nat /\ shutdown \in BOOLEAN
  BY Parts, ConstantFacts
<1>4. /\ clock' \in Time /\ clock' >= clock /\ now <= clock' /\ loop'.now <= clock'
      /\ shutdown' \in BOOLEAN
  BY <1>1, <1>2, <1>3
<1>5. CASE TimeValid(tele, now)
  <2>1. ValidNow
    BY <1>5 DEF ValidNow
  <2>2. tele.sequence # seen.sequence => seen.sequence < now
    BY <1>1, <2>1 DEF TInv, Numbered
  <2>3. clock' < Int64Max /\ tele.active # "none" /\ tele.next <= now => seen.sequence < now
    BY <1>1, <2>1 DEF TInv, Paced
  <2>4. clock <= now + MaxEvents - loop.events
    BY <1>1, <2>1 DEF TInv, Punctual
  <2>5. tele.active # "none" /\ now < tele.activity + ReleaseTimeout =>
          clock' <= tele.activity + ReleaseTimeout + Larger(MaxDelay, MaxEvents)
    BY <1>1, <1>3, <2>4 DEF Larger
  <2> HIDE DEF now
  <2> QED BY <1>1, <1>2, <1>3, <1>4, <1>5, <2>2, <2>3, <2>5, TickSteps
<1>6. CASE ~TimeValid(tele, now)
  <2>1. ~TimeValid(Silent(tele), now)
    BY <1>6, SilentEnds
  <2>2. Becomes(ObserveClock(Silent(tele), now))
    BY <1>1, <2>1 DEF TickController
  <2> HIDE DEF now
  <2> QED BY <1>1, <1>2, <1>4, <1>6, <2>2, BadReadingSteps
<1> QED BY <1>5, <1>6

\* The poll does not sleep through the end of a direction.
LEMMA WakesInTime ==
  ASSUME TInv, At("poll"), tele.active # "none",
         NEW now \in Time,
         now \in BadReadings \cup
                 clock..Smaller(Int64Max, Larger(clock, WakeAt(tele, loop.now)) + MaxDelay)
  PROVE  now <= tele.activity + ReleaseTimeout + MaxDelay
<1> DEFINE wake == WakeAt(tele, loop.now)
<1>1. /\ clock \in Nat /\ now \in Nat /\ tele.activity \in Nat /\ tele.next \in Nat
      /\ loop.now \in Nat /\ tele.last_clock \in Nat /\ tele.last_clock <= clock
      /\ IdleWait \in Nat /\ ReleaseTimeout \in Nat /\ MaxDelay \in Nat /\ Int64Max \in Nat
  BY Parts, TimeFacts, ConstantFacts
<1>2. clock < tele.activity + ReleaseTimeout
  BY DEF TInv, Punctual
<1>3. wake \in Int /\ wake <= tele.activity + ReleaseTimeout
  BY <1>1 DEF WakeAt, Smaller
<1> HIDE DEF wake
<1>4. CASE now \in BadReadings
  BY <1>1, <1>2, <1>4 DEF BadReadings
<1>5. CASE now \in clock..Smaller(Int64Max, Larger(clock, wake) + MaxDelay)
  <2>1. Larger(clock, wake) \in Int /\ Larger(clock, wake) <= tele.activity + ReleaseTimeout
    BY <1>1, <1>2, <1>3 DEF Larger
  <2>2. now <= Larger(clock, wake) + MaxDelay
    BY <1>1, <1>5, <2>1 DEF Smaller
  <2> QED BY <1>1, <2>1, <2>2
<1> QED BY <1>4, <1>5 DEF wake

LEMMA PollSteps ==
  ASSUME TInv, Poll
  PROVE  Stepped
<1>1. PICK now \in Time, events \in 0..MaxEvents:
        /\ now \in BadReadings \cup
                   clock..Smaller(Int64Max, Larger(clock, WakeAt(tele, loop.now)) + MaxDelay)
        /\ clock' = Larger(clock, now)
        /\ loop' = IF shutdown THEN [pc |-> "finish", now |-> 0, events |-> 0]
                   ELSE [pc |-> "events", now |-> now, events |-> events]
  BY DEF Poll
<1>2. At("poll") /\ ~At("start") /\ Quiet /\ shutdown' = shutdown /\ hand' = hand
  BY DEF Poll, At
<1>3. /\ tele' \in Controller /\ tele'.stopped = tele.stopped
      /\ Commands(tele') = {} /\ Grants(tele') = {}
      /\ seen'.line = seen.line /\ seen'.sequence = seen.sequence /\ seen'.token = seen.token
  BY <1>2, QuietFacts
<1>4. /\ tele'.authorized = tele.authorized /\ tele'.estop = tele.estop
      /\ tele'.active = tele.active /\ tele'.activity = tele.activity
      /\ tele'.next = tele.next /\ tele'.last_clock = tele.last_clock
      /\ tele'.token = tele.token /\ tele'.sequence = tele.sequence
  BY <1>2, QuietFacts DEF Alike
<1>5. /\ clock \in Nat /\ clock > 0 /\ clock <= Int64Max /\ now \in Nat /\ now <= Int64Max
      /\ tele.activity \in Nat /\ tele.next \in Nat /\ tele.last_clock \in Nat
      /\ tele.last_clock <= clock /\ seen.sequence \in Nat /\ seen.token \in Nat
      /\ shutdown \in BOOLEAN /\ events \in Nat /\ events <= MaxEvents
      /\ ReleaseTimeout \in Nat /\ MaxDelay \in Nat /\ MaxEvents \in Nat /\ Int64Max \in Nat
  BY Parts, TimeFacts, ConstantFacts
<1>6. /\ clock' \in Nat /\ clock' \in Time /\ clock' > 0 /\ clock' >= clock /\ now <= clock'
      /\ clock' = now \/ clock' = clock
  BY <1>1, <1>5, TimeFacts DEF Larger
<1>7. /\ loop' \in Loop /\ loop'.now <= clock' /\ loop'.pc \in {"finish", "events"}
      /\ loop'.pc = "events" => loop'.now = now /\ loop'.events = events
  <2>1. CASE shutdown
    BY <1>1, <1>5, <1>6, <2>1, TimeFacts DEF Loop
  <2>2. CASE ~shutdown
    BY <1>1, <1>6, <2>2 DEF Loop
  <2> QED BY <2>1, <2>2
<1>8. ASSUME (At("events") \/ At("tick"))', ValidNow'
      PROVE  loop'.now = now /\ loop'.events = events /\ clock' = now /\ now >= clock
  <2>1. loop'.now = now /\ loop'.events = events
    BY <1>7, <1>8 DEF At
  <2>2. TimeValid(tele, now)
    BY <1>4, <1>8, <2>1 DEF ValidNow, TimeValid
  <2>3. now \in clock..Smaller(Int64Max, Larger(clock, WakeAt(tele, loop.now)) + MaxDelay)
    BY <1>1, <2>2, GoodReading
  <2>4. now >= clock
    BY <1>5, <2>3
  <2> QED BY <1>1, <1>5, <2>1, <2>4 DEF Larger
<1>9. Shaped'
  BY <1>2, <1>3, <1>4, <1>5, <1>6, <1>7 DEF Shaped
<1>10. Permitted(tele)' /\ Spoken' /\ Steered' /\ Begins'
  BY <1>2, <1>3, <1>4, <1>7 DEF TInv, Permitted, Lawful, Spoken, Steered, Begins, At
<1>11. CommandFollowsHand' /\ Ascends
  BY <1>3 DEF CommandFollowsHand, Commands, Ascends
<1>12. tele.active # "none" => /\ clock < tele.activity + ReleaseTimeout /\ clock < tele.next
                              /\ clock' <= tele.activity + ReleaseTimeout + MaxDelay
  <2>1. tele.active # "none" => clock < tele.activity + ReleaseTimeout /\ clock < tele.next
    BY <1>2 DEF TInv, Punctual
  <2> QED BY <1>1, <1>2, <1>5, <1>6, <2>1, WakesInTime
<1>13. SilenceIsNoticed'
  <2>1. tele.active # "none" =>
          clock' <= tele.activity + ReleaseTimeout + Larger(MaxDelay, MaxEvents)
    BY <1>5, <1>6, <1>12 DEF Larger
  <2> QED BY <1>4, <2>1 DEF SilenceIsNoticed
<1>14. Punctual'
  <2>1. (At("events") \/ At("tick"))' /\ ValidNow'
          => clock' <= loop'.now + MaxEvents - loop'.events
    BY <1>5, <1>8
  <2>2. ~At("poll")'
    BY <1>7 DEF At
  <2> QED BY <1>4, <1>12, <2>1, <2>2 DEF Punctual
<1>15. Numbered'
  <2>1. /\ tele.sequence <= seen.sequence /\ tele.token <= seen.token
        /\ tele.sequence # seen.sequence => seen.sequence < clock
        /\ tele.token # seen.token => seen.token < clock
    BY DEF TInv, Numbered
  <2>2. /\ tele.sequence # seen.sequence => seen.sequence < clock'
        /\ tele.token # seen.token => seen.token < clock'
    BY <1>5, <1>6, <2>1
  <2> QED BY <1>3, <1>4, <1>8, <2>1, <2>2 DEF Numbered
<1>16. Paced'
  <2> SUFFICES ASSUME clock' < Int64Max
               PROVE  /\ seen.token < clock'
                      /\ \/ seen.sequence < clock'
                         \/ /\ seen.sequence = clock'
                            /\ tele.authorized =>
                                 /\ tele.active # "none" /\ tele.next > clock'
                                 /\ clock' < tele.activity + ReleaseTimeout
                      /\ (At("events") \/ At("tick"))' /\ ValidNow'
                           /\ tele.active # "none" /\ tele.next <= loop'.now =>
                             seen.sequence < loop'.now
    BY <1>3, <1>4 DEF Paced
  <2>1. clock < Int64Max
    BY <1>5, <1>6
  <2>2. /\ seen.token < clock
        /\ \/ seen.sequence < clock
           \/ /\ seen.sequence = clock
              /\ tele.authorized =>
                   /\ tele.active # "none" /\ tele.next > clock
                   /\ clock < tele.activity + ReleaseTimeout
    BY <2>1 DEF TInv, Paced
  <2>3. seen.token < clock' /\ seen.sequence <= clock
    BY <1>5, <1>6, <2>2
  <2>4. \/ seen.sequence < clock'
        \/ /\ seen.sequence = clock'
           /\ tele.authorized =>
                /\ tele.active # "none" /\ tele.next > clock'
                /\ clock' < tele.activity + ReleaseTimeout
    <3>1. CASE clock' = clock
      BY <2>2, <3>1
    <3>2. CASE clock' > clock
      BY <1>5, <1>6, <2>3, <3>2
    <3> QED BY <1>5, <1>6, <3>1, <3>2
  <2>5. ASSUME (At("events") \/ At("tick"))', ValidNow', tele.active # "none",
               tele.next <= loop'.now
        PROVE  seen.sequence < loop'.now
    BY <1>5, <1>8, <1>12, <2>3, <2>5
  <2> QED BY <2>3, <2>4, <2>5
<1> QED BY <1>9, <1>10, <1>11, <1>13, <1>14, <1>15, <1>16 DEF Stepped, TInv

LEMMA KeyEventSteps ==
  ASSUME TInv, KeyEvent
  PROVE  Stepped
<1> DEFINE now == loop.now
<1>1. PICK key \in Key, pressed \in BOOLEAN:
        /\ Becomes(HandleEvent(Silent(tele), key, pressed, now))
        /\ hand' = IF pressed /\ key \in Direction THEN [key |-> key, time |-> now]
                   ELSE IF pressed \/ hand.key = key THEN NoHand ELSE hand
  BY DEF KeyEvent
<1>2. /\ At("events") /\ ~At("start") /\ loop.events > 0 /\ shutdown' = shutdown
      /\ clock' = Smaller(Int64Max, clock + 1)
      /\ loop' = [loop EXCEPT !.events = IF tele'.quit \/ shutdown THEN 0 ELSE loop.events - 1]
  BY DEF KeyEvent, At
<1>3. /\ clock \in Nat /\ clock > 0 /\ clock <= Int64Max /\ Int64Max \in Nat
      /\ now \in Nat /\ now \in Time /\ now <= clock
      /\ loop.events \in Nat /\ loop.events <= MaxEvents /\ MaxEvents \in Nat
      /\ MaxDelay \in Nat /\ ReleaseTimeout \in Nat /\ CommandPeriod \in Nat
      /\ CommandPeriod > 0 /\ ReleaseTimeout > CommandPeriod
      /\ tele.activity \in Nat /\ tele.next \in Nat /\ tele.sequence \in Nat
      /\ tele.token \in Nat /\ seen.sequence \in Nat /\ seen.token \in Nat
  BY Parts, ConstantFacts
<1>4. /\ clock' \in Nat /\ clock' \in Time /\ clock' > 0 /\ clock' >= clock /\ clock' <= clock + 1
      /\ clock' < Int64Max => clock' = clock + 1
  BY <1>2, <1>3, TimeFacts DEF Smaller
<1>5. /\ loop' \in Loop /\ loop'.pc = "events" /\ loop'.now = now
      /\ loop'.events \in Nat /\ loop'.events <= loop.events - 1
  <2> DEFINE left == IF tele'.quit \/ shutdown THEN 0 ELSE loop.events - 1
  <2>1. left \in 0..MaxEvents /\ left \in Nat /\ left <= loop.events - 1
    BY <1>2, <1>3
  <2>2. loop' = [loop EXCEPT !.events = left]
    BY <1>2
  <2> HIDE DEF left
  <2>3. loop \in Loop /\ loop.pc = "events"
    BY <1>2, Parts DEF At
  <2> QED BY <2>1, <2>2, <2>3 DEF Loop
<1>6. shutdown' \in BOOLEAN /\ now <= clock'
  BY <1>2, <1>3, <1>4, Parts
<1>7. CASE ~TimeValid(tele, now)
  <2>1. ~TimeValid(Silent(tele), now)
    BY <1>7, SilentEnds
  <2>2. Becomes(ObserveClock(Silent(tele), now))
    BY <1>1, <2>1 DEF HandleEvent
  <2> HIDE DEF now
  <2> QED BY <1>2, <1>4, <1>5, <1>6, <1>7, <2>2, BadReadingSteps
<1>8. CASE TimeValid(tele, now)
  <2> DEFINE u == HandleEvent(Silent(tele), key, pressed, now)
  <2>1. Accepted(u, now, seen.line) /\ EventEnds(tele, u, key, pressed, now)
    BY <1>2, <1>3, <1>8, ReadyNow, EventFacts, SilentEnds
  <2>2. Becomes(u)
    BY <1>1
  <2>3. /\ clock <= now + MaxEvents - loop.events
        /\ tele.sequence <= seen.sequence /\ tele.token <= seen.token
        /\ tele.sequence # seen.sequence => seen.sequence < now
        /\ tele.token # seen.token => seen.token < now
    BY <1>2, <1>8 DEF TInv, Punctual, Numbered, ValidNow
  <2>4. clock < Int64Max =>
          /\ seen.token < clock
          /\ \/ seen.sequence < clock
             \/ /\ seen.sequence = clock
                /\ tele.authorized =>
                     /\ tele.active # "none" /\ tele.next > clock
                     /\ clock < tele.activity + ReleaseTimeout
          /\ tele.active # "none" /\ tele.next <= now => seen.sequence < now
    BY <1>2, <1>8 DEF TInv, Paced, ValidNow
  <2>5. tele.active # "none" => hand.key = tele.active /\ hand.time = tele.activity
    BY DEF TInv, Steered
  <2> HIDE DEF now, u
  <2>6. tele' = u /\ seen'.line = LastLine(u, seen.line)
    BY <2>2, ShownLines
  <2>7. u \in Controller /\ Permitted(u) /\ Guarded(u, seen.line) /\ u.last_clock = now
    BY <2>1 DEF Accepted
  <2>8. /\ clock' <= now + MaxEvents - loop'.events /\ clock' <= now + MaxEvents
        /\ clock' < Int64Max => clock < Int64Max /\ clock' = clock + 1
    BY <1>3, <1>4, <1>5, <2>3
  <2>9. ASSUME seen'.sequence \in Nat, seen'.token \in Nat,
               u.active # "none" => hand'.key = u.active /\ hand'.time = u.activity,
               now < u.activity + ReleaseTimeout \/ u.active = "none",
               \A c \in Commands(u): hand'.key = c.direction
                                     /\ c.created - hand'.time < ReleaseTimeout,
               u.sequence <= seen'.sequence, u.token <= seen'.token,
               u.sequence # seen'.sequence => seen'.sequence < now,
               u.token # seen'.token => seen'.token < now,
               clock' < Int64Max =>
                 /\ seen'.token < clock' /\ seen'.sequence < clock'
                 /\ u.active # "none" /\ u.next <= now => seen'.sequence < now
        PROVE  TInv'
    <3>1. Shaped' /\ Permitted(tele)' /\ Spoken' /\ Begins'
      BY <1>4, <1>5, <1>6, <2>2, <2>7, <2>9, BecomesKeeps
    <3>2. Steered'
      BY <2>6, <2>9 DEF Steered
    <3>3. CommandFollowsHand'
      BY <2>6, <2>9 DEF CommandFollowsHand, Commands
    <3>4. u.active # "none" => /\ u.activity \in Nat
                              /\ clock' <= u.activity + ReleaseTimeout + Larger(MaxDelay, MaxEvents)
      <4>1. u.activity \in Nat
        BY <2>7, TimeFacts DEF Controller
      <4> QED BY <1>3, <1>4, <2>8, <2>9, <4>1 DEF Larger
    <3>5. SilenceIsNoticed'
      BY <2>6, <3>4 DEF SilenceIsNoticed
    <3>6. TimeValid(u, now)
      BY <1>3, <1>8, <2>7 DEF TimeValid
    <3>7. ValidNow'
      BY <1>5, <2>6, <3>6 DEF ValidNow, TimeValid
    <3>8. Punctual'
      BY <1>5, <2>6, <2>8, <2>9, <3>7 DEF Punctual, At
    <3>9. /\ u.sequence # seen'.sequence => seen'.sequence < clock'
          /\ u.token # seen'.token => seen'.token < clock'
      BY <1>3, <1>4, <1>6, <2>9
    <3>10. Numbered'
      BY <1>5, <2>6, <2>9, <3>9 DEF Numbered
    <3>11. Paced'
      BY <1>5, <2>6, <2>9 DEF Paced
    <3> QED BY <3>1, <3>2, <3>3, <3>5, <3>8, <3>10, <3>11 DEF TInv
  <2>10. CASE u.active = "none" /\ NoNumbers(tele, u)
    <3>1. Lawful(u) /\ LastLine(u, seen.line) # "CMD"
      BY <2>7, <2>10 DEF Permitted, Guarded
    <3>2. clock' < Int64Max => seen.sequence < clock'
      BY <1>3, <2>4, <2>8
    <3>3. u.last_clock <= clock' /\ loop'.now <= clock' /\ loop'.pc # "start"
      BY <1>5, <1>6, <2>7
    <3>4. /\ clock' <= loop'.now + MaxEvents - loop'.events
          /\ tele.sequence # seen.sequence => seen.sequence < loop'.now
          /\ tele.token # seen.token => seen.token < loop'.now
      BY <1>5, <2>3, <2>8
    <3> QED BY <1>4, <1>5, <1>6, <2>2, <2>7, <2>10, <3>1, <3>2, <3>3, <3>4, HaltKeeps
  <2>11. CASE u.active = "none" /\ NewToken(tele, u, now)
    <3>1. /\ Commands(u) = {} /\ u.sequence = tele.sequence
          /\ u.token = Larger(now, tele.token + 1)
          /\ Grants(u) = {[op |-> "AUTH", token |-> u.token]}
      BY <2>11 DEF NewToken
    <3>2. /\ u.token \in Nat /\ u.token > tele.token /\ u.token >= now
          /\ u.token = now \/ u.token = tele.token + 1
      BY <1>3, <3>1 DEF Larger
    <3>3. seen'.sequence = seen.sequence /\ seen'.token = u.token
      <4>1. NewToken(tele, u, now) /\ u.token \in Int
        BY <2>11, <3>2
      <4> QED BY <2>2, <4>1, ShownNumbers
    <3>4. u.token > seen.token
      BY <1>3, <2>3, <3>2
    <3>5. Ascends
      BY <2>6, <3>1, <3>4 DEF Ascends
    <3>6. clock' < Int64Max => u.token < clock' /\ seen.sequence < clock'
      BY <1>3, <2>3, <2>4, <2>8, <3>2
    <3>7. TInv'
      BY <1>3, <2>3, <2>9, <2>11, <3>1, <3>2, <3>3, <3>6
    <3> QED BY <3>5, <3>7 DEF Stepped
  <2>12. CASE /\ ~pressed /\ key # u.active /\ SameDirection(tele, u) /\ NoNumbers(tele, u)
              /\ now < tele.activity + ReleaseTimeout /\ u.active # "none"
    <3>1. u.active = tele.active /\ u.activity = tele.activity /\ u.next = tele.next
      BY <2>12 DEF SameDirection
    <3>2. /\ Commands(u) = {} /\ Grants(u) = {}
          /\ u.sequence = tele.sequence /\ u.token = tele.token
          /\ seen'.sequence = seen.sequence /\ seen'.token = seen.token
      BY <2>2, <2>12, ShownNumbers DEF NoNumbers
    <3>3. hand' = hand
      BY <1>1, <2>5, <2>12, <3>1
    <3>4. clock' < Int64Max =>
            /\ seen.token < clock' /\ seen.sequence < clock'
            /\ tele.active # "none" /\ tele.next <= now => seen.sequence < now
      BY <1>3, <2>4, <2>8
    <3>5. TInv'
      BY <1>3, <2>3, <2>5, <2>9, <2>12, <3>1, <3>2, <3>3, <3>4
    <3>6. Ascends
      BY <2>6, <3>2 DEF Ascends
    <3> QED BY <3>5, <3>6 DEF Stepped
  <2>13. CASE /\ pressed /\ key \in Direction /\ u.active = key /\ u.activity = now
              /\ u.next > now /\ NoNumbers(tele, u)
    <3>1. hand' = [key |-> key, time |-> now] /\ hand'.key = key /\ hand'.time = now
      BY <1>1, <2>13 DEF now
    <3>2. /\ Commands(u) = {} /\ Grants(u) = {}
          /\ u.sequence = tele.sequence /\ u.token = tele.token
          /\ seen'.sequence = seen.sequence /\ seen'.token = seen.token
      BY <2>2, <2>13, ShownNumbers DEF NoNumbers
    <3>3. clock' < Int64Max => seen.token < clock' /\ seen.sequence < clock'
      BY <1>3, <2>4, <2>8
    <3>4. ~(u.next <= now) /\ now < u.activity + ReleaseTimeout
      <4>1. u.next \in Nat
        BY <2>7 DEF Controller
      <4> QED BY <1>3, <2>13, <4>1
    <3>5. TInv'
      BY <1>3, <2>3, <2>9, <2>13, <3>1, <3>2, <3>3, <3>4
    <3>6. Ascends
      BY <2>6, <3>2 DEF Ascends
    <3> QED BY <3>5, <3>6 DEF Stepped
  <2>14. CASE /\ pressed /\ key \in Direction /\ u.active = key /\ u.activity = now
              /\ NewSequence(tele, u, now) /\ Due(tele, now)
    <3>1. hand' = [key |-> key, time |-> now] /\ hand'.key = key /\ hand'.time = now
      BY <1>1, <2>14 DEF now
    <3>2. /\ u.next = now + CommandPeriod /\ u.sequence = Larger(tele.sequence + 1, now)
          /\ u.token = tele.token /\ Grants(u) = {}
      BY <2>14 DEF NewSequence
    <3>3. PICK c \in Command: /\ Commands(u) = {c} /\ c.sequence = u.sequence
                              /\ c.direction = u.active /\ c.created = now
      BY <2>14 DEF NewSequence
    <3>4. /\ u.sequence \in Nat /\ u.sequence >= now /\ u.sequence > tele.sequence
          /\ u.sequence = now \/ u.sequence = tele.sequence + 1
      BY <1>3, <3>2 DEF Larger
    <3>5. seen'.sequence = u.sequence /\ seen'.token = seen.token
      <4>1. NewSequence(tele, u, now) /\ u.sequence \in Int
        BY <2>14, <3>4
      <4> QED BY <2>2, <4>1, ShownNumbers
    <3>6. u.sequence > seen.sequence
      BY <1>3, <2>3, <3>4
    <3>7. Ascends
      BY <2>6, <3>2, <3>3, <3>6 DEF Ascends
    <3>8. clock' < Int64Max => seen.token < clock' /\ u.sequence < clock'
      <4> SUFFICES ASSUME clock' < Int64Max
                   PROVE  seen.token < clock' /\ u.sequence < clock'
        OBVIOUS
      <4>1. /\ tele.authorized
            /\ tele.next = 0 \/ now >= tele.next \/ now >= tele.activity + ReleaseTimeout
        BY <2>14 DEF Due
      <4>2. seen.sequence < clock
        BY <1>3, <2>4, <2>8, <4>1
      <4> QED BY <1>3, <2>3, <2>4, <2>8, <3>4, <4>2
    <3>9. ~(u.next <= now) /\ now < u.activity + ReleaseTimeout
      BY <1>3, <2>14, <3>2
    <3>10. \A d \in Commands(u): hand'.key = d.direction
                                 /\ d.created - hand'.time < ReleaseTimeout
      BY <1>3, <2>14, <3>1, <3>3
    <3>11. TInv'
      BY <1>3, <2>3, <2>9, <2>14, <3>1, <3>2, <3>4, <3>5, <3>8, <3>9, <3>10
    <3> QED BY <3>7, <3>11 DEF Stepped
  <2> QED BY <2>1, <2>10, <2>11, <2>12, <2>13, <2>14 DEF EventEnds
<1> QED BY <1>7, <1>8

\* A new process: its clock has moved past every number of the old one.
LEMMA RestartSteps ==
  ASSUME TInv, Restart
  PROVE  Stepped
<1>1. /\ clock < Int64Max /\ clock' = clock + 1 /\ shutdown' = FALSE
      /\ loop' = [pc |-> "start", now |-> 0, events |-> 0]
      /\ tele' = NewController /\ seen' = seen
  BY DEF Restart
<1>2. /\ clock \in Nat /\ clock > 0 /\ seen.sequence \in Nat /\ seen.token \in Nat
      /\ Int64Max \in Nat
  BY Parts, ConstantFacts
<1>3. NewController \in Controller /\ NewController.out = <<>>
  <2>1. <<>> \in Seq(Line)
    OBVIOUS
  <2> QED BY <2>1, ConstantFacts, TimeFacts DEF NewController, Controller
<1>4. /\ tele'.active = "none" /\ tele'.authorized = FALSE /\ tele'.finished = FALSE
      /\ tele'.sequence = 0 /\ tele'.token = 0 /\ tele'.last_clock = 0
  BY <1>1 DEF NewController
<1>5. Commands(tele') = {} /\ Grants(tele') = {}
  BY <1>1, <1>3, EmptyOut
<1>6. At("start")' /\ ~At("poll")' /\ ~At("events")' /\ ~At("tick")'
  BY <1>1 DEF At
<1>7. Shaped'
  <2>1. clock' \in Time /\ clock' > 0
    BY <1>1, <1>2, TimeFacts
  <2>2. loop' \in Loop /\ loop'.now = 0
    BY <1>1, TimeFacts, ConstantFacts DEF Loop
  <2>3. shutdown' \in BOOLEAN /\ loop'.now <= clock' /\ tele'.last_clock <= clock'
    <3>1. shutdown' \in BOOLEAN
      BY <1>1
    <3>2. 0 <= clock'
      BY <1>1, <1>2
    <3> QED BY <1>4, <2>2, <3>1, <3>2
  <2>4. tele' \in Controller /\ seen'.sequence \in Nat /\ seen'.token \in Nat
    BY <1>1, <1>2, <1>3
  <2> QED BY <2>1, <2>2, <2>3, <2>4 DEF Shaped
<1>8. Permitted(tele)' /\ Spoken' /\ Steered' /\ Begins' /\ SilenceIsNoticed' /\ Punctual'
  BY <1>4, <1>6 DEF Permitted, Lawful, Spoken, Steered, Begins, SilenceIsNoticed, Punctual
<1>9. CommandFollowsHand' /\ Ascends
  BY <1>5 DEF CommandFollowsHand, Commands, Ascends
<1>10. seen.token < clock /\ seen.sequence <= clock
  BY <1>1, <1>2 DEF TInv, Paced
<1>11. seen.token < clock' /\ seen.sequence < clock'
  BY <1>1, <1>2, <1>10
<1>12. Numbered' /\ Paced'
  BY <1>1, <1>2, <1>4, <1>6, <1>11 DEF Numbered, Paced
<1> QED BY <1>7, <1>8, <1>9, <1>12 DEF Stepped, TInv

LEMMA InitHolds ==
  ASSUME Init
  PROVE  TInv
<1>1. /\ clock = 1 /\ shutdown = FALSE
      /\ loop = [pc |-> "start", now |-> 0, events |-> 0]
      /\ tele = NewController
      /\ seen.sequence = 0 /\ seen.token = 0
  BY DEF Init
<1>2. NewController \in Controller /\ NewController.out = <<>>
  <2>1. <<>> \in Seq(Line)
    OBVIOUS
  <2> QED BY <2>1, ConstantFacts, TimeFacts DEF NewController, Controller
<1>3. /\ tele.active = "none" /\ tele.authorized = FALSE /\ tele.finished = FALSE
      /\ tele.sequence = 0 /\ tele.token = 0 /\ tele.last_clock = 0
  BY <1>1 DEF NewController
<1>4. Commands(tele) = {}
  BY <1>1, <1>2, EmptyOut
<1>5. At("start") /\ ~At("poll") /\ ~At("events") /\ ~At("tick")
  BY <1>1 DEF At
<1>6. Shaped
  <2>1. clock \in Time /\ clock > 0
    BY <1>1, ConstantFacts, TimeFacts
  <2>2. loop \in Loop /\ loop.now = 0
    BY <1>1, TimeFacts, ConstantFacts DEF Loop
  <2>3. shutdown \in BOOLEAN
    BY <1>1
  <2>4. 0 <= clock
    BY <1>1
  <2>5. tele \in Controller /\ seen.sequence \in Nat /\ seen.token \in Nat
    BY <1>1, <1>2
  <2> QED BY <1>3, <2>1, <2>2, <2>3, <2>4, <2>5 DEF Shaped
<1>7. Permitted(tele) /\ Spoken /\ Steered /\ Begins /\ SilenceIsNoticed /\ Punctual
  BY <1>3, <1>5 DEF Permitted, Lawful, Spoken, Steered, Begins, SilenceIsNoticed, Punctual
<1>8. CommandFollowsHand
  BY <1>4, FollowsHand
<1>9. Numbered /\ Paced
  BY <1>1, <1>3, <1>5 DEF Numbered, Paced
<1> QED BY <1>6, <1>7, <1>8, <1>9 DEF TInv

LEMMA NextSteps ==
  ASSUME TInv, Next
  PROVE  Stepped
<1>1. Leave \/ PollFails \/ EventsDone \/ Signal => Stepped
  BY QuietSteps
<1>2. StartFails \/ FinishSession => Stepped
  BY FinishSteps
<1>3. /\ Start => Stepped
      /\ FirstTick => Stepped
      /\ SecondTick => Stepped
      /\ Poll => Stepped
      /\ KeyEvent => Stepped
      /\ Restart => Stepped
  BY StartSteps, FirstTickSteps, SecondTickSteps, PollSteps, KeyEventSteps, RestartSteps
<1> QED BY <1>1, <1>2, <1>3 DEF Next, Process

LEMMA StutterKeeps ==
  ASSUME TInv, UNCHANGED vars
  PROVE  TInv'
<1>1. /\ clock' = clock /\ shutdown' = shutdown /\ loop' = loop /\ tele' = tele
      /\ hand' = hand /\ seen' = seen
  BY DEF vars
<1>2. /\ At("start")' <=> At("start")
      /\ At("poll")' <=> At("poll")
      /\ At("events")' <=> At("events")
      /\ At("tick")' <=> At("tick")
  BY <1>1 DEF At
<1>3. Shaped' /\ Permitted(tele)' /\ Spoken' /\ Steered' /\ Begins'
  BY <1>1, <1>2 DEF TInv, Shaped, Permitted, Lawful, Spoken, Steered, Begins
<1>4. CommandFollowsHand' /\ SilenceIsNoticed'
  BY <1>1 DEF TInv, CommandFollowsHand, Lines, SilenceIsNoticed
<1>5. ValidNow' <=> ValidNow
  BY <1>1 DEF ValidNow, TimeValid
<1>6. Punctual' /\ Numbered' /\ Paced'
  BY <1>1, <1>2, <1>5 DEF TInv, Punctual, Numbered, Paced
<1> QED BY <1>3, <1>4, <1>6 DEF TInv

-----------------------------------------------------------------------------
(* The theorems *)

\* Every reachable state satisfies the invariant, whatever the keys, the delays
\* of the poll, the signals, the restarts and the refused readings of the clock.
THEOREM TeleopInvariant == Spec => []TInv
<1>1. Init => TInv
  BY InitHolds
<1>2. TInv /\ [Next]_vars => TInv'
  BY NextSteps, StutterKeeps DEF Stepped
<1> QED BY <1>1, <1>2, PTL DEF Spec

\* The state has its shape: speeds stay between their limits and every time the
\* controller keeps fits its integer.
THEOREM TeleopTypeCorrect == Spec => []TypeOK
<1>1. TInv => TypeOK
  <2> SUFFICES ASSUME TInv PROVE TypeOK
    OBVIOUS
  <2>1. /\ clock \in Time /\ shutdown \in BOOLEAN /\ loop \in Loop /\ tele \in Controller
    BY DEF TInv, Shaped
  <2>2. /\ loop.pc \in {"start", "top", "poll", "events", "tick", "finish", "ended"}
        /\ loop.now \in Time /\ loop.events \in 0..MaxEvents
    BY <2>1 DEF Loop
  <2>3. tele.speed \in MinSpeed..MaxSpeed /\ tele.active \in Direction \cup {"none"}
    BY <2>1 DEF Controller
  <2>4. /\ tele["activity"] \in Time /\ tele["last_clock"] \in Time /\ tele["token"] \in Time
        /\ tele["auth_ns"] \in Time /\ tele["conflict_until"] \in Time
    BY <2>1 DEF Controller
  <2> QED BY <2>1, <2>2, <2>3, <2>4 DEF TypeOK
<1> QED BY <1>1, TeleopInvariant, PTL

\* A command is the last line on the pipe only while a direction is steered with
\* a valid authorization: every method that gives up one of them emits its STOP.
THEOREM NoOrphans == Spec => []NoOrphanCommand
<1>1. TInv => NoOrphanCommand
  BY DEF TInv, Spoken, Permitted, Lawful, NoOrphanCommand
<1> QED BY <1>1, TeleopInvariant, PTL

\* Every command _emit_command writes is for the key the operator pressed last,
\* within the release timeout of its last press or repeat.
THEOREM CommandsFollowHand == Spec => []CommandFollowsHand
<1>1. TInv => CommandFollowsHand
  BY DEF TInv
<1> QED BY <1>1, TeleopInvariant, PTL

\* The timeout of next_poll_timeout_seconds and the two ticks of run_session
\* leave no direction steered for longer than one delay after it fell silent.
THEOREM SilenceNoticed == Spec => []SilenceIsNoticed
<1>1. TInv => SilenceIsNoticed
  BY DEF TInv
<1> QED BY <1>1, TeleopInvariant, PTL

\* Every sequence number and token is above all that the process behind the pipe
\* has seen, also over restarts, as they start from the clock.
THEOREM IdentifiersAscend == Spec => IdentifiersIncrease
<1>1. TInv /\ [Next]_vars =>
        [/\ \A i \in Lines(tele', "CMD"): tele'.out[i].sequence > seen.sequence
         /\ \A i \in Lines(tele', "AUTH"): tele'.out[i].token > seen.token]_vars
  <2>1. ASSUME TInv, Next
        PROVE  /\ \A i \in Lines(tele', "CMD"): tele'.out[i].sequence > seen.sequence
               /\ \A i \in Lines(tele', "AUTH"): tele'.out[i].token > seen.token
    <3>1. Ascends
      BY <2>1, NextSteps DEF Stepped
    <3> QED BY <3>1 DEF Ascends, Commands, Grants
  <2> QED BY <2>1
<1> QED BY <1>1, TeleopInvariant, PTL DEF Spec, IdentifiersIncrease

=============================================================================
