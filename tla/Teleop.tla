------------------------------- MODULE Teleop -------------------------------
(***************************************************************************)
(* The keyboard client src/python/wheeltec_keyboard_teleop.py: its         *)
(* TeleopController, the loop of run_session around it, and signals,       *)
(* failures and restarts of the process.                                   *)
(*                                                                         *)
(* A method of the controller is an operator from its fields to its        *)
(* fields; the protocol lines it emits are collected in the field out.     *)
(* 0 stands for None where a field holds a time.  The unit of time is so   *)
(* small that no key event is handled in less.                             *)
(***************************************************************************)
EXTENDS Integers, Sequences

CONSTANTS
  Int64Max,         \* _INT64_MAX
  ReleaseTimeout, CommandPeriod,  \* release_timeout_ns, command_period_ns
  MinSpeed, InitialSpeed, MaxSpeed, SpeedStep,
  Direction,        \* the direction keys
  IdleWait,         \* the 100 ms a poll waits at most
  MaxDelay,         \* bound: how late a poll or a reading of the clock returns
  MaxEvents         \* bound: the key events one poll delivers

ASSUME TeleopAssumption ==
  /\ {Int64Max, ReleaseTimeout, CommandPeriod, MinSpeed, InitialSpeed, MaxSpeed,
      SpeedStep, IdleWait, MaxEvents} \subseteq Nat \ {0}
  /\ MaxDelay \in Nat
  /\ CommandPeriod < ReleaseTimeout
  /\ MinSpeed <= InitialSpeed /\ InitialSpeed <= MaxSpeed
  /\ Direction \cap {"none", "r", "q", "e", "space", "x", "esc"} = {}

VARIABLES
  clock,     \* time.monotonic_ns()
  shutdown,  \* ShutdownState.requested
  loop,      \* the position in run_session, its now_ns and the events left
  tele,      \* the fields of TeleopController, and the lines of the last step
  hand,      \* the operator: the direction pressed last and when, unless it is
             \* up again or another key was pressed since
  seen       \* downstream: the last line, and the highest sequence and token

vars == <<clock, shutdown, loop, tele, hand, seen>>

Time == 0..Int64Max
Key == Direction \cup {"r", "q", "e", "space", "x", "esc"}

NewController == [
  speed |-> InitialSpeed, authorized |-> FALSE, estop |-> FALSE,
  active |-> "none", activity |-> 0, next |-> 0, last_clock |-> 0,
  token |-> 0, auth_ns |-> 0, sequence |-> 0, conflict_until |-> 0,
  stopped |-> FALSE, quit |-> FALSE, finished |-> FALSE, out |-> <<>>]

Larger(a, b) == IF a >= b THEN a ELSE b
Smaller(a, b) == IF a <= b THEN a ELSE b

\* The shape of the state.
TypeOK ==
  /\ clock \in Time /\ shutdown \in BOOLEAN
  /\ loop.pc \in {"start", "top", "poll", "events", "tick", "finish", "ended"}
  /\ loop.now \in Time /\ loop.events \in 0..MaxEvents
  /\ tele.speed \in MinSpeed..MaxSpeed
  /\ tele.active \in Direction \cup {"none"}
  /\ \A f \in {"activity", "last_clock", "token", "auth_ns", "conflict_until"}: tele[f] \in Time

-----------------------------------------------------------------------------
(* TeleopController *)

Emit(t, line) == [t EXCEPT !.out = Append(t.out, line)]
ClearDirection(t) == [t EXCEPT !.active = "none", !.activity = 0, !.next = 0]

EmitStop(t, force) ==
  IF force \/ ~t.stopped THEN [Emit(t, [op |-> "STOP"]) EXCEPT !.stopped = TRUE] ELSE t

\* Mutant: a direction is forgotten without a word.
ClearOnly(t) == ClearDirection(t)
StopAndClear(t) == EmitStop(ClearDirection(t), FALSE)
Unauthorized(t) == [t EXCEPT !.authorized = FALSE]

\* _valid_now: the test, and what either outcome leaves behind
TimeValid(t, now) == now > 0 /\ ~(t.last_clock # 0 /\ now < t.last_clock)
ObserveClock(t, now) ==
  IF TimeValid(t, now) THEN [t EXCEPT !.last_clock = now]
  ELSE EmitStop(ClearDirection(Unauthorized(t)), TRUE)

Authorize(t, now) ==
  LET token == Larger(now, t.token + 1)
      granted == [ClearDirection(t) EXCEPT !.token = token, !.authorized = TRUE,
                                           !.auth_ns = now, !.conflict_until = 0]
  IN IF t.estop \/ token > Int64Max THEN StopAndClear(Unauthorized(t))
     ELSE EmitStop(Emit(granted, [op |-> "AUTH", token |-> token]), TRUE)

Clamp(speed) == Smaller(MaxSpeed, Larger(MinSpeed, speed))
ChangeSpeed(t, delta) ==
  [IF t.active # "none" THEN StopAndClear(t) ELSE t EXCEPT !.speed = Clamp(t.speed + delta)]

\* Mutant: sequence numbers start again with the process.
NextSequenceLocal(t, now) == t.sequence + 1
NextSequence(t, now) == Larger(t.sequence + 1, now)

\* The bound of the sequence number, 2^64 - 1, is out of reach of the clock.
EmitCommand(t, now) ==
  IF now > Int64Max - ReleaseTimeout THEN StopAndClear(Unauthorized(t))
  ELSE [Emit(t, [op |-> "CMD", sequence |-> NextSequence(t, now), created |-> now,
                 deadline |-> now + ReleaseTimeout, direction |-> t.active,
                 speed |-> t.speed])
        EXCEPT !.sequence = NextSequence(t, now), !.stopped = FALSE,
               !.next = now + CommandPeriod]

\* Mutant: the command of the last instant still passes.
ExpiredLate(t, now) == t.active # "none" /\ now - t.activity > ReleaseTimeout
Expired(t, now) == t.active # "none" /\ now - t.activity >= ReleaseTimeout
ExpireDirection(t, now) == IF Expired(t, now) THEN StopAndClear(t) ELSE t

InhibitUntil(now) == Smaller(Int64Max, now + ReleaseTimeout)

\* A direction key that nothing speaks against.
Steer(t, key, now) ==
  LET steered == [t EXCEPT !.active = key, !.activity = now,
                           !.next = IF t.next = 0 THEN now ELSE t.next]
  IN IF now >= steered.next THEN EmitCommand(steered, now) ELSE steered

DirectionPressed(t, key, now) ==
  IF now < t.conflict_until
  THEN StopAndClear([t EXCEPT !.conflict_until = InhibitUntil(now)])
  ELSE IF ~t.authorized \/ now <= t.auth_ns THEN StopAndClear(t)
  ELSE IF t.active \notin {"none", key}
  THEN StopAndClear([t EXCEPT !.conflict_until = InhibitUntil(now)])
  ELSE Steer(t, key, now)

KeyPressed(t, key, now) ==
  CASE key = "r" -> Authorize(t, now)
    [] key = "q" -> ChangeSpeed(t, SpeedStep)
    [] key = "e" -> ChangeSpeed(t, -SpeedStep)
    [] key = "space" -> StopAndClear([t EXCEPT !.conflict_until = 0])
    [] key = "x" -> EmitStop(Emit(ClearDirection([Unauthorized(t) EXCEPT !.estop = TRUE]),
                                  [op |-> "ESTOP"]), TRUE)
    [] key = "esc" -> StopAndClear([t EXCEPT !.quit = TRUE])
    [] key \in Direction -> DirectionPressed(t, key, now)

KeyReleased(t, key) == IF t.active = key THEN StopAndClear(t) ELSE t

\* The event sources deliver no key but these, so the branch for any other
\* one is not taken.
HandleEvent(t, key, pressed, now) ==
  LET observed == ObserveClock(t, now)
      current == ExpireDirection(observed, now)
  IN IF ~TimeValid(t, now) THEN observed
     ELSE IF ~pressed THEN KeyReleased(current, key)
     ELSE KeyPressed(current, key, now)

TickController(t, now) ==
  LET observed == ObserveClock(t, now) IN
  IF ~TimeValid(t, now) THEN observed
  ELSE IF Expired(observed, now) THEN ExpireDirection(observed, now)
  ELSE IF observed.authorized /\ observed.active # "none" /\ now >= observed.next
  THEN EmitCommand(observed, now) ELSE observed

\* Mutant: the poll waits as long as it does for an idle operator.
WakeIdle(t, now) == now + IdleWait
\* next_poll_timeout_seconds, as the instant the poll ends
WakeAt(t, now) ==
  IF t.active = "none" THEN now + IdleWait
  ELSE Smaller(now + IdleWait, Smaller(t.activity + ReleaseTimeout, t.next))

Finish(t) ==
  IF t.finished THEN t
  ELSE Emit(EmitStop(ClearDirection([Unauthorized(t) EXCEPT !.finished = TRUE]), TRUE),
            [op |-> "QUIT"])

-----------------------------------------------------------------------------
(* run_session *)

At(pc) == loop.pc = pc
Silent(t) == [t EXCEPT !.out = <<>>]

\* What the downstream process has seen once the lines of a step are out.
Lines(t, op) == {i \in DOMAIN t.out: t.out[i].op = op}
Highest(old, new) == IF new = {} THEN old ELSE CHOOSE m \in new: \A n \in new: n <= m
Shows(t) ==
  seen' = [line |-> IF t.out = <<>> THEN seen.line ELSE t.out[Len(t.out)].op,
           sequence |-> Highest(seen.sequence, {t.out[i].sequence: i \in Lines(t, "CMD")}),
           token |-> Highest(seen.token, {t.out[i].token: i \in Lines(t, "AUTH")})]

\* A step in which the controller becomes t.
Becomes(t) == tele' = t /\ Shows(t)
Quiet == Becomes(Silent(tele))

\* The clock has moved on.  The code has to live with a clock that goes back:
\* it is given readings that _valid_now refuses.
BadReadings == {0, tele.last_clock - 1}
Readings == clock..Smaller(Int64Max, clock + MaxDelay)
ReadsClock(now) == now \in Readings \cup BadReadings /\ clock' = Larger(clock, now)

NoHand == [key |-> "none", time |-> 0]

Init ==
  /\ clock = 1 /\ shutdown = FALSE
  /\ loop = [pc |-> "start", now |-> 0, events |-> 0]
  /\ tele = NewController
  /\ hand = NoHand
  /\ seen = [line |-> "none", sequence |-> 0, token |-> 0]

\* force_stop before the loop
Start ==
  /\ At("start")
  /\ Becomes(EmitStop(ClearDirection(Silent(tele)), TRUE))
  /\ loop' = [loop EXCEPT !.pc = "top"]
  /\ UNCHANGED <<clock, shutdown, hand>>

\* The configuration is refused or the input device cannot be opened: main()
\* ends the session in place of the controller.
StartFails ==
  /\ At("start")
  /\ Becomes(Finish(Silent(tele)))
  /\ loop' = [loop EXCEPT !.pc = "ended"]
  /\ UNCHANGED <<clock, shutdown, hand>>

\* Mutant: the quit key ends only the events in hand.
ShallEndOnSignal == shutdown
ShallEnd == tele.quit \/ shutdown

Leave ==
  /\ At("top")
  /\ ShallEnd
  /\ loop' = [loop EXCEPT !.pc = "finish"]
  /\ Quiet /\ UNCHANGED <<clock, shutdown, hand>>

FirstTick ==
  /\ At("top")
  /\ ~ShallEnd
  /\ \E now \in Time:
       /\ ReadsClock(now)
       /\ Becomes(TickController(Silent(tele), now))
       /\ loop' = [loop EXCEPT !.pc = "poll", !.now = now]
  /\ UNCHANGED <<shutdown, hand>>

\* The poll returns with some events, at once or when its time is over, and
\* the clock is read again.  A signal is looked at before the events are.
Poll ==
  /\ At("poll")
  /\ \E now \in Time, events \in 0..MaxEvents:
       /\ now \in BadReadings \cup
                  clock..Smaller(Int64Max, Larger(clock, WakeAt(tele, loop.now)) + MaxDelay)
       /\ clock' = Larger(clock, now)
       /\ loop' = IF shutdown THEN [pc |-> "finish", now |-> 0, events |-> 0]
                  ELSE [pc |-> "events", now |-> now, events |-> events]
  /\ Quiet /\ UNCHANGED <<shutdown, hand>>

\* The input device fails or is gone.
PollFails ==
  /\ At("poll")
  /\ loop' = [loop EXCEPT !.pc = "finish"]
  /\ Quiet /\ UNCHANGED <<clock, shutdown, hand>>

\* A signal or the quit key ends the loop over the events after the event in
\* hand.
KeyEvent ==
  /\ At("events")
  /\ loop.events > 0
  /\ \E key \in Key, pressed \in BOOLEAN:
       /\ Becomes(HandleEvent(Silent(tele), key, pressed, loop.now))
       /\ hand' = IF pressed /\ key \in Direction THEN [key |-> key, time |-> loop.now]
                  ELSE IF pressed \/ hand.key = key THEN NoHand ELSE hand
  /\ clock' = Smaller(Int64Max, clock + 1)
  /\ loop' = [loop EXCEPT !.events = IF tele'.quit \/ shutdown THEN 0 ELSE loop.events - 1]
  /\ UNCHANGED shutdown

EventsDone ==
  /\ At("events")
  /\ loop.events = 0
  /\ loop' = [loop EXCEPT !.pc = "tick"]
  /\ Quiet /\ UNCHANGED <<clock, shutdown, hand>>

SecondTick ==
  /\ At("tick")
  /\ Becomes(TickController(Silent(tele), loop.now))
  /\ loop' = [loop EXCEPT !.pc = "top", !.now = 0]
  /\ UNCHANGED <<clock, shutdown, hand>>

\* The finally clause; main() calls finish a second time.
FinishSession ==
  /\ At("finish")
  /\ Becomes(Finish(Finish(Silent(tele))))
  /\ loop' = [pc |-> "ended", now |-> 0, events |-> 0]
  /\ UNCHANGED <<clock, shutdown, hand>>

Signal ==
  /\ ~shutdown /\ ~At("ended")
  /\ shutdown' = TRUE
  /\ Quiet /\ UNCHANGED <<clock, loop, hand>>

\* The process is killed, or has ended, and another one is started.
Restart ==
  /\ clock < Int64Max
  /\ clock' = clock + 1
  /\ shutdown' = FALSE
  /\ loop' = [pc |-> "start", now |-> 0, events |-> 0]
  /\ tele' = NewController
  /\ hand' = NoHand
  /\ UNCHANGED seen

Process ==
  \/ Start \/ StartFails \/ Leave \/ FirstTick \/ Poll \/ PollFails \/ KeyEvent \/ EventsDone
  \/ SecondTick \/ FinishSession

Next == Process \/ Signal \/ Restart

\* The process keeps running; no key need be pressed and nothing restarts it.
Spec == Init /\ [][Next]_vars /\ WF_vars(Process)

-----------------------------------------------------------------------------
(* Properties *)

\* When the last line on the pipe is a command, a direction is still being
\* steered with a valid authorization: no way of losing the direction, the
\* authorization or the session (release, timeout, conflict, speed change,
\* emergency stop, clock failure, overflow, exit) forgets its STOP.
NoOrphanCommand ==
  seen.line = "CMD" /\ ~At("start") => tele.active # "none" /\ tele.authorized /\ ~tele.estop

\* A command is emitted only for a key that is the last one the operator
\* pressed and is not known to be up again, and only within the release timeout
\* of its last press or repeat, whichever of the loop's readings of the clock
\* it is checked against.
CommandFollowsHand ==
  \A i \in Lines(tele, "CMD"):
    /\ hand.key = tele.out[i].direction
    /\ tele.out[i].created - hand.time < ReleaseTimeout

\* A silent key is noticed in time: a direction is never steered longer after
\* its last activity than the release timeout and the delay of one poll, or of
\* the events that came before the timeout.
SilenceIsNoticed ==
  tele.active # "none" =>
    clock <= tele.activity + ReleaseTimeout + Larger(MaxDelay, MaxEvents)

\* Sequence numbers and tokens increase over every restart of the process,
\* so the one CLI behind it never takes the first command of a new process
\* for a replay.
IdentifiersIncrease ==
  [][/\ \A i \in Lines(tele', "CMD"): tele'.out[i].sequence > seen.sequence
     /\ \A i \in Lines(tele', "AUTH"): tele'.out[i].token > seen.token]_vars

\* A process that was told to end does end, and its last line is QUIT.
ShutdownEnds ==
  (shutdown \/ tele.quit) ~> (At("ended") /\ seen.line = "QUIT") \/ At("start")

=============================================================================
