# A verification model of wheeltec_vcu_serial

`wheeltec_vcu_serial` drives a vehicle control unit (VCU) over a serial line.
The VCU executes the last 11-byte motion frame it received and acknowledges
nothing, so the driver's job is to see to it that a motion frame leaves only
while an operator permits it, and that a zero frame follows whenever the
permission ends. This directory models that job in TLA+, checks it with TLC and
proves with TLAPS that it is done, for every value of the constants.

## Inventory

| Component | State it keeps | Operations | What makes it correct |
|---|---|---|---|
| Safety session (`src/src/safety_session.cpp`) | session state, authorization bound to a connection generation, highest tokens and sequence, cached command and run of fresh commands, feedback receipt, zero episode with its retry budget, emergency-stop latch, last time seen | `authorize`, `disarm`, `requestStop`, `submit`, `observeFeedback`, `latchEmergencyStop`, `resetEmergencyStop`, `tick` | motion only with an earned permission; every loss of it ends in a zero frame, a reported fault or a lost line; no replay; a bounded retry budget |
| Serial transport (`src/src/transport.cpp`) | descriptor, connected flag, generation, access mode | `open`, `reopen`, `close`, `writeAll`, `readSome` | results that tell the truth about the byte stream, bounded calls, no leaked descriptor or exclusive flag, a new generation for every descriptor |
| Feedback parser (`src/src/feedback_parser.cpp`) | a frame prefix, statistics | `consume`, `reset` | the frames found depend on the bytes only, not on chunking or noise; every byte counted once |
| Protocol codec (`src/src/protocol.cpp`) | none | `encodeCommand`, `makeZeroCommandFrame`, `decodeFeedbackFrame` | quantization never speeds the vehicle up; the zero frame is the encoding of no motion; a frame is accepted only if header, tail, checksum and stop flag are right |
| Runtime configuration (`src/src/config.cpp`) | the section and the values read so far | `loadRuntimeConfig`, `validateRuntimeConfig` | no misplaced or doubled entry overrides a limit; what it accepts the session accepts and the client stays within |
| Command-line application (`src/apps/wheeltec_vcu_cli.cpp`) | pending input, reconnect time, quit and failure flags | the poll loop, `processLine`, `attemptFinalZero` | the last frame before exit is a zero, or the exit code says otherwise |
| Monitor (`src/apps/wheeltec_vcu_monitor.cpp`) | deadline, frame count, result code | the read loop | ends in time on any line; the exit code tells the truth (that it never writes follows from the transport's access mode) |
| Keyboard teleoperation (`src/python/wheeltec_keyboard_teleop.py`) | steered direction and its last activity, authorization, speed, sequence and token, last clock | key handling, the tick, the poll loop, shutdown | a released, silent or conflicting key stops the vehicle; identifiers stay new over a restart |

How they interact: one process and one thread own a session, a transport and a
parser. Each turn of the owner's loop reads the line, feeds the parser, passes
whole frames to `observeFeedback`, passes the client's lines to the other
methods and calls `tick`, which alone writes. The session learns of a lost or
reopened line only by looking at `connected()` and `generation()` at the start
of its next call. The clock is read by the loop and passed to the session, and
read again inside the write. The client is a process of its own that writes
protocol lines into the standard input of the CLI; either may be killed and
started again while the other, and the vehicle, go on.

What is hard to test here: the line may go and come back between any two calls;
a write may fail, be torn, complete late or throw in the middle of a tick; the
times handed to the session may run backwards; a stop may be requested while
another is under way; the retry budget, the run of fresh commands and the
watchdogs meet at exact boundaries of time. `PROJECT.json` lists these hazards
line by line with the properties that cover them.

## Modules

`TransportContract` says what a caller of `writeAll` and `readSome` may rely on:
the status, completeness and completion time a call begun at `now` with a given
deadline may return. Nothing else connects the callers to the transport, so they
are modelled apart and meet in this contract; `SerialTransport` is checked to
keep it.

`MotionGate` is the abstract specification of what the session promises: a gate
(lost, stopping, shut, ready, open, failed) and the last frame on the line, no
commands, tokens, watchdogs or time. `SafetySession` maps its state to the gate
with `GateState` and is checked to implement it (`ImplementsMotionGate`); `Cli`
inherits the mapping, so the refinement is checked again for the whole process,
kills and restarts included.

`SafetySession` (EXTENDS `TransportContract`) is the session. `session` is a
record with the private fields of the class, `transport` what `ITransport`
shows, `cycle` the result of the last tick and `wire` the last complete frame
handed to the line, that is, what the VCU may be executing. Every private
helper of the class is an operator from record to record, so that the code's
order of calls is the nesting of operators; every public method is an action
that runs to its end. `tick` is a disjunction of its outcomes: stop early,
nothing to do, a zero attempt, an expired watchdog, a rate-limited cycle, a
motion write (which, failing, goes on to a zero write in the same step).
`TransportLost` and `TransportReopened` may come between any two calls. The
time of a call is any value of `Time`, so clocks that stand still, jump or run
backwards are all included. A motion is abstracted to the three classes
`submit` tells apart (rejected, exactly zero, within limits), a feedback frame
to what its decoding says (invalid, control allowed, control inhibited).

`SafetySessionHistory` adds a history variable that watches the same actions
and remembers what the session's owner can know: whether motion is armed, how
many commands were accepted in a row, whether a zero has left on this line and
since the last emergency stop, how many zero writes failed in a row, when the
last motion frame was complete on this line. Every action of it is an action of
the session together with `hist' = ` an expression, so a history can be added to
any behaviour of the session; the promises of the session are stated about it.

`SerialTransport` (EXTENDS `TransportContract`) is the transport, one action
per system call. A call in progress is a small program counter (`check` the
deadline, `transfer`, `poll_check`, `poll`); the clock may advance between any
two steps and the kernel chooses every outcome. `kernel` holds the other side:
open descriptors, the exclusive flag and the bytes of the frame it accepted.

`FeedbackParser` is the parser, one action per byte, including the exception
`push_back` may throw. `past` remembers the stream for the reference definition.

`Protocol` is the codec at its real width: 11- and 24-byte frames, 16-bit two's
complement, the checksum, with the vehicle as an external reader and sender whose
frames may be damaged in one byte or cut short. Physical values are integers in
millionths of a unit.

`RuntimeConfig` follows a configuration from `main` to the running session:
`parseOptions`, `validateRuntimeConfig` field by field, `makeSafetyConfig` and the
session's own `safetyConfigIsValid`. What the keyboard client makes of the same
configuration is there too: the speeds it can have selected, rounded to twelve
digits, and what a `CMD` line carries of them, printed with nine. `ConfigFile` is the INI reader in front of it,
one action per line, against a definition of a well-formed file as a whole.

`Cli` (EXTENDS `SafetySession`) is the process around the session. `cli` holds the
locals of `run()` and the position in it, and each step is the call made there,
with the time the code passes: the reading at the top of the loop, the receipt
time of a read, a new reading for every line. `Signal` and `Killed` may come
between any two steps; `Restart` starts a new process on a line whose vehicle
still executes the last frame. Lines are the operations they name; a read is one
of the results of the contract and the whole frames its bytes complete.

`Monitor` (EXTENDS `TransportContract`) is the loop of the monitor on the read
contract.

`Teleop` is the keyboard client. A method of `TeleopController` is an operator
from its fields to its fields that also appends the protocol lines it emits; the
actions are the steps of `run_session`. Keys, poll delays and clock readings are
chosen freely, those that `_valid_now` refuses (zero, or earlier than the last one
it accepted) included; a signal, a failing device and a kill
with restart may come at any point. `hand` and `seen` remember what the operator
holds and what the pipe has shown.

`MCSafetySessionHistory`, `MCFeedbackParser`, `MCCli`,
`MCProtocol`, `MCRuntimeConfig` and `MCConfigFile` give the constants small
values. The theorems are in `SafetySessionProofs`, `SafetySessionHistoryProofs` and
`CliProofs` (each on top of it), `SerialTransportProofs`, `FeedbackParserProofs`,
`TeleopProofs`, `ConfigProofs` (of `RuntimeConfig` and `ConfigFile`) and
`CodecAndMonitorProofs` (of `Protocol` and `Monitor`).

`TypeOK` (`CliTypeOK` in `Cli`) of a module gives the shape of its state. It is
part of the invariants proved for the session, the transport, the parser, the CLI,
the client, the INI reader and the monitor; elsewhere it serves the reader.

Definitions whose comment begins with "Mutant" are deliberate faults of the
definition that follows them. They are used by no specification; `PROJECT.json`
says which property notices which of them.

## Runs

| Run | Checks | Bounds and why they are enough |
|---|---|---|
| `session_safety` | `TypeOK`, `NoOrphanMotion`, `ActiveIsEarned`, `CachedCommandIsNewest`, `EpisodeHasBudget`, `RetryBudgetIsBounded`, `FaultIsFinal`, `MotionRateIsLimited`, `ImplementsMotionGate`, `MotionIsPermitted`, `ReleaseIsEarned` | Six instants (0 to 5), two generations, two sequences, two tokens, two attempts, a run of two commands that live two units, writes up to one unit late, a command of every class `submit` tells apart: some 140,000 states. States in which the session has seen the last instant, or accepted a second reset, are checked and not followed (`ClockBound`, `ResetBound`); without these bounds the run has 380,000 states and takes three times as long, with the same result. A second motion frame on the same line is possible and so is a late one, a second authorization after a reconnect or a reset too; a fault takes two failed writes, feedback and commands expire, and deadlines reach the last instant, where they saturate. |
| `feedback_watchdog` (violation) | `FeedbackWatchdogZeroes` | See Findings. |
| `serial_transport` | `WriteMeetsContract`, `CleanOutcomeIsClean`, `ReadMeetsContract`, `DescriptorsAreReleased`, `CallsReturn` | A frame of two bytes can be torn once; a poll millisecond of two clock ticks shows rounding; deadlines in the past, odd and even, up to the farthest one poll call can wait for (`IntMax` = 2 milliseconds); two generations, the second being the last. |
| `feedback_parser` | `FramesMatchReference`, `BytesAreAccounted`, `RetainedIsCandidate` | Frames of four bytes over two-bit bytes, header 3 and tail 2, so headers, tails and checksums collide freely; nine bytes hold two frames and noise, in chunks of one and two. |
| `cli` | `ExitCodeTellsTruth`, `InputFailureDisarms`, `NoMotionAfterTheEnd`, `ImplementsMotionGate` | Five instants, two generations, batches of two lines and two frames: a QUIT or a refused line with another behind it, an authorization and a motion within one run, a kill with the motion on the line and a restart. |
| `cli_live` | `ShutdownEnds`, `UnpermittedMotionEnds` | Five instants, one generation and batches of one: every way out of the loop is there, motion leaves and loses its permission, and the writes of an episode fail until its attempts are spent. |
| `inhibit_feedback` (violation) | `InhibitRevokes` | See Findings. |
| `runtime_config` | `NoLateRefusal`, `TeleopFitsLimits` | The example configuration with any two of its eighteen entries moved to or past a boundary, and all options. A millisecond is ten nanoseconds, and one m/s is 800 units of which 2 are the last digit the client's selection keeps and 8 the last digit it prints, since TLC's integers have 32 bits; the theorems hold for any numbers. There are limits on the printed grid and off it, products that meet the yaw limit exactly, and speeds and yaw rates that the rounding moves past a limit: each precondition of `TeleopFitsLimits` is needed. |
| `config_file` | `AcceptedIffWellFormed`, `ValuesAreTheFiles` | Seven lines over two sections and three keys, two of the same name: a complete file is five lines, so doubled headers and entries, wrong sections and foreign lines fit in. |
| `monitor` | `ExitCodeTellsTruth`, `SessionIsBounded`, `MonitorEnds` | Every starting time, overflow of the deadline included; reads that complete up to two frames. |
| `protocol` | `EncodingNeverSpeedsUp`, `ZeroFrameIsZero`, `FeedbackIsGenuine` | Values around zero, a wire unit and the ends of `int16_t`, each field next to fields that differ; every byte of a frame damaged in several ways, and frames cut to every length. The theorems are about every value; the run shows that the assumptions on exclusive or hold of the real one. |
| `teleop` | `NoOrphanCommand`, `CommandFollowsHand`, `SilenceIsNoticed`, `IdentifiersIncrease`, `ShutdownEnds` | Two directions, a release timeout of two, a command period of one and an idle wait of four, batches of two keys: a press, its repeat, its timeout and a poll that would sleep past it fit before the clock overflows at seven. No property tells speeds apart, so there is one. |

Deadlock is not checked where the modelled program may stop or its clock ends at
`Int64Max` (session, monitor, client, `main`, the end of a file, one frame
per direction in `protocol`). The transport, parser and CLI runs check it.

Fairness. `LiveSpec` of the transport assumes that the
clock advances and that the step a call is at is eventually taken: the
descriptor is non-blocking and `poll` returns. `CliLiveSpec` and the
specifications of `Monitor` and `Teleop` assume weak fairness of the process as a
whole: a running process is scheduled and every call it makes returns (reads,
writes and polls carry deadlines, standard input is non-blocking). `CliLiveSpec`
adds strong fairness of `TimedTick`: `CLOCK_MONOTONIC` may fail at any reading,
but not at each tick for ever while the readings at the top of the loop succeed;
a tick without the time does nothing, so without this nothing could be owed.
The session's own liveness is checked there, where the ticks come from the loop
that really makes them (`src/apps/wheeltec_vcu_cli.cpp:543-637`). At `Int64Max`,
where the model's clock ends, ticks repeat that instant. Nothing is assumed of
signals, the line, successful writes, the client's keys or restarts.

## Findings

`feedback_watchdog`: `docs/safety.md:25-26` says that the expiry of the feedback
watchdog starts the zero frames. `submit` after the cached command went stale
(`safety_session.cpp:263-292`) and `authorize` on an Active session (109-114)
move from Active to Recovering without a zero episode, and `tick` does nothing
in Recovering (418-421). The trace: a motion is sent, the client falls silent
past its deadline and then submits one command, the feedback expires, and the
next tick finds nothing to do with the motion still the last frame sent.

`inhibit_feedback`: `docs/safety.md:23-24` says that inhibit feedback revokes the
permission. A read that completes past its deadline returns its bytes with
`kDeadlineExceeded` (`transport.cpp:359-363`), and the loop of the CLI feeds the
parser on `kOk` only (`wheeltec_vcu_cli.cpp:566`), so an inhibiting frame that
arrives in a late read is dropped. The trace: an active session, a late read that
takes an inhibiting frame off the line, and a motion frame at the next tick. The
feedback watchdog bounds the effect.

One sentence of the docs is looser than the code and is not counted as a
finding: `docs/safety.md:27` calls the outcome of an expired deadline uncertain,
while a write that expires before its first byte is reported certain
(`transport.cpp:272-276`), as `transport.hpp:22-25` and a test say.

## Proofs

Every theorem holds for every value of the constants that the named ASSUMEs
allow: configuration, clock width, sets of commands, tokens and lines, frame
sizes, batch sizes, numbers of generations. The validity of a configuration is
not assumed; an invalid one yields a session that never leaves
ConfigurationInvalid.

### The session: `SafetySessionProofs`

`Spec` implies always `TypeOK`, `NoOrphanMotion`, `ActiveIsEarned`,
`CachedCommandIsNewest` and `EpisodeHasBudget`. None of the four is inductive
alone. The invariant is `IInv`, the conjunction of
- `Linked`: a valid configuration has positive budgets; a known connection has a
  generation the transport has reached (so a reopened line is never in step with
  the session); an episode runs exactly in StopPending, on a known connection,
  with an attempt left; a latched session is not authorized;
- `Cached`: what a cached command owes to the highest sequence, the
  authorization and the last time seen;
- `ActiveOK` and `OrphanOK`: the two properties about being Active and about a
  motion left on the line, for a session in step with its transport.

`Linked` and `Cached` (together `Coherent`) hold also between the helpers of one
call; `ActiveOK` and `OrphanOK` only between calls. The argument follows the
code: each helper keeps the session coherent; `BeginZeroEpisode` makes any
coherent, connected session sound, since a stopping session satisfies `OrphanOK`
and cannot be Active; `Enter`, with which every method begins, yields a sound
session that is in step with the transport whenever the method goes on; then one
lemma for each method, and one for each outcome of `tick`. `ResetGood` is the one
place where soundness of the past is needed: the latch is released without a
zero episode, and is safe only because a latched session with a motion on the
line would still have one.

### The gate and faults: also in `SafetySessionProofs`

`SessionImplementsGate`: `Spec` implies `MotionGate`'s specification under the
mapping `GateState`. `IInv` does not suffice: the gate is a function of the
state, the latch and the authorization together, and `IInv` admits combinations
of them that the gate has no step out of. `Tracked` adds what rules them out: the connection is
known exactly outside Disconnected and ConfigurationInvalid and is never of a
generation yet to come; a latched session is stopping, latched or faulted; an authorized
one is Recovering or Active, or in an episode that returns to Recovering. `SInv`
is `IInv` with `Tracked` and is proved inductive (`TrackedInvariant`). The
refinement then goes call by call: `Silent` says what a call that writes nothing
may do to the gate and composes, so each helper is shown silent once; the zero
and the motion attempts of `tick` are matched to the gate's writes, with the
motion write that fails and goes on to a zero in the same step as a case of its
own.

From the same invariant comes an action property, `FaultsAreFinal`: a faulted
session stays faulted or loses its line, and attempts no write before a newer
connection.

### The history: `SafetySessionHistoryProofs`

`RetryBudgetHolds`, `MotionPermitted`, `ReleaseEarned` and `MotionRateHolds` state
the promises of the session about what its owner saw, not about its own fields.
The invariant `HInv` adds `Tied` to `SInv`. For a session in step with the line,
`Told` says that an episode's attempts are the zero writes the observer has seen
fail, that outside an episode a zero has left on this line, that an authorized
session was armed, that a latched one has sent its zero since, that the cached command
is the last of a run at least as long as `fresh`; for any other session the
history has forgotten the line. The proof has two halves that are kept apart: a
method leaves the session tied to the old history, and the history's own update
only forgets what the session has forgotten.

For the rate a second invariant, `RInv`, ties the last frame on the line to the
session's `last_motion`: unless that frame was late, the session knows it and has
recorded the time of its completion, for as long as the line is the same. A stop,
a re-authorization or an emergency stop that cleared the record, or a record of
the time the write began, would break it. What the code does not record is a
frame whose write was complete but late (`safety_session.cpp:456-487`): that frame
is held to the period of the one before it, but the next may follow it sooner. It
follows a zero frame and a new authorization in any case. With a period of 2, a
motion complete, late, at 4, its zero at 4 and a new authorization, a motion at 5
is what the code sends; no document promises more.

### The process: `CliProofs`

`CliTypeCorrect`, `ExitCodesTellTruth`, `FailedInputDisarms`,
`EndedRunsDoNotMove` and `CliImplementsGate`: with signals, kills and restarts
between any two steps of `main`. The invariant `CInv` is `SInv` of the session
inside, `Resting` (a process that is not running has no session and no line) and
`Ordered`: at each position of `run()`, what refused input, QUIT and the shutdown
path have already done. Its core is `Barred`: from the refusal until the loop is
left the gate is lost, stopping or failed, so neither the remaining lines of the
batch nor the tick at the end of the turn can send a motion. The assumption that
`Int64Max` and `MaxGeneration` are positive, as the integers of the code are, was
found missing by the proof.

### The transport: `SerialTransportProofs`

`DescriptorsReleased`, `CleanOutcomes`, `WritesMeetContract` and
`ReadsMeetContract`: the assumption of the other modules about the line is a
theorem about the one that implements it, for every frame size, pattern of short
writes, length of a millisecond and interleaving with the clock. `LInv` adds
`InProgress`: what a call in progress knows, by position (bytes the kernel took
are the bytes counted, the reading the loop made is before the deadline and not
after the clock). `OverrunAssumption` says that the contract bounds no lateness
within the clock, as the code has none. The attempt showed that the contract
fails for a deadline farther away than `INT_MAX` milliseconds: such a poll is
cut short and its timeout is reported as `kDeadlineExceeded` without another look
at the clock (`transport.cpp:61-63`, `109-112`). `WithinReach` excludes these, as
the callers do: `safetyConfigIsValid` accepts at most a minute.

### The parser: `FeedbackParserProofs`

`BytesAccounted`, `RetainedCandidate` and `FramesAreTheReference`: for every
frame size of at least four, every alphabet and checksum operation, every stream and every way
of cutting it into chunks, the frames reported are those of the reference scan.
`FInv` adds `Aligned`, the retained bytes are the end of the stream, and
`Settled`: for *every* continuation of the stream the reference finds the frames
reported so far and then what it finds from the first undecided byte on. The
continuation is needed, since the reference waits for bytes that have not come.
One byte then decides nothing, a rejected prefix (`ScanSkips`: the positions
`resynchronize` passes over hold no header, so no frame starts there) or a whole
frame. The reference is a recursive function. Its existence and its
values are proved without an induction theorem, by the least counterexample: a
set of positions where the claim fails has a least element (`LeastNatural`).

### The client: `TeleopProofs`

`TeleopTypeCorrect`, `NoOrphans`, `CommandsFollowHand`, `SilenceNoticed` and
`IdentifiersAscend`: for every timing of keys, polls, signals and restarts.
Besides the fields that belong together (`Permitted`, `Spoken`, `Steered`) `TInv`
has three parts about time. `Punctual`: a poll begins before the release timeout
and the next command are due, and the events of one batch cost a delay each.
`Numbered`: the identifiers the pipe has seen are this process's own or older
than the clock. `Paced`: no identifier runs ahead of the clock, so a process
started later begins above them; a sequence equal to the clock belongs to a
direction whose next command is not due. `Direction` is assumed to hold none of
the client's other keys. The attempt to prove `IdentifiersAscend` corrected the
model: it had allowed readings before the previous instant but after the last
accepted one, which the client cannot tell from good ones and a monotonic clock
cannot give, and with these identifiers repeat on a long enough clock.

### The configuration: `ConfigProofs`

For every set of configurations and any length of a millisecond, `MainSpec`
implies always `NoLateRefusal` and `TeleopFitsLimits`; the three grids are any that
divide one another, a printed digit being at least two of the selection's. The
invariant says that from the opening of the line on the configuration has passed
`validateRuntimeConfig` and that exit code 5 has not happened; `AcceptedIsSafe`
carries each comparison over to nanoseconds by `ScalingKeepsOrder`.
`RoundedKeepsOrder` is the heart of the second: rounding to a grid passes no value
of the grid, so a limit that a `CMD` line can express stays a limit through both
roundings, since the printed grid is part of the finer one; `ProductKeepsOrder`
carries the check of the fastest arc to every selected speed. For other limits
only `RoundedNear` is left: less than one printed digit too much. That case is
real. With `max_linear_speed_mps` and `max_selected_speed_mps` both 0.2999999999
every check accepts the configuration, the client sends 0.300000000,
`encodeCommand` refuses it (`protocol.cpp:97-100`) and `submit` revokes the
authorization (`safety_session.cpp:245-250`); likewise a yaw limit such as the
product of the largest speed and the curvature, when that has more than nine
decimals. The vehicle stops, and no document says otherwise.

`AcceptsTheWellFormed` and `ValuesComeFromTheFile` are about the INI reader: for
every set of sections, keys and values and every number of lines, what it accepts
line by line is what a definition of the whole file accepts. The reader keeps only
the current section, the sections seen and the values so far, so `FileInv` has to
say what these remember of the lines that are gone: while it reads there is no
foreign line behind it, the current section is the one of the last header
(`Current`), the headers are known, differ and are the sections seen
(`HeadersRead`), and each key that has a value has exactly one entry, under its
own section, and each entry its key (`EntriesRead`). At the end of the file these
are the definition of well-formedness but for the keys that are required, which is
what the reader checks there; a line it refuses is one the definition excludes.

### The codec and the monitor: `CodecAndMonitorProofs`

`CommandsAreNeverFaster`, `StopFrameIsTheZeroCommand` and
`DecodedIsWhatWasReported`: for every motion, limit and report, every damaged byte
whatever it then reads as, and every length a frame is cut to. The bytes of a
frame are found by following the concatenation that builds it, pair by pair
(`PairAppended`), and back (`PairStands`): `CommandBytes` and `SentBytes` say
which field stands where, and `SignedRoundTrip` and `UnsignedRoundTrip` that what
is stored is what is loaded. The checksum is a recursive function; its equation
and its laws are proved by the least position that would refute them
(`ChainExists`, `XorAgrees`, `XorNotices`: one differing byte shows, wherever it
is). Assumed of exclusive or is only what `XorAssumption` says of bytes: zero is
neutral, it stays within a byte, is commutative, and undoes itself; and of the
value that is not finite, that it is no integer. TLC evaluates both on the real
operator. `Report` is any set of reports that fit a frame.

`ExitCodeIsTrue` and `SessionKeepsItsDeadline`: for every count, timeout, slice
and delay. `MonitorInv` adds to the properties what the loop owes at each position:
`LoopCode`, no code is settled before the loop is left, and a timeout only while
frames are missing; `LoopTime`, a read begins at the reading that was before the
deadline, so it returns at most an overrun after it, and one reading later the
loop has noticed. The bound of a read is that of the contract, which
`SerialTransportProofs` proves of the transport.

### Only model-checked

Liveness (`CallsReturn`, `UnpermittedMotionEnds`, `ShutdownEnds` of the CLI and of
the client, `MonitorEnds`) is out of the prover's reach, as is ENABLED. Every
invariant and every action property of a passing run is proved.

## Not modelled

Text: the formatting and parsing of protocol lines, numbers, options and device
paths (but for the digits of a `CMD` line's speeds), which field of the configuration
a value is assigned to, log output, the monitor's averages, names of statuses. The client's
terminal and `input_event` decoding, its own reading of the INI file (the C++
reader is modelled) and a broken pipe between client and CLI, which the CLI sees
as the end of its input. The binary rounding of doubles (the client's decimal rounding is modelled), and the division of decoded
fields by constants. Termios settings; which errno is a disconnect; a transport
called with null or empty buffers; a failing `clock_gettime` inside a transport
call (in the loops it is modelled as time 0). Two simultaneous owners of a session
are excluded by its contract ("Callers must serialize every method"). The longest
poll timeout, `INT_MAX` milliseconds, ends a wait for a farther deadline early;
that is modelled, and `WithinReach` keeps the callers' deadlines, which no accepted
configuration puts more than 60 seconds ahead, on this side of it. Build, packaging and CI hold no
behaviour.

In `SafetySession` a motion so small that its encoding is a zero frame counts as a
motion; `ZeroFrameIsZero` shows that the vehicle reads it as the zero frame.

## Plan

1. Done: the session with its history and the gate it implements, the transport,
   the parser, the codec, the configuration, the CLI, the monitor and the client.
2. Done: the invariants, action properties and refinements of all of them proved.
3. A composition of `Teleop` with `Cli` over a pipe, so that a released key is
   followed to the zero frame it causes.
