--------------------------- MODULE RuntimeConfig ---------------------------
(***************************************************************************)
(* From a parsed configuration to a running session: main() of             *)
(* src/apps/wheeltec_vcu_cli.cpp with parseOptions, validateRuntimeConfig  *)
(* of src/src/config.cpp and makeSafetyConfig, up to the second check that *)
(* safetyConfigIsValid makes.                                              *)
(*                                                                         *)
(* Speeds, yaw rates and curvatures are integers, Scale of which make one  *)
(* m/s, rad/s or 1/m, rates are in Hz, and NaN stands for every double     *)
(* that is not finite.  Comparisons and products are exact, and so is the  *)
(* decimal rounding the client does on the way to the line: the values     *)
(* that round(x, 12) and {:.9f} can give lie on two grids, whose widths    *)
(* are the constants Twelfth and Ninth.  The doubles' own rounding, some   *)
(* 1e-16, is left out.                                                     *)
(***************************************************************************)
EXTENDS Integers

CONSTANTS
  NaN,
  NanosecondsPerMillisecond,  \* 1000000
  Scale,                      \* 1.0
  Twelfth,                    \* 1e-12, the last digit of round(x, 12)
  Ninth,                      \* 1e-9, the last digit of {:.9f}
  ReleasedDevicePath,         \* the device paths validDevicePath accepts
  CandidateConfig             \* the configurations a file may hold

ASSUME NaNAssumption == NaN \notin Int
ASSUME UnitAssumption == NanosecondsPerMillisecond \in Nat \ {0}
ASSUME GridAssumption ==
  /\ Scale \in Nat \ {0} /\ Twelfth \in Nat \ {0} /\ Ninth \in Nat \ {0}
  /\ \E k \in 2..Ninth: Ninth = k * Twelfth
  /\ \E k \in 1..Scale: Scale = k * Ninth

Double == Int \cup {NaN}

RuntimeConfigs == [
  device_path: STRING,
  max_linear_speed_mps: Double, max_abs_yaw_rate_radps: Double,
  reconnect_interval_ms: Int, command_timeout_ms: Int,
  feedback_timeout_ms: Int, transmit_period_ms: Int,
  fresh_commands_required: Nat, write_timeout_ms: Int,
  zero_retry_interval_ms: Int, zero_retry_attempts: Nat,
  min_selected_speed_mps: Double, initial_selected_speed_mps: Double,
  max_selected_speed_mps: Double, speed_step_mps: Double,
  curvature_inv_m: Double, release_timeout_ms: Int, command_rate_hz: Double]

ASSUME CandidateAssumption == CandidateConfig \subseteq RuntimeConfigs

-----------------------------------------------------------------------------
(* validateRuntimeConfig *)

IsFinite(x) == x # NaN
FinitePositive(x) == IsFinite(x) /\ x > 0

ValidDevicePath(path) == path \in ReleasedDevicePath
DevicePathAccepted(c, require_device_path) ==
  /\ require_device_path => ValidDevicePath(c.device_path)
  /\ c.device_path # "" => ValidDevicePath(c.device_path)

IsValidMaxLinearSpeed(x) == IsFinite(x) /\ x > 0 /\ x < 6 * Scale
\* 32.767 rad/s, what the wire's int16_t of 0.001 rad/s holds.
IsValidMaxYawRate(x) == FinitePositive(x) /\ 1000 * x <= 32767 * Scale
LimitsAccepted(c) ==
  /\ IsValidMaxLinearSpeed(c.max_linear_speed_mps)
  /\ IsValidMaxYawRate(c.max_abs_yaw_rate_radps)
  /\ c.reconnect_interval_ms >= 10 /\ c.reconnect_interval_ms <= 60000

kMaximumWatchdogMilliseconds == 60000
\* Mutant: the order of the timeouts is left to the session.
WatchdogsBounded(c) ==
  /\ \A d \in {c.command_timeout_ms, c.feedback_timeout_ms, c.transmit_period_ms,
               c.write_timeout_ms, c.zero_retry_interval_ms}:
       d > 0 /\ d <= kMaximumWatchdogMilliseconds
  /\ c.fresh_commands_required > 0 /\ c.fresh_commands_required <= 100
  /\ c.zero_retry_attempts > 0 /\ c.zero_retry_attempts <= 20

WatchdogsAccepted(c) ==
  /\ WatchdogsBounded(c)
  /\ c.write_timeout_ms <= c.transmit_period_ms
  /\ c.transmit_period_ms < c.command_timeout_ms
  /\ c.transmit_period_ms < c.feedback_timeout_ms

\* Mutant: only the initial speed is compared with the limits.
TeleopUnordered(c) ==
  /\ FinitePositive(c.min_selected_speed_mps)
  /\ FinitePositive(c.initial_selected_speed_mps)
  /\ FinitePositive(c.max_selected_speed_mps)
  /\ FinitePositive(c.curvature_inv_m)
  /\ FinitePositive(c.command_rate_hz)
  /\ c.initial_selected_speed_mps <= c.max_linear_speed_mps
  /\ c.initial_selected_speed_mps * c.curvature_inv_m <= c.max_abs_yaw_rate_radps * Scale
  /\ c.release_timeout_ms > 0 /\ c.release_timeout_ms <= c.command_timeout_ms

TeleopAccepted(c) ==
  /\ FinitePositive(c.min_selected_speed_mps)
  /\ FinitePositive(c.initial_selected_speed_mps)
  /\ FinitePositive(c.max_selected_speed_mps)
  /\ c.min_selected_speed_mps <= c.initial_selected_speed_mps
  /\ c.initial_selected_speed_mps <= c.max_selected_speed_mps
  /\ c.max_selected_speed_mps <= c.max_linear_speed_mps
  /\ FinitePositive(c.speed_step_mps)
  /\ c.speed_step_mps <= c.max_selected_speed_mps
  /\ FinitePositive(c.curvature_inv_m)
  /\ FinitePositive(c.command_rate_hz) /\ c.command_rate_hz <= 1000
  /\ c.release_timeout_ms > 0 /\ c.release_timeout_ms <= c.command_timeout_ms
  /\ c.max_selected_speed_mps * c.curvature_inv_m <= c.max_abs_yaw_rate_radps * Scale
  \* 1000.0 / rate < timeout
  /\ 1000 < c.command_timeout_ms * c.command_rate_hz

ValidateRuntimeConfig(c, require_device_path) ==
  /\ DevicePathAccepted(c, require_device_path)
  /\ LimitsAccepted(c)
  /\ WatchdogsAccepted(c)
  /\ TeleopAccepted(c)

-----------------------------------------------------------------------------
(* makeSafetyConfig and the session's own check *)

MillisecondsToNanoseconds(ms) == ms * NanosecondsPerMillisecond
kMaximumDurationNs == 60000 * NanosecondsPerMillisecond

MakeSafetyConfig(c) == [
  max_linear_speed_mps |-> c.max_linear_speed_mps,
  max_abs_yaw_rate_radps |-> c.max_abs_yaw_rate_radps,
  max_command_age_ns |-> MillisecondsToNanoseconds(c.command_timeout_ms),
  feedback_timeout_ns |-> MillisecondsToNanoseconds(c.feedback_timeout_ms),
  transmit_period_ns |-> MillisecondsToNanoseconds(c.transmit_period_ms),
  write_timeout_ns |-> MillisecondsToNanoseconds(c.write_timeout_ms),
  zero_retry_interval_ns |-> MillisecondsToNanoseconds(c.zero_retry_interval_ms),
  maximum_zero_attempts |-> c.zero_retry_attempts,
  fresh_commands_required |-> c.fresh_commands_required]

SafetyConfigIsValid(s) ==
  /\ IsValidMaxLinearSpeed(s.max_linear_speed_mps)
  /\ IsValidMaxYawRate(s.max_abs_yaw_rate_radps)
  /\ \A d \in {s.max_command_age_ns, s.feedback_timeout_ns, s.transmit_period_ns,
               s.write_timeout_ns, s.zero_retry_interval_ns}:
       d > 0 /\ d <= kMaximumDurationNs
  /\ s.write_timeout_ns <= s.transmit_period_ns
  /\ s.transmit_period_ns < s.max_command_age_ns
  /\ s.transmit_period_ns < s.feedback_timeout_ns
  /\ s.maximum_zero_attempts > 0 /\ s.maximum_zero_attempts <= 20
  /\ s.fresh_commands_required > 0 /\ s.fresh_commands_required <= 100

-----------------------------------------------------------------------------
(* What the teleoperation client makes of the same file *)

\* x on a grid, the nearest value, of two the one with the even digit.
Rounded(x, unit) ==
  LET digits == x \div unit
      rest == x % unit
  IN unit * (IF 2 * rest > unit \/ (2 * rest = unit /\ digits % 2 = 1)
             THEN digits + 1 ELSE digits)

\* _selected_speed_mps: the initial speed as the file has it, and what
\* _change_speed leaves there, clamped first and rounded then.
SelectedSpeed(c) ==
  {c.initial_selected_speed_mps}
    \cup {Rounded(s, Twelfth): s \in c.min_selected_speed_mps..c.max_selected_speed_mps}

\* The magnitudes a CMD line carries: _motion, printed with nine digits.  The
\* yaw rate is a product, in Scale * Scale of one rad/s.
SentLinear(speed) == Rounded(speed, Ninth)
SentYaw(c, speed) == Rounded(speed * c.curvature_inv_m, Ninth * Scale)

-----------------------------------------------------------------------------
(* main *)

VARIABLES
  options,  \* Options, without the path of the file
  config,   \* what loadRuntimeConfig parsed from the file
  stage,    \* how far main() has come
  exit      \* its exit code

mvars == <<options, config, stage, exit>>

Options == [validate_only: BOOLEAN, run: BOOLEAN, enable_actuation: BOOLEAN,
            acknowledge_unverified_protocol: BOOLEAN,
            operator_confirmation: {"none", "kActuationConfirmation"}]

MainInit ==
  /\ options \in Options
  /\ config \in CandidateConfig
  /\ stage = "options" /\ exit = "none"

ParseOptions(o) ==
  /\ o.validate_only # o.run
  /\ o.validate_only => /\ ~o.acknowledge_unverified_protocol
                        /\ ~o.enable_actuation
                        /\ o.operator_confirmation = "none"
  /\ o.run => /\ o.acknowledge_unverified_protocol
              /\ o.enable_actuation
              /\ o.operator_confirmation = "kActuationConfirmation"

EndWith(code) == stage' = "ended" /\ exit' = code
GoOn(next) == stage' = next /\ UNCHANGED exit

ReadOptions ==
  /\ stage = "options"
  /\ IF ParseOptions(options) THEN GoOn("load") ELSE EndWith("2")
  /\ UNCHANGED <<options, config>>

LoadConfig ==
  /\ stage = "load"
  /\ IF ~ValidateRuntimeConfig(config, options.run) THEN EndWith("3")
     ELSE IF options.validate_only THEN EndWith("0") ELSE GoOn("open")
  /\ UNCHANGED <<options, config>>

OpenLine ==
  /\ stage = "open"
  /\ EndWith("4") \/ GoOn("construct")
  /\ UNCHANGED <<options, config>>

ConstructSession ==
  /\ stage = "construct"
  /\ IF SafetyConfigIsValid(MakeSafetyConfig(config)) THEN GoOn("running") ELSE EndWith("5")
  /\ UNCHANGED <<options, config>>

MainNext == ReadOptions \/ LoadConfig \/ OpenLine \/ ConstructSession

MainSpec == MainInit /\ [][MainNext]_mvars

-----------------------------------------------------------------------------
(* Properties *)

\* The two independent checks of the timing agree: what validateRuntimeConfig
\* accepted in milliseconds, safetyConfigIsValid accepts in nanoseconds, so
\* that no line is opened for a session that then refuses to be built (exit
\* code 5).
NoLateRefusal == exit # "5"

\* x has no more decimals than a CMD line prints.
PrintsExactly(x) == x % Ninth = 0

\* What the teleoperation client sends under an accepted configuration,
\* whatever speed the operator has selected and whatever arc he steers.  A
\* command lives no longer than the session lets one grow old.  Its speed,
\* rounded twice on the way, never passes the session's limit by a digit that
\* is printed, and not at all when the limit itself has no more than nine
\* decimals; the yaw rate is within a limit of nine decimals when the largest
\* speed has no more than the twelve that _change_speed keeps.  A speed that
\* can be printed is not sent as zero.  (A finer limit may be passed: with
\* 0.2999999999 m/s as the limit and the largest speed the client sends
\* 0.300000000, which encodeCommand refuses and submitCommand answers by
\* revoking the authorization.)
TeleopFitsLimits ==
  stage \in {"open", "construct", "running"} =>
    /\ MillisecondsToNanoseconds(config.release_timeout_ms)
         <= MakeSafetyConfig(config).max_command_age_ns
    /\ \A speed \in SelectedSpeed(config):
         /\ SentLinear(speed) < config.max_linear_speed_mps + Ninth
         /\ PrintsExactly(config.max_linear_speed_mps)
              => SentLinear(speed) <= config.max_linear_speed_mps
         /\ PrintsExactly(config.max_abs_yaw_rate_radps) /\ config.max_selected_speed_mps % Twelfth = 0
              => SentYaw(config, speed) <= config.max_abs_yaw_rate_radps * Scale
         /\ config.min_selected_speed_mps >= Ninth => SentLinear(speed) > 0

=============================================================================
