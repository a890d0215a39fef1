-------------------------- MODULE MCRuntimeConfig --------------------------
(***************************************************************************)
(* The example configuration with any two of its entries moved to, or just *)
(* past, a boundary, in 1/800 of each unit.  The example's values are on   *)
(* the grid a CMD line prints; 3, 118, 159 and 246 are not, and with       *)
(* curvatures of 590 and 4025 it is the yaw rate that the rounding moves.  *)
(***************************************************************************)
EXTENDS RuntimeConfig

\* config/wheeltec_vcu_serial.ini with a device.
Example == [
  device_path |-> "/dev/ttyUSB0",
  max_linear_speed_mps |-> 240, max_abs_yaw_rate_radps |-> 800,
  reconnect_interval_ms |-> 1000, command_timeout_ms |-> 250,
  feedback_timeout_ms |-> 200, transmit_period_ms |-> 20,
  fresh_commands_required |-> 3, write_timeout_ms |-> 10,
  zero_retry_interval_ms |-> 20, zero_retry_attempts |-> 3,
  min_selected_speed_mps |-> 40, initial_selected_speed_mps |-> 80,
  max_selected_speed_mps |-> 160, speed_step_mps |-> 40,
  curvature_inv_m |-> 600, release_timeout_ms |-> 180, command_rate_hz |-> 20]

Durations == {"command_timeout_ms", "feedback_timeout_ms", "transmit_period_ms",
              "write_timeout_ms", "zero_retry_interval_ms", "reconnect_interval_ms",
              "release_timeout_ms"}
Counts == {"fresh_commands_required", "zero_retry_attempts"}

Boundary(field) ==
  CASE field = "device_path" -> {"", "/dev/../etc/passwd"}
    [] field \in Durations -> {0, 9, 10, 20, 250, 60000, 60001}
    [] field \in Counts -> {0, 20, 21, 101}
    [] field = "command_rate_hz" -> {NaN, 0, 4, 1000, 1001}
    [] field = "max_abs_yaw_rate_radps" -> {NaN, 0, 118, 120, 26213, 26214}
    [] field = "curvature_inv_m" -> {NaN, 0, 590, 4000, 4025}
    [] OTHER -> {NaN, 0, 3, 159, 160, 246, 4800}

MCConfigs ==
  {[Example EXCEPT ![f] = v, ![g] = w]:
     <<f, v, g, w>> \in UNION {{<<f, v, g, w>>: v \in Boundary(f), w \in Boundary(g)}:
                               f, g \in DOMAIN Example}}
MCReleased == {"/dev/ttyUSB0"}

=============================================================================
