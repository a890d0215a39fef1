---------------------------- MODULE ConfigProofs ----------------------------
(***************************************************************************)
(* The configuration, from the lines of its file to the running session:   *)
(* for every file the reader accepts exactly what is well-formed, for      *)
(* every configuration, and whatever a millisecond is in nanoseconds, the  *)
(* session accepts what validateRuntimeConfig accepted, and the            *)
(* teleoperation client stays within it.                                   *)
(***************************************************************************)
EXTENDS RuntimeConfig, ConfigFile, TLAPS

-----------------------------------------------------------------------------
(* From an accepted configuration to a running session *)

\* millisecondsToNanoseconds keeps the order of durations.
LEMMA ScalingKeepsOrder ==
  ASSUME NEW a \in Int, NEW b \in Int
  PROVE  /\ MillisecondsToNanoseconds(a) \in Int
         /\ a <= b => MillisecondsToNanoseconds(a) <= MillisecondsToNanoseconds(b)
         /\ a < b => MillisecondsToNanoseconds(a) < MillisecondsToNanoseconds(b)
         /\ a > 0 => MillisecondsToNanoseconds(a) > 0
  BY UnitAssumption, Z3 DEF MillisecondsToNanoseconds

\* A product grows with its first factor.
LEMMA ProductKeepsOrder ==
  ASSUME NEW a \in Int, NEW b \in Int, NEW k \in Int, k > 0, a <= b
  PROVE  a * k <= b * k
  BY Z3

\* A configuration validateRuntimeConfig accepts passes safetyConfigIsValid
\* after makeSafetyConfig.
LEMMA AcceptedIsSafe ==
  ASSUME NEW c \in RuntimeConfigs, NEW require \in BOOLEAN,
         ValidateRuntimeConfig(c, require)
  PROVE  SafetyConfigIsValid(MakeSafetyConfig(c))
<1>1. /\ c.command_timeout_ms \in Int /\ c.feedback_timeout_ms \in Int
      /\ c.transmit_period_ms \in Int /\ c.write_timeout_ms \in Int
      /\ c.zero_retry_interval_ms \in Int
  BY DEF RuntimeConfigs
<1>2. LimitsAccepted(c) /\ WatchdogsBounded(c)
      /\ c.write_timeout_ms <= c.transmit_period_ms
      /\ c.transmit_period_ms < c.command_timeout_ms
      /\ c.transmit_period_ms < c.feedback_timeout_ms
  BY DEF ValidateRuntimeConfig, WatchdogsAccepted
<1>3. ASSUME NEW d \in Int, d > 0, d <= kMaximumWatchdogMilliseconds
      PROVE  MillisecondsToNanoseconds(d) > 0
             /\ MillisecondsToNanoseconds(d) <= kMaximumDurationNs
  <2>1. MillisecondsToNanoseconds(60000) = kMaximumDurationNs
    BY DEF MillisecondsToNanoseconds, kMaximumDurationNs
  <2> QED BY <1>3, <2>1, ScalingKeepsOrder DEF kMaximumWatchdogMilliseconds
<1>4. \A d \in {MillisecondsToNanoseconds(c.command_timeout_ms),
                MillisecondsToNanoseconds(c.feedback_timeout_ms),
                MillisecondsToNanoseconds(c.transmit_period_ms),
                MillisecondsToNanoseconds(c.write_timeout_ms),
                MillisecondsToNanoseconds(c.zero_retry_interval_ms)}:
        d > 0 /\ d <= kMaximumDurationNs
  BY <1>1, <1>2, <1>3 DEF WatchdogsBounded
<1>5. /\ MillisecondsToNanoseconds(c.write_timeout_ms)
           <= MillisecondsToNanoseconds(c.transmit_period_ms)
      /\ MillisecondsToNanoseconds(c.transmit_period_ms)
           < MillisecondsToNanoseconds(c.command_timeout_ms)
      /\ MillisecondsToNanoseconds(c.transmit_period_ms)
           < MillisecondsToNanoseconds(c.feedback_timeout_ms)
  BY <1>1, <1>2, ScalingKeepsOrder
<1> QED
  BY <1>2, <1>4, <1>5
  DEF SafetyConfigIsValid, MakeSafetyConfig, LimitsAccepted, WatchdogsBounded

\* What main() has established when it opens the line.
IInv ==
  /\ config \in RuntimeConfigs
  /\ options.run \in BOOLEAN
  /\ stage \in {"open", "construct", "running"} => ValidateRuntimeConfig(config, options.run)
  /\ exit # "5"

LEMMA IInvHolds == MainSpec => []IInv
<1>1. MainInit => IInv
  BY CandidateAssumption DEF MainInit, IInv, Options
<1>2. IInv /\ [MainNext]_mvars => IInv'
  <2> SUFFICES ASSUME IInv, [MainNext]_mvars PROVE IInv'
    OBVIOUS
  <2>1. CASE ReadOptions
    BY <2>1 DEF IInv, ReadOptions, GoOn, EndWith
  <2>2. CASE LoadConfig
    BY <2>2 DEF IInv, LoadConfig, GoOn, EndWith
  <2>3. CASE OpenLine
    BY <2>3 DEF IInv, OpenLine, GoOn, EndWith
  <2>4. CASE ConstructSession
    <3>1. SafetyConfigIsValid(MakeSafetyConfig(config))
      BY <2>4, AcceptedIsSafe DEF IInv, ConstructSession
    <3> QED BY <2>4, <3>1 DEF IInv, ConstructSession, GoOn
  <2>5. CASE UNCHANGED mvars
    BY <2>5 DEF IInv, mvars
  <2> QED BY <2>1, <2>2, <2>3, <2>4, <2>5 DEF MainNext
<1> QED BY <1>1, <1>2, PTL DEF MainSpec

\* No configuration passes validateRuntimeConfig and is then refused by the
\* session: exit code 5 of run() cannot happen.
THEOREM RefusalIsNeverLate == MainSpec => []NoLateRefusal
<1>1. IInv => NoLateRefusal
  BY DEF IInv, NoLateRefusal
<1> QED BY <1>1, IInvHolds, PTL

\* Every x is so many whole units and a rest.
LEMMA WholeAndRest ==
  ASSUME NEW x \in Nat, NEW u \in Nat \ {0}
  PROVE  /\ x \div u \in Nat /\ x % u \in Nat /\ x % u < u
         /\ x = u * (x \div u) + (x % u)
<1>1. x = u * (x \div u) + (x % u)
  BY Z3
<1>2. x % u \in 0..(u - 1)
  OBVIOUS
<1>3. x \div u >= 0 /\ x \div u \in Int
  BY Z3
<1> QED BY <1>1, <1>2, <1>3

\* A rounded value is on the grid, and at most half a unit away.
LEMMA RoundedNear ==
  ASSUME NEW x \in Nat, NEW u \in Nat \ {0}
  PROVE  /\ \E k \in Nat: Rounded(x, u) = u * k
         /\ Rounded(x, u) \in Nat
         /\ 2 * Rounded(x, u) <= 2 * x + u
         /\ 2 * x <= 2 * Rounded(x, u) + u
<1> DEFINE q == x \div u
           r == x % u
<1>1. q \in Nat /\ r \in Nat /\ r < u /\ x = u * q + r
  BY WholeAndRest
<1>2. u * (q + 1) = u * q + u
  BY <1>1, Z3
<1> DEFINE up == 2 * r > u \/ (2 * r = u /\ q % 2 = 1)
<1>3. Rounded(x, u) = u * (IF up THEN q + 1 ELSE q)
  BY DEF Rounded
<1>4. (up => 2 * r >= u) /\ (~up => 2 * r <= u)
  BY <1>1
<1> HIDE DEF q, r, up
<1>5. \/ Rounded(x, u) = u * q /\ 2 * r <= u
      \/ Rounded(x, u) = u * (q + 1) /\ 2 * r >= u
  BY <1>3, <1>4
<1>6. u * q \in Nat /\ q + 1 \in Nat /\ u * (q + 1) \in Nat
  BY <1>1, <1>2
<1> DEFINE w == u * q
           v == u * (q + 1)
<1>7. /\ w \in Nat /\ v = w + u /\ x = w + r
      /\ \/ Rounded(x, u) = w /\ 2 * r <= u
         \/ Rounded(x, u) = v /\ 2 * r >= u
  BY <1>1, <1>2, <1>5, <1>6
<1>8. \E k \in Nat: Rounded(x, u) = u * k
  BY <1>1, <1>5, <1>6
<1> HIDE DEF w, v
<1>9. Rounded(x, u) \in Nat /\ 2 * Rounded(x, u) <= 2 * x + u /\ 2 * x <= 2 * Rounded(x, u) + u
  BY <1>1, <1>7
<1> QED BY <1>8, <1>9

\* Rounding passes no value of the grid, neither upwards nor downwards.
LEMMA RoundedKeepsOrder ==
  ASSUME NEW x \in Nat, NEW u \in Nat \ {0}, NEW k \in Nat
  PROVE  /\ x <= k * u => Rounded(x, u) <= k * u
         /\ x >= k * u => Rounded(x, u) >= k * u
<1>1. PICK m \in Nat: Rounded(x, u) = u * m
  BY RoundedNear
<1>2. 2 * Rounded(x, u) <= 2 * x + u /\ 2 * x <= 2 * Rounded(x, u) + u
  BY RoundedNear
<1>3. ASSUME m > k PROVE u * m >= k * u + u
  BY <1>3, Z3
<1>4. ASSUME m < k PROVE u * m + u <= k * u
  BY <1>4, Z3
<1>5. m <= k => u * m <= k * u
  BY Z3
<1>6. m >= k => u * m >= k * u
  BY Z3
<1> DEFINE w == u * m
           v == k * u
<1>7. w \in Nat /\ v \in Nat
  BY Z3
<1>8. /\ 2 * w <= 2 * x + u /\ 2 * x <= 2 * w + u
      /\ m > k => w >= v + u
      /\ m < k => w + u <= v
      /\ m <= k => w <= v
      /\ m >= k => w >= v
  BY <1>1, <1>2, <1>3, <1>4, <1>5, <1>6
<1> HIDE DEF w, v
<1>9. (x <= v => w <= v) /\ (x >= v => w >= v)
  BY <1>7, <1>8
<1> QED BY <1>1, <1>9 DEF w, v

\* A value without a rest is a multiple of the unit, and one of the printed
\* grid is one of the finer grid too.
LEMMA OnTheGrid ==
  ASSUME NEW x \in Nat, NEW u \in Nat \ {0}, x % u = 0
  PROVE  \E k \in Nat: x = k * u
<1>1. x \div u \in Nat /\ x = u * (x \div u)
  BY WholeAndRest
<1> DEFINE q == x \div u
<1> HIDE DEF q
<1>2. q \in Nat /\ x = u * q
  BY <1>1 DEF q
<1>3. u * q = q * u
  BY <1>2, Z3
<1> QED BY <1>2, <1>3

LEMMA CoarserGrid ==
  ASSUME NEW k \in Nat
  PROVE  \E m \in Nat: k * Ninth = m * Twelfth
<1>1. PICK n \in Nat: Ninth = n * Twelfth
  BY GridAssumption
<1>2. k * (n * Twelfth) = (k * n) * Twelfth /\ k * n \in Nat
  BY GridAssumption, Z3
<1> QED BY <1>1, <1>2

\* A configuration main() opens the line with, as the client sees it.
LEMMA AcceptedSpeeds ==
  ASSUME NEW c \in RuntimeConfigs, NEW require \in BOOLEAN, ValidateRuntimeConfig(c, require)
  PROVE  /\ c.min_selected_speed_mps \in Nat /\ c.initial_selected_speed_mps \in Nat
         /\ c.max_selected_speed_mps \in Nat /\ c.max_linear_speed_mps \in Nat
         /\ c.curvature_inv_m \in Nat \ {0} /\ c.max_abs_yaw_rate_radps \in Nat
         /\ c.min_selected_speed_mps <= c.initial_selected_speed_mps
         /\ c.initial_selected_speed_mps <= c.max_selected_speed_mps
         /\ c.max_selected_speed_mps <= c.max_linear_speed_mps
         /\ c.max_selected_speed_mps * c.curvature_inv_m <= c.max_abs_yaw_rate_radps * Scale
<1>1. TeleopAccepted(c) /\ LimitsAccepted(c)
  BY DEF ValidateRuntimeConfig
<1>2. /\ c.min_selected_speed_mps \in Int /\ c.initial_selected_speed_mps \in Int
      /\ c.max_selected_speed_mps \in Int /\ c.curvature_inv_m \in Int
      /\ c.max_linear_speed_mps \in Int /\ c.max_abs_yaw_rate_radps \in Int
  BY <1>1, NaNAssumption
  DEF RuntimeConfigs, Double, TeleopAccepted, LimitsAccepted, IsValidMaxLinearSpeed,
      IsValidMaxYawRate, FinitePositive, IsFinite
<1> QED
  BY <1>1, <1>2
  DEF TeleopAccepted, LimitsAccepted, IsValidMaxLinearSpeed, IsValidMaxYawRate, FinitePositive

\* A selected speed is within the clamps up to half of its last digit, and
\* passes no value that round(x, 12) leaves alone.
LEMMA SelectedSpeeds ==
  ASSUME NEW c \in RuntimeConfigs, NEW require \in BOOLEAN, ValidateRuntimeConfig(c, require),
         NEW speed \in SelectedSpeed(c), NEW k \in Nat
  PROVE  /\ speed \in Nat
         /\ 2 * speed <= 2 * c.max_selected_speed_mps + Twelfth
         /\ c.max_selected_speed_mps <= k * Twelfth => speed <= k * Twelfth
         /\ c.min_selected_speed_mps >= k * Twelfth => speed >= k * Twelfth
<1> DEFINE low == c.min_selected_speed_mps
           high == c.max_selected_speed_mps
           t == Twelfth
           v == k * t
<1>1. /\ low \in Nat /\ high \in Nat /\ c.initial_selected_speed_mps \in Nat
      /\ low <= c.initial_selected_speed_mps /\ c.initial_selected_speed_mps <= high
  BY AcceptedSpeeds
<1>2. t \in Nat \ {0} /\ v \in Nat
  BY GridAssumption, Z3
<1>3. CASE speed = c.initial_selected_speed_mps
  <2> HIDE DEF low, high, t, v
  <2>1. 2 * speed <= 2 * high + t /\ speed \in Nat
        /\ (high <= v => speed <= v) /\ (low >= v => speed >= v)
    BY <1>1, <1>2, <1>3
  <2> QED BY <2>1 DEF low, high, t, v
<1>4. CASE \E s \in low..high: speed = Rounded(s, t)
  <2>1. PICK s \in low..high: speed = Rounded(s, t)
    BY <1>4
  <2>2. s \in Nat /\ low <= s /\ s <= high
    BY <1>1, <2>1
  <2>3. speed \in Nat /\ 2 * speed <= 2 * s + t
    BY <1>2, <2>1, <2>2, RoundedNear
  <2>4. (s <= v => speed <= v) /\ (s >= v => speed >= v)
    BY <1>2, <2>1, <2>2, RoundedKeepsOrder
  <2> HIDE DEF low, high, t, v
  <2>5. 2 * speed <= 2 * high + t /\ speed \in Nat
        /\ (high <= v => speed <= v) /\ (low >= v => speed >= v)
    BY <1>1, <1>2, <2>2, <2>3, <2>4
  <2> QED BY <2>5 DEF low, high, t, v
<1> QED BY <1>3, <1>4 DEF SelectedSpeed

\* The linear speed of a CMD line against the session's limit, and against 0.
LEMMA LinearFits ==
  ASSUME NEW c \in RuntimeConfigs, NEW require \in BOOLEAN, ValidateRuntimeConfig(c, require),
         NEW speed \in SelectedSpeed(c)
  PROVE  /\ SentLinear(speed) < c.max_linear_speed_mps + Ninth
         /\ PrintsExactly(c.max_linear_speed_mps) => SentLinear(speed) <= c.max_linear_speed_mps
         /\ c.min_selected_speed_mps >= Ninth => SentLinear(speed) > 0
<1> DEFINE low == c.min_selected_speed_mps
           high == c.max_selected_speed_mps
           limit == c.max_linear_speed_mps
           sent == Rounded(speed, Ninth)
<1>1. low \in Nat /\ high \in Nat /\ limit \in Nat /\ high <= limit
  BY AcceptedSpeeds
<1>2. speed \in Nat /\ 2 * speed <= 2 * high + Twelfth
  BY SelectedSpeeds
<1>3. Ninth \in Nat \ {0} /\ Twelfth \in Nat \ {0}
  BY GridAssumption
<1>4. 2 * Twelfth <= Ninth
  <2>1. PICK k \in Nat: k >= 2 /\ Ninth = k * Twelfth
    BY GridAssumption
  <2>2. k * Twelfth >= 2 * Twelfth
    BY <1>3, <2>1, Z3
  <2> QED BY <2>1, <2>2
<1>5. sent \in Nat /\ 2 * sent <= 2 * speed + Ninth
  BY <1>2, <1>3, RoundedNear
<1>6. ASSUME PrintsExactly(limit) PROVE sent <= limit
  <2>1. PICK k \in Nat: limit = k * Ninth
    BY <1>1, <1>3, <1>6, OnTheGrid DEF PrintsExactly
  <2>2. PICK m \in Nat: k * Ninth = m * Twelfth
    BY CoarserGrid
  <2>3. high <= m * Twelfth
    BY <1>1, <2>1, <2>2
  <2>4. speed <= m * Twelfth
    BY <2>3, SelectedSpeeds
  <2>5. speed <= k * Ninth
    BY <2>2, <2>4
  <2>6. sent <= k * Ninth
    BY <1>2, <1>3, <2>5, RoundedKeepsOrder
  <2> QED BY <2>1, <2>6
<1>7. ASSUME low >= Ninth PROVE sent > 0
  <2>1. 1 * Ninth = Ninth
    BY <1>3
  <2>2. PICK m \in Nat: 1 * Ninth = m * Twelfth
    BY CoarserGrid
  <2>3. speed >= m * Twelfth
    BY <1>7, <2>1, <2>2, SelectedSpeeds
  <2>4. speed >= 1 * Ninth
    BY <2>2, <2>3
  <2>5. sent >= 1 * Ninth
    BY <1>2, <1>3, <2>4, RoundedKeepsOrder
  <2> HIDE DEF sent, low
  <2> QED BY <1>3, <1>5, <2>1, <2>5
<1>8. sent < limit + Ninth
  <2> HIDE DEF sent, limit, high
  <2> QED BY <1>1, <1>2, <1>3, <1>4, <1>5
<1> QED BY <1>6, <1>7, <1>8 DEF SentLinear

\* The yaw rate of a CMD line against the session's limit.
LEMMA YawFits ==
  ASSUME NEW c \in RuntimeConfigs, NEW require \in BOOLEAN, ValidateRuntimeConfig(c, require),
         NEW speed \in SelectedSpeed(c),
         PrintsExactly(c.max_abs_yaw_rate_radps), c.max_selected_speed_mps % Twelfth = 0
  PROVE  SentYaw(c, speed) <= c.max_abs_yaw_rate_radps * Scale
<1> DEFINE high == c.max_selected_speed_mps
           limit == c.max_abs_yaw_rate_radps
           bend == c.curvature_inv_m
           unit == Ninth * Scale
<1>1. /\ high \in Nat /\ limit \in Nat /\ bend \in Nat \ {0}
      /\ high * bend <= limit * Scale
  BY AcceptedSpeeds
<1>2. Ninth \in Nat \ {0} /\ Twelfth \in Nat \ {0} /\ Scale \in Nat \ {0}
  BY GridAssumption
<1>3. unit \in Nat \ {0}
  BY <1>2, Z3
<1>4. PICK m \in Nat: high = m * Twelfth
  BY <1>1, <1>2, OnTheGrid
<1>5. speed \in Nat
  BY SelectedSpeeds
<1>6. speed <= high
  <2>1. high <= m * Twelfth
    BY <1>1, <1>4
  <2>2. speed <= m * Twelfth
    BY <2>1, SelectedSpeeds
  <2> QED BY <1>4, <2>2
<1>7. speed * bend <= high * bend /\ speed * bend \in Nat /\ high * bend \in Nat
      /\ limit * Scale \in Nat
  <2>1. speed * bend <= high * bend
    BY <1>1, <1>5, <1>6, ProductKeepsOrder
  <2>2. speed * bend \in Nat /\ high * bend \in Nat /\ limit * Scale \in Nat
    BY <1>1, <1>2, <1>5, Z3
  <2> QED BY <2>1, <2>2
<1>8. PICK k \in Nat: limit = k * Ninth
  BY <1>1, <1>2, OnTheGrid DEF PrintsExactly
<1>9. limit * Scale = k * unit
  <2>1. (k * Ninth) * Scale = k * (Ninth * Scale)
    BY <1>2, Z3
  <2> QED BY <1>8, <2>1
<1> HIDE DEF high, limit, bend, unit
<1> DEFINE yaw == speed * bend
           most == limit * Scale
           top == high * bend
<1>10. yaw \in Nat /\ top \in Nat /\ most \in Nat /\ yaw <= top /\ top <= most
  BY <1>1, <1>7
<1>11. most = k * unit
  BY <1>9
<1> HIDE DEF yaw, most, top
<1>12. yaw <= k * unit
  <2>1. yaw <= most
    BY <1>10
  <2> QED BY <1>11, <2>1
<1>13. Rounded(yaw, unit) <= k * unit
  BY <1>3, <1>10, <1>12, RoundedKeepsOrder
<1> QED BY <1>11, <1>13 DEF SentYaw, yaw, most, unit, bend, limit

\* Whatever the configuration and however fine the three grids are: the
\* commands a teleoperation client builds from a configuration main() accepted,
\* rounded as the client rounds them, are ones the session takes, for limits
\* that a CMD line can express.
THEOREM TeleopAlwaysFits == MainSpec => []TeleopFitsLimits
<1>1. IInv => TeleopFitsLimits
  <2> SUFFICES ASSUME IInv, stage \in {"open", "construct", "running"}
               PROVE  /\ MillisecondsToNanoseconds(config.release_timeout_ms)
                           <= MakeSafetyConfig(config).max_command_age_ns
                      /\ \A speed \in SelectedSpeed(config):
                           /\ SentLinear(speed) < config.max_linear_speed_mps + Ninth
                           /\ PrintsExactly(config.max_linear_speed_mps)
                                => SentLinear(speed) <= config.max_linear_speed_mps
                           /\ PrintsExactly(config.max_abs_yaw_rate_radps)
                              /\ config.max_selected_speed_mps % Twelfth = 0
                                => SentYaw(config, speed) <= config.max_abs_yaw_rate_radps * Scale
                           /\ config.min_selected_speed_mps >= Ninth => SentLinear(speed) > 0
    BY DEF TeleopFitsLimits
  <2>1. ValidateRuntimeConfig(config, options.run) /\ config \in RuntimeConfigs
        /\ options.run \in BOOLEAN
    BY DEF IInv
  <2>2. MillisecondsToNanoseconds(config.release_timeout_ms)
          <= MakeSafetyConfig(config).max_command_age_ns
    <3>1. config.release_timeout_ms \in Int /\ config.command_timeout_ms \in Int
      BY <2>1 DEF RuntimeConfigs
    <3>2. config.release_timeout_ms <= config.command_timeout_ms
      BY <2>1 DEF ValidateRuntimeConfig, TeleopAccepted
    <3> QED BY <3>1, <3>2, ScalingKeepsOrder DEF MakeSafetyConfig
  <2>3. ASSUME NEW speed \in SelectedSpeed(config)
        PROVE  /\ SentLinear(speed) < config.max_linear_speed_mps + Ninth
               /\ PrintsExactly(config.max_linear_speed_mps)
                    => SentLinear(speed) <= config.max_linear_speed_mps
               /\ config.min_selected_speed_mps >= Ninth => SentLinear(speed) > 0
    BY <2>1, LinearFits
  <2>4. ASSUME NEW speed \in SelectedSpeed(config),
               PrintsExactly(config.max_abs_yaw_rate_radps),
               config.max_selected_speed_mps % Twelfth = 0
        PROVE  SentYaw(config, speed) <= config.max_abs_yaw_rate_radps * Scale
    BY <2>1, <2>4, YawFits
  <2> QED BY <2>2, <2>3, <2>4
<1> QED BY <1>1, IInvHolds, PTL

-----------------------------------------------------------------------------
(* The file and what its reader remembers of it *)

\* The header that governs the next line of f is the one `name' is from.
Current(f, name) ==
  IF Headers(f) = {} THEN name = ""
  ELSE \E h \in Headers(f): f[h].name = name /\ \A j \in Headers(f): j <= h

\* The headers read so far: known, each one once, and all in seen_sections.
HeadersRead(f, names) ==
  /\ \A i \in Headers(f): f[i].name \in KnownSection
  /\ \A i, j \in Headers(f): f[i].name = f[j].name => i = j
  /\ names = {f[i].name: i \in Headers(f)}

\* The entries read so far are the keys that have a value, one entry each.
EntriesRead(f, assigned) ==
  /\ \A i \in Entries(f): \E k \in DOMAIN assigned:
       QualifiedKeys(f, i) = {k} /\ assigned[k] = f[i].value
  /\ \A k \in DOMAIN assigned: \E i \in Entries(f): QualifiedKeys(f, i) = {k}
  /\ \A i, j \in Entries(f): QualifiedKeys(f, i) = QualifiedKeys(f, j) => i = j

\* While it reads, the reader has met no fault and remembers all that counts.
Reading ==
  /\ \A i \in DOMAIN file: file[i].kind # "other"
  /\ Current(file, section)
  /\ HeadersRead(file, seen)
  /\ EntriesRead(file, values)

FileInv ==
  /\ TypeOK
  /\ result = "reading" => Reading
  /\ AcceptedIffWellFormed
  /\ ValuesAreTheFiles

-----------------------------------------------------------------------------
(* One line more *)

LEMMA AppendedLine ==
  ASSUME NEW f \in Seq(Line), NEW l \in Line
  PROVE  LET g == Append(f, l)
             n == Len(f) + 1
         IN /\ g \in Seq(Line)
            /\ n \in Nat /\ n \notin DOMAIN f /\ DOMAIN f \subseteq Nat
            /\ DOMAIN g = DOMAIN f \cup {n}
            /\ \A i \in DOMAIN f: i < n /\ g[i] = f[i]
            /\ g[n] = l
OBVIOUS

LEMMA AppendedSets ==
  ASSUME NEW f \in Seq(Line), NEW l \in Line
  PROVE  LET g == Append(f, l)
             n == Len(f) + 1
         IN /\ Headers(g) = IF l.kind = "header" THEN Headers(f) \cup {n} ELSE Headers(f)
            /\ Entries(g) = IF l.kind = "entry" THEN Entries(f) \cup {n} ELSE Entries(f)
            /\ Headers(f) \subseteq DOMAIN f /\ Entries(f) \subseteq DOMAIN f
<1> DEFINE g == Append(f, l)
           n == Len(f) + 1
<1>1. /\ n \notin DOMAIN f /\ DOMAIN g = DOMAIN f \cup {n} /\ g[n] = l
      /\ \A i \in DOMAIN f: g[i] = f[i]
  BY AppendedLine
<1> HIDE DEF g, n
<1>2. Headers(g) = IF l.kind = "header" THEN Headers(f) \cup {n} ELSE Headers(f)
  BY <1>1 DEF Headers
<1>3. Entries(g) = IF l.kind = "entry" THEN Entries(f) \cup {n} ELSE Entries(f)
  BY <1>1 DEF Entries
<1>4. Headers(f) \subseteq DOMAIN f /\ Entries(f) \subseteq DOMAIN f
  BY DEF Headers, Entries
<1> QED BY <1>2, <1>3, <1>4 DEF g, n

\* A line more changes the key of no line before it.
LEMMA EarlierKeys ==
  ASSUME NEW f \in Seq(Line), NEW l \in Line, NEW i \in DOMAIN f
  PROVE  QualifiedKeys(Append(f, l), i) = QualifiedKeys(f, i)
<1> DEFINE g == Append(f, l)
           n == Len(f) + 1
<1>1. /\ n \notin DOMAIN f /\ DOMAIN g = DOMAIN f \cup {n} /\ n \in Nat
      /\ DOMAIN f \subseteq Nat
      /\ \A j \in DOMAIN f: j < n /\ g[j] = f[j]
  BY AppendedLine
<1>2. /\ Headers(g) \subseteq Headers(f) \cup {n} /\ Headers(f) \subseteq Headers(g)
      /\ Headers(f) \subseteq DOMAIN f
  BY AppendedSets
<1> HIDE DEF g, n
<1>3. i \in Nat /\ i < n /\ g[i] = f[i]
  BY <1>1
<1>4. ASSUME NEW h PROVE Governs(g, h, i) <=> Governs(f, h, i)
  BY <1>1, <1>2, <1>3 DEF Governs
<1>5. {j \in DOMAIN g: Governs(g, j, i)} = {j \in DOMAIN f: Governs(f, j, i)}
  BY <1>1, <1>2, <1>4 DEF Governs
<1>6. \A j \in {k \in DOMAIN f: Governs(f, k, i)}: g[j] = f[j]
  BY <1>1
<1> QED BY <1>3, <1>5, <1>6 DEF QualifiedKeys, g

\* The key of the new line is of the section the reader is in.
LEMMA NewKey ==
  ASSUME NEW f \in Seq(Line), NEW l \in Line, l.kind = "entry",
         NEW name, Current(f, name)
  PROVE  QualifiedKeys(Append(f, l), Len(f) + 1)
           = IF Headers(f) = {} THEN {} ELSE {<<name, l.name>>}
<1> DEFINE g == Append(f, l)
           n == Len(f) + 1
<1>1. /\ n \notin DOMAIN f /\ DOMAIN g = DOMAIN f \cup {n} /\ n \in Nat /\ g[n] = l
      /\ DOMAIN f \subseteq Nat
      /\ \A j \in DOMAIN f: j < n /\ g[j] = f[j]
  BY AppendedLine
<1>2. Headers(g) = Headers(f) /\ Headers(f) \subseteq DOMAIN f
  BY AppendedSets
<1> HIDE DEF g, n
<1>3. CASE Headers(f) = {}
  <2>1. \A j: ~Governs(g, j, n)
    BY <1>2, <1>3 DEF Governs
  <2> QED BY <1>3, <2>1 DEF QualifiedKeys, g, n
<1>4. CASE Headers(f) # {}
  <2>1. PICK h \in Headers(f): f[h].name = name /\ \A j \in Headers(f): j <= h
    BY <1>4 DEF Current
  <2>2. \A j: Governs(g, j, n) <=> j = h
    BY <1>1, <1>2, <2>1 DEF Governs
  <2>3. {j \in DOMAIN g: Governs(g, j, n)} = {h}
    BY <1>1, <1>2, <2>1, <2>2
  <2>4. g[h].name = name /\ g[n].name = l.name
    BY <1>1, <1>2, <2>1
  <2>5. QualifiedKeys(g, n) = {<<name, l.name>>}
    BY <2>3, <2>4 DEF QualifiedKeys
  <2> QED BY <1>4, <2>5 DEF g, n
<1> QED BY <1>3, <1>4

\* A name no header has is not the current one, unless it is empty.
LEMMA NoSectionYet ==
  ASSUME NEW f \in Seq(Line), NEW name, NEW names, Current(f, name), HeadersRead(f, names)
  PROVE  Headers(f) = {} <=> name = ""
BY KeysAssumption DEF Current, HeadersRead

\* A line that is no header leaves the headers and the section as they are.
LEMMA SameHeaders ==
  ASSUME NEW f \in Seq(Line), NEW l \in Line, l.kind # "header",
         NEW name, NEW names, Current(f, name), HeadersRead(f, names)
  PROVE  Current(Append(f, l), name) /\ HeadersRead(Append(f, l), names)
<1> DEFINE g == Append(f, l)
<1>1. Headers(g) = Headers(f) /\ Headers(f) \subseteq DOMAIN f
  BY AppendedSets
<1>2. \A i \in DOMAIN f: g[i] = f[i]
  BY AppendedLine
<1> HIDE DEF g
<1>3. \A i \in Headers(f): g[i].name = f[i].name
  BY <1>1, <1>2
<1>4. Current(g, name)
  BY <1>1, <1>3 DEF Current
<1>5. {g[i].name: i \in Headers(g)} = {f[i].name: i \in Headers(f)}
  BY <1>1, <1>3
<1>6. HeadersRead(g, names)
  BY <1>1, <1>3, <1>5 DEF HeadersRead
<1> QED BY <1>4, <1>6 DEF g

-----------------------------------------------------------------------------
(* What a line does to a reader that goes on *)

LEMMA BlankRead ==
  ASSUME FileInv, result = "reading", NEW l \in Line, file' = Append(file, l), ReadBlank(l)
  PROVE  FileInv'
<1> DEFINE f == file
           g == Append(f, l)
           n == Len(f) + 1
<1>1. f \in Seq(Line) /\ l.kind = "blank" /\ Reading
  BY DEF FileInv, TypeOK, ReadBlank
<1>2. /\ g \in Seq(Line) /\ DOMAIN g = DOMAIN f \cup {n} /\ g[n] = l
      /\ \A i \in DOMAIN f: g[i] = f[i]
  BY <1>1, AppendedLine
<1>3. /\ Headers(g) = Headers(f) /\ Entries(g) = Entries(f)
      /\ Headers(f) \subseteq DOMAIN f /\ Entries(f) \subseteq DOMAIN f
  BY <1>1, AppendedSets
<1>4. \A i \in DOMAIN f: QualifiedKeys(g, i) = QualifiedKeys(f, i)
  BY <1>1, EarlierKeys
<1>5. Current(g, section) /\ HeadersRead(g, seen)
  BY <1>1, SameHeaders DEF Reading
<1> HIDE DEF g, n
<1>6. \A i \in DOMAIN g: g[i].kind # "other"
  BY <1>1, <1>2 DEF Reading
<1>7. EntriesRead(g, values)
  BY <1>1, <1>2, <1>3, <1>4 DEF Reading, EntriesRead
<1>8. file' = g /\ section' = section /\ seen' = seen /\ values' = values /\ result' = "reading"
  BY DEF ReadBlank, g
<1> QED
  BY <1>2, <1>5, <1>6, <1>7, <1>8
  DEF FileInv, TypeOK, Reading, AcceptedIffWellFormed, ValuesAreTheFiles

LEMMA HeaderRead ==
  ASSUME FileInv, result = "reading", NEW l \in Line, file' = Append(file, l),
         l.kind = "header", section' = l.name,
         l.name \in KnownSection, l.name \notin seen, seen' = seen \cup {l.name},
         UNCHANGED <<values, result>>
  PROVE  FileInv'
<1> DEFINE f == file
           g == Append(f, l)
           n == Len(f) + 1
<1>1. f \in Seq(Line) /\ Reading
  BY DEF FileInv, TypeOK
<1>2. /\ g \in Seq(Line) /\ DOMAIN g = DOMAIN f \cup {n} /\ g[n] = l /\ n \in Nat
      /\ n \notin DOMAIN f /\ DOMAIN f \subseteq Nat
      /\ \A i \in DOMAIN f: i < n /\ g[i] = f[i]
  BY <1>1, AppendedLine
<1>3. /\ Headers(g) = Headers(f) \cup {n} /\ Entries(g) = Entries(f)
      /\ Headers(f) \subseteq DOMAIN f /\ Entries(f) \subseteq DOMAIN f
  BY <1>1, AppendedSets
<1>4. \A i \in DOMAIN f: QualifiedKeys(g, i) = QualifiedKeys(f, i)
  BY <1>1, EarlierKeys
<1> HIDE DEF g, n
<1>5. \A i \in DOMAIN g: g[i].kind # "other"
  BY <1>1, <1>2 DEF Reading
<1>6. Current(g, l.name)
  <2>1. \A j \in Headers(g): j <= n
    BY <1>2, <1>3
  <2> QED BY <1>2, <1>3, <2>1 DEF Current
<1>7. HeadersRead(g, seen \cup {l.name})
  <2>1. HeadersRead(f, seen)
    BY <1>1 DEF Reading
  <2>2. \A i \in Headers(f): g[i].name = f[i].name /\ g[i].name \in seen
    BY <1>2, <1>3, <2>1 DEF HeadersRead
  <2>3. g[n].name = l.name
    BY <1>2
  <2> QED BY <1>3, <2>1, <2>2, <2>3 DEF HeadersRead
<1>8. EntriesRead(g, values)
  BY <1>1, <1>2, <1>3, <1>4 DEF Reading, EntriesRead
<1>9. file' = g /\ values' = values /\ result' = "reading"
  BY DEF g
<1>10. l.name \in SectionName
  BY DEF Line
<1> QED
  BY <1>2, <1>5, <1>6, <1>7, <1>8, <1>9, <1>10
  DEF FileInv, TypeOK, Reading, AcceptedIffWellFormed, ValuesAreTheFiles

\* A value for a key that had none.
Extended(before, after, key, value) ==
  /\ key \notin DOMAIN before
  /\ DOMAIN after = DOMAIN before \cup {key} /\ after[key] = value
  /\ \A k \in DOMAIN before: after[k] = before[k]

LEMMA EntryFits ==
  ASSUME NEW f \in Seq(Line), NEW l \in Line, l.kind = "entry",
         NEW before, NEW after, NEW key, EntriesRead(f, before),
         QualifiedKeys(Append(f, l), Len(f) + 1) = {key},
         Extended(before, after, key, l.value)
  PROVE  EntriesRead(Append(f, l), after)
<1> DEFINE g == Append(f, l)
           n == Len(f) + 1
<1>1. /\ DOMAIN g = DOMAIN f \cup {n} /\ g[n] = l /\ n \notin DOMAIN f
      /\ \A i \in DOMAIN f: g[i] = f[i]
  BY AppendedLine
<1>2. Entries(g) = Entries(f) \cup {n} /\ Entries(f) \subseteq DOMAIN f
  BY AppendedSets
<1>3. \A i \in DOMAIN f: QualifiedKeys(g, i) = QualifiedKeys(f, i)
  BY EarlierKeys
<1>4. QualifiedKeys(g, n) = {key}
  OBVIOUS
<1> HIDE DEF g, n
<1>5. ASSUME NEW i \in Entries(f)
      PROVE  /\ QualifiedKeys(g, i) = QualifiedKeys(f, i)
             /\ QualifiedKeys(g, i) # {key}
             /\ \E k \in DOMAIN after: QualifiedKeys(g, i) = {k} /\ after[k] = g[i].value
  <2>1. i \in DOMAIN f /\ g[i] = f[i] /\ QualifiedKeys(g, i) = QualifiedKeys(f, i)
    BY <1>1, <1>2, <1>3
  <2>2. PICK k \in DOMAIN before: QualifiedKeys(f, i) = {k} /\ before[k] = f[i].value
    BY DEF EntriesRead
  <2> QED BY <2>1, <2>2 DEF Extended
<1>6. \A i \in Entries(g): \E k \in DOMAIN after:
        QualifiedKeys(g, i) = {k} /\ after[k] = g[i].value
  BY <1>1, <1>2, <1>4, <1>5 DEF Extended
<1>7. ASSUME NEW k \in DOMAIN before
      PROVE  \E i \in Entries(g): QualifiedKeys(g, i) = {k}
  <2>1. PICK i \in Entries(f): QualifiedKeys(f, i) = {k}
    BY DEF EntriesRead
  <2> QED BY <1>2, <1>5, <2>1
<1>8. \A k \in DOMAIN after: \E i \in Entries(g): QualifiedKeys(g, i) = {k}
  BY <1>2, <1>4, <1>7 DEF Extended
<1>9. \A i, j \in Entries(g): QualifiedKeys(g, i) = QualifiedKeys(g, j) => i = j
  BY <1>2, <1>4, <1>5 DEF EntriesRead
<1>10. EntriesRead(g, after)
  BY <1>6, <1>8, <1>9 DEF EntriesRead
<1> QED BY <1>10 DEF g

LEMMA NoOtherLine ==
  ASSUME NEW f \in Seq(Line), NEW l \in Line, l.kind # "other",
         \A i \in DOMAIN f: f[i].kind # "other"
  PROVE  /\ Append(f, l) \in Seq(Line)
         /\ \A i \in DOMAIN Append(f, l): Append(f, l)[i].kind # "other"
BY AppendedLine

LEMMA EntryRead ==
  ASSUME FileInv, result = "reading", NEW l \in Line, file' = Append(file, l),
         l.kind = "entry", section # "", NEW key, key = <<section, l.name>>,
         key \in KnownKey, key \notin DOMAIN values,
         Assign(key, l.value), UNCHANGED <<section, seen, result>>
  PROVE  FileInv'
<1>1. file \in Seq(Line) /\ Reading /\ Current(file, section) /\ HeadersRead(file, seen)
  BY DEF FileInv, TypeOK, Reading
<1>2. QualifiedKeys(Append(file, l), Len(file) + 1) = {key}
  BY <1>1, NewKey, NoSectionYet
<1>3. /\ DOMAIN values' = DOMAIN values \cup {key} /\ values'[key] = l.value
      /\ \A k \in DOMAIN values: values'[k] = values[k]
  BY DEF Assign
<1>4. EntriesRead(Append(file, l), values')
  <2>1. EntriesRead(file, values)
    BY <1>1 DEF Reading
  <2>2. Extended(values, values', key, l.value)
    BY <1>3 DEF Extended
  <2> QED BY <1>1, <1>2, <2>1, <2>2, EntryFits
<1>5. Current(Append(file, l), section) /\ HeadersRead(Append(file, l), seen)
  BY <1>1, SameHeaders
<1>6. /\ Append(file, l) \in Seq(Line)
      /\ \A i \in DOMAIN Append(file, l): Append(file, l)[i].kind # "other"
  <2>1. l.kind # "other" /\ \A i \in DOMAIN file: file[i].kind # "other"
    BY <1>1 DEF Reading
  <2> QED BY <1>1, <2>1, NoOtherLine, Zenon
<1>7. l.value \in Value
  BY DEF Line
<1>8. DOMAIN values' \subseteq KnownKey /\ \A k \in DOMAIN values': values'[k] \in Value
  BY <1>3, <1>7 DEF FileInv, TypeOK
<1>9. Reading'
  BY <1>4, <1>5, <1>6 DEF Reading
<1>10. section' = section /\ seen' = seen /\ result' = "reading"
  OBVIOUS
<1>11. TypeOK'
  BY <1>6, <1>8, <1>10 DEF FileInv, TypeOK
<1> QED
  BY <1>9, <1>10, <1>11
  DEF FileInv, AcceptedIffWellFormed, ValuesAreTheFiles

-----------------------------------------------------------------------------
(* What ends the reading *)

\* A file with one of these faults in its last line is not well-formed.
LEMMA OtherIsAFault ==
  ASSUME NEW f \in Seq(Line), NEW l \in Line, l.kind = "other"
  PROVE  ~WellFormed(Append(f, l))
BY AppendedLine DEF WellFormed

LEMMA UnknownHeaderIsAFault ==
  ASSUME NEW f \in Seq(Line), NEW l \in Line, l.kind = "header",
         l.name \notin KnownSection
  PROVE  ~WellFormed(Append(f, l))
<1> DEFINE g == Append(f, l)
           n == Len(f) + 1
<1>1. n \in Headers(g) /\ g[n] = l
  BY AppendedLine, AppendedSets
<1> HIDE DEF g, n
<1>2. ~WellFormed(g)
  BY <1>1 DEF WellFormed
<1> QED BY <1>2 DEF g

LEMMA RepeatedHeaderIsAFault ==
  ASSUME NEW f \in Seq(Line), NEW l \in Line, l.kind = "header",
         NEW names, HeadersRead(f, names), l.name \in names
  PROVE  ~WellFormed(Append(f, l))
<1> DEFINE g == Append(f, l)
           n == Len(f) + 1
<1>1. /\ n \in Headers(g) /\ g[n] = l /\ Headers(f) \subseteq Headers(g)
      /\ n \notin DOMAIN f /\ Headers(f) \subseteq DOMAIN f
      /\ \A i \in DOMAIN f: g[i] = f[i]
  BY AppendedLine, AppendedSets
<1> HIDE DEF g, n
<1>2. PICK i \in Headers(f): f[i].name = l.name
  BY DEF HeadersRead
<1>3. i \in Headers(g) /\ i # n /\ g[i].name = g[n].name
  BY <1>1, <1>2
<1>4. ~WellFormed(g)
  BY <1>1, <1>3 DEF WellFormed
<1> QED BY <1>4 DEF g

\* An entry before every header, or whose key is unknown.
LEMMA StrayEntryIsAFault ==
  ASSUME NEW f \in Seq(Line), NEW l \in Line, l.kind = "entry",
         \/ QualifiedKeys(Append(f, l), Len(f) + 1) = {}
         \/ ~(QualifiedKeys(Append(f, l), Len(f) + 1) \subseteq KnownKey)
  PROVE  ~WellFormed(Append(f, l))
<1> DEFINE g == Append(f, l)
           n == Len(f) + 1
<1>1. n \in Entries(g)
  BY AppendedSets
<1>2. QualifiedKeys(g, n) = {} \/ ~(QualifiedKeys(g, n) \subseteq KnownKey)
  OBVIOUS
<1> HIDE DEF g, n
<1>3. ~WellFormed(g)
  BY <1>1, <1>2 DEF WellFormed
<1> QED BY <1>3 DEF g

LEMMA RepeatedEntryIsAFault ==
  ASSUME NEW f \in Seq(Line), NEW l \in Line, l.kind = "entry",
         NEW assigned, EntriesRead(f, assigned), NEW key \in DOMAIN assigned,
         QualifiedKeys(Append(f, l), Len(f) + 1) = {key}
  PROVE  ~WellFormed(Append(f, l))
<1> DEFINE g == Append(f, l)
           n == Len(f) + 1
<1>1. /\ n \in Entries(g) /\ Entries(f) \subseteq Entries(g)
      /\ n \notin DOMAIN f /\ Entries(f) \subseteq DOMAIN f
  BY AppendedLine, AppendedSets
<1>2. \A i \in DOMAIN f: QualifiedKeys(g, i) = QualifiedKeys(f, i)
  BY EarlierKeys
<1>3. QualifiedKeys(g, n) = {key}
  OBVIOUS
<1> HIDE DEF g, n
<1>4. PICK i \in Entries(f): QualifiedKeys(f, i) = {key}
  BY DEF EntriesRead
<1>5. i \in Entries(g) /\ i # n /\ key \in QualifiedKeys(g, i) /\ key \in QualifiedKeys(g, n)
  BY <1>1, <1>2, <1>3, <1>4
<1>6. ASSUME WellFormed(g) PROVE FALSE
  <2>1. key \in KnownKey
    BY <1>1, <1>3, <1>6 DEF WellFormed
  <2>2. PICK m \in Entries(g): \A j \in Entries(g): key \in QualifiedKeys(g, j) => m = j
    BY <1>6, <2>1 DEF WellFormed
  <2> QED BY <1>1, <1>5, <2>2
<1> QED BY <1>6 DEF g

\* Every error of a line is one of the file.
LEMMA LineRefused ==
  ASSUME FileInv, NEW l \in Line, file' = Append(file, l),
         section' \in SectionName \cup {""}, NEW error \in {"kSyntax", "kUnknownKey", "kDuplicateKey"},
         Fail(error), ~WellFormed(Append(file, l))
  PROVE  FileInv'
<1>1. result' = error /\ seen' = seen /\ values' = values
  BY DEF Fail
<1>2. Append(file, l) \in Seq(Line)
  BY AppendedLine DEF FileInv, TypeOK
<1>3. TypeOK'
  BY <1>1, <1>2 DEF FileInv, TypeOK, ConfigError
<1> QED
  BY <1>1, <1>3 DEF FileInv, AcceptedIffWellFormed, ValuesAreTheFiles

\* At its end the file that was read without a fault is well-formed, unless a
\* key is missing.
LEMMA WholeFile ==
  ASSUME FileInv, result = "reading"
  PROVE  /\ DOMAIN values = KnownKey <=> WellFormed(file)
         /\ \A i \in Entries(file): \A k \in QualifiedKeys(file, i): values[k] = file[i].value
<1>1. Reading /\ DOMAIN values \subseteq KnownKey
  BY DEF FileInv, TypeOK
<1>2. EntriesRead(file, values) /\ HeadersRead(file, seen)
      /\ \A i \in DOMAIN file: file[i].kind # "other"
  BY <1>1 DEF Reading
<1>3. ASSUME NEW i \in Entries(file)
      PROVE  \E k \in DOMAIN values: QualifiedKeys(file, i) = {k} /\ values[k] = file[i].value
  BY <1>2 DEF EntriesRead
<1>4. \A k \in DOMAIN values: \E i \in Entries(file): QualifiedKeys(file, i) = {k}
  BY <1>2 DEF EntriesRead
<1>5. \A i, j \in Entries(file): QualifiedKeys(file, i) = QualifiedKeys(file, j) => i = j
  BY <1>2 DEF EntriesRead
<1>6. ASSUME DOMAIN values = KnownKey PROVE WellFormed(file)
  <2>1. ASSUME NEW k \in KnownKey
        PROVE  \E i \in Entries(file):
                 /\ k \in QualifiedKeys(file, i)
                 /\ \A j \in Entries(file): k \in QualifiedKeys(file, j) => i = j
    <3>1. PICK i \in Entries(file): QualifiedKeys(file, i) = {k}
      BY <1>4, <1>6
    <3>2. ASSUME NEW j \in Entries(file), k \in QualifiedKeys(file, j) PROVE i = j
      <4>1. QualifiedKeys(file, j) = {k}
        BY <1>3, <3>2
      <4> QED BY <1>5, <3>1, <4>1
    <3> QED BY <3>1, <3>2
  <2>2. \A i \in Entries(file): QualifiedKeys(file, i) # {} /\ QualifiedKeys(file, i) \subseteq KnownKey
    BY <1>1, <1>3
  <2>3. /\ \A i \in Headers(file): file[i].name \in KnownSection
        /\ \A i, j \in Headers(file): file[i].name = file[j].name => i = j
    BY <1>2 DEF HeadersRead
  <2> QED BY <1>2, <2>1, <2>2, <2>3 DEF WellFormed
<1>7. ASSUME WellFormed(file), NEW k \in KnownKey PROVE k \in DOMAIN values
  <2>1. PICK i \in Entries(file): k \in QualifiedKeys(file, i)
    BY <1>7 DEF WellFormed
  <2> QED BY <1>3, <2>1
<1>8. \A i \in Entries(file): \A k \in QualifiedKeys(file, i): values[k] = file[i].value
  BY <1>3
<1> QED BY <1>1, <1>6, <1>7, <1>8

-----------------------------------------------------------------------------
(* One lemma per action, and the theorems of the reader *)

LEMMA FileStarts ==
  ASSUME Init
  PROVE  FileInv
<1>1. DOMAIN file = {} /\ DOMAIN values = {} /\ result = "reading" /\ file \in Seq(Line)
  <2>1. file = <<>> /\ values = <<>> /\ result = "reading"
    BY DEF Init
  <2>2. DOMAIN file = {} /\ file \in Seq(Line)
    BY <2>1
  <2> QED BY <2>1, <2>2
<1>2. Headers(file) = {} /\ Entries(file) = {}
  BY <1>1 DEF Headers, Entries
<1>3. Reading
  BY <1>1, <1>2 DEF Init, Reading, Current, HeadersRead, EntriesRead
<1>4. TypeOK
  BY <1>1 DEF Init, TypeOK
<1> QED BY <1>1, <1>3, <1>4 DEF FileInv, AcceptedIffWellFormed, ValuesAreTheFiles

LEMMA ReadHeaderKeeps ==
  ASSUME FileInv, result = "reading", NEW l \in Line, file' = Append(file, l), ReadHeader(l)
  PROVE  FileInv'
<1>1. /\ file \in Seq(Line) /\ l.kind = "header" /\ section' = l.name /\ l.name \in SectionName
      /\ HeadersRead(file, seen)
  BY DEF FileInv, TypeOK, Reading, ReadHeader, Line
<1>2. CASE l.name \notin KnownSection
  <2>1. Fail("kSyntax") \/ Fail("kUnknownKey")
    BY <1>2 DEF ReadHeader
  <2>2. ~WellFormed(Append(file, l))
    BY <1>1, <1>2, UnknownHeaderIsAFault
  <2> QED BY <1>1, <2>1, <2>2, LineRefused
<1>3. CASE l.name \in KnownSection /\ l.name \in seen
  <2>1. Fail("kDuplicateKey")
    BY <1>3, KeysAssumption DEF ReadHeader
  <2>2. ~WellFormed(Append(file, l))
    BY <1>1, <1>3, RepeatedHeaderIsAFault
  <2> QED BY <1>1, <2>1, <2>2, LineRefused
<1>4. CASE l.name \in KnownSection /\ l.name \notin seen
  <2>1. seen' = seen \cup {l.name} /\ UNCHANGED <<values, result>>
    BY <1>4, KeysAssumption DEF ReadHeader
  <2> QED BY <1>1, <1>4, <2>1, HeaderRead
<1> QED BY <1>2, <1>3, <1>4

LEMMA ReadEntryKeeps ==
  ASSUME FileInv, result = "reading", NEW l \in Line, file' = Append(file, l), ReadEntry(l)
  PROVE  FileInv'
<1> DEFINE key == <<section, l.name>>
           keys == QualifiedKeys(Append(file, l), Len(file) + 1)
<1>1. /\ file \in Seq(Line) /\ l.kind = "entry" /\ section' = section
      /\ section \in SectionName \cup {""}
      /\ Current(file, section) /\ HeadersRead(file, seen) /\ EntriesRead(file, values)
  BY DEF FileInv, TypeOK, Reading, ReadEntry
<1>2. /\ section = "" => keys = {}
      /\ section # "" => keys = {key}
  BY <1>1, NewKey, NoSectionYet
<1>3. CASE section = ""
  <2>1. Fail("kSyntax")
    BY <1>3 DEF ReadEntry
  <2>2. ~WellFormed(Append(file, l))
    BY <1>1, <1>2, <1>3, StrayEntryIsAFault
  <2> QED BY <1>1, <2>1, <2>2, LineRefused
<1>4. CASE section # "" /\ key \notin KnownKey
  <2>1. Fail("kUnknownKey")
    BY <1>4 DEF ReadEntry
  <2>2. ~(keys \subseteq KnownKey)
    BY <1>2, <1>4
  <2>3. ~WellFormed(Append(file, l))
    BY <1>1, <2>2, StrayEntryIsAFault
  <2> QED BY <1>1, <2>1, <2>3, LineRefused
<1>5. CASE section # "" /\ key \in KnownKey /\ key \in DOMAIN values
  <2>1. Fail("kDuplicateKey")
    BY <1>5 DEF ReadEntry
  <2>2. ~WellFormed(Append(file, l))
    <3>1. keys = {key} /\ key \in DOMAIN values
      BY <1>2, <1>5
    <3> HIDE DEF key
    <3> QED BY <1>1, <3>1, RepeatedEntryIsAFault
  <2> QED BY <1>1, <2>1, <2>2, LineRefused
<1>6. CASE section # "" /\ key \in KnownKey /\ key \notin DOMAIN values
  <2>1. Assign(key, l.value) /\ UNCHANGED <<section, seen, result>>
    BY <1>6 DEF ReadEntry
  <2>2. key = <<section, l.name>>
    OBVIOUS
  <2> HIDE DEF key
  <2> QED BY <1>1, <1>6, <2>1, <2>2, EntryRead
<1> QED BY <1>3, <1>4, <1>5, <1>6

LEMMA ReadLineKeeps ==
  ASSUME FileInv, ReadLine
  PROVE  FileInv'
<1>1. result = "reading"
  BY DEF ReadLine
<1>2. PICK l \in Line: /\ file' = Append(file, l)
                       /\ ReadBlank(l) \/ ReadHeader(l) \/ ReadEntry(l) \/ ReadOther(l)
  BY DEF ReadLine
<1>3. CASE ReadBlank(l)
  BY <1>1, <1>2, <1>3, BlankRead
<1>4. CASE ReadHeader(l)
  BY <1>1, <1>2, <1>4, ReadHeaderKeeps
<1>5. CASE ReadEntry(l)
  BY <1>1, <1>2, <1>5, ReadEntryKeeps
<1>6. CASE ReadOther(l)
  <2>1. l.kind = "other" /\ Fail("kSyntax") /\ section' = section
    BY <1>6 DEF ReadOther
  <2>2. file \in Seq(Line) /\ section \in SectionName \cup {""}
    BY DEF FileInv, TypeOK
  <2>3. ~WellFormed(Append(file, l))
    BY <2>1, <2>2, OtherIsAFault
  <2> QED BY <1>2, <2>1, <2>2, <2>3, LineRefused
<1> QED BY <1>2, <1>3, <1>4, <1>5, <1>6

LEMMA EndOfFileKeeps ==
  ASSUME FileInv, EndOfFile
  PROVE  FileInv'
<1>1. /\ result = "reading" /\ file' = file /\ section' = section
      /\ seen' = seen /\ values' = values
  BY DEF EndOfFile, Fail
<1>2. /\ DOMAIN values = KnownKey <=> WellFormed(file)
      /\ \A i \in Entries(file): \A k \in QualifiedKeys(file, i): values[k] = file[i].value
  BY <1>1, WholeFile
<1>3. IF DOMAIN values = KnownKey THEN result' \in {"kNone", "kInvalidValue"}
      ELSE result' = "kMissingKey"
  BY DEF EndOfFile, ValuesResult, Fail
<1>4. TypeOK'
  BY <1>1, <1>3 DEF FileInv, TypeOK, ConfigError
<1>5. AcceptedIffWellFormed'
  BY <1>1, <1>2, <1>3 DEF AcceptedIffWellFormed
<1>6. ValuesAreTheFiles'
  BY <1>1, <1>2 DEF ValuesAreTheFiles
<1>7. result' # "reading"
  BY <1>3
<1> QED BY <1>4, <1>5, <1>6, <1>7 DEF FileInv

LEMMA OpenKeeps ==
  ASSUME FileInv, OpenFails \/ StreamFails
  PROVE  FileInv'
<1>1. /\ file' = file /\ section' = section /\ seen' = seen /\ values' = values
      /\ result' = "kFileOpen"
  BY DEF OpenFails, StreamFails, Fail
<1>2. TypeOK'
  BY <1>1 DEF FileInv, TypeOK, ConfigError
<1> QED BY <1>1, <1>2 DEF FileInv, AcceptedIffWellFormed, ValuesAreTheFiles

\* loadRuntimeConfig at every line of every file: what it remembers is what
\* the lines so far say.
THEOREM FileInvariant == Spec => []FileInv
<1>1. Init => FileInv
  BY FileStarts
<1>2. FileInv /\ [Next]_vars => FileInv'
  <2> SUFFICES ASSUME FileInv, [Next]_vars PROVE FileInv'
    OBVIOUS
  <2>1. CASE OpenFails \/ StreamFails
    BY <2>1, OpenKeeps
  <2>2. CASE ReadLine
    BY <2>2, ReadLineKeeps
  <2>3. CASE EndOfFile
    BY <2>3, EndOfFileKeeps
  <2>4. CASE UNCHANGED vars
    BY <2>4 DEF vars, FileInv, TypeOK, Reading, AcceptedIffWellFormed, ValuesAreTheFiles
  <2> QED BY <2>1, <2>2, <2>3, <2>4 DEF Next
<1> QED BY <1>1, <1>2, PTL DEF Spec

\* Whatever the file, of whatever length: loadRuntimeConfig has an error of
\* form exactly when the file is not well-formed.
THEOREM AcceptsTheWellFormed == Spec => []AcceptedIffWellFormed
<1>1. FileInv => AcceptedIffWellFormed
  BY DEF FileInv
<1> QED BY <1>1, FileInvariant, PTL

\* No entry of an accepted file overrides another: every value loadRuntimeConfig
\* returns is the one its own entry gives.
THEOREM ValuesComeFromTheFile == Spec => []ValuesAreTheFiles
<1>1. FileInv => ValuesAreTheFiles
  BY DEF FileInv
<1> QED BY <1>1, FileInvariant, PTL

=============================================================================
