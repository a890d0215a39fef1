----------------------------- MODULE MCProtocol -----------------------------
(***************************************************************************)
(* The codec around the ends of int16_t, of a wire unit and of the limits. *)
(***************************************************************************)
EXTENDS Protocol, Bitwise

MCXor(a, b) == a ^^ b

Speeds == {-6000000, -300001, -300000, -1999, -1000, -999, 0, 1, 999, 1000, 255999,
           256000, 299999, 300000, 5999999, NaN}
Rates == {-32769000, -32768999, -32768000, -1, 0, 999, 32767999, 32768000, NaN}

MCMotion == [linear: Speeds, lateral: {0, 1000, 32768000, NaN}, yaw: Rates]
MCLimit == {NaN, 0, 300000, 5999999, 6000000}
MCWire == {-32768, -257, -1, 0, 1, 255, 256, 32767}
\* Every field takes every sampled value next to fields that differ from it.
MCReport ==
  {[control_allowed |-> ~inhibited, control_inhibited |-> inhibited,
    linear |-> v, lateral |-> w, yaw |-> -1, acceleration |-> <<w, v, 1>>,
    gyroscope |-> <<2, w, v>>, voltage |-> v % 65536]:
     inhibited \in BOOLEAN, v \in MCWire, w \in MCWire}
MCDamage == {0, 1, 2, 123, 125, 128, 255}

=============================================================================
