---------------------- MODULE MCSafetySessionHistory ----------------------
(***************************************************************************)
(* A small instance of SafetySessionHistory for TLC.                       *)
(***************************************************************************)
EXTENDS SafetySessionHistory

CONSTANTS LastSequence, Lifetime

\* Motions created at any time after an authorization can be, in any order
\* of their sequence numbers (one from the future is malformed), and one
\* command of each other class: a zero and a rejected motion.
Motions ==
  {[sequence |-> n, created |-> t, deadline |-> t + Lifetime, motion |-> "kWithinLimits"]:
     n \in 1..LastSequence, t \in 2..(Int64Max - Lifetime)}
Latest == [sequence |-> LastSequence, created |-> Int64Max - Lifetime, deadline |-> Int64Max,
           motion |-> "kWithinLimits"]
MCCommand ==
  Motions
  \cup {[Latest EXCEPT !.motion = "kExactZero"], [Latest EXCEPT !.motion = "kRejected"]}

MCToken == 1..2

\* Bounds: the first states in which the session has seen the last instant, or
\* accepted a second reset of the emergency stop, are checked and not followed.
ClockBound == session.last_observed < Int64Max
ResetBound == session.highest_reset < 2

=============================================================================
