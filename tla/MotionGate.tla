----------------------------- MODULE MotionGate -----------------------------
(***************************************************************************)
(* What the safety session promises to whoever stands near the vehicle,    *)
(* without commands, tokens, watchdogs or time: a gate that a motion frame *)
(* has to pass, and the last complete frame on the line.                   *)
(*                                                                         *)
(*   lost      the session does not know the line as it is now             *)
(*   stopping  a zero frame is owed and still being attempted              *)
(*   shut      no motion is permitted                                      *)
(*   ready     motion is permitted and not yet, or no longer, requested    *)
(*   open      motion frames may leave                                     *)
(*   failed    the attempts to send the zero frame are exhausted           *)
(***************************************************************************)
VARIABLES gate, wire

Gate == {"lost", "stopping", "shut", "ready", "open", "failed"}

TypeOK == gate \in Gate /\ wire \in {"none", "motion", "zero"}

Init == gate \in {"lost", "stopping"} /\ wire = "none"

\* A step, and a write that failed, may leave the wire as it was or with a
\* frame on it: a zero frame from any gate, a motion frame from an open one.
AnyFrame ==
  \/ wire' \in {wire, "zero"}
  \/ gate = "open" /\ wire' = "motion"

\* The line is gone, or another one has taken its place.
Lose == gate' = "lost" /\ AnyFrame

\* Any line newly found, and any withdrawn permission, owes a zero frame.
Halt == gate # "failed" /\ gate' = "stopping" /\ AnyFrame

\* The zero frame has left; only a permission that survived the stop leaves
\* the gate ready, and none survives a new line.
Zeroed ==
  /\ gate \in {"lost", "stopping", "open"}
  /\ wire' = "zero"
  /\ gate' \in (IF gate = "lost" THEN {"shut"} ELSE {"shut", "ready"})

GiveUp ==
  /\ gate \in {"lost", "stopping", "open"}
  /\ gate' = "failed"
  /\ AnyFrame

\* The operator authorizes, or an interrupted run of commands starts again.
Permit == gate \in {"shut", "ready", "open"} /\ gate' = "ready" /\ UNCHANGED wire

Open == gate \in {"ready", "open"} /\ gate' = "open" /\ UNCHANGED wire

Move == gate = "open" /\ wire' = "motion" /\ UNCHANGED gate

\* A zero frame on the way out of the process asks nobody.
Calm == wire' = "zero" /\ UNCHANGED gate

Next == Lose \/ Halt \/ Permit \/ Calm \/ Zeroed \/ GiveUp \/ Open \/ Move

Spec == Init /\ [][Next]_<<gate, wire>>

=============================================================================
