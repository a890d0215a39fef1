------------------------------- MODULE MCCli -------------------------------
(***************************************************************************)
(* A small instance of Cli for TLC.                                        *)
(***************************************************************************)
EXTENDS Cli

CONSTANTS LastSequence, Lifetime

\* Motions of every age that live `Lifetime', and a zero.
MCCommand ==
  UNION {
    {[sequence |-> n, created |-> t, deadline |-> t + Lifetime, motion |-> "kWithinLimits"]:
       t \in 1..(Int64Max - Lifetime)}
    \cup {[sequence |-> n, created |-> 2, deadline |-> 2 + Lifetime, motion |-> "kExactZero"]}:
    n \in 1..LastSequence}

MCToken == 0..1

=============================================================================
