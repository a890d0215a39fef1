-------------------------- MODULE MCFeedbackParser --------------------------
(***************************************************************************)
(* A small instance of FeedbackParser for TLC: two-bit bytes.              *)
(***************************************************************************)
EXTENDS FeedbackParser, Bitwise

MCXor(a, b) == a ^^ b

=============================================================================
