----------------------- MODULE SafetySessionHistory -----------------------
(***************************************************************************)
(* SafetySession with a history variable: what the owner of a session, who *)
(* sees only the calls it makes, their results and the frames that leave,  *)
(* knows about the past.  Every action is one of the session's with a new  *)
(* value of hist; the promises of the session are stated about hist.       *)
(***************************************************************************)
EXTENDS SafetySession

VARIABLE hist

hvars == <<session, transport, cycle, wire, hist>>

\* armed: the operator authorized motion and nothing has revoked it since.
\* run: commands accepted in a row, none of them late.
\* receipt: when the last of them was accepted.
\* zeroed: a zero frame left in time on the transport's present generation.
\* allowed: the VCU has allowed control since the last interruption (an
\* inhibiting frame, an emergency stop, a clock failure, a new connection).
\* latch_zeroed: a zero frame has left since the last emergency stop.
\* failed_zeros: zero writes that failed in a row on this generation.
\* moved: when the last motion frame on this generation was complete on the
\* line (0: none), by the time the transport reported; late: that was past the
\* deadline of its write.
History == [armed: BOOLEAN, run: Nat, receipt: Time, zeroed: BOOLEAN,
            latch_zeroed: BOOLEAN, allowed: BOOLEAN, failed_zeros: Nat,
            moved: Time, late: BOOLEAN]

NoHistory == [armed |-> FALSE, run |-> 0, receipt |-> 0, zeroed |-> FALSE,
              latch_zeroed |-> FALSE, allowed |-> FALSE, failed_zeros |-> 0,
              moved |-> 0, late |-> FALSE]

\* The vehicle is, or is about to be, stopped; the permission may remain.
Stopped(h) == [h EXCEPT !.run = 0, !.receipt = 0]
Revoked(h) == [Stopped(h) EXCEPT !.armed = FALSE]
Inhibiting(h) == [Revoked(h) EXCEPT !.allowed = FALSE]
NewLine(h) == [Inhibiting(h) EXCEPT !.zeroed = FALSE, !.failed_zeros = 0,
                                    !.moved = 0, !.late = FALSE]

\* A call at an impossible time is itself an interruption.
Timed(h, now) == IF TimeValid(session, now) THEN h ELSE Inhibiting(h)

\* An accepted command continues the run, or starts one if it came too late.
Counted(h, now) ==
  [h EXCEPT !.run = IF h.run > 0 /\ now - h.receipt > MaxCommandAge THEN 1 ELSE h.run + 1,
            !.receipt = now]

AuthorizeH(token, now) ==
  /\ Authorize(token, now)
  /\ hist' = IF session'.highest_token # session.highest_token
             THEN [Stopped(hist) EXCEPT !.armed = TRUE] ELSE Timed(hist, now)

\* The caller is told that his command was wrong, not merely out of time.
Rejected(c, now) ==
  /\ Goes(now)
  /\ SubmissionStatus(Entered(now), c, now)
       \in {"kSequenceInvalid", "kTimestampInvalid", "kEncodingRejected"}

SubmitH(c, now) ==
  /\ Submit(c, now)
  /\ hist' = IF session'.command.valid /\ session'.command.sequence = c.sequence
             THEN Counted(hist, now)
             ELSE IF Rejected(c, now) THEN Revoked(hist) ELSE Timed(Stopped(hist), now)

ObserveFeedbackH(decoded, now) ==
  /\ ObserveFeedback(decoded, now)
  /\ hist' = IF ~Goes(now) \/ decoded = "kInvalid" THEN Timed(hist, now)
             ELSE IF decoded = "kControlAllowed" THEN [hist EXCEPT !.allowed = TRUE]
             ELSE Inhibiting(hist)

StopH(now) ==
  \/ Disarm(now) /\ hist' = Timed(Revoked(hist), now)
  \/ RequestStop(now) /\ hist' = Timed(Stopped(hist), now)
  \/ LatchEmergencyStop(now) /\ hist' = [Inhibiting(hist) EXCEPT !.latch_zeroed = FALSE]

ResetH(token, now) ==
  /\ ResetEmergencyStop(token, now)
  /\ hist' = IF session.estop THEN Timed(Revoked(hist), now) ELSE hist

\* A motion frame the tick left on the line; only one in time is reported as
\* the action of the tick.
FrameSeen(h) ==
  IF cycle'.motion_completion > 0
  THEN [h EXCEPT !.moved = cycle'.motion_completion,
                 !.late = cycle'.action # "kMotionHostWriteComplete"]
  ELSE h

\* A tick writes at most one motion and one zero frame.
TickH(now) ==
  /\ Tick(now)
  /\ LET failed_motion == cycle'.motion_write_attempted /\ cycle'.action # "kMotionHostWriteComplete"
         seen == FrameSeen(IF failed_motion THEN Revoked(hist) ELSE Timed(hist, now))
         closed == ~transport'.connected
     IN hist' =
          IF closed THEN NewLine(seen)
          ELSE IF ~cycle'.zero_write_attempted THEN seen
          ELSE IF cycle'.action = "kZeroHostWriteComplete"
               THEN [Stopped(seen) EXCEPT !.zeroed = TRUE, !.latch_zeroed = TRUE,
                                          !.failed_zeros = 0]
          ELSE [Stopped(seen) EXCEPT !.failed_zeros = seen.failed_zeros + 1]

TransportH ==
  /\ TransportLost \/ TransportReopened
  /\ hist' = NewLine(hist)

HInit == Init /\ hist = NoHistory

HNext ==
  \/ \E now \in Time:
       \/ \E token \in Token: AuthorizeH(token, now) \/ ResetH(token, now)
       \/ \E c \in Command: SubmitH(c, now)
       \/ \E decoded \in {"kInvalid", "kControlAllowed", "kControlInhibited"}:
            ObserveFeedbackH(decoded, now)
       \/ StopH(now)
       \/ TickH(now)
  \/ TransportH

HSpec == HInit /\ [][HNext]_hvars

-----------------------------------------------------------------------------
(* Properties *)

\* A motion frame is written only after a zero frame has left on this
\* connection, while an authorization granted on it is unrevoked, the VCU has
\* not inhibited control since it last allowed it, and FreshCommandsRequired
\* commands in a row arrived in time: no sequence of reconnects, stops, resets
\* and re-authorizations opens a short cut.
MotionIsPermitted ==
  [][cycle'.motion_write_attempted =>
       /\ hist.zeroed /\ hist.armed /\ hist.allowed
       /\ hist.run >= FreshCommandsRequired]_hvars

\* Two motion frames are complete on one line at least a transmit period apart,
\* whatever stops, re-authorizations, emergency stops and clock failures come
\* between them.  tick() records no frame whose write came late, so that a late
\* frame is held to the period of the one before it but starts none.
MotionRateIsLimited ==
  [][cycle'.motion_completion > 0 /\ hist.moved > 0 /\ ~hist.late
       => cycle'.motion_completion - hist.moved >= TransmitPeriod]_hvars

\* The emergency stop is released only when a zero frame has left since it
\* was latched and the VCU has allowed control since, without a reconnect,
\* an inhibiting frame or a clock failure in between.
ReleaseIsEarned ==
  [][session.estop /\ ~session'.estop
       => hist.latch_zeroed /\ hist.allowed /\ hist.zeroed]_hvars

\* New stops and emergency stops never refill the retry budget of a running
\* zero episode: at most MaximumZeroAttempts writes fail in a row on a line.
RetryBudgetIsBounded == hist.failed_zeros <= MaximumZeroAttempts

=============================================================================
