------------------------------ MODULE MCTurns ------------------------------
(* Instances of Turns for TLC.                                             *)
EXTENDS Turns

\* Two turns that share a pool of one place.  The first call of "s" may wait for
\* two events, one after the other.
TwoTurns == {"s", "t"}
TwoUsers == TwoTurns \X (1..MaxAttempts)
TwoTool == [x \in TwoTurns |-> IF x = "s" THEN <<"event", "gated">> ELSE <<"timer">>]
Waits == [k \in {"event", "timer"} |-> IF k = "event" THEN 2 ELSE 1]
=============================================================================
