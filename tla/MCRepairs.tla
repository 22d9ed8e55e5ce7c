----------------------------- MODULE MCRepairs -----------------------------
(* Repairs for TLC: a goal with two assumptions, two events, and one call   *)
(* of spawn_goals that two executions of its turn can make.                 *)
EXTENDS Repairs
=============================================================================
