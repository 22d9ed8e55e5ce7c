---------------------------- MODULE MCMemories ----------------------------
(* Memories for TLC: two instances with a memory each; the snapshot that   *)
(* one of them pushes is pulled and activated by the other, and what goes  *)
(* back goes by the operator.  One trusts the other, which trusts nobody   *)
(* but takes what is not signed.                                           *)
EXTENDS Memories

CONSTANTS A, B, m1, m2, pa

Both == {A, B}
TwoMemories == {m1, m2}
OneEach == [m \in {m1, m2} |-> IF m = m1 THEN A ELSE B]
OneProvider == {pa}
OnePush == {<<A, pa>>}
OnePull == {<<B, pa>>}
TrustsA == [n \in Both |-> IF n = B THEN {A} ELSE {}]
JustB == {B}
=============================================================================
