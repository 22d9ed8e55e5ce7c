----------------------------- MODULE Semaphore -----------------------------
(***************************************************************************)
(* What a resource pool promises its users: never more of them inside than *)
(* it has places, and nobody waits in front of a free place.               *)
(***************************************************************************)
EXTENDS Naturals, FiniteSets

CONSTANTS Users, Capacity

VARIABLES held, wanting

Init == held = {} /\ wanting = {}

Take(u) ==
  /\ u \notin held \cup wanting
  /\ wanting = {} /\ Cardinality(held) < Capacity
  /\ held' = held \cup {u}
  /\ UNCHANGED wanting

Ask(u) ==
  /\ u \notin held \cup wanting
  /\ Cardinality(held) = Capacity
  /\ wanting' = wanting \cup {u}
  /\ UNCHANGED held

\* The place goes to somebody who wants it, if there is anybody.
GiveBack(u) ==
  /\ u \in held
  /\ \/ wanting = {} /\ held' = held \ {u} /\ UNCHANGED wanting
     \/ \E w \in wanting : held' = (held \ {u}) \cup {w} /\ wanting' = wanting \ {w}

GiveUp(u) ==
  /\ u \in wanting
  /\ wanting' = wanting \ {u}
  /\ UNCHANGED held

\* The process is gone, and with it everybody inside and in front.
Vanish == held' = {} /\ wanting' = {}

Next ==
  \/ \E u \in Users : Take(u) \/ Ask(u) \/ GiveBack(u) \/ GiveUp(u)
  \/ Vanish

Spec == Init /\ [][Next]_<<held, wanting>>
=============================================================================
