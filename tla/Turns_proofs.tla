---------------------------- MODULE Turns_proofs ----------------------------
(***************************************************************************)
(* Theorems about Turns, for any number of turns, tools, attempts and      *)
(* faults and any capacity of the pool.                                    *)
(***************************************************************************)
EXTENDS Turns, FiniteSetTheorems, SequenceTheorems, TLAPS

-----------------------------------------------------------------------------
(* The pool by itself.                                                     *)

PlacesCounted ==
  /\ IsFiniteSet(Inside) /\ active = Cardinality(Inside)
  /\ active <= Capacity
  /\ queue # << >> => active = Capacity

QueueMatches ==
  /\ \A u \in Users : slot[u] = "queued" <=> \E i \in DOMAIN queue : queue[i] = u
  /\ \A i, j \in DOMAIN queue : queue[i] = queue[j] => i = j
  /\ \A i \in DOMAIN queue : queue[i] \notin aborted

PoolInv == PoolTypeOK /\ PlacesCounted /\ QueueMatches

\* What drain() comes to when no entry of the queue has been aborted: the
\* place goes to the oldest entry, or comes free.
LEMMA DrainHandsOver ==
  ASSUME PoolInv, NEW u \in Users, Drain(u), slot[u] # "queued"
  PROVE  \/ /\ queue = << >> /\ queue' = << >> /\ active' = active - 1
            /\ slot' = [slot EXCEPT ![u] = "none"]
         \/ /\ queue # << >> /\ active' = active
            /\ Len(queue) \in Nat \ {0} /\ DOMAIN queue = 1..Len(queue)
            /\ queue' = SubSeq(queue, 2, Len(queue))
            /\ queue[1] \in Users /\ slot[queue[1]] = "queued" /\ queue[1] # u
            /\ slot' = [slot EXCEPT ![u] = "none", ![queue[1]] = "granted"]
<1>1. Live = DOMAIN queue /\ DOMAIN queue = 1..Len(queue) /\ Len(queue) \in Nat
  <2>1. queue \in Seq(Users)
    BY DEF PoolInv, PoolTypeOK
  <2>2. \A i \in DOMAIN queue : queue[i] \notin aborted
    BY DEF PoolInv, QueueMatches
  <2>3. Live = DOMAIN queue
    BY <2>2 DEF Live
  <2>4. DOMAIN queue = 1..Len(queue) /\ Len(queue) \in Nat
    BY <2>1
  <2> QED BY <2>3, <2>4
<1>2. slot \in [Users -> {"none", "queued", "granted", "held"}] /\ queue \in Seq(Users)
  BY DEF PoolInv, PoolTypeOK
<1>3. CASE queue = << >>
  <2>1. Live = {}
    BY <1>1, <1>3
  <2>2. \A x \in Users : slot[x] # "queued"
    BY <1>3 DEF PoolInv, QueueMatches
  <2>3. slot' = [x \in Users |-> IF x = u \/ slot[x] = "queued" THEN "none" ELSE slot[x]]
    BY <2>1 DEF Drain
  <2>4. slot' = [slot EXCEPT ![u] = "none"]
    BY <1>2, <2>2, <2>3
  <2> QED BY <1>3, <2>1, <2>4 DEF Drain
<1>4. CASE queue # << >>
  <2>1. Len(queue) \in Nat \ {0}
    BY <1>1, <1>2, <1>4, EmptySeq
  <2>2. 1 \in Live /\ Live # {}
    BY <1>1, <2>1
  <2> DEFINE first == CHOOSE i \in Live : \A j \in Live : i <= j
  <2>3. first = 1
    <3>1. \E i \in Live : \A j \in Live : i <= j
      <4>1. \A j \in Live : 1 <= j
        BY <1>1
      <4> QED BY <2>2, <4>1
    <3>2. first \in Live /\ \A j \in Live : first <= j
      BY <3>1
    <3> HIDE DEF first
    <3> QED BY <1>1, <2>2, <3>2
  <2>4. /\ active' = active /\ queue' = SubSeq(queue, first + 1, Len(queue))
        /\ slot' = [x \in Users |-> IF x = queue[first] THEN "granted"
                      ELSE IF x = u \/ x \in {queue[i] : i \in 1..first - 1} THEN "none" ELSE slot[x]]
    BY <2>2 DEF Drain
  <2>5. queue[1] \in Users /\ slot[queue[1]] = "queued" /\ queue[1] # u
    BY <1>1, <1>2, <2>2 DEF PoolInv, QueueMatches
  <2>6. 1..1 - 1 = {}
    OBVIOUS
  <2> HIDE DEF first
  <2>7. slot' = [x \in Users |-> IF x = queue[1] THEN "granted" ELSE IF x = u THEN "none" ELSE slot[x]]
    BY <2>3, <2>4, <2>6
  <2>8. slot' = [slot EXCEPT ![u] = "none", ![queue[1]] = "granted"]
    BY <1>2, <2>5, <2>7
  <2>9. queue' = SubSeq(queue, 2, Len(queue))
    BY <2>3, <2>4
  <2> QED BY <1>1, <1>4, <2>1, <2>4, <2>5, <2>8, <2>9
<1> QED BY <1>3, <1>4

\* The instance counts as this module does.
LEMMA SameCount == Places!Cardinality(Inside) = Cardinality(Inside)
BY DEF Places!Cardinality, Cardinality

\* An empty pool keeps its invariant and maps to an empty semaphore.
LEMMA PoolStart == PoolInit => PoolInv /\ Places!Init
<1> SUFFICES ASSUME PoolInit PROVE PoolInv /\ Places!Init
  OBVIOUS
<1>1. Inside = {} /\ Waiting = {}
  BY DEF PoolInit, Inside, Waiting
<1>2. PoolTypeOK
  BY DEF PoolInit, PoolTypeOK
<1>3. IsFiniteSet(Inside) /\ Cardinality(Inside) = 0
  BY <1>1, FS_EmptySet
<1>4. active = 0 /\ queue = << >> /\ DOMAIN queue = {} /\ \A u \in Users : slot[u] # "queued"
  BY DEF PoolInit
<1>5. 0 <= Capacity
  BY PoolAssumption
<1> QED BY <1>1, <1>2, <1>3, <1>4, <1>5 DEF PoolInv, PlacesCounted, QueueMatches, Places!Init

\* What stays of the queue when the entry of one user is taken out.
LEMMA WithoutRemoves ==
  ASSUME PoolInv, NEW u \in Users, slot[u] = "queued"
  PROVE  /\ queue # << >> /\ Without(u) \in Seq(Users)
         /\ \A i \in DOMAIN Without(u) : \E j \in DOMAIN queue : Without(u)[i] = queue[j]
         /\ \A x \in Users : (x # u /\ slot[x] = "queued") <=> \E i \in DOMAIN Without(u) : Without(u)[i] = x
         /\ \A i, j \in DOMAIN Without(u) : Without(u)[i] = Without(u)[j] => i = j
<1> DEFINE n == Len(queue)
           at == CHOOSE j \in DOMAIN queue : queue[j] = u
           rest == Without(u)
<1>1. queue \in Seq(Users)
  BY DEF PoolInv, PoolTypeOK
<1>2. n \in Nat /\ DOMAIN queue = 1..n /\ \A i \in 1..n : queue[i] \in Users
  BY <1>1
<1>3. \A x \in Users : slot[x] = "queued" <=> \E i \in 1..n : queue[i] = x
  BY <1>2 DEF PoolInv, QueueMatches
<1>4. \A i, j \in 1..n : queue[i] = queue[j] => i = j
  BY <1>2 DEF PoolInv, QueueMatches
<1>5. at \in 1..n /\ queue[at] = u
  BY <1>2, <1>3
<1>6. rest = [j \in 1..n - 1 |-> IF j < at THEN queue[j] ELSE queue[j + 1]]
  BY DEF Without
<1> HIDE DEF n, at, rest
<1>7. DOMAIN rest = 1..n - 1 /\ n - 1 \in Nat
  BY <1>2, <1>5, <1>6
<1>8. \A j \in 1..n - 1 : rest[j] = IF j < at THEN queue[j] ELSE queue[j + 1]
  BY <1>6
<1>9. \A j \in 1..n - 1 : j \in 1..n /\ j + 1 \in 1..n
  BY <1>2
<1>10. rest \in Seq(Users)
  <2>1. \A j \in 1..n - 1 : rest[j] \in Users
    BY <1>2, <1>8, <1>9
  <2> QED BY <1>6, <1>7, <2>1
<1>11. \A i \in 1..n - 1 : \E j \in 1..n : rest[i] = queue[j] /\ j # at /\ (i < at => j = i) /\ (i >= at => j = i + 1)
  <2> SUFFICES ASSUME NEW i \in 1..n - 1
               PROVE  \E j \in 1..n : rest[i] = queue[j] /\ j # at /\ (i < at => j = i) /\ (i >= at => j = i + 1)
    OBVIOUS
  <2>1. CASE i < at
    BY <2>1, <1>2, <1>5, <1>8, <1>9
  <2>2. CASE ~(i < at)
    BY <2>2, <1>2, <1>5, <1>8, <1>9
  <2> QED BY <2>1, <2>2
<1>12. \A x \in Users : (x # u /\ slot[x] = "queued") => \E i \in 1..n - 1 : rest[i] = x
  <2> SUFFICES ASSUME NEW x \in Users, x # u, slot[x] = "queued"
               PROVE  \E i \in 1..n - 1 : rest[i] = x
    OBVIOUS
  <2>1. PICK j \in 1..n : queue[j] = x
    BY <1>3
  <2>2. j # at
    BY <2>1, <1>5
  <2>3. CASE j < at
    <3>1. j \in 1..n - 1 /\ rest[j] = x
      BY <1>2, <1>5, <1>8, <2>1, <2>3
    <3> QED BY <3>1
  <2>4. CASE j > at
    <3>1. j - 1 \in 1..n - 1 /\ ~(j - 1 < at) /\ (j - 1) + 1 = j
      BY <1>2, <1>5, <2>4
    <3>2. rest[j - 1] = x
      BY <1>8, <2>1, <3>1
    <3> QED BY <3>1, <3>2
  <2> QED BY <1>2, <1>5, <2>2, <2>3, <2>4
<1>13. \A x \in Users : (\E i \in 1..n - 1 : rest[i] = x) => x # u /\ slot[x] = "queued"
  BY <1>3, <1>4, <1>5, <1>11
<1>14. \A i, j \in 1..n - 1 : rest[i] = rest[j] => i = j
  <2> SUFFICES ASSUME NEW i \in 1..n - 1, NEW j \in 1..n - 1, rest[i] = rest[j]
               PROVE  i = j
    OBVIOUS
  <2>1. PICK k \in 1..n : rest[i] = queue[k] /\ (i < at => k = i) /\ (i >= at => k = i + 1)
    BY <1>11
  <2>2. PICK l \in 1..n : rest[j] = queue[l] /\ (j < at => l = j) /\ (j >= at => l = j + 1)
    BY <1>11
  <2>3. k = l
    BY <1>4, <2>1, <2>2
  <2> QED BY <1>2, <1>5, <2>1, <2>2, <2>3
<1>15. queue # << >>
  BY <1>2, <1>5
<1>16. rest = Without(u)
  BY DEF rest
<1>17. \A i \in DOMAIN rest : \E j \in DOMAIN queue : rest[i] = queue[j]
  BY <1>2, <1>7, <1>11
<1>18. \A x \in Users : (x # u /\ slot[x] = "queued") <=> \E i \in DOMAIN rest : rest[i] = x
  BY <1>7, <1>12, <1>13
<1>19. \A i, j \in DOMAIN rest : rest[i] = rest[j] => i = j
  BY <1>7, <1>14
<1> QED BY <1>10, <1>15, <1>16, <1>17, <1>18, <1>19

\* One user more or less inside, as the counter sees it.
LEMMA OneMoreInside ==
  ASSUME PoolInv, NEW u \in Users, slot[u] \notin {"granted", "held"}, Inside' = Inside \cup {u},
         active' = active + 1
  PROVE  IsFiniteSet(Inside') /\ active' = Cardinality(Inside')
<1>1. u \notin Inside /\ IsFiniteSet(Inside) /\ active = Cardinality(Inside)
  BY DEF Inside, PoolInv, PlacesCounted
<1> QED BY <1>1, FS_AddElement

\* And the other way round.
LEMMA OneLessInside ==
  ASSUME PoolInv, NEW u \in Users, slot[u] \in {"granted", "held"}, Inside' = Inside \ {u},
         active' = active - 1
  PROVE  IsFiniteSet(Inside') /\ active' = Cardinality(Inside')
<1>1. u \in Inside /\ IsFiniteSet(Inside) /\ active = Cardinality(Inside)
  BY DEF Inside, PoolInv, PlacesCounted
<1> QED BY <1>1, FS_RemoveElement

\* A call takes a free place or joins the queue.
LEMMA AcquireStep ==
  ASSUME PoolInv, NEW u \in Users, Acquire(u)
  PROVE  PoolInv' /\ [Places!Next]_<<Inside, Waiting>>
<1>0. /\ slot \in [Users -> {"none", "queued", "granted", "held"}] /\ queue \in Seq(Users)
      /\ active \in Nat /\ aborted \subseteq Users
  BY DEF PoolInv, PoolTypeOK
<1>1. slot[u] = "none" /\ aborted' = aborted
  BY DEF Acquire
<1>2. Capacity \in Nat
  BY PoolAssumption
<1>3. CASE u \in aborted
  <2>1. UNCHANGED poolVars
    BY <1>3 DEF Acquire, poolVars
  <2>2. UNCHANGED <<Inside, Waiting>>
    BY <2>1 DEF poolVars, Inside, Waiting
  <2> QED BY <2>1, <2>2 DEF poolVars, PoolInv, PoolTypeOK, PlacesCounted, QueueMatches
<1>4. CASE u \notin aborted /\ active < Capacity
  <2>1. active' = active + 1 /\ queue' = queue /\ slot' = [slot EXCEPT ![u] = "granted"]
    BY <1>4 DEF Acquire
  <2>2. queue = << >>
    BY <1>0, <1>2, <1>4 DEF PoolInv, PlacesCounted
  <2>3. Inside' = Inside \cup {u} /\ Waiting' = Waiting
    BY <1>0, <1>1, <2>1 DEF Inside, Waiting
  <2>4. Waiting = {} /\ u \notin Inside /\ Cardinality(Inside) < Capacity
    BY <1>1, <1>4, <2>2 DEF Inside, Waiting, PoolInv, PlacesCounted, QueueMatches
  <2>5. PoolTypeOK'
    BY <1>0, <1>1, <2>1 DEF PoolTypeOK
  <2>6. PlacesCounted'
    <3>1. IsFiniteSet(Inside') /\ active' = Cardinality(Inside')
      BY <1>1, <2>1, <2>3, OneMoreInside
    <3>2. active' <= Capacity /\ queue' = << >>
      BY <1>0, <1>2, <1>4, <2>1, <2>2
    <3> QED BY <3>1, <3>2 DEF PlacesCounted
  <2>7. QueueMatches'
    BY <1>0, <1>1, <2>1, <2>2 DEF QueueMatches, PoolInv
  <2>8. Places!Take(u)
    BY <2>3, <2>4, SameCount DEF Places!Take
  <2>9. Places!Next
    BY <2>8 DEF Places!Next
  <2> QED BY <2>5, <2>6, <2>7, <2>9 DEF PoolInv
<1>5. CASE u \notin aborted /\ ~(active < Capacity)
  <2>1. active' = active /\ queue' = Append(queue, u) /\ slot' = [slot EXCEPT ![u] = "queued"]
    BY <1>5 DEF Acquire
  <2>2. active = Capacity /\ Cardinality(Inside) = Capacity
    BY <1>0, <1>2, <1>5 DEF PoolInv, PlacesCounted
  <2>3. Inside' = Inside /\ Waiting' = Waiting \cup {u} /\ u \notin Inside \cup Waiting
    BY <1>0, <1>1, <2>1 DEF Inside, Waiting
  <2>4. PoolTypeOK'
    BY <1>0, <1>1, <2>1 DEF PoolTypeOK
  <2>5. PlacesCounted'
    BY <2>1, <2>2, <2>3 DEF PlacesCounted, PoolInv
  <2>6. QueueMatches'
    <3>1. /\ DOMAIN queue = 1..Len(queue) /\ Len(queue) \in Nat
          /\ DOMAIN queue' = 1..Len(queue) + 1 /\ queue'[Len(queue) + 1] = u
          /\ \A i \in 1..Len(queue) : queue'[i] = queue[i]
      BY <1>0, <2>1
    <3>2. \A i \in 1..Len(queue) : queue[i] # u
      BY <1>0, <1>1, <3>1 DEF QueueMatches, PoolInv
    <3>3. \A i \in 1..Len(queue) + 1 : i \in 1..Len(queue) \/ i = Len(queue) + 1
      BY <3>1
    <3>4. Len(queue) + 1 \in 1..Len(queue) + 1 /\ \A i \in 1..Len(queue) : i \in 1..Len(queue) + 1
      BY <3>1
    <3>5. \A x \in Users : slot'[x] = IF x = u THEN "queued" ELSE slot[x]
      BY <1>0, <2>1
    <3>6. /\ \A x \in Users : slot[x] = "queued" <=> \E i \in 1..Len(queue) : queue[i] = x
          /\ \A i, j \in 1..Len(queue) : queue[i] = queue[j] => i = j
          /\ \A i \in 1..Len(queue) : queue[i] \notin aborted
      BY <3>1 DEF QueueMatches, PoolInv
    <3>7. \A x \in Users : slot'[x] = "queued" <=> \E i \in DOMAIN queue' : queue'[i] = x
      BY <3>1, <3>3, <3>4, <3>5, <3>6
    <3>8. \A i, j \in DOMAIN queue' : queue'[i] = queue'[j] => i = j
      BY <3>1, <3>2, <3>3, <3>6
    <3>9. \A i \in DOMAIN queue' : queue'[i] \notin aborted'
      BY <1>1, <1>5, <3>1, <3>3, <3>6
    <3> QED BY <3>7, <3>8, <3>9 DEF QueueMatches
  <2>7. Places!Ask(u)
    BY <2>2, <2>3, SameCount DEF Places!Ask
  <2>8. Places!Next
    BY <2>7 DEF Places!Next
  <2> QED BY <2>4, <2>5, <2>6, <2>8 DEF PoolInv
<1> QED BY <1>3, <1>4, <1>5

\* A signal takes its user out of the queue, and nothing else.
LEMMA AbortStep ==
  ASSUME PoolInv, NEW u \in Users, Abort(u)
  PROVE  PoolInv' /\ [Places!Next]_<<Inside, Waiting>>
<1>0. /\ slot \in [Users -> {"none", "queued", "granted", "held"}] /\ queue \in Seq(Users)
      /\ active \in Nat /\ aborted \subseteq Users
  BY DEF PoolInv, PoolTypeOK
<1>1. u \notin aborted /\ aborted' = aborted \cup {u} /\ active' = active
  BY DEF Abort
<1>2. CASE slot[u] = "queued"
  <2>1. queue' = Without(u) /\ slot' = [slot EXCEPT ![u] = "none"]
    BY <1>2 DEF Abort
  <2>2. Inside' = Inside /\ Waiting' = Waiting \ {u} /\ u \in Waiting
    BY <1>0, <1>2, <2>1 DEF Inside, Waiting
  <2>3. /\ queue # << >> /\ queue' \in Seq(Users)
        /\ \A i \in DOMAIN queue' : \E j \in DOMAIN queue : queue'[i] = queue[j]
        /\ \A x \in Users : (x # u /\ slot[x] = "queued") <=> \E i \in DOMAIN queue' : queue'[i] = x
        /\ \A i, j \in DOMAIN queue' : queue'[i] = queue'[j] => i = j
    BY <1>2, <2>1, WithoutRemoves
  <2>4. PoolTypeOK'
    BY <1>0, <1>1, <2>1, <2>3 DEF PoolTypeOK
  <2>5. PlacesCounted'
    BY <1>1, <2>2, <2>3 DEF PlacesCounted, PoolInv
  <2>6. QueueMatches'
    <3>1. \A x \in Users : slot'[x] = "queued" <=> (x # u /\ slot[x] = "queued")
      BY <1>0, <2>1
    <3>2. \A i \in DOMAIN queue' : queue'[i] \in Users
      BY <2>3
    <3>3. \A i \in DOMAIN queue' : queue'[i] \notin aborted'
      BY <1>1, <2>3, <3>2 DEF QueueMatches, PoolInv
    <3> QED BY <2>3, <3>1, <3>3 DEF QueueMatches
  <2>7. Places!GiveUp(u)
    BY <2>2 DEF Places!GiveUp
  <2>8. Places!Next
    BY <2>7 DEF Places!Next
  <2> QED BY <2>4, <2>5, <2>6, <2>8 DEF PoolInv
<1>3. CASE slot[u] # "queued"
  <2>1. queue' = queue /\ slot' = slot
    BY <1>3 DEF Abort
  <2>2. Inside' = Inside /\ Waiting' = Waiting
    BY <2>1 DEF Inside, Waiting
  <2>3. \A i \in DOMAIN queue : queue[i] # u
    BY <1>3 DEF PoolInv, QueueMatches
  <2>4. PoolTypeOK' /\ PlacesCounted'
    BY <1>0, <1>1, <2>1, <2>2 DEF PoolTypeOK, PlacesCounted, PoolInv
  <2>5. QueueMatches'
    BY <1>1, <2>1, <2>3 DEF QueueMatches, PoolInv
  <2> QED BY <2>2, <2>4, <2>5 DEF PoolInv
<1> QED BY <1>2, <1>3

\* A place is given back: by a call that ends, or by one that finds its signal
\* fired at the grant.
LEMMA DrainStep ==
  ASSUME PoolInv, NEW u \in Users, slot[u] \in {"granted", "held"}, Drain(u), aborted' = aborted
  PROVE  PoolInv' /\ [Places!Next]_<<Inside, Waiting>>
<1>0. /\ slot \in [Users -> {"none", "queued", "granted", "held"}] /\ queue \in Seq(Users)
      /\ active \in Nat /\ aborted \subseteq Users
  BY DEF PoolInv, PoolTypeOK
<1>1. u \in Inside /\ slot[u] # "queued"
  BY DEF Inside
<1>2. CASE /\ queue = << >> /\ queue' = << >> /\ active' = active - 1
           /\ slot' = [slot EXCEPT ![u] = "none"]
  <2>1. Inside' = Inside \ {u} /\ Waiting' = Waiting
    BY <1>0, <1>1, <1>2 DEF Inside, Waiting
  <2>2. Waiting = {}
    BY <1>2 DEF Waiting, PoolInv, QueueMatches
  <2>3. IsFiniteSet(Inside') /\ active' = Cardinality(Inside')
    BY <1>2, <2>1, OneLessInside
  <2>4. active' \in Nat
    BY <2>3, FS_CardinalityType
  <2>5. active' <= Capacity /\ queue' = << >>
    BY <1>0, <1>2, PoolAssumption DEF PoolInv, PlacesCounted
  <2>6. PoolTypeOK'
    BY <1>0, <1>2, <2>4 DEF PoolTypeOK
  <2>7. PlacesCounted'
    BY <2>3, <2>5 DEF PlacesCounted
  <2>8. QueueMatches'
    BY <1>0, <1>1, <1>2 DEF QueueMatches, PoolInv
  <2>9. Places!GiveBack(u)
    BY <1>1, <2>1, <2>2 DEF Places!GiveBack
  <2>10. Places!Next
    BY <2>9 DEF Places!Next
  <2> QED BY <2>6, <2>7, <2>8, <2>10 DEF PoolInv
<1>3. CASE /\ queue # << >> /\ active' = active
           /\ Len(queue) \in Nat \ {0} /\ DOMAIN queue = 1..Len(queue)
           /\ queue' = SubSeq(queue, 2, Len(queue))
           /\ queue[1] \in Users /\ slot[queue[1]] = "queued" /\ queue[1] # u
           /\ slot' = [slot EXCEPT ![u] = "none", ![queue[1]] = "granted"]
  <2> DEFINE w == queue[1]
             n == Len(queue)
  <2>0. w \in Users /\ slot[w] = "queued" /\ w # u /\ n \in Nat \ {0} /\ DOMAIN queue = 1..n
    BY <1>3
  <2>1. \A x \in Users : slot'[x] = IF x = w THEN "granted" ELSE IF x = u THEN "none" ELSE slot[x]
    BY <1>0, <1>3
  <2>2. Inside' = (Inside \ {u}) \cup {w} /\ Waiting' = Waiting \ {w} /\ w \in Waiting /\ w \notin Inside
    BY <1>0, <1>1, <2>0, <2>1 DEF Inside, Waiting
  <2>3. /\ DOMAIN queue' = 1..n - 1 /\ queue' \in Seq(Users)
        /\ \A i \in 1..n - 1 : queue'[i] = queue[i + 1] /\ i + 1 \in 1..n
    BY <1>0, <1>3
  <2>4. PoolTypeOK'
    BY <1>0, <1>3, <2>3 DEF PoolTypeOK
  <2>5. PlacesCounted'
    <3>1. IsFiniteSet(Inside) /\ active = Cardinality(Inside) /\ active = Capacity
      BY <1>3 DEF PoolInv, PlacesCounted
    <3>2. IsFiniteSet(Inside \ {u}) /\ Cardinality(Inside \ {u}) = Cardinality(Inside) - 1
      BY <1>1, <3>1, FS_RemoveElement
    <3>3. w \notin Inside \ {u}
      BY <2>2
    <3>4. IsFiniteSet(Inside') /\ Cardinality(Inside') = Cardinality(Inside) - 1 + 1
      BY <2>2, <3>2, <3>3, FS_AddElement
    <3>5. active' = active /\ active \in Nat
      BY <1>0, <1>3
    <3>6. active' = Capacity /\ active' <= Capacity
      BY <3>1, <3>5
    <3>7. active' = Cardinality(Inside')
      <4>1. \A k \in Nat : k - 1 + 1 = k
        OBVIOUS
      <4>2. Cardinality(Inside) \in Nat
        BY <3>1, <3>5
      <4>3. Cardinality(Inside') = Cardinality(Inside)
        BY <3>4, <4>1, <4>2
      <4> QED BY <3>1, <3>5, <4>3
    <3> QED BY <3>4, <3>6, <3>7 DEF PlacesCounted
  <2>6. QueueMatches'
    <3>0. /\ \A x \in Users : slot[x] = "queued" <=> \E i \in 1..n : queue[i] = x
          /\ \A i, j \in 1..n : queue[i] = queue[j] => i = j
          /\ \A i \in 1..n : queue[i] \notin aborted
      BY <2>0 DEF QueueMatches, PoolInv
    <3> HIDE DEF w, n
    <3>1. ASSUME NEW x \in Users, slot'[x] = "queued"
          PROVE  \E i \in 1..n - 1 : queue'[i] = x
      <4>1. x # w /\ slot[x] = "queued"
        BY <2>1, <3>1
      <4>2. PICK i \in 1..n : queue[i] = x
        BY <3>0, <4>1
      <4>3. i # 1
        BY <4>1, <4>2 DEF w
      <4>4. i - 1 \in 1..n - 1 /\ (i - 1) + 1 = i
        BY <2>0, <4>3
      <4> QED BY <2>3, <4>2, <4>4
    <3>2. ASSUME NEW x \in Users, NEW i \in 1..n - 1, queue'[i] = x
          PROVE  slot'[x] = "queued"
      <4>1. queue[i + 1] = x /\ i + 1 \in 1..n /\ i + 1 # 1 /\ 1 \in 1..n
        BY <2>0, <2>3, <3>2
      <4>2. x # w /\ slot[x] = "queued"
        BY <3>0, <4>1 DEF w
      <4> QED BY <1>1, <2>1, <4>2
    <3>3. \A i, j \in 1..n - 1 : queue'[i] = queue'[j] => i = j
      <4> SUFFICES ASSUME NEW i \in 1..n - 1, NEW j \in 1..n - 1, queue'[i] = queue'[j] PROVE i = j
        OBVIOUS
      <4>1. i + 1 = j + 1
        BY <2>3, <3>0
      <4> QED BY <4>1, <2>0
    <3>4. \A i \in 1..n - 1 : queue'[i] \notin aborted'
      BY <2>3, <3>0
    <3> QED BY <2>3, <3>1, <3>2, <3>3, <3>4 DEF QueueMatches
  <2>7. Places!GiveBack(u)
    BY <1>1, <2>2 DEF Places!GiveBack
  <2>8. Places!Next
    BY <2>7 DEF Places!Next
  <2> QED BY <2>4, <2>5, <2>6, <2>8 DEF PoolInv
<1> QED BY <1>1, <1>2, <1>3, DrainHandsOver

\* One step of the pool keeps its invariant and is a step of the semaphore, or
\* a stutter.
LEMMA PoolStep ==
  ASSUME PoolInv, [PoolNext]_poolVars
  PROVE  PoolInv' /\ [Places!Next]_<<Inside, Waiting>>
<1>1. ASSUME NEW u \in Users, Acquire(u)
      PROVE  PoolInv' /\ [Places!Next]_<<Inside, Waiting>>
  BY <1>1, AcquireStep
<1>2. ASSUME NEW u \in Users, Abort(u)
      PROVE  PoolInv' /\ [Places!Next]_<<Inside, Waiting>>
  BY <1>2, AbortStep
<1>3. ASSUME NEW u \in Users, Enter(u)
      PROVE  PoolInv' /\ [Places!Next]_<<Inside, Waiting>>
  <2>0. slot \in [Users -> {"none", "queued", "granted", "held"}]
    BY DEF PoolInv, PoolTypeOK
  <2>1. slot[u] = "granted" /\ slot' = [slot EXCEPT ![u] = "held"] /\ UNCHANGED <<active, queue, aborted>>
    BY <1>3 DEF Enter
  <2>2. Inside' = Inside /\ Waiting' = Waiting
    BY <2>0, <2>1 DEF Inside, Waiting
  <2>3. PoolTypeOK'
    BY <2>0, <2>1 DEF PoolTypeOK, PoolInv
  <2>4. PlacesCounted'
    BY <2>1, <2>2 DEF PlacesCounted, PoolInv
  <2>5. \A x \in Users : slot'[x] = "queued" <=> slot[x] = "queued"
    BY <2>0, <2>1
  <2>6. QueueMatches'
    BY <2>1, <2>5 DEF QueueMatches, PoolInv
  <2> QED BY <2>2, <2>3, <2>4, <2>6 DEF PoolInv
<1>4. ASSUME NEW u \in Users, EnterAborted(u)
      PROVE  PoolInv' /\ [Places!Next]_<<Inside, Waiting>>
  BY <1>4, DrainStep DEF EnterAborted
<1>5. ASSUME NEW u \in Users, Leave(u)
      PROVE  PoolInv' /\ [Places!Next]_<<Inside, Waiting>>
  BY <1>5, DrainStep DEF Leave
<1>6. CASE PoolCrash
  <2>1. Inside' = {} /\ Waiting' = {}
    BY <1>6 DEF PoolCrash, Inside, Waiting
  <2>2. PoolTypeOK'
    BY <1>6 DEF PoolCrash, PoolTypeOK
  <2>3. PlacesCounted'
    <3>1. active' = 0 /\ queue' = << >> /\ 0 <= Capacity
      BY <1>6, PoolAssumption DEF PoolCrash
    <3>2. IsFiniteSet(Inside') /\ Cardinality(Inside') = 0
      BY <2>1, FS_EmptySet
    <3> QED BY <3>1, <3>2 DEF PlacesCounted
  <2>4. QueueMatches'
    BY <1>6 DEF PoolCrash, QueueMatches
  <2>5. Places!Next
    BY <2>1 DEF Places!Next, Places!Vanish
  <2> QED BY <2>2, <2>3, <2>4, <2>5 DEF PoolInv
<1>7. CASE UNCHANGED poolVars
  BY <1>7 DEF poolVars, PoolInv, PoolTypeOK, PlacesCounted, QueueMatches, Inside, Waiting
<1> QED BY <1>1, <1>2, <1>3, <1>4, <1>5, <1>6, <1>7 DEF PoolNext

-----------------------------------------------------------------------------
(* The pool under the turns.                                               *)

\* The answers a call may get.
Answer(c) ==
  \/ Resolve(c, "approve") \/ Resolve(c, "deny")
  \/ \E n \in 1..MaxWaits["event"] : Reply(c, n)

\* Whatever the turns do, the pool takes a step of its own or none.
LEMMA TurnsUseThePool == [Next]_vars => [PoolNext]_poolVars
<1> SUFFICES ASSUME [Next]_vars PROVE [PoolNext]_poolVars
  OBVIOUS
<1>1. ASSUME NEW e \in Alive, Step(e) PROVE [PoolNext]_poolVars
  <2>0. e \in Users
    BY DEF Alive
  <2>1. \/ UNCHANGED poolVars \/ Acquire(e) \/ Enter(e) \/ EnterAborted(e) \/ Leave(e)
    BY <1>1 DEF Step, BeginGivesUp, BeginResumes, BeginWaitsOn, BeginAsks, AskModel, AskOverQuota,
      ModelFails, ModelAnswers, CallsDone, CallNeedsApproval, CallExecutes, ArgumentsRefused,
      ToolRefused, ToolAcquires, ToolStarts, ToolRejected, ToolReturns, ToolSuspends, ToolThrows
  <2> QED BY <2>0, <2>1 DEF PoolNext
<1>2. ASSUME NEW e \in Alive, Signal(e) PROVE [PoolNext]_poolVars
  BY <1>2 DEF Signal, Alive, PoolNext
<1>3. CASE \E t \in Turns : \/ Refuse(t) \/ Claim(t) \/ TimerFires(t) \/ WaitExpires(t) \/ Revoke(t)
                            \/ Pause(t) \/ ResumePaused(t) \/ Lapse(t)
  BY <1>3 DEF Refuse, Claim, TimerFires, WaitExpires, Revoke, Pause, ResumePaused, Lapse
<1>4. CASE \E c \in Calls : Answer(c)
  BY <1>4 DEF Answer, Reply, Resolve
<1>5. CASE NextDay
  BY <1>5 DEF NextDay
<1>6. CASE Crash
  BY <1>6 DEF Crash, PoolNext
<1>7. CASE UNCHANGED vars
  BY <1>7 DEF vars, poolVars
<1> QED BY <1>1, <1>2, <1>3, <1>4, <1>5, <1>6, <1>7 DEF Next, Answer

\* The pool's counter is the number of calls inside, never above the capacity;
\* nobody queues in front of a free place, and nobody aborted is in the queue.
THEOREM PoolInvariant == Spec => []PoolInv
<1>1. Init => PoolInv
  BY PoolStart DEF Init
<1>2. PoolInv /\ [Next]_vars => PoolInv'
  BY TurnsUseThePool, PoolStep
<1> QED BY <1>1, <1>2, PTL DEF Spec

\* Under any turns, signals and crashes the pool implements the semaphore.
THEOREM PoolImplementsSemaphore == Spec => PoolIsSemaphore
<1>1. Init => Places!Init
  BY PoolStart DEF Init
<1>2. PoolInv /\ [Next]_vars => [Places!Next]_<<Inside, Waiting>>
  BY TurnsUseThePool, PoolStep
<1> QED BY <1>1, <1>2, PoolInvariant, PTL DEF Spec, PoolIsSemaphore, Places!Spec

-----------------------------------------------------------------------------
(* Approvals and charges.  A call with an execution that is about to run its *)
(* handler has been approved, if it has to be, and then charged; and so has   *)
(* a pending one whose answer is yes.                                         *)

RowShape == [status : {"READY", "RUNNING", "WAITING", "PAUSED", "SUCCEEDED", "FAILED"},
             attempt : Nat, failures : Nat, pending : Nat,
             how : {"none", "approval", "event", "timer"}, step : Nat, wait : Nat,
             mail : {"none", "approve", "deny", "reply"}]
RunShape == [phase : {"none", "begin", "before", "model", "calls", "hook", "slot", "tool"},
             round : Nat, call : Nat, last : Nat, resumed : BOOLEAN]

Shape ==
  /\ row \in [Turns -> RowShape] /\ run \in [Users -> RunShape]
  /\ approval \in [Calls -> {"none", "PENDING", "APPROVED", "DENIED"}]
  /\ asked \in [Turns -> Nat] /\ spent \in [Turns -> Nat]

\* Calls are those the model has asked for.
AskedInRange(t) == asked[t] <= Len(Tool[t])
RowInRange(t) == row[t].pending <= Len(Tool[t]) /\ (row[t].pending # 0 => row[t].how # "none")
RunInRange(e) ==
  /\ run[e].call <= run[e].last /\ run[e].last <= Len(Tool[e[1]])
  /\ run[e].phase \in {"hook", "slot", "tool"} => run[e].call # 0

\* A pending call that needs an approval waits for that and nothing else.
RowApproved(t) ==
  LET c == <<t, row[t].pending>>
  IN  row[t].pending # 0 /\ ToolOf(c) = "gated"
        => /\ row[t].how = "approval" /\ row[t].mail # "reply"
           /\ row[t].mail = "approve" => approval[c] = "APPROVED"
RunApproved(e) ==
  run[e].phase \in {"hook", "slot", "tool"} /\ ToolOf(InHand(e)) = "gated"
    => approval[InHand(e)] = "APPROVED"

ApprovalInv ==
  /\ Shape
  /\ \A t \in Turns : AskedInRange(t) /\ RowInRange(t) /\ RowApproved(t)
  /\ \A e \in Users : RunInRange(e) /\ RunApproved(e)
  /\ ran \subseteq Calls /\ ApprovedOnly

\* Users, turns and calls, as the proofs below use them.
LEMMA TurnBasics ==
  /\ Users = Turns \X (1..MaxAttempts)
  /\ \A e \in Users : e[1] \in Turns /\ e[2] \in Nat
  /\ \A t \in Turns : Tool[t] \in Seq(Tools) /\ Len(Tool[t]) \in Nat
  /\ \A t \in Turns : \A n \in Nat : n # 0 /\ n <= Len(Tool[t]) => <<t, n>> \in Calls
  /\ \A c \in Calls : c = <<c[1], c[2]>> /\ c[1] \in Turns /\ c[2] \in 1..Len(Tool[c[1]])
<1>1. Users = Turns \X (1..MaxAttempts) /\ MaxAttempts \in Nat /\ Tool \in [Turns -> Seq(Tools)]
  BY TurnsAssumption
<1>2. \A t \in Turns : Tool[t] \in Seq(Tools)
  BY <1>1
<1>3. \A t \in Turns : Len(Tool[t]) \in Nat /\ DOMAIN Tool[t] = 1..Len(Tool[t])
  BY <1>2
<1>4. \A e \in Users : e[1] \in Turns /\ e[2] \in Nat
  BY <1>1
<1>5. \A t \in Turns : \A n \in 1..Len(Tool[t]) : <<t, n>> \in Calls
  BY <1>3 DEF Calls
<1>6. \A t \in Turns : \A n \in Nat : n # 0 /\ n <= Len(Tool[t]) => <<t, n>> \in Calls
  BY <1>3, <1>5
<1>7. \A c \in Calls : c = <<c[1], c[2]>> /\ c[1] \in Turns /\ c[2] \in 1..Len(Tool[c[1]])
  BY <1>3 DEF Calls
<1> QED BY <1>1, <1>2, <1>3, <1>4, <1>6, <1>7

\* What a step must show of the rows and executions it changes.
Monotone == \A c \in Calls : approval[c] = "APPROVED" => approval'[c] = "APPROVED"
RowKeeps(t) ==
  row'[t].pending = row[t].pending /\ row'[t].how = row[t].how /\ row'[t].mail = row[t].mail
RowSettled(t) == RowKeeps(t) \/ (RowInRange(t)' /\ RowApproved(t)')
RanSettled ==
  \A c \in ran' : c \in ran \/ (c \in Calls /\ (ToolOf(c) = "gated" => approval[c] = "APPROVED"))
RunSettled(e) == run'[e] = run[e] \/ (RunInRange(e)' /\ RunApproved(e)')

\* A step that moves no approval keeps the invariant if it settles what
\* each execution and row has in hand.
LEMMA ApprovalKept ==
  ASSUME ApprovalInv, Shape', Monotone,
         \A t \in Turns : RowSettled(t) /\ AskedInRange(t)',
         \A e \in Users : RunSettled(e), RanSettled
  PROVE  ApprovalInv'
<1>1. ASSUME NEW t \in Turns PROVE AskedInRange(t)' /\ RowInRange(t)' /\ RowApproved(t)'
  <2>1. CASE RowKeeps(t)
    <3>1. RowInRange(t) /\ RowApproved(t)
      BY DEF ApprovalInv
    <3>2. RowInRange(t)'
      BY <2>1, <3>1 DEF RowKeeps, RowInRange
    <3>3. ASSUME row'[t].pending # 0, ToolOf(<<t, row'[t].pending>>) = "gated"
          PROVE  /\ row'[t].how = "approval" /\ row'[t].mail # "reply"
                 /\ row'[t].mail = "approve" => approval'[<<t, row'[t].pending>>] = "APPROVED"
      <4>1. row'[t].pending = row[t].pending /\ row'[t].how = row[t].how /\ row'[t].mail = row[t].mail
        BY <2>1 DEF RowKeeps
      <4>2. row[t].pending \in Nat
        BY DEF ApprovalInv, Shape, RowShape
      <4>3. <<t, row[t].pending>> \in Calls
        BY <3>1, <3>3, <4>1, <4>2, TurnBasics DEF RowInRange
      <4>4. /\ row[t].how = "approval" /\ row[t].mail # "reply"
            /\ row[t].mail = "approve" => approval[<<t, row[t].pending>>] = "APPROVED"
        BY <3>1, <3>3, <4>1 DEF RowApproved
      <4> QED BY <4>1, <4>3, <4>4 DEF Monotone
    <3>4. RowApproved(t)'
      BY <3>3 DEF RowApproved, ToolOf
    <3> QED BY <3>2, <3>4
  <2>2. CASE RowInRange(t)' /\ RowApproved(t)'
    BY <2>2
  <2> QED BY <2>1, <2>2 DEF RowSettled
<1>2. ASSUME NEW e \in Users PROVE RunInRange(e)' /\ RunApproved(e)'
  <2>1. CASE run'[e] = run[e]
    <3>1. RunInRange(e) /\ RunApproved(e)
      BY DEF ApprovalInv
    <3>2. RunInRange(e)'
      BY <2>1, <3>1 DEF RunInRange
    <3>3. ASSUME run[e].phase \in {"hook", "slot", "tool"}, ToolOf(InHand(e)) = "gated"
          PROVE  approval'[InHand(e)] = "APPROVED"
      <4>1. run[e].call \in Nat /\ run[e].last \in Nat
        BY DEF ApprovalInv, Shape, RunShape
      <4>2. InHand(e) \in Calls
        BY <3>1, <3>3, <4>1, TurnBasics DEF RunInRange, InHand
      <4>3. approval[InHand(e)] = "APPROVED"
        BY <3>1, <3>3 DEF RunApproved
      <4> QED BY <4>2, <4>3 DEF Monotone
    <3>4. RunApproved(e)'
      BY <2>1, <3>3 DEF RunApproved, InHand, ToolOf
    <3> QED BY <3>2, <3>4
  <2>2. CASE RunInRange(e)' /\ RunApproved(e)'
    BY <2>2
  <2> QED BY <2>1, <2>2 DEF RunSettled
<1>3. ran' \subseteq Calls
  BY DEF ApprovalInv, RanSettled
<1>4. ApprovedOnly'
  BY <1>3 DEF ApprovalInv, ApprovedOnly, RanSettled, Monotone, ToolOf
<1> QED BY <1>1, <1>2, <1>3, <1>4 DEF ApprovalInv

\* An execution that is over.
LEMMA EndSettles ==
  ASSUME Shape, NEW e \in Users, End(e)
  PROVE  run' \in [Users -> RunShape] /\ \A x \in Users : RunSettled(x)
<1>1. run' = [run EXCEPT ![e] = Gone] /\ Gone \in RunShape
  BY DEF End, Gone, RunShape
<1>2. run' \in [Users -> RunShape]
  BY <1>1 DEF Shape
<1>3. run'[e] = Gone /\ \A x \in Users : x # e => run'[x] = run[x]
  BY <1>1 DEF Shape
<1>4. RunInRange(e)' /\ RunApproved(e)'
  BY <1>3, TurnBasics DEF RunInRange, RunApproved, Gone
<1> QED BY <1>2, <1>3, <1>4 DEF RunSettled

\* An error leaves the pending call as it is.
LEMMA ThrowSettles ==
  ASSUME Shape, NEW e \in Users, NEW limit, Throw(e, limit)
  PROVE  /\ row' \in [Turns -> RowShape] /\ \A t \in Turns : RowSettled(t)
         /\ run' \in [Users -> RunShape] /\ \A x \in Users : RunSettled(x)
<1>1. End(e)
  BY DEF Throw
<1>2. PICK r \in RowShape : /\ r.pending = row[e[1]].pending /\ r.how = row[e[1]].how /\ r.mail = row[e[1]].mail
                            /\ WriteRow(e, r)
  <2>0. e[1] \in Turns /\ row[e[1]] \in RowShape
    BY TurnBasics DEF Shape
  <2> DEFINE r == row[e[1]]
             status == IF limit \/ r.failures + 1 >= MaxFailures THEN "FAILED" ELSE "READY"
             back == [r EXCEPT !.status = "READY"]
             failed == [r EXCEPT !.failures = @ + 1, !.status = status]
             q == IF e \in aborted THEN back ELSE failed
  <2>2. WriteRow(e, q)
    BY DEF Throw
  <2>3. back \in RowShape /\ back.pending = r.pending /\ back.how = r.how /\ back.mail = r.mail
    BY <2>0 DEF RowShape
  <2>4. status \in {"FAILED", "READY"}
    OBVIOUS
  <2> HIDE DEF status
  <2>5. failed \in RowShape /\ failed.pending = r.pending /\ failed.how = r.how /\ failed.mail = r.mail
    <3>1. ASSUME NEW p \in RowShape, NEW s \in {"FAILED", "READY"}, NEW n \in Nat
          PROVE  LET q2 == [p EXCEPT !.failures = n, !.status = s]
                 IN  q2 \in RowShape /\ q2.pending = p.pending /\ q2.how = p.how /\ q2.mail = p.mail
      BY DEF RowShape
    <3>2. r.failures + 1 \in Nat
      BY <2>0 DEF RowShape
    <3> HIDE DEF r
    <3>3. r \in RowShape
      BY <2>0 DEF r
    <3> QED BY <2>4, <3>1, <3>2, <3>3
  <2> HIDE DEF r, back, failed
  <2>1. q \in RowShape /\ q.pending = r.pending /\ q.how = r.how /\ q.mail = r.mail
    BY <2>3, <2>5
  <2> USE DEF r
  <2> QED BY <2>1, <2>2
<1>3. row' \in [Turns -> RowShape]
  BY <1>2, TurnBasics DEF WriteRow, Shape
<1>4. \A t \in Turns : RowKeeps(t)
  BY <1>2, TurnBasics DEF WriteRow, Shape, RowKeeps
<1> QED BY <1>1, <1>3, <1>4, EndSettles DEF RowSettled

\* A suspension puts a call down that waits for how; if it needs an approval,
\* that is what it waits for.
LEMMA SuspendSettles ==
  ASSUME Shape, NEW e \in Users, NEW c \in Calls, c[1] = e[1], Monotone,
         NEW how \in {"approval", "event", "timer"}, ToolOf(c) = "gated" => how = "approval",
         NEW s \in Nat, NEW w \in Nat, Suspend(e, c, how, s, w)
  PROVE  /\ row' \in [Turns -> RowShape] /\ \A t \in Turns : RowSettled(t)
         /\ run' \in [Users -> RunShape] /\ \A x \in Users : RunSettled(x)
<1>0. /\ e[1] \in Turns /\ c = <<e[1], c[2]>> /\ c[2] \in Nat /\ c[2] # 0 /\ c[2] <= Len(Tool[e[1]])
      /\ row[e[1]] \in RowShape
  BY TurnBasics DEF Shape
<1> DEFINE n == c[2]
           p == row[e[1]]
           r == [p EXCEPT !.pending = n, !.how = how, !.step = s, !.wait = w]
<1>3. r \in RowShape /\ r.pending = c[2] /\ r.how = how
  <2>1. n \in Nat /\ n = c[2] /\ p \in RowShape
    BY <1>0
  <2> HIDE DEF n, p
  <2>2. r \in RowShape /\ r.pending = n /\ r.how = how
    BY <2>1 DEF RowShape
  <2> HIDE DEF r
  <2> QED BY <2>1, <2>2
<1>1. CASE Queued(e, <<c, w>>, how)
  <2> DEFINE mail == MailOf(c, how)
             q == [r EXCEPT !.mail = mail]
  <2>1. row' = [row EXCEPT ![e[1]] = q] /\ run' = [run EXCEPT ![e] = Anew]
    BY <1>1 DEF Suspend
  <2>3. mail \in {"reply", "approve", "deny"}
    BY DEF MailOf
  <2>4. ToolOf(c) = "gated" => mail # "reply" /\ (mail = "approve" => approval[c] = "APPROVED")
    BY DEF MailOf
  <2> HIDE DEF r, mail
  <2>5. q \in RowShape /\ q.pending = c[2] /\ q.how = how /\ q.mail = mail
    BY <1>3, <2>3 DEF RowShape
  <2> HIDE DEF q
  <2>6. /\ row' \in [Turns -> RowShape] /\ row'[e[1]] = q
        /\ \A t \in Turns : t # e[1] => row'[t] = row[t]
    BY <1>0, <2>1, <2>5 DEF Shape
  <2>8. RowInRange(e[1])' /\ RowApproved(e[1])'
    BY <1>0, <2>4, <2>5, <2>6 DEF RowInRange, RowApproved, Monotone, ToolOf
  <2>10. run' \in [Users -> RunShape]
    BY <2>1 DEF Shape, RunShape, Anew
  <2>11. run'[e] = Anew /\ \A x \in Users : x # e => run'[x] = run[x]
    BY <2>1 DEF Shape
  <2>12. RunInRange(e)' /\ RunApproved(e)'
    BY <2>11, TurnBasics DEF RunInRange, RunApproved, Anew
  <2> QED BY <2>6, <2>8, <2>10, <2>11, <2>12 DEF RowSettled, RowKeeps, RunSettled
<1>2. CASE ~Queued(e, <<c, w>>, how)
  <2> DEFINE q == [r EXCEPT !.status = "WAITING", !.mail = "none"]
  <2>1. WriteRow(e, q) /\ End(e)
    BY <1>2 DEF Suspend
  <2> HIDE DEF r
  <2>2. q \in RowShape /\ q.pending = c[2] /\ q.how = how /\ q.mail = "none"
    BY <1>3 DEF RowShape
  <2> HIDE DEF q
  <2>3. row' \in [Turns -> RowShape]
    BY <1>0, <2>1, <2>2 DEF WriteRow, Shape
  <2>4. \A t \in Turns : row'[t] = row[t] \/ (t = e[1] /\ row'[t] = q)
    BY <1>0, <2>1 DEF WriteRow, Shape
  <2>5. row'[e[1]] = q => RowInRange(e[1])' /\ RowApproved(e[1])'
    BY <1>0, <2>2 DEF RowInRange, RowApproved, ToolOf
  <2>6. \A t \in Turns : RowSettled(t)
    BY <2>4, <2>5 DEF RowSettled, RowKeeps
  <2> QED BY <2>1, <2>3, <2>6, EndSettles
<1> QED BY <1>1, <1>2

\* An execution that goes on to another phase with the call it has in hand.
LEMMA GoSettles ==
  ASSUME ApprovalInv, NEW e \in Users, Go(e, "before") \/ Go(e, "model") \/ Go(e, "calls")
  PROVE  run' \in [Users -> RunShape] /\ \A x \in Users : RunSettled(x)
<1>1. PICK p \in {"before", "model", "calls"} : run' = [run EXCEPT ![e].phase = p]
  BY DEF Go
<1>2. run' \in [Users -> RunShape]
  BY <1>1 DEF ApprovalInv, Shape, RunShape
<1>3. /\ run'[e].phase = p /\ run'[e].call = run[e].call /\ run'[e].last = run[e].last
      /\ \A x \in Users : x # e => run'[x] = run[x]
  BY <1>1 DEF ApprovalInv, Shape, RunShape
<1>4. RunInRange(e)
  BY DEF ApprovalInv
<1>5. RunInRange(e)' /\ RunApproved(e)'
  BY <1>3, <1>4 DEF RunInRange, RunApproved
<1> QED BY <1>2, <1>3, <1>5 DEF RunSettled

\* From the hook to the pool and into the tool.
LEMMA PhaseSettles ==
  ASSUME ApprovalInv, NEW e \in Users, run[e].phase \in {"hook", "slot"},
         NEW p \in {"slot", "tool"}, run' = [run EXCEPT ![e].phase = p], approval' = approval
  PROVE  run' \in [Users -> RunShape] /\ \A x \in Users : RunSettled(x)
<1>1. run' \in [Users -> RunShape]
  BY DEF ApprovalInv, Shape, RunShape
<1>2. /\ run'[e].phase = p /\ run'[e].call = run[e].call /\ run'[e].last = run[e].last
      /\ \A x \in Users : x # e => run'[x] = run[x]
  BY DEF ApprovalInv, Shape, RunShape
<1>3. RunInRange(e) /\ RunApproved(e)
  BY DEF ApprovalInv
<1>4. RunInRange(e)' /\ RunApproved(e)'
  BY <1>2, <1>3 DEF RunInRange, RunApproved, InHand, ToolOf
<1> QED BY <1>1, <1>2, <1>4 DEF RunSettled

\* A step that leaves rows and executions alone.
LEMMA NothingSettles ==
  /\ row' = row => \A t \in Turns : RowSettled(t)
  /\ run' = run => \A e \in Users : RunSettled(e)
  /\ approval' = approval => Monotone
  /\ ran' = ran => RanSettled
BY DEF RowSettled, RowKeeps, RunSettled, Monotone, RanSettled

\* A write of a new status.
LEMMA StatusSettles ==
  ASSUME Shape, NEW e \in Users,
         NEW s \in {"READY", "RUNNING", "WAITING", "PAUSED", "SUCCEEDED", "FAILED"},
         WriteRow(e, [row[e[1]] EXCEPT !.status = s])
  PROVE  row' \in [Turns -> RowShape] /\ \A t \in Turns : RowSettled(t)
<1> DEFINE p == row[e[1]]
           q == [p EXCEPT !.status = s]
<1>1. e[1] \in Turns /\ p \in RowShape /\ WriteRow(e, q)
  BY TurnBasics DEF Shape
<1> HIDE DEF p
<1>2. q \in RowShape /\ q.pending = p.pending /\ q.how = p.how /\ q.mail = p.mail
  BY <1>1 DEF RowShape
<1> HIDE DEF q
<1>3. row' \in [Turns -> RowShape]
  BY <1>1, <1>2 DEF WriteRow, Shape
<1>4. \A t \in Turns : row'[t] = row[t] \/ (t = e[1] /\ row'[t] = q)
  BY <1>1 DEF WriteRow, Shape
<1>5. \A t \in Turns : RowKeeps(t)
  BY <1>2, <1>4 DEF RowKeeps, p
<1> QED BY <1>3, <1>5 DEF RowSettled

\* No step of an execution gives a call an approval it has not got.
LEMMA StepKeepsApprovals ==
  ASSUME ApprovalInv, NEW e \in Users, Step(e)
  PROVE  ApprovalInv'
<1>0. /\ Shape /\ \A t \in Turns : RowInRange(t) /\ RowApproved(t)
      /\ \A x \in Users : RunInRange(x) /\ RunApproved(x)
      /\ \A t \in Turns : AskedInRange(t)
  BY DEF ApprovalInv
<1> DEFINE Rest == /\ approval' = approval /\ asked' = asked /\ spent' = spent /\ ran' = ran
           Rows == row' \in [Turns -> RowShape] /\ \A t \in Turns : RowSettled(t)
           Runs == run' \in [Users -> RunShape] /\ \A x \in Users : RunSettled(x)
<1>1. Rest /\ Rows /\ Runs => ApprovalInv'
  <2> SUFFICES ASSUME Rest, Rows, Runs PROVE ApprovalInv'
    OBVIOUS
  <2>1. Shape'
    BY <1>0 DEF Shape
  <2>2. \A t \in Turns : AskedInRange(t)'
    BY <1>0 DEF AskedInRange
  <2>3. Monotone /\ RanSettled
    BY NothingSettles
  <2> QED BY <2>1, <2>2, <2>3, ApprovalKept
<1>2. row' = row => Rows
  BY <1>0, NothingSettles DEF Shape
<1>3. run' = run => Runs
  BY <1>0, NothingSettles DEF Shape
<1>4. End(e) => Runs
  BY <1>0, EndSettles
<1>5. \A limit : Throw(e, limit) => Rows /\ Runs
  BY <1>0, ThrowSettles
<1>6. Go(e, "before") \/ Go(e, "model") \/ Go(e, "calls") => Runs
  BY GoSettles
<1> HIDE DEF Rows, Runs
<1>7. CASE BeginGivesUp(e)
  <2>1. Rest /\ End(e) /\ WriteRow(e, [row[e[1]] EXCEPT !.status = "READY"])
    BY <1>7 DEF BeginGivesUp, ledger, history
  <2>3. Rows
    BY <1>0, <2>1, StatusSettles DEF Rows
  <2> QED BY <1>1, <1>4, <2>1, <2>3
<1>8. CASE BeginResumes(e)
  <2> DEFINE r == row[e[1]]
             n == [phase |-> "hook", round |-> 0, call |-> r.pending, last |-> r.pending, resumed |-> TRUE]
  <2>1. Rest /\ row' = row /\ run' = [run EXCEPT ![e] = n] /\ Resumes(r)
    BY <1>8 DEF BeginResumes, rows, ledger, history
  <2>2. e[1] \in Turns /\ r.pending \in Nat /\ r.pending # 0 /\ r.pending <= Len(Tool[e[1]])
    BY <1>0, <2>1, TurnBasics DEF Shape, RowShape, Resumes, RowInRange
  <2>3. run' \in [Users -> RunShape]
    <3>1. n \in RunShape
      BY <2>2 DEF RunShape
    <3> QED BY <1>0, <2>1, <3>1 DEF Shape
  <2>4. run'[e] = n /\ \A x \in Users : x # e => run'[x] = run[x]
    BY <1>0, <2>1 DEF Shape
  <2>5. RunInRange(e)'
    BY <2>2, <2>4 DEF RunInRange
  <2>6. ToolOf(<<e[1], r.pending>>) = "gated" => approval[<<e[1], r.pending>>] = "APPROVED"
    BY <1>0, <2>1, <2>2 DEF RowApproved, Resumes
  <2>7. RunApproved(e)'
    BY <2>1, <2>4, <2>6 DEF RunApproved, InHand, ToolOf
  <2>8. Runs
    BY <2>3, <2>4, <2>5, <2>7 DEF Runs, RunSettled
  <2> QED BY <1>1, <1>2, <2>1, <2>8
<1>9. CASE BeginWaitsOn(e)
  <2> DEFINE r == row[e[1]]
             c == <<e[1], r.pending>>
  <2>1. /\ Rest /\ Suspend(e, c, r.how, r.step, 1)
        /\ r.pending # 0 /\ r.mail = "none" /\ r.how # "timer" /\ e[1] \in Turns
    BY <1>9, TurnBasics DEF BeginWaitsOn, Begin, ledger
  <2>2. /\ r \in RowShape /\ r.pending \in Nat /\ r.pending <= Len(Tool[e[1]]) /\ r.step \in Nat
    BY <1>0, <2>1 DEF Shape, RowShape, RowInRange
  <2>3. c \in Calls /\ c[1] = e[1]
    BY <2>1, <2>2, TurnBasics
  <2>4. r.how \in {"approval", "event", "timer"} /\ (ToolOf(c) = "gated" => r.how = "approval")
    BY <1>0, <2>1, <2>2 DEF RowShape, RowInRange, RowApproved
  <2>5. Monotone
    BY <2>1, NothingSettles
  <2> HIDE DEF c
  <2>6. Rows /\ Runs
    BY <1>0, <2>1, <2>2, <2>3, <2>4, <2>5, SuspendSettles DEF Rows, Runs
  <2> QED BY <1>1, <2>1, <2>6
<1>10. CASE BeginAsks(e)
  BY <1>1, <1>2, <1>6, <1>10 DEF BeginAsks, rows, ledger, history
<1>11. CASE AskModel(e)
  BY <1>1, <1>2, <1>6, <1>11 DEF AskModel, rows, ledger, history
<1>12. CASE AskOverQuota(e)
  BY <1>1, <1>5, <1>12 DEF AskOverQuota, ledger, history
<1>13. CASE ModelFails(e)
  BY <1>1, <1>5, <1>13 DEF ModelFails, ledger, history
<1>14. ASSUME NEW n \in 0..2, ModelAnswers(e, n) PROVE ApprovalInv'
  <2> DEFINE t == e[1]
             a == asked[t]
             new == [phase |-> "calls", round |-> run[e].round + 1, call |-> a, last |-> a + n, resumed |-> FALSE]
  <2>1. /\ approval' = approval /\ spent' = spent /\ ran' = ran /\ asked' = [asked EXCEPT ![t] = @ + n]
        /\ a + n <= Len(Tool[t])
        /\ \/ WriteRow(e, [row[t] EXCEPT !.status = "SUCCEEDED"]) /\ End(e)
           \/ row' = row /\ run' = [run EXCEPT ![e] = new]
    BY <1>14 DEF ModelAnswers
  <2>2. t \in Turns /\ a \in Nat /\ n \in Nat /\ row[t] \in RowShape /\ Len(Tool[t]) \in Nat
    BY <1>0, TurnBasics DEF Shape
  <2>3. asked' \in [Turns -> Nat] /\ \A u \in Turns : AskedInRange(u)'
    BY <1>0, <2>1, <2>2 DEF Shape, AskedInRange
  <2>4. ASSUME WriteRow(e, [row[t] EXCEPT !.status = "SUCCEEDED"]) /\ End(e)
        PROVE  Rows /\ Runs
    <3>1. Rows
      BY <1>0, <2>4, StatusSettles DEF Rows
    <3> QED BY <1>4, <2>4, <3>1
  <2>5. ASSUME row' = row, run' = [run EXCEPT ![e] = new]
        PROVE  Rows /\ Runs
    <3>1. new \in RunShape
      BY <1>0, <2>2 DEF Shape, RunShape
    <3>2. run' \in [Users -> RunShape] /\ run'[e] = new /\ \A x \in Users : x # e => run'[x] = run[x]
      BY <1>0, <2>5, <3>1 DEF Shape
    <3>4. new.phase = "calls" /\ new.call = a /\ new.last = a + n
      OBVIOUS
    <3> HIDE DEF new, a, t
    <3>5. a <= a + n /\ a + n <= Len(Tool[e[1]])
      BY <2>1, <2>2 DEF t
    <3>3. RunInRange(e)' /\ RunApproved(e)'
      BY <3>2, <3>4, <3>5 DEF RunInRange, RunApproved
    <3> QED BY <1>2, <2>5, <3>2, <3>3 DEF Runs, RunSettled
  <2>6. Rows /\ Runs
    BY <2>1, <2>4, <2>5
  <2>7. Shape'
    BY <1>0, <2>1, <2>3, <2>6 DEF Shape, Rows, Runs
  <2>8. Monotone /\ RanSettled
    BY <2>1, NothingSettles
  <2> QED BY <2>3, <2>6, <2>7, <2>8, ApprovalKept DEF Rows, Runs
<1>15. CASE CallsDone(e)
  BY <1>1, <1>2, <1>5, <1>6, <1>15 DEF CallsDone, ledger, history
<1>16. CASE CallNeedsApproval(e)
  <2> DEFINE c == NextCall(e)
  <2>1. /\ asked' = asked /\ spent' = spent /\ ran' = ran
        /\ approval' = [approval EXCEPT ![c] = IF @ = "none" THEN "PENDING" ELSE @]
        /\ Suspend(e, c, "approval", 1, 1) /\ run[e].call < run[e].last
    BY <1>16 DEF CallNeedsApproval, Looks, ledger
  <2>2. /\ e[1] \in Turns /\ run[e].call \in Nat /\ run[e].last \in Nat /\ run[e].last <= Len(Tool[e[1]])
    BY <1>0, TurnBasics DEF Shape, RunShape, RunInRange
  <2>3. c \in Calls /\ c[1] = e[1]
    BY <2>1, <2>2, TurnBasics DEF NextCall
  <2> HIDE DEF c
  <2>4. Monotone /\ approval' \in [Calls -> {"none", "PENDING", "APPROVED", "DENIED"}]
    BY <1>0, <2>1, <2>3 DEF Shape, Monotone
  <2>5. Rows /\ Runs
    BY <1>0, <2>1, <2>3, <2>4, SuspendSettles DEF Rows, Runs
  <2>6. Shape'
    BY <1>0, <2>1, <2>4, <2>5 DEF Shape, Rows, Runs
  <2>7. RanSettled /\ \A t \in Turns : AskedInRange(t)'
    BY <1>0, <2>1, NothingSettles DEF AskedInRange
  <2> QED BY <2>4, <2>5, <2>6, <2>7, ApprovalKept DEF Rows, Runs
<1>17. CASE CallExecutes(e)
  <2> DEFINE new == [run[e] EXCEPT !.call = @ + 1, !.phase = "hook"]
  <2>1. /\ Rest /\ row' = row /\ run[e].call < run[e].last
        /\ ToolOf(NextCall(e)) \in {"plain", "event", "timer"}
        /\ run' = [run EXCEPT ![e] = new]
    BY <1>17 DEF CallExecutes, Looks, rows, ledger, history
  <2>2. run[e] \in RunShape /\ run[e].call \in Nat /\ run[e].last \in Nat /\ run[e].last <= Len(Tool[e[1]])
    BY <1>0 DEF Shape, RunShape, RunInRange
  <2>8. new \in RunShape /\ new.call = run[e].call + 1 /\ new.last = run[e].last
    <3> DEFINE p == run[e]
               n == p.call + 1
               q == [p EXCEPT !.call = n, !.phase = "hook"]
    <3>1. p \in RunShape /\ n \in Nat
      BY <2>2
    <3> HIDE DEF p, n
    <3>2. q \in RunShape /\ q.call = n /\ q.last = p.last
      BY <3>1 DEF RunShape
    <3> HIDE DEF q
    <3>3. new = q
      BY DEF q, n, p
    <3> QED BY <3>2, <3>3 DEF n, p
  <2> HIDE DEF new
  <2>3. run' \in [Users -> RunShape]
    BY <1>0, <2>1, <2>8 DEF Shape
  <2>4. /\ run'[e].call = run[e].call + 1 /\ run'[e].last = run[e].last
        /\ \A x \in Users : x # e => run'[x] = run[x]
    BY <1>0, <2>1, <2>8 DEF Shape
  <2>5. RunInRange(e)'
    BY <2>1, <2>2, <2>4, TurnBasics DEF RunInRange
  <2>6. RunApproved(e)'
    BY <2>1, <2>4 DEF RunApproved, InHand, NextCall, ToolOf
  <2>7. Runs
    BY <2>3, <2>4, <2>5, <2>6 DEF Runs, RunSettled
  <2> QED BY <1>1, <1>2, <2>1, <2>7
<1>25. CASE ArgumentsRefused(e)
  BY <1>1, <1>5, <1>25 DEF ArgumentsRefused, ledger, history
<1>18. CASE ToolRefused(e)
  BY <1>1, <1>2, <1>5, <1>6, <1>18 DEF ToolRefused, ledger, history
<1>19. CASE ToolAcquires(e)
  <2>1. /\ approval' = approval /\ asked' = asked /\ ran' = ran /\ row' = row
        /\ Charges(InHand(e)) /\ Go(e, "slot") /\ run[e].phase = "hook"
    BY <1>19 DEF ToolAcquires, Hooked, At, rows, history
  <2>2. spent' \in [Turns -> Nat]
    <3>1. InHand(e)[1] \in Turns /\ spent[InHand(e)[1]] \in Nat
      BY <1>0, TurnBasics DEF InHand, Shape
    <3> QED BY <1>0, <2>1, <3>1 DEF Charges, Shape
  <2>3. Runs
    BY <1>0, <2>1, PhaseSettles DEF Go, Runs
  <2>4. Shape'
    BY <1>0, <1>2, <2>1, <2>2, <2>3 DEF Shape, Rows, Runs
  <2>5. Monotone /\ RanSettled /\ \A t \in Turns : AskedInRange(t)'
    BY <1>0, <2>1, NothingSettles DEF AskedInRange
  <2> QED BY <1>2, <2>1, <2>3, <2>4, <2>5, ApprovalKept DEF Rows, Runs
<1>20. CASE ToolStarts(e)
  <2>1. /\ approval' = approval /\ asked' = asked /\ spent' = spent /\ row' = row
        /\ ran' = ran \cup {InHand(e)} /\ Go(e, "tool") /\ run[e].phase = "slot"
    BY <1>20 DEF ToolStarts, At, rows, ledger
  <2>2. InHand(e) \in Calls
    <3>1. run[e].call \in Nat /\ run[e].last \in Nat
      BY <1>0 DEF Shape, RunShape
    <3>2. run[e].call # 0 /\ run[e].call <= Len(Tool[e[1]])
      BY <1>0, <2>1, <3>1, TurnBasics DEF RunInRange
    <3> QED BY <3>1, <3>2, TurnBasics DEF InHand
  <2>3. ToolOf(InHand(e)) = "gated" => approval[InHand(e)] = "APPROVED"
    BY <1>0, <2>1 DEF RunApproved
  <2>4. RanSettled
    BY <2>1, <2>2, <2>3 DEF RanSettled
  <2>5. Runs
    BY <1>0, <2>1, PhaseSettles DEF Go, Runs
  <2>6. Shape'
    BY <1>0, <1>2, <2>1, <2>5 DEF Shape, Rows, Runs
  <2>7. Monotone /\ \A t \in Turns : AskedInRange(t)'
    BY <1>0, <2>1, NothingSettles DEF AskedInRange
  <2> QED BY <1>2, <2>1, <2>4, <2>5, <2>6, <2>7, ApprovalKept DEF Rows, Runs
<1>21. CASE ToolRejected(e)
  BY <1>1, <1>5, <1>21 DEF ToolRejected, ledger, history
<1>22. CASE ToolReturns(e)
  BY <1>1, <1>2, <1>6, <1>22 DEF ToolReturns, rows, ledger, history
<1>23. CASE ToolSuspends(e)
  <2> DEFINE c == InHand(e)
             n == Waited(e) + 1
  <2>5. n \in Nat
    BY <1>0, TurnBasics DEF Waited, Shape, RowShape
  <2>1. /\ Rest /\ Suspend(e, c, ToolOf(c), n, n) /\ ToolOf(c) \in {"event", "timer"} /\ run[e].phase = "tool"
    BY <1>23 DEF ToolSuspends, At, ledger
  <2>2. c \in Calls /\ c[1] = e[1]
    <3>1. run[e].call \in Nat /\ run[e].last \in Nat
      BY <1>0 DEF Shape, RunShape
    <3>2. run[e].call # 0 /\ run[e].call <= Len(Tool[e[1]])
      BY <1>0, <2>1, <3>1, TurnBasics DEF RunInRange
    <3> QED BY <3>1, <3>2, TurnBasics DEF InHand
  <2> HIDE DEF c, n
  <2>3. Monotone
    BY <2>1, NothingSettles
  <2>4. Rows /\ Runs
    BY <1>0, <2>1, <2>2, <2>3, <2>5, SuspendSettles DEF Rows, Runs
  <2> QED BY <1>1, <2>1, <2>4
<1>24. CASE ToolThrows(e)
  BY <1>1, <1>5, <1>24 DEF ToolThrows, ledger, history
<1> QED BY <1>7, <1>8, <1>9, <1>10, <1>11, <1>12, <1>13, <1>14, <1>15, <1>16, <1>17, <1>18, <1>19,
           <1>20, <1>21, <1>22, <1>23, <1>24, <1>25 DEF Step

\* What comes from outside changes the status of a row, or brings an answer.
LEMMA OutsideSettles ==
  ASSUME Shape, NEW t \in Turns,
         NEW s \in {"READY", "RUNNING", "WAITING", "PAUSED", "SUCCEEDED", "FAILED"},
         row' = [row EXCEPT ![t].status = s]
  PROVE  row' \in [Turns -> RowShape] /\ \A u \in Turns : RowSettled(u)
<1> DEFINE p == row[t]
           q == [p EXCEPT !.status = s]
<1>1. p \in RowShape /\ row' = [row EXCEPT ![t] = q]
  BY DEF Shape
<1> HIDE DEF p
<1>2. q \in RowShape /\ q.pending = p.pending /\ q.how = p.how /\ q.mail = p.mail
  BY <1>1 DEF RowShape
<1> HIDE DEF q
<1>3. row' \in [Turns -> RowShape] /\ \A u \in Turns : row'[u] = row[u] \/ (u = t /\ row'[u] = q)
  BY <1>1, <1>2 DEF Shape
<1>4. \A u \in Turns : RowKeeps(u)
  BY <1>2, <1>3 DEF RowKeeps, p
<1> QED BY <1>3, <1>4 DEF RowSettled

\* Neither do timers, controls, lapses and crashes.
LEMMA OutsideKeepsApprovals ==
  ASSUME ApprovalInv, NEW t \in Turns,
         \/ Refuse(t) \/ TimerFires(t) \/ WaitExpires(t) \/ Revoke(t)
         \/ Pause(t) \/ ResumePaused(t) \/ Lapse(t)
  PROVE  ApprovalInv'
<1>0. Shape /\ \A u \in Turns : AskedInRange(u)
  BY DEF ApprovalInv
<1>1. /\ approval' = approval /\ asked' = asked /\ spent' = spent /\ ran' = ran /\ run' = run
      /\ \/ row' = row
         \/ \E s \in {"READY", "PAUSED", "FAILED"} : row' = [row EXCEPT ![t].status = s]
  <2>1. CASE Revoke(t)
    BY <2>1 DEF Revoke, rows, ledger, history
  <2>2. CASE Refuse(t) \/ WaitExpires(t)
    BY <2>2 DEF Refuse, WaitExpires, rows, ledger, history
  <2>3. CASE TimerFires(t) \/ ResumePaused(t) \/ Lapse(t)
    BY <2>3 DEF TimerFires, ResumePaused, Lapse, rows, ledger, history
  <2>4. CASE Pause(t)
    BY <2>4 DEF Pause, rows, ledger, history
  <2> QED BY <2>1, <2>2, <2>3, <2>4
<1>2. row' \in [Turns -> RowShape] /\ \A u \in Turns : RowSettled(u)
  BY <1>0, <1>1, OutsideSettles, NothingSettles DEF Shape
<1>3. Shape'
  BY <1>0, <1>1, <1>2 DEF Shape
<1>4. Monotone /\ RanSettled /\ \A e \in Users : RunSettled(e)
  BY <1>1, NothingSettles
<1>5. \A u \in Turns : AskedInRange(u)'
  BY <1>0, <1>1 DEF AskedInRange
<1> QED BY <1>2, <1>3, <1>4, <1>5, ApprovalKept

\* Nor does a new execution, which has nothing in hand.
LEMMA ClaimKeepsApprovals ==
  ASSUME ApprovalInv, NEW t \in Turns, Claim(t)
  PROVE  ApprovalInv'
<1> DEFINE p == row[t]
           k == p.attempt + 1
           q == [p EXCEPT !.status = "RUNNING", !.attempt = k]
           e == <<t, k>>
<1>0. Shape /\ \A u \in Turns : AskedInRange(u)
  BY DEF ApprovalInv
<1>1. /\ approval' = approval /\ asked' = asked /\ spent' = spent /\ ran' = ran
      /\ row' = [row EXCEPT ![t].status = "RUNNING", ![t].attempt = @ + 1]
      /\ run' = [run EXCEPT ![e].phase = "begin"] /\ p.attempt < MaxAttempts
  BY DEF Claim, ledger, history
<1>2. p \in RowShape /\ k \in Nat
  BY <1>0 DEF Shape, RowShape
<1>3. row' = [row EXCEPT ![t] = q]
  BY <1>0, <1>1, <1>2 DEF Shape
<1> HIDE DEF p, k
<1>4. q \in RowShape /\ q.pending = p.pending /\ q.how = p.how /\ q.mail = p.mail
  BY <1>2 DEF RowShape
<1> HIDE DEF q
<1>5. row' \in [Turns -> RowShape] /\ \A u \in Turns : row'[u] = row[u] \/ (u = t /\ row'[u] = q)
  BY <1>0, <1>3, <1>4 DEF Shape
<1>6. \A u \in Turns : RowSettled(u)
  BY <1>4, <1>5 DEF RowSettled, RowKeeps, p
<1> HIDE DEF e
<1>7. run' \in [Users -> RunShape]
  BY <1>0, <1>1 DEF Shape, RunShape
<1>8. \A x \in Users : RunSettled(x)
  <2> SUFFICES ASSUME NEW x \in Users PROVE RunSettled(x)
    OBVIOUS
  <2>1. CASE x # e
    BY <1>0, <1>1, <2>1 DEF Shape, RunSettled
  <2>2. CASE x = e
    <3>1. run'[x].phase = "begin" /\ run'[x].call = run[x].call /\ run'[x].last = run[x].last
      BY <1>0, <1>1, <2>2 DEF Shape, RunShape
    <3>2. RunInRange(x)
      BY DEF ApprovalInv
    <3> QED BY <3>1, <3>2 DEF RunSettled, RunInRange, RunApproved
  <2> QED BY <2>1, <2>2
<1>9. Shape'
  BY <1>0, <1>1, <1>5, <1>7 DEF Shape
<1>10. Monotone /\ RanSettled
  BY <1>1, NothingSettles
<1>11. \A u \in Turns : AskedInRange(u)'
  BY <1>0, <1>1 DEF AskedInRange
<1> QED BY <1>6, <1>8, <1>9, <1>10, <1>11, ApprovalKept

\* An answer reaches a row only with the status it stands for.
LEMMA PublishSettles ==
  ASSUME Shape, NEW c \in Calls, Monotone,
         NEW how \in {"approval", "event"}, NEW mail \in {"approve", "deny", "reply"},
         mail = "reply" => ToolOf(c) # "gated", mail = "approve" => approval'[c] = "APPROVED",
         row[c[1]].how = how /\ ToolOf(c) = "gated" => how = "approval",
         RowInRange(c[1]), RowApproved(c[1]), NEW n, Publish(c, how, n, mail)
  PROVE  row' \in [Turns -> RowShape] /\ \A u \in Turns : RowSettled(u)
<1> DEFINE t == c[1]
           p == row[t]
           q == [p EXCEPT !.status = "READY", !.mail = mail]
<1>0. t \in Turns /\ c = <<t, c[2]>> /\ p \in RowShape
  BY TurnBasics DEF Shape
<1>1. CASE Awaits(c, how, n)
  <2>1. row' = [row EXCEPT ![t] = q]
    BY <1>0, <1>1 DEF Publish, Shape
  <2>2. p.pending = c[2] /\ p.how = how /\ RowInRange(t) /\ RowApproved(t)
    BY <1>1 DEF Awaits
  <2> HIDE DEF p
  <2>3. q \in RowShape /\ q.pending = p.pending /\ q.how = p.how /\ q.mail = mail
    BY <1>0 DEF RowShape
  <2> HIDE DEF q
  <2>4. /\ row' \in [Turns -> RowShape] /\ row'[t] = q
        /\ \A u \in Turns : u # t => row'[u] = row[u]
    BY <1>0, <2>1, <2>3 DEF Shape
  <2>5. RowInRange(t)'
    BY <2>2, <2>3, <2>4 DEF RowInRange, p
  <2>6. RowApproved(t)'
    BY <1>0, <2>2, <2>3, <2>4 DEF RowApproved, ToolOf, p
  <2> QED BY <2>4, <2>5, <2>6 DEF RowSettled, RowKeeps
<1>2. CASE ~Awaits(c, how, n)
  BY <1>2, NothingSettles DEF Publish, Shape
<1> QED BY <1>1, <1>2

\* The answer of the operator and the reply to an event.
LEMMA AnswersKeepApprovals ==
  ASSUME ApprovalInv, NEW c \in Calls, Answer(c)
  PROVE  ApprovalInv'
<1>0. Shape /\ (\A u \in Turns : AskedInRange(u)) /\ RowInRange(c[1]) /\ RowApproved(c[1])
  BY TurnBasics DEF ApprovalInv
<1>1. asked' = asked /\ spent' = spent /\ ran' = ran /\ run' = run
  BY DEF Answer, Reply, Resolve, ledger, history
<1>2. /\ Monotone /\ approval' \in [Calls -> {"none", "PENDING", "APPROVED", "DENIED"}]
      /\ row' \in [Turns -> RowShape] /\ \A u \in Turns : RowSettled(u)
  <2>1. CASE \E n \in 1..MaxWaits["event"] : Reply(c, n)
    <3>1. PICK n : approval' = approval /\ ToolOf(c) = "event" /\ Publish(c, "event", n, "reply")
      BY <2>1 DEF Reply
    <3> QED BY <1>0, <3>1, NothingSettles, PublishSettles DEF Shape
  <2>2. ASSUME NEW d \in {"approve", "deny"}, Resolve(c, d)
        PROVE  /\ Monotone /\ approval' \in [Calls -> {"none", "PENDING", "APPROVED", "DENIED"}]
               /\ row' \in [Turns -> RowShape] /\ \A u \in Turns : RowSettled(u)
    <3>1. /\ approval[c] = "PENDING" /\ Publish(c, "approval", 1, d)
          /\ approval' = [approval EXCEPT ![c] = IF d = "approve" THEN "APPROVED" ELSE "DENIED"]
      BY <2>2 DEF Resolve
    <3>2. Monotone /\ approval' \in [Calls -> {"none", "PENDING", "APPROVED", "DENIED"}]
      BY <1>0, <3>1 DEF Shape, Monotone
    <3>3. d = "approve" => approval'[c] = "APPROVED"
      BY <1>0, <3>1 DEF Shape
    <3> QED BY <1>0, <3>1, <3>2, <3>3, PublishSettles
  <2> QED BY <2>1, <2>2 DEF Answer
<1>3. Shape'
  BY <1>0, <1>1, <1>2 DEF Shape
<1>4. RanSettled /\ \A e \in Users : RunSettled(e)
  BY <1>1, NothingSettles
<1>5. \A u \in Turns : AskedInRange(u)'
  BY <1>0, <1>1 DEF AskedInRange
<1> QED BY <1>2, <1>3, <1>4, <1>5, ApprovalKept

\* At the start nothing is approved and nothing is pending.
LEMMA ApprovalStart == Init => ApprovalInv
<1> SUFFICES ASSUME Init PROVE ApprovalInv
  OBVIOUS
<1>1. Shape
  BY DEF Init, Shape, RowShape, RunShape, Gone
<1>2. ASSUME NEW t \in Turns PROVE AskedInRange(t) /\ RowInRange(t) /\ RowApproved(t)
  BY TurnBasics DEF Init, AskedInRange, RowInRange, RowApproved
<1>3. ASSUME NEW e \in Users PROVE RunInRange(e) /\ RunApproved(e)
  BY TurnBasics DEF Init, RunInRange, RunApproved, Gone
<1> QED BY <1>1, <1>2, <1>3 DEF ApprovalInv, ApprovedOnly, Init

\* The induction step of ApprovalIsNeeded.
LEMMA ApprovalStep == ApprovalInv /\ [Next]_vars => ApprovalInv'
<1> SUFFICES ASSUME ApprovalInv, [Next]_vars PROVE ApprovalInv'
  OBVIOUS
<1>0. Shape /\ \A u \in Turns : AskedInRange(u)
  BY DEF ApprovalInv
<1>1. ASSUME NEW e \in Alive, Step(e) PROVE ApprovalInv'
  BY <1>1, StepKeepsApprovals DEF Alive
<1>2. ASSUME approval' = approval, asked' = asked, spent' = spent, ran' = ran,
             row' = row, run' = run
      PROVE  ApprovalInv'
  <2>1. Shape' /\ \A u \in Turns : AskedInRange(u)'
    BY <1>0, <1>2 DEF Shape, AskedInRange
  <2> QED BY <1>2, <2>1, NothingSettles, ApprovalKept
<1>3. ASSUME NEW e \in Alive, Signal(e) PROVE ApprovalInv'
  BY <1>2, <1>3 DEF Signal, rows, ledger, history
<1>4. ASSUME NEW t \in Turns, \/ Refuse(t) \/ Claim(t) \/ TimerFires(t) \/ WaitExpires(t) \/ Revoke(t)
                              \/ Pause(t) \/ ResumePaused(t) \/ Lapse(t)
      PROVE  ApprovalInv'
  BY <1>4, ClaimKeepsApprovals, OutsideKeepsApprovals
<1>5. ASSUME NEW c \in Calls, Answer(c)
      PROVE  ApprovalInv'
  BY <1>5, AnswersKeepApprovals
<1>6. CASE NextDay
  BY <1>2, <1>6 DEF NextDay, rows, history
<1>7. CASE Crash
  <2>1. /\ approval' = approval /\ asked' = asked /\ spent' = spent /\ ran' = ran
        /\ run' = [e \in Users |-> Gone]
        /\ row' = [t \in Turns |-> IF row[t].status = "RUNNING" THEN [row[t] EXCEPT !.status = "READY"]
                                   ELSE row[t]]
    BY <1>7 DEF Crash, ledger, history
  <2>2. \A p \in RowShape :
           LET q == [p EXCEPT !.status = "READY"]
           IN  q \in RowShape /\ q.pending = p.pending /\ q.how = p.how /\ q.mail = p.mail
    BY DEF RowShape
  <2>3. \A t \in Turns : row[t] \in RowShape
    BY <1>0 DEF Shape
  <2>4. row' \in [Turns -> RowShape] /\ \A t \in Turns : RowSettled(t)
    BY <2>1, <2>2, <2>3 DEF RowSettled, RowKeeps
  <2>5. run' \in [Users -> RunShape]
    BY <2>1 DEF Gone, RunShape
  <2>6. \A e \in Users : RunSettled(e)
    BY <2>1, TurnBasics DEF RunSettled, RunInRange, RunApproved, Gone
  <2>7. Shape' /\ \A u \in Turns : AskedInRange(u)'
    BY <1>0, <2>1, <2>4, <2>5 DEF Shape, AskedInRange
  <2> QED BY <2>1, <2>4, <2>6, <2>7, NothingSettles, ApprovalKept
<1>8. CASE UNCHANGED vars
  BY <1>2, <1>8 DEF vars, rows, ledger, history
<1> QED BY <1>1, <1>3, <1>4, <1>5, <1>6, <1>7, <1>8 DEF Next, Answer

\* No tool that needs an approval is ever started without one: the pending
\* call of a row, the call an execution has in hand, and the answer that is
\* given to it always belong together.
THEOREM ApprovalIsNeeded == Spec => []ApprovedOnly
<1>1. ApprovalInv => ApprovedOnly
  BY DEF ApprovalInv
<1> QED BY <1>1, ApprovalStart, ApprovalStep, PTL DEF Spec

-----------------------------------------------------------------------------
(* The ledger.                                                             *)

ChargedOf(t) == {c \in charged : c[1] = t}
HeldCharged(e) == run[e].phase \in {"slot", "tool"} => InHand(e) \in charged
ChargeInv ==
  /\ IsFiniteSet(charged) /\ ran \subseteq charged
  /\ \A e \in Users : HeldCharged(e)
  /\ \A t \in Turns : spent[t] = Cardinality(ChargedOf(t)) /\ spent[t] <= ToolLimit

\* Only a call on its way to the pool is charged; no other step brings an
\* execution there.
LEMMA ChargeKept ==
  ASSUME ChargeInv, charged' = charged, spent' = spent,
         ran' \subseteq ran \cup charged,
         \A e \in Users : \/ run'[e] = run[e]
                          \/ run'[e].phase \notin {"slot", "tool"}
                          \/ run[e].phase \in {"slot", "tool"} /\ run'[e].call = run[e].call
  PROVE  ChargeInv'
<1>1. \A e \in Users : HeldCharged(e)'
  BY DEF ChargeInv, HeldCharged, InHand
<1>2. \A t \in Turns : spent'[t] = Cardinality(ChargedOf(t)') /\ spent'[t] <= ToolLimit
  BY DEF ChargeInv, ChargedOf
<1> QED BY <1>1, <1>2 DEF ChargeInv

\* A call that goes to the pool has its entry, and the goal has paid for it once.
LEMMA ChargeMade ==
  ASSUME Shape, ChargeInv, NEW e \in Users, Charges(InHand(e)), ran' = ran,
         run' = [run EXCEPT ![e].phase = "slot"]
  PROVE  ChargeInv'
<1> DEFINE c == InHand(e)
           t == e[1]
<1>1. t \in Turns /\ c[1] = t /\ spent[t] \in Nat /\ ToolLimit \in Nat
  BY TurnBasics, TurnsAssumption DEF Shape, InHand
<1>2. /\ spent[t] < ToolLimit /\ charged' = charged \cup {c}
      /\ spent' = IF c \in charged THEN spent ELSE [spent EXCEPT ![t] = @ + 1]
  BY <1>1 DEF Charges
<1>3. InHand(e)' = c /\ \A x \in Users : x # e => run'[x] = run[x]
  BY DEF Shape, RunShape, InHand
<1> HIDE DEF c, t
<1>4. \A x \in Users : HeldCharged(x)'
  <2> SUFFICES ASSUME NEW x \in Users PROVE HeldCharged(x)'
    OBVIOUS
  <2>1. CASE x = e
    BY <1>2, <1>3, <2>1 DEF HeldCharged
  <2>2. CASE x # e
    BY <1>2, <1>3, <2>2 DEF HeldCharged, InHand, ChargeInv
  <2> QED BY <2>1, <2>2
<1>5. IsFiniteSet(charged') /\ ran' \subseteq charged'
  BY <1>2, FS_AddElement DEF ChargeInv
<1>6. ASSUME NEW u \in Turns
      PROVE  spent'[u] = Cardinality(ChargedOf(u)') /\ spent'[u] <= ToolLimit
  <2>1. /\ IsFiniteSet(ChargedOf(u)) /\ spent[u] = Cardinality(ChargedOf(u)) /\ spent[u] <= ToolLimit
    BY FS_Subset DEF ChargeInv, ChargedOf
  <2>2. CASE c \in charged
    BY <1>2, <2>1, <2>2 DEF ChargedOf
  <2>3. CASE c \notin charged /\ u = t
    <3>1. ChargedOf(u)' = ChargedOf(u) \cup {c} /\ c \notin ChargedOf(u)
      BY <1>1, <1>2, <2>3 DEF ChargedOf
    <3>2. Cardinality(ChargedOf(u)') = Cardinality(ChargedOf(u)) + 1
      BY <2>1, <3>1, FS_AddElement
    <3>3. spent'[u] = spent[u] + 1
      BY <1>1, <1>2, <2>3 DEF Shape
    <3>4. spent'[u] = Cardinality(ChargedOf(u)')
      BY <2>1, <3>2, <3>3
    <3>5. spent'[u] <= ToolLimit
      BY <1>1, <1>2, <2>3, <3>3
    <3> QED BY <3>4, <3>5
  <2>4. CASE c \notin charged /\ u # t
    <3>1. ChargedOf(u)' = ChargedOf(u)
      BY <1>1, <1>2, <2>4 DEF ChargedOf
    <3>2. spent'[u] = spent[u]
      BY <1>2, <2>4 DEF Shape
    <3> QED BY <2>1, <3>1, <3>2
  <2> QED BY <2>2, <2>3, <2>4
<1> QED BY <1>4, <1>5, <1>6 DEF ChargeInv

\* The induction step of CallsAreChargedOnce.
LEMMA ChargeStep == Shape /\ ChargeInv /\ [Next]_vars => ChargeInv'
<1> SUFFICES ASSUME Shape, ChargeInv, [Next]_vars PROVE ChargeInv'
  OBVIOUS
<1>0. run \in [Users -> RunShape]
  BY DEF Shape
<1>1. ASSUME NEW e \in Users, charged' = charged, spent' = spent, ran' = ran,
             \/ run' = run \/ End(e) \/ run' = [run EXCEPT ![e] = Anew]
             \/ Go(e, "before") \/ Go(e, "model") \/ Go(e, "calls")
      PROVE  ChargeInv'
  <2>1. CASE run' = run
    BY <1>1, <2>1, ChargeKept
  <2>2. CASE run' = [run EXCEPT ![e] = Gone] \/ run' = [run EXCEPT ![e] = Anew]
    BY <1>0, <1>1, <2>2, ChargeKept DEF Gone, Anew
  <2>3. ASSUME NEW p \in {"before", "model", "calls"}, run' = [run EXCEPT ![e].phase = p]
        PROVE  ChargeInv'
    <3>1. run'[e].phase = p /\ \A x \in Users : x # e => run'[x] = run[x]
      BY <1>0, <2>3 DEF RunShape
    <3> QED BY <1>1, <3>1, ChargeKept
  <2> QED BY <1>1, <2>1, <2>2, <2>3 DEF End, Go
<1>2. ASSUME NEW e \in Users, NEW c, NEW how, NEW s, NEW n, Suspend(e, c, how, s, n)
      PROVE  End(e) \/ run' = [run EXCEPT ![e] = Anew]
  BY <1>2 DEF Suspend
<1>3. ASSUME NEW e \in Users, NEW limit, Throw(e, limit) PROVE End(e)
  BY <1>3 DEF Throw
<1>4. ASSUME NEW e \in Users, Step(e) PROVE ChargeInv'
  <2>1. CASE BeginGivesUp(e)
    BY <1>1, <2>1 DEF BeginGivesUp, ledger, history
  <2>2. CASE BeginResumes(e)
    <3> DEFINE r == row[e[1]]
               n == [phase |-> "hook", round |-> 0, call |-> r.pending, last |-> r.pending, resumed |-> TRUE]
    <3>1. charged' = charged /\ spent' = spent /\ ran' = ran /\ run' = [run EXCEPT ![e] = n]
      BY <2>2 DEF BeginResumes, ledger, history
    <3>2. run'[e].phase = "hook" /\ \A x \in Users : x # e => run'[x] = run[x]
      BY <1>0, <3>1
    <3> QED BY <3>1, <3>2, ChargeKept
  <2>3. CASE BeginWaitsOn(e)
    BY <1>1, <1>2, <2>3 DEF BeginWaitsOn, ledger
  <2>4. CASE BeginAsks(e) \/ AskModel(e)
    BY <1>1, <2>4 DEF BeginAsks, AskModel, ledger, history
  <2>5. CASE AskOverQuota(e) \/ ModelFails(e)
    BY <1>1, <1>3, <2>5 DEF AskOverQuota, ModelFails, ledger, history
  <2>6. ASSUME NEW n \in 0..2, ModelAnswers(e, n) PROVE ChargeInv'
    <3> DEFINE new == [phase |-> "calls", round |-> run[e].round + 1, call |-> asked[e[1]],
                       last |-> asked[e[1]] + n, resumed |-> FALSE]
    <3>1. /\ charged' = charged /\ spent' = spent /\ ran' = ran
          /\ End(e) \/ run' = [run EXCEPT ![e] = new]
      BY <2>6 DEF ModelAnswers
    <3>2. CASE run' = [run EXCEPT ![e] = new]
      <4>1. run'[e].phase = "calls" /\ \A x \in Users : x # e => run'[x] = run[x]
        BY <1>0, <3>2
      <4> QED BY <3>1, <4>1, ChargeKept
    <3> QED BY <1>1, <3>1, <3>2
  <2>7. CASE CallsDone(e) \/ ToolRefused(e) \/ ArgumentsRefused(e)
    BY <1>1, <1>3, <2>7 DEF CallsDone, ToolRefused, ArgumentsRefused, ledger, history
  <2>8. CASE CallNeedsApproval(e)
    BY <1>1, <1>2, <2>8 DEF CallNeedsApproval, ledger
  <2>9. CASE CallExecutes(e)
    <3> DEFINE new == [run[e] EXCEPT !.call = @ + 1, !.phase = "hook"]
    <3>1. charged' = charged /\ spent' = spent /\ ran' = ran /\ run' = [run EXCEPT ![e] = new]
      BY <2>9 DEF CallExecutes, ledger, history
    <3>2. new.phase = "hook"
      BY <1>0 DEF RunShape
    <3> HIDE DEF new
    <3>3. run'[e].phase = "hook" /\ \A x \in Users : x # e => run'[x] = run[x]
      BY <1>0, <3>1, <3>2
    <3> QED BY <3>1, <3>3, ChargeKept
  <2>10. CASE ToolAcquires(e)
    BY <2>10, ChargeMade DEF ToolAcquires, Go, history
  <2>11. CASE ToolStarts(e)
    <3>1. /\ charged' = charged /\ spent' = spent /\ ran' = ran \cup {InHand(e)}
          /\ run' = [run EXCEPT ![e].phase = "tool"] /\ run[e].phase = "slot"
      BY <2>11 DEF ToolStarts, At, Go, ledger
    <3>2. InHand(e) \in charged
      BY <3>1 DEF ChargeInv, HeldCharged
    <3>3. run'[e].call = run[e].call /\ \A x \in Users : x # e => run'[x] = run[x]
      BY <1>0, <3>1 DEF RunShape
    <3> QED BY <3>1, <3>2, <3>3, ChargeKept
  <2>12. CASE ToolRejected(e) \/ ToolThrows(e)
    BY <1>1, <1>3, <2>12 DEF ToolRejected, ToolThrows, ledger, history
  <2>13. CASE ToolReturns(e)
    BY <1>1, <2>13 DEF ToolReturns, ledger, history
  <2>14. CASE ToolSuspends(e)
    BY <1>1, <1>2, <2>14 DEF ToolSuspends, ledger
  <2> QED BY <1>4, <2>1, <2>2, <2>3, <2>4, <2>5, <2>6, <2>7, <2>8, <2>9, <2>10, <2>11, <2>12, <2>13,
             <2>14 DEF Step
<1>5. CASE UNCHANGED <<charged, spent, ran, run>>
  BY <1>5, ChargeKept
<1>6. ASSUME NEW t \in Turns, Claim(t) PROVE ChargeInv'
  <2> DEFINE e == <<t, row[t].attempt + 1>>
  <2>1. charged' = charged /\ spent' = spent /\ ran' = ran /\ run' = [run EXCEPT ![e].phase = "begin"]
    BY <1>6 DEF Claim, ledger, history
  <2> HIDE DEF e
  <2>2. \A x \in Users : run'[x] = run[x] \/ run'[x].phase = "begin"
    BY <1>0, <2>1 DEF RunShape
  <2> QED BY <2>1, <2>2, ChargeKept
<1>7. CASE Crash
  <2>1. charged' = charged /\ spent' = spent /\ ran' = ran /\ run' = [e \in Users |-> Gone]
    BY <1>7 DEF Crash, ledger, history
  <2>2. \A x \in Users : run'[x].phase = "none"
    BY <2>1 DEF Gone
  <2> QED BY <2>1, <2>2, ChargeKept
<1>8. ASSUME \/ \E e \in Alive : Signal(e)
             \/ \E t \in Turns : \/ Refuse(t) \/ TimerFires(t) \/ WaitExpires(t) \/ Revoke(t)
                                 \/ Pause(t) \/ ResumePaused(t) \/ Lapse(t)
             \/ \E c \in Calls : Answer(c)
             \/ NextDay \/ UNCHANGED vars
      PROVE  UNCHANGED <<charged, spent, ran, run>>
  BY <1>8 DEF Signal, Refuse, TimerFires, WaitExpires, Revoke, Pause, ResumePaused, Lapse, Answer,
     Reply, Resolve, NextDay, vars, ledger, history
<1> QED BY <1>4, <1>5, <1>6, <1>7, <1>8 DEF Next, Alive, Answer

\* A goal is charged once for every call that reaches a handler, and its budget
\* of calls is never overdrawn.
THEOREM CallsAreChargedOnce == Spec => []ChargedOnce
<1>1. Init => ChargeInv
  <2> SUFFICES ASSUME Init PROVE ChargeInv
    OBVIOUS
  <2>1. charged = {} /\ ran = {} /\ IsFiniteSet(charged)
    BY FS_EmptySet DEF Init
  <2>2. \A e \in Users : HeldCharged(e)
    BY DEF Init, HeldCharged, Gone
  <2>3. ASSUME NEW t \in Turns PROVE spent[t] = Cardinality(ChargedOf(t)) /\ spent[t] <= ToolLimit
    <3>1. ChargedOf(t) = {}
      BY <2>1 DEF ChargedOf
    <3>2. spent[t] = 0 /\ 0 <= ToolLimit
      BY TurnsAssumption DEF Init
    <3> QED BY <3>1, <3>2, FS_EmptySet
  <2> QED BY <2>1, <2>2, <2>3 DEF ChargeInv
<1>2. ApprovalInv => Shape
  BY DEF ApprovalInv
<1>3. ChargeInv => ChargedOnce
  BY DEF ChargeInv, ChargedOnce, ChargedOf
<1> QED BY <1>1, <1>2, <1>3, ApprovalStart, ApprovalStep, ChargeStep, PTL DEF Spec

-----------------------------------------------------------------------------
(* Model calls: what a step does to the executions and the ledger entries  *)
(* that count them.                                                        *)

RowsStay == \A t \in Turns : row'[t].attempt = row[t].attempt /\ row'[t].status = row[t].status

\* Only the holder of the lease gives the row another status.
RowsBy(e) ==
  /\ \A t \in Turns : /\ row'[t].attempt = row[t].attempt
                      /\ t # e[1] => row'[t].status = row[t].status
  /\ row'[e[1]].status = row[e[1]].status \/ Fresh(e)

Unbilled == UNCHANGED <<billed, today, unbilled>>

Ends(e) == run'[e].phase = "none" /\ RowsBy(e) /\ Unbilled

\* An execution starts its iterations over only with an event it has found, and
\* asks the model only while the quota lasts.
Goes(e) ==
  /\ RowsStay /\ Unbilled
  /\ run'[e].phase # "none"
  /\ \/ e \in inPlace' /\ run'[e].phase = "begin"
     \/ run'[e].phase # "begin" /\ (run[e].phase = "begin" \/ run'[e].round = run[e].round)
  /\ run'[e].phase = "model" => today < DayLimit

Answered(e) ==
  LET b == <<e, run[e].round>>
  IN  /\ run[e].phase = "model"
      /\ \/ run'[e].phase = "none" /\ RowsBy(e)
         \/ run'[e].phase = "calls" /\ run'[e].round = run[e].round + 1 /\ RowsStay
      /\ billed' = billed \cup {b}
      /\ today' = IF b \in billed THEN today ELSE today + 1
      /\ unbilled' = IF b \in billed THEN unbilled \cup {e} ELSE unbilled

OneGoesOn(e) ==
  /\ run[e].phase # "none" /\ \A x \in Users \ {e} : run'[x] = run[x]
  /\ faults' = faults /\ inPlace \subseteq inPlace'
  /\ Ends(e) \/ Goes(e) \/ Answered(e)

LEMMA EndFacts ==
  ASSUME Shape, NEW e \in Users, End(e)
  PROVE  run'[e].phase = "none" /\ \A x \in Users \ {e} : run'[x] = run[x]
BY DEF Shape, End, Gone

LEMMA GoFacts ==
  ASSUME Shape, NEW e \in Users, NEW p, Go(e, p)
  PROVE  /\ run'[e].phase = p /\ run'[e].round = run[e].round
         /\ \A x \in Users \ {e} : run'[x] = run[x]
BY DEF Shape, Go, RunShape

LEMMA WriteFacts ==
  ASSUME Shape, NEW e \in Users, NEW r, WriteRow(e, r), r.attempt = row[e[1]].attempt
  PROVE  RowsBy(e)
BY TurnBasics DEF Shape, WriteRow, RowsBy

LEMMA StatusFacts ==
  ASSUME Shape, NEW e \in Users, NEW s, WriteRow(e, [row[e[1]] EXCEPT !.status = s])
  PROVE  RowsBy(e)
<1>1. row[e[1]] \in RowShape
  BY TurnBasics DEF Shape
<1>2. PICK r : r = [row[e[1]] EXCEPT !.status = s]
  OBVIOUS
<1>3. r.attempt = row[e[1]].attempt
  BY <1>1, <1>2 DEF RowShape
<1> QED BY <1>2, <1>3, WriteFacts

LEMMA ThrowFacts ==
  ASSUME Shape, NEW e \in Users, NEW limit, Throw(e, limit)
  PROVE  /\ run'[e].phase = "none" /\ \A x \in Users \ {e} : run'[x] = run[x]
         /\ RowsBy(e)
<1>1. End(e)
  BY DEF Throw
<1>2. row[e[1]] \in RowShape
  BY TurnBasics DEF Shape
<1>3. PICK r : WriteRow(e, r) /\ r.attempt = row[e[1]].attempt
  <2> DEFINE p == row[e[1]]
             s == IF limit \/ p.failures + 1 >= MaxFailures THEN "FAILED" ELSE "READY"
             back == [p EXCEPT !.status = "READY"]
             failed == [p EXCEPT !.failures = @ + 1, !.status = s]
  <2>1. WriteRow(e, IF e \in aborted THEN back ELSE failed)
    BY DEF Throw
  <2>2. back.attempt = p.attempt
    BY <1>2 DEF RowShape
  <2>3. failed.attempt = p.attempt
    <3> HIDE DEF s
    <3> QED BY <1>2 DEF RowShape
  <2> HIDE DEF p, back, failed
  <2>4. (IF e \in aborted THEN back ELSE failed).attempt = p.attempt
    BY <2>2, <2>3
  <2> QED BY <2>1, <2>4 DEF p
<1> QED BY <1>1, <1>3, EndFacts, WriteFacts

LEMMA SuspendFacts ==
  ASSUME Shape, NEW e \in Users, NEW c, NEW how, NEW s, NEW w, Suspend(e, c, how, s, w),
         Unbilled, faults' = faults, run[e].phase # "none"
  PROVE  OneGoesOn(e)
<1> DEFINE n == c[2]
           p == row[e[1]]
           r == [p EXCEPT !.pending = n, !.how = how, !.step = s, !.wait = w]
<1>1. row[e[1]] \in RowShape /\ e[1] \in Turns
  BY TurnBasics DEF Shape
<1>2. CASE Queued(e, <<c, w>>, how)
  <2> DEFINE mail == MailOf(c, how)
             q == [r EXCEPT !.mail = mail]
  <2>1. /\ row' = [row EXCEPT ![e[1]] = q] /\ run' = [run EXCEPT ![e] = Anew]
        /\ inPlace' = inPlace \cup {e}
    BY <1>2 DEF Suspend
  <2>2. q.status = row[e[1]].status /\ q.attempt = row[e[1]].attempt
    <3>1. p \in RowShape
      BY <1>1
    <3> HIDE DEF n, mail, p
    <3>2. q.status = p.status /\ q.attempt = p.attempt
      BY <3>1 DEF RowShape
    <3> HIDE DEF q
    <3> QED BY <3>2 DEF p
  <2> HIDE DEF q
  <2>3. RowsStay
    BY <1>1, <2>1, <2>2 DEF RowsStay, Shape
  <2>4. run'[e].phase = "begin" /\ \A x \in Users \ {e} : run'[x] = run[x]
    BY <2>1 DEF Shape, Anew
  <2> QED BY <2>1, <2>3, <2>4 DEF OneGoesOn, Goes
<1>3. CASE ~Queued(e, <<c, w>>, how)
  <2> DEFINE q == [r EXCEPT !.status = "WAITING", !.mail = "none"]
  <2>1. WriteRow(e, q) /\ End(e) /\ inPlace' = inPlace
    BY <1>3 DEF Suspend
  <2>2. q.attempt = row[e[1]].attempt
    <3>1. p \in RowShape
      BY <1>1
    <3> HIDE DEF n, p
    <3>2. q.attempt = p.attempt
      BY <3>1 DEF RowShape
    <3> HIDE DEF q
    <3> QED BY <3>2 DEF p
  <2> HIDE DEF q
  <2> QED BY <2>1, <2>2, EndFacts, WriteFacts DEF OneGoesOn, Ends
<1> QED BY <1>2, <1>3

\* One step of an execution.
LEMMA StepGoesOn ==
  ASSUME Shape, NEW e \in Alive, Step(e)
  PROVE  OneGoesOn(e)
<1>0. e \in Users /\ run[e].phase # "none" /\ run \in [Users -> RunShape] /\ e[1] \in Turns
  BY TurnBasics DEF Alive, Shape
<1>1. CASE BeginGivesUp(e)
  <2>1. /\ WriteRow(e, [row[e[1]] EXCEPT !.status = "READY"]) /\ End(e)
        /\ Unbilled /\ UNCHANGED <<faults, inPlace>>
    BY <1>1 DEF BeginGivesUp, ledger, history, Unbilled
  <2> QED BY <1>0, <2>1, EndFacts, StatusFacts DEF OneGoesOn, Ends
<1>2. CASE BeginResumes(e)
  <2> DEFINE p == row[e[1]].pending
             n == [phase |-> "hook", round |-> 0, call |-> p, last |-> p, resumed |-> TRUE]
  <2>1. run' = [run EXCEPT ![e] = n]
    BY <1>2 DEF BeginResumes
  <2> HIDE DEF p
  <2>3. n.phase = "hook"
    OBVIOUS
  <2> HIDE DEF n
  <2>2. row' = row /\ Unbilled /\ UNCHANGED <<faults, inPlace>> /\ run[e].phase = "begin"
    BY <1>2 DEF BeginResumes, Begin, At, rows, ledger, history, Unbilled
  <2> QED BY <1>0, <2>1, <2>2, <2>3 DEF OneGoesOn, Goes, RowsStay
<1>3. CASE BeginWaitsOn(e) \/ CallNeedsApproval(e) \/ ToolSuspends(e)
  <2>1. PICK c, how, s, n : Suspend(e, c, how, s, n)
    BY <1>3 DEF BeginWaitsOn, CallNeedsApproval, ToolSuspends
  <2>2. Unbilled /\ faults' = faults
    BY <1>3 DEF BeginWaitsOn, CallNeedsApproval, ToolSuspends, ledger, Unbilled
  <2> QED BY <1>0, <2>1, <2>2, SuspendFacts
<1>4. CASE BeginAsks(e) \/ AskModel(e) \/ ToolAcquires(e) \/ ToolStarts(e) \/ ToolReturns(e)
  <2>1. PICK p \in {"before", "model", "slot", "tool", "calls"} : Go(e, p) /\ (p = "model" => today < DayLimit)
    BY <1>4 DEF BeginAsks, AskModel, WithinQuota, ToolAcquires, ToolStarts, ToolReturns
  <2>2. row' = row /\ Unbilled /\ UNCHANGED <<faults, inPlace>>
    BY <1>4 DEF BeginAsks, AskModel, ToolAcquires, ToolStarts, ToolReturns, rows, ledger, history, Unbilled
  <2> QED BY <1>0, <2>1, <2>2, GoFacts DEF OneGoesOn, Goes, RowsStay
<1>5. CASE \/ CallsDone(e) \/ ArgumentsRefused(e) \/ ToolRefused(e) \/ AskOverQuota(e) \/ ModelFails(e)
           \/ ToolRejected(e) \/ ToolThrows(e)
  <2>1. \/ \E limit \in BOOLEAN : Throw(e, limit)
        \/ (Go(e, "before") \/ Go(e, "calls")) /\ row' = row
    BY <1>5 DEF CallsDone, ArgumentsRefused, ToolRefused, AskOverQuota, ModelFails, ToolRejected, ToolThrows
  <2>2. Unbilled /\ UNCHANGED <<faults, inPlace>>
    BY <1>5 DEF CallsDone, ArgumentsRefused, ToolRefused, AskOverQuota, ModelFails, ToolRejected, ToolThrows,
       ledger, history, Unbilled
  <2>3. ASSUME NEW limit, Throw(e, limit) PROVE OneGoesOn(e)
    BY <1>0, <2>2, <2>3, ThrowFacts DEF OneGoesOn, Ends
  <2>4. ASSUME NEW p \in {"before", "calls"}, Go(e, p), row' = row PROVE OneGoesOn(e)
    BY <1>0, <2>2, <2>4, GoFacts DEF OneGoesOn, Goes, RowsStay
  <2> QED BY <2>1, <2>3, <2>4
<1>6. CASE CallExecutes(e)
  <2> DEFINE m == run[e].call + 1
             n == [run[e] EXCEPT !.call = m, !.phase = "hook"]
  <2>1. run' = [run EXCEPT ![e] = n]
    BY <1>6 DEF CallExecutes
  <2>2. row' = row /\ Unbilled /\ UNCHANGED <<faults, inPlace>>
    BY <1>6 DEF CallExecutes, rows, ledger, history, Unbilled
  <2> HIDE DEF m
  <2>3. n.phase = "hook" /\ n.round = run[e].round
    BY <1>0 DEF RunShape
  <2> HIDE DEF n
  <2> QED BY <1>0, <2>1, <2>2, <2>3 DEF OneGoesOn, Goes, RowsStay
<1>7. ASSUME NEW n \in 0..2, ModelAnswers(e, n) PROVE OneGoesOn(e)
  <2> DEFINE b == <<e, run[e].round>>
  <2>1. /\ run[e].phase = "model" /\ UNCHANGED <<faults, inPlace>>
        /\ billed' = billed \cup {b}
        /\ today' = IF b \in billed THEN today ELSE today + 1
        /\ unbilled' = IF b \in billed THEN unbilled \cup {e} ELSE unbilled
    BY <1>7 DEF ModelAnswers, Bill, At
  <2>2. CASE n = 0
    <3>1. WriteRow(e, [row[e[1]] EXCEPT !.status = "SUCCEEDED"]) /\ End(e)
      BY <1>7, <2>2 DEF ModelAnswers
    <3> QED BY <1>0, <2>1, <3>1, EndFacts, StatusFacts DEF OneGoesOn, Answered
  <2>3. CASE n # 0
    <3> DEFINE r == run[e].round + 1
               s == [phase |-> "calls", round |-> r, call |-> asked[e[1]],
                     last |-> asked[e[1]] + n, resumed |-> FALSE]
    <3>1. run' = [run EXCEPT ![e] = s] /\ row' = row
      BY <1>7, <2>3 DEF ModelAnswers
    <3>2. s.phase = "calls" /\ s.round = r
      OBVIOUS
    <3> HIDE DEF s
    <3>3. run'[e].phase = "calls" /\ run'[e].round = r /\ \A x \in Users \ {e} : run'[x] = run[x]
      BY <1>0, <3>1, <3>2
    <3> QED BY <1>0, <2>1, <3>1, <3>3 DEF OneGoesOn, Answered, RowsStay
  <2> QED BY <2>2, <2>3
<1> QED BY <1>1, <1>2, <1>3, <1>4, <1>5, <1>6, <1>7 DEF Step

\* A claim begins the execution of the next attempt.
ClaimsNext(t) ==
  LET n == <<t, row[t].attempt + 1>>
  IN  /\ n \in Users /\ run'[n].phase = "begin" /\ \A x \in Users \ {n} : run'[x] = run[x]
      /\ row[t].status # "RUNNING" /\ row'[t].attempt = row[t].attempt + 1
      /\ row'[t].status = "RUNNING" /\ \A u \in Turns \ {t} : row'[u] = row[u]
      /\ Unbilled /\ UNCHANGED <<inPlace, faults>>

SameAttempts == \A t \in Turns : row'[t].attempt = row[t].attempt

\* What comes from outside takes no row from its execution, unless it is a fault.
StaysRunning(t) == row[t].status = "RUNNING" => row'[t].status = "RUNNING"
GoesOutside ==
  /\ run' = run /\ SameAttempts /\ UNCHANGED <<billed, unbilled, inPlace>>
  /\ today' = today \/ today' = 0
  /\ \/ faults' \in {faults, faults + 1} /\ \A t \in Turns : StaysRunning(t)
     \/ faults' = faults + 1 /\ \E t \in Turns : \A u \in Turns \ {t} : StaysRunning(u)

Restarts ==
  /\ \A e \in Users : run'[e].phase = "none"
  /\ SameAttempts /\ Unbilled /\ inPlace' = inPlace /\ faults' = faults + 1

LEMMA ClaimGoesOn ==
  ASSUME Shape, NEW t \in Turns, Claim(t)
  PROVE  ClaimsNext(t)
<1> DEFINE a == row[t].attempt + 1
           n == <<t, a>>
<1>1. row[t] \in RowShape /\ row[t].attempt \in Nat
  BY DEF Shape, RowShape
<1>2. row[t].attempt < MaxAttempts /\ MaxAttempts \in Nat
  BY TurnsAssumption DEF Claim
<1>3. a \in 1..MaxAttempts
  BY <1>1, <1>2
<1>4. n \in Users
  BY <1>3, TurnBasics
<1>5. row[t].status = "READY" /\ Unbilled /\ UNCHANGED <<inPlace, faults>>
  BY DEF Claim, ledger, history, Unbilled
<1>6. row' = [row EXCEPT ![t].status = "RUNNING", ![t].attempt = @ + 1]
  BY DEF Claim
<1>7. /\ row'[t].attempt = a /\ row'[t].status = "RUNNING" /\ \A u \in Turns \ {t} : row'[u] = row[u]
  BY <1>1, <1>6 DEF Shape, RowShape
<1>8. run' = [run EXCEPT ![n].phase = "begin"]
  BY DEF Claim
<1> HIDE DEF n
<1>9. run'[n].phase = "begin" /\ \A x \in Users \ {n} : run'[x] = run[x]
  BY <1>4, <1>8 DEF Shape, RunShape
<1> QED BY <1>4, <1>5, <1>7, <1>9 DEF ClaimsNext, n

\* A row that is not running gets another status.
LEMMA StatusChange ==
  ASSUME Shape, NEW t \in Turns, NEW s, row' = [row EXCEPT ![t].status = s]
  PROVE  /\ SameAttempts
         /\ \A u \in Turns \ {t} : StaysRunning(u)
         /\ row[t].status # "RUNNING" => \A u \in Turns : StaysRunning(u)
<1>1. row[t] \in RowShape
  BY DEF Shape
<1>2. row'[t].attempt = row[t].attempt /\ \A u \in Turns \ {t} : row'[u] = row[u]
  BY <1>1 DEF Shape, RowShape
<1> QED BY <1>2 DEF SameAttempts, StaysRunning

LEMMA AnswerChange ==
  ASSUME Shape, NEW c \in Calls, NEW how, NEW n, NEW mail, Publish(c, how, n, mail)
  PROVE  SameAttempts /\ \A u \in Turns : StaysRunning(u)
<1>0. c[1] \in Turns
  BY TurnBasics
<1>1. CASE Awaits(c, how, n)
  <2>1. row[c[1]].status = "WAITING"
    BY <1>1 DEF Awaits
  <2>2. row' = [row EXCEPT ![c[1]].status = "READY", ![c[1]].mail = mail]
    BY <1>1 DEF Publish
  <2>3. row[c[1]] \in RowShape
    BY <1>0 DEF Shape
  <2>4. row'[c[1]].attempt = row[c[1]].attempt /\ \A u \in Turns \ {c[1]} : row'[u] = row[u]
    BY <1>0, <2>2, <2>3 DEF Shape, RowShape
  <2> QED BY <2>1, <2>4 DEF SameAttempts, StaysRunning
<1>2. CASE ~Awaits(c, how, n)
  BY <1>2 DEF Publish, SameAttempts, StaysRunning
<1> QED BY <1>1, <1>2

\* Every step of a turn is one of these.
LEMMA TurnSteps ==
  ASSUME Shape, [Next]_vars
  PROVE  \/ \E e \in Alive : OneGoesOn(e)
         \/ \E t \in Turns : ClaimsNext(t)
         \/ GoesOutside \/ Restarts
<1>1. ASSUME NEW e \in Alive, Signal(e) PROVE GoesOutside
  BY <1>1 DEF Signal, Fault, rows, ledger, history, GoesOutside, SameAttempts, StaysRunning
<1>2. ASSUME NEW t \in Turns, \/ Refuse(t) \/ TimerFires(t) \/ WaitExpires(t) \/ Revoke(t)
                              \/ Pause(t) \/ ResumePaused(t)
      PROVE  GoesOutside
  <2>1. \/ row' = row
        \/ /\ row[t].status # "RUNNING"
           /\ \E s \in {"READY", "FAILED", "PAUSED"} : row' = [row EXCEPT ![t].status = s]
    BY <1>2 DEF Refuse, TimerFires, WaitExpires, Revoke, Pause, ResumePaused, Suspended, rows
  <2>2. SameAttempts /\ \A u \in Turns : StaysRunning(u)
    BY <2>1, StatusChange DEF SameAttempts, StaysRunning
  <2>3. /\ run' = run /\ UNCHANGED <<billed, unbilled, inPlace, today>>
        /\ faults' \in {faults, faults + 1}
    BY <1>2 DEF Refuse, TimerFires, WaitExpires, Revoke, Pause, ResumePaused, Fault, ledger, history
  <2> QED BY <2>2, <2>3 DEF GoesOutside
<1>3. ASSUME NEW t \in Turns, Lapse(t) PROVE GoesOutside
  <2>1. SameAttempts /\ \A u \in Turns \ {t} : StaysRunning(u)
    BY <1>3, StatusChange DEF Lapse
  <2>2. /\ run' = run /\ UNCHANGED <<billed, unbilled, inPlace, today>> /\ faults' = faults + 1
    BY <1>3 DEF Lapse, Fault, ledger, history
  <2> QED BY <2>1, <2>2 DEF GoesOutside
<1>4. ASSUME NEW c \in Calls, Answer(c) PROVE GoesOutside
  <2>1. \E how, n, mail : Publish(c, how, n, mail)
    <3>1. CASE \E d : Resolve(c, d)
      BY <3>1 DEF Resolve
    <3>2. CASE \E n : Reply(c, n)
      BY <3>2 DEF Reply
    <3> QED BY <1>4, <3>1, <3>2 DEF Answer
  <2>2. run' = run /\ UNCHANGED <<billed, unbilled, inPlace, today, faults>>
    BY <1>4 DEF Answer, Reply, Resolve, ledger, history
  <2> QED BY <2>1, <2>2, AnswerChange DEF GoesOutside
<1>5. ASSUME NextDay PROVE GoesOutside
  BY <1>5 DEF NextDay, rows, history, GoesOutside, SameAttempts, StaysRunning
<1>6. ASSUME UNCHANGED vars PROVE GoesOutside
  BY <1>6 DEF vars, rows, ledger, history, GoesOutside, SameAttempts, StaysRunning
<1>7. ASSUME Crash PROVE Restarts
  <2>1. run' = [e \in Users |-> Gone] /\ faults' = faults + 1 /\ UNCHANGED <<ledger, history>>
    BY <1>7 DEF Crash
  <2>2. row' = [t \in Turns |-> IF row[t].status = "RUNNING" THEN [row[t] EXCEPT !.status = "READY"]
                                ELSE row[t]]
    BY <1>7 DEF Crash
  <2>3. ASSUME NEW t \in Turns PROVE row'[t].attempt = row[t].attempt
    <3>1. row[t] \in RowShape
      BY DEF Shape
    <3> QED BY <2>2, <3>1 DEF RowShape
  <2> QED BY <2>1, <2>3 DEF Restarts, SameAttempts, Unbilled, ledger, history, Gone
<1> QED BY <1>1, <1>2, <1>3, <1>4, <1>5, <1>6, <1>7, StepGoesOn, ClaimGoesOn DEF Next, Answer

-----------------------------------------------------------------------------
(* A model call and its entry.                                             *)

\* An attempt that nobody has begun has left nothing in the ledger, and one that
\* goes on is past the rounds it has entered, unless it has started over.
Unclaimed(e) ==
  e[2] > row[e[1]].attempt => run[e].phase = "none" /\ \A k \in Nat : <<e, k>> \notin billed
PastBilled(e) ==
  e \notin inPlace /\ run[e].phase # "none"
    => \A k \in Nat : <<e, k>> \in billed => run[e].phase # "begin" /\ k < run[e].round

BillInv == (\A e \in Users : Unclaimed(e) /\ PastBilled(e)) /\ BilledByAttempt

\* The induction step of CallsAreBilled.
LEMMA BillStep == Shape /\ BillInv /\ [Next]_vars => BillInv'
<1> SUFFICES ASSUME Shape, BillInv, [Next]_vars PROVE BillInv'
  OBVIOUS
<1>0. /\ \A x \in Users : run[x] \in RunShape /\ run[x].round \in Nat
      /\ \A t \in Turns : row[t].attempt \in Nat
      /\ \A x \in Users : x[1] \in Turns /\ x[2] \in Nat /\ x = <<x[1], x[2]>>
  BY TurnBasics DEF Shape, RunShape, RowShape
<1>1. ASSUME NEW e \in Alive, OneGoesOn(e) PROVE BillInv'
  <2>1. /\ e \in Users /\ run[e].phase # "none" /\ \A x \in Users \ {e} : run'[x] = run[x]
        /\ inPlace \subseteq inPlace'
    BY <1>1 DEF OneGoesOn, Alive
  <2>2. \A x \in Users : row'[x[1]].attempt = row[x[1]].attempt
    BY <1>0, <1>1 DEF OneGoesOn, Ends, Goes, Answered, RowsBy, RowsStay
  <2>3. ~(e[2] > row[e[1]].attempt)
    BY <2>1 DEF BillInv, Unclaimed
  <2>4. CASE Ends(e) \/ Goes(e)
    <3>1. Unbilled
      BY <2>4 DEF Ends, Goes
    <3>2. ASSUME NEW x \in Users PROVE Unclaimed(x)'
      BY <2>1, <2>2, <2>3, <3>1 DEF BillInv, Unclaimed, Unbilled
    <3>3. ASSUME NEW x \in Users PROVE PastBilled(x)'
      <4>1. CASE x # e
        BY <2>1, <3>1, <4>1 DEF BillInv, PastBilled, Unbilled
      <4>2. CASE x = e
        BY <2>1, <2>4, <3>1, <4>2 DEF BillInv, PastBilled, Unbilled, Ends, Goes
      <4> QED BY <4>1, <4>2
    <3> QED BY <2>1, <3>1, <3>2, <3>3 DEF BillInv, BilledByAttempt, Unbilled
  <2>5. CASE Answered(e)
    <3> DEFINE n == run[e].round
               b == <<e, n>>
    <3>1. /\ run[e].phase = "model" /\ billed' = billed \cup {b} /\ n \in Nat
          /\ unbilled' = IF b \in billed THEN unbilled \cup {e} ELSE unbilled
          /\ \/ run'[e].phase = "none"
             \/ run'[e].phase = "calls" /\ run'[e].round = n + 1
      BY <1>0, <2>1, <2>5 DEF Answered
    <3> HIDE DEF n
    <3>2. \A x \in Users \ {e} : \A k \in Nat : <<x, k>> \in billed' <=> <<x, k>> \in billed
      BY <3>1
    <3>3. \A k \in Nat : <<e, k>> \in billed' <=> k = n \/ <<e, k>> \in billed
      BY <3>1
    <3>4. ASSUME NEW x \in Users PROVE Unclaimed(x)'
      BY <2>1, <2>2, <2>3, <3>2 DEF BillInv, Unclaimed
    <3>5. ASSUME NEW x \in Users PROVE PastBilled(x)'
      <4>1. CASE x # e
        BY <2>1, <3>2, <4>1 DEF BillInv, PastBilled
      <4>2. CASE x = e
        <5> SUFFICES ASSUME e \notin inPlace', run'[e].phase # "none",
                            NEW k \in Nat, <<e, k>> \in billed'
                     PROVE  run'[e].phase # "begin" /\ k < run'[e].round
          BY <4>2 DEF PastBilled
        <5>1. run'[e].phase = "calls" /\ run'[e].round = n + 1
          BY <3>1
        <5>2. k = n \/ k < n
          BY <2>1, <3>3 DEF BillInv, PastBilled, n
        <5> QED BY <3>1, <5>1, <5>2
      <4> QED BY <4>1, <4>2
    <3>6. b \in billed => e \in inPlace
      <4> SUFFICES ASSUME b \in billed, e \notin inPlace PROVE FALSE
        OBVIOUS
      <4>1. n < run[e].round
        BY <2>1, <3>1 DEF BillInv, PastBilled
      <4> QED BY <3>1, <4>1 DEF n
    <3> QED BY <2>1, <3>1, <3>4, <3>5, <3>6 DEF BillInv, BilledByAttempt
  <2> QED BY <1>1, <2>4, <2>5 DEF OneGoesOn
<1>2. ASSUME NEW t \in Turns, ClaimsNext(t) PROVE BillInv'
  <2> DEFINE n == <<t, row[t].attempt + 1>>
  <2>1. /\ n \in Users /\ n[1] = t /\ n[2] = row[t].attempt + 1
        /\ \A x \in Users \ {n} : run'[x] = run[x]
        /\ row'[t].attempt = row[t].attempt + 1 /\ \A u \in Turns \ {t} : row'[u] = row[u]
        /\ Unbilled /\ inPlace' = inPlace
    BY <1>2 DEF ClaimsNext
  <2>2. \A k \in Nat : <<n, k>> \notin billed
    <3>1. n[2] > row[n[1]].attempt
      BY <1>0, <2>1
    <3> QED BY <2>1, <3>1 DEF BillInv, Unclaimed
  <2>3. \A x \in Users : x[2] > row'[x[1]].attempt => x[2] > row[x[1]].attempt /\ x # n
    <3> TAKE x \in Users
    <3>1. CASE x[1] = t
      BY <1>0, <2>1, <3>1
    <3>2. CASE x[1] # t
      BY <1>0, <2>1, <3>2
    <3> QED BY <3>1, <3>2
  <2> HIDE DEF n
  <2>4. ASSUME NEW x \in Users PROVE Unclaimed(x)'
    BY <2>1, <2>3 DEF BillInv, Unclaimed, Unbilled
  <2>5. ASSUME NEW x \in Users PROVE PastBilled(x)'
    <3>1. CASE x # n
      BY <2>1, <3>1 DEF BillInv, PastBilled, Unbilled
    <3>2. CASE x = n
      BY <2>1, <2>2, <3>2 DEF PastBilled, Unbilled
    <3> QED BY <3>1, <3>2
  <2> QED BY <2>1, <2>4, <2>5 DEF BillInv, BilledByAttempt, Unbilled
<1>3. ASSUME GoesOutside PROVE BillInv'
  <2>1. /\ run' = run /\ UNCHANGED <<billed, unbilled, inPlace>>
        /\ \A x \in Users : row'[x[1]].attempt = row[x[1]].attempt
    BY <1>0, <1>3 DEF GoesOutside, SameAttempts
  <2> QED BY <2>1 DEF BillInv, Unclaimed, PastBilled, BilledByAttempt
<1>4. ASSUME Restarts PROVE BillInv'
  <2>1. /\ \A x \in Users : run'[x].phase = "none"
        /\ UNCHANGED <<billed, unbilled, inPlace>>
        /\ \A x \in Users : row'[x[1]].attempt = row[x[1]].attempt
    BY <1>0, <1>4 DEF Restarts, SameAttempts, Unbilled
  <2> QED BY <2>1 DEF BillInv, Unclaimed, PastBilled, BilledByAttempt
<1> QED BY <1>1, <1>2, <1>3, <1>4, TurnSteps

\* Only an attempt that has started its iterations over in place can ask the
\* model under a key that the ledger has.
THEOREM CallsAreBilled == Spec => []BilledByAttempt
<1>1. Init => BillInv
  BY DEF Init, BillInv, Unclaimed, PastBilled, BilledByAttempt, Gone
<1>2. ApprovalInv => Shape
  BY DEF ApprovalInv
<1>3. BillInv => BilledByAttempt
  BY DEF BillInv
<1> QED BY <1>1, <1>2, <1>3, ApprovalStart, ApprovalStep, BillStep, PTL DEF Spec

-----------------------------------------------------------------------------
(* The daily quota.  At any time a turn has one execution that holds its     *)
(* lease; every other one has cost a fault.  Calls under way are counted     *)
(* with those that have made their entries.                                  *)

Stale == {e \in Alive : ~Fresh(e)}
AtModel == {e \in Users : run[e].phase = "model"}

QuotaInv ==
  /\ faults \in Nat /\ today \in Nat
  /\ IsFiniteSet(Stale) /\ Cardinality(Stale) <= faults
  /\ today + Cardinality(AtModel) <= DayLimit - 1 + Cardinality(Turns) + faults

AliveBounded ==
  IsFiniteSet(Stale) => /\ IsFiniteSet(AtModel)
                        /\ Cardinality(AtModel) <= Cardinality(Turns) + Cardinality(Stale)

LEMMA AliveBound ==
  ASSUME IsFiniteSet(Turns)
  PROVE  Shape => AliveBounded
<1> SUFFICES ASSUME Shape, IsFiniteSet(Stale)
             PROVE  /\ IsFiniteSet(AtModel)
                    /\ Cardinality(AtModel) <= Cardinality(Turns) + Cardinality(Stale)
  BY DEF AliveBounded
<1> DEFINE F == {e \in Alive : Fresh(e)}
           turn == [e \in F |-> e[1]]
<1>1. \A e \in Users : e = <<e[1], e[2]>> /\ e[1] \in Turns
  BY TurnBasics
<1>2. turn \in Injection(F, Turns)
  <2>1. turn \in [F -> Turns]
    BY <1>1 DEF Alive
  <2>2. ASSUME NEW x \in F, NEW y \in F, turn[x] = turn[y] PROVE x = y
    <3>1. x[1] = y[1] /\ x[2] = row[x[1]].attempt /\ y[2] = row[y[1]].attempt
      BY <2>2 DEF Fresh
    <3> QED BY <1>1, <3>1 DEF Alive
  <2> QED BY <2>1, <2>2 DEF Injection, IsInjective
<1>3. IsFiniteSet(F) /\ Cardinality(F) <= Cardinality(Turns)
  BY <1>2, FS_Injection
<1>4. Alive = F \cup Stale /\ F \cap Stale = {}
  BY DEF Stale
<1> HIDE DEF F
<1>5. IsFiniteSet(Alive) /\ Cardinality(Alive) = Cardinality(F) + Cardinality(Stale)
  <2>1. /\ IsFiniteSet(F \cup Stale)
        /\ Cardinality(F \cup Stale) = Cardinality(F) + Cardinality(Stale) - Cardinality(F \cap Stale)
    BY <1>3, FS_Union
  <2>2. Cardinality(F \cap Stale) = 0
    BY <1>4, FS_EmptySet
  <2>3. Cardinality(F) \in Nat /\ Cardinality(Stale) \in Nat
    BY <1>3, FS_CardinalityType
  <2> QED BY <1>4, <2>1, <2>2, <2>3
<1>6. AtModel \in SUBSET Alive
  BY DEF AtModel, Alive
<1>7. IsFiniteSet(AtModel) /\ Cardinality(AtModel) <= Cardinality(Alive)
  BY <1>5, <1>6, FS_Subset
<1>8. /\ Cardinality(F) \in Nat /\ Cardinality(Stale) \in Nat /\ Cardinality(Turns) \in Nat
      /\ Cardinality(AtModel) \in Nat
  BY <1>3, <1>7, FS_CardinalityType
<1> QED BY <1>3, <1>5, <1>7, <1>8

\* Executions lose their leases to faults only.
LEMMA StaleChange ==
  ASSUME Shape, faults \in Nat, [Next]_vars
  PROVE  \/ Stale' \subseteq Stale /\ faults' \in {faults, faults + 1}
         \/ faults' = faults + 1 /\ \E x \in Users : Stale' \subseteq Stale \cup {x}
<1>0. /\ \A x \in Users : x[1] \in Turns /\ x = <<x[1], x[2]>> /\ x[2] \in Nat
      /\ \A t \in Turns : row[t].attempt \in Nat
  BY TurnBasics DEF Shape, RowShape
<1>1. ASSUME NEW e \in Alive, OneGoesOn(e) PROVE Stale' \subseteq Stale /\ faults' = faults
  <2>1. /\ e \in Users /\ run[e].phase # "none" /\ \A x \in Users \ {e} : run'[x] = run[x]
        /\ faults' = faults
    BY <1>1 DEF OneGoesOn, Alive
  <2>2. run'[e].phase = "none" \/ RowsStay
    BY <1>1 DEF OneGoesOn, Ends, Goes, Answered
  <2>3. RowsBy(e) \/ RowsStay
    BY <1>1 DEF OneGoesOn, Ends, Goes, Answered
  <2>4. ASSUME NEW x \in Users, run'[x].phase # "none", Fresh(x) PROVE Fresh(x)'
    <3>1. CASE RowsStay
      BY <1>0, <2>4, <3>1 DEF Fresh, RowsStay
    <3>2. CASE ~RowsStay
      <4>1. x # e /\ RowsBy(e)
        BY <2>2, <2>3, <2>4, <3>2
      <4>2. CASE x[1] # e[1]
        BY <1>0, <2>4, <4>1, <4>2 DEF Fresh, RowsBy
      <4>3. CASE x[1] = e[1]
        <5>1. ~Fresh(e)
          BY <1>0, <2>1, <2>4, <4>1, <4>3 DEF Fresh
        <5> QED BY <1>0, <2>1, <2>4, <4>1, <4>3, <5>1 DEF Fresh, RowsBy
      <4> QED BY <4>2, <4>3
    <3> QED BY <3>1, <3>2
  <2> QED BY <2>1, <2>4 DEF Stale, Alive
<1>2. ASSUME NEW t \in Turns, ClaimsNext(t) PROVE Stale' \subseteq Stale /\ faults' = faults
  <2>1. PICK n \in Users :
        /\ n[1] = t /\ n[2] = row[t].attempt + 1
        /\ \A x \in Users \ {n} : run'[x] = run[x]
        /\ row[t].status # "RUNNING" /\ row'[t].status = "RUNNING"
        /\ row'[t].attempt = row[t].attempt + 1 /\ \A u \in Turns \ {t} : row'[u] = row[u]
        /\ faults' = faults
    BY <1>2 DEF ClaimsNext
  <2>2. Fresh(n)'
    BY <2>1 DEF Fresh
  <2>3. ASSUME NEW x \in Users, x # n, Fresh(x) PROVE Fresh(x)'
    BY <1>0, <2>1, <2>3 DEF Fresh
  <2> QED BY <2>1, <2>2, <2>3 DEF Stale, Alive
<1>3. ASSUME GoesOutside
      PROVE  \/ Stale' \subseteq Stale /\ faults' \in {faults, faults + 1}
             \/ faults' = faults + 1 /\ \E x \in Users : Stale' \subseteq Stale \cup {x}
  <2>1. run' = run /\ \A t \in Turns : row'[t].attempt = row[t].attempt
    BY <1>3 DEF GoesOutside, SameAttempts
  <2>2. ASSUME NEW x \in Users, StaysRunning(x[1]), Fresh(x) PROVE Fresh(x)'
    BY <1>0, <2>1, <2>2 DEF Fresh, StaysRunning
  <2>3. CASE \A t \in Turns : StaysRunning(t)
    BY <1>0, <1>3, <2>1, <2>2, <2>3 DEF GoesOutside, Stale, Alive
  <2>4. ASSUME NEW t \in Turns, \A u \in Turns \ {t} : StaysRunning(u), faults' = faults + 1
        PROVE  \/ Stale' \subseteq Stale
               \/ \E x \in Users : Stale' \subseteq Stale \cup {x}
    <3>1. CASE \E x \in Users : x[1] = t /\ Fresh(x)
      <4>1. PICK x \in Users : x[1] = t /\ Fresh(x)
        BY <3>1
      <4>2. ASSUME NEW y \in Users, y # x, Fresh(y) PROVE Fresh(y)'
        <5>1. y[1] # t
          BY <1>0, <4>1, <4>2 DEF Fresh
        <5> QED BY <1>0, <2>2, <2>4, <4>2, <5>1
      <4> QED BY <2>1, <4>2 DEF Stale, Alive
    <3>2. CASE \A x \in Users : x[1] = t => ~Fresh(x)
      <4>1. ASSUME NEW y \in Users, Fresh(y) PROVE Fresh(y)'
        BY <1>0, <2>2, <2>4, <3>2, <4>1
      <4> QED BY <2>1, <4>1 DEF Stale, Alive
    <3> QED BY <3>1, <3>2
  <2> QED BY <1>3, <2>3, <2>4 DEF GoesOutside
<1>4. ASSUME Restarts PROVE Stale' \subseteq Stale /\ faults' = faults + 1
  BY <1>4 DEF Restarts, Stale, Alive
<1> QED BY <1>1, <1>2, <1>3, <1>4, TurnSteps

\* A call is made only while the quota lasts, and counted when it is answered.
LEMMA ModelChange ==
  ASSUME Shape, today \in Nat, [Next]_vars
  PROVE  \/ AtModel' \subseteq AtModel /\ today' \in {today, 0}
         \/ today' = today /\ today < DayLimit
         \/ today' \in {today, today + 1} /\ \E e \in AtModel : AtModel' \subseteq AtModel \ {e}
<1>1. ASSUME NEW e \in Alive, OneGoesOn(e)
      PROVE  \/ AtModel' \subseteq AtModel /\ today' = today
             \/ today' = today /\ today < DayLimit
             \/ today' \in {today, today + 1} /\ e \in AtModel /\ AtModel' \subseteq AtModel \ {e}
  <2>1. e \in Users /\ \A x \in Users \ {e} : run'[x] = run[x]
    BY <1>1 DEF OneGoesOn, Alive
  <2>2. CASE Ends(e)
    BY <2>1, <2>2 DEF Ends, Unbilled, AtModel
  <2>3. CASE Goes(e)
    BY <2>1, <2>3 DEF Goes, Unbilled, AtModel
  <2>4. CASE Answered(e)
    <3>1. /\ run[e].phase = "model" /\ run'[e].phase \in {"none", "calls"}
          /\ today' \in {today, today + 1}
      BY <2>4 DEF Answered
    <3> QED BY <2>1, <3>1 DEF AtModel
  <2> QED BY <1>1, <2>2, <2>3, <2>4 DEF OneGoesOn
<1>2. ASSUME NEW t \in Turns, ClaimsNext(t) PROVE AtModel' \subseteq AtModel /\ today' = today
  BY <1>2 DEF ClaimsNext, AtModel, Unbilled
<1>3. ASSUME GoesOutside PROVE AtModel' \subseteq AtModel /\ today' \in {today, 0}
  BY <1>3 DEF GoesOutside, AtModel
<1>4. ASSUME Restarts PROVE AtModel' \subseteq AtModel /\ today' = today
  BY <1>4 DEF Restarts, AtModel, Unbilled
<1> QED BY <1>1, <1>2, <1>3, <1>4, TurnSteps

\* The induction step of QuotaIsOverdrawnByOverlap.
LEMMA QuotaStep ==
  ASSUME IsFiniteSet(Turns)
  PROVE  Shape /\ AliveBounded /\ AliveBounded' /\ QuotaInv /\ [Next]_vars => QuotaInv'
<1> SUFFICES ASSUME Shape, AliveBounded, AliveBounded', QuotaInv, [Next]_vars PROVE QuotaInv'
  OBVIOUS
<1> DEFINE T == Cardinality(Turns)
           S == Cardinality(Stale)
           M == Cardinality(AtModel)
<1>1. T \in Nat /\ DayLimit \in Nat
  BY FS_CardinalityType, TurnsAssumption
<1>2. /\ faults \in Nat /\ today \in Nat /\ IsFiniteSet(Stale) /\ S <= faults
      /\ today + M <= DayLimit - 1 + T + faults
  BY DEF QuotaInv
<1>3. IsFiniteSet(AtModel) /\ S \in Nat /\ M \in Nat
  BY <1>2, FS_CardinalityType DEF AliveBounded
<1>4. /\ faults' \in {faults, faults + 1}
      /\ IsFiniteSet(Stale') /\ Cardinality(Stale') <= faults'
  <2>1. CASE Stale' \subseteq Stale /\ faults' \in {faults, faults + 1}
    <3>1. IsFiniteSet(Stale') /\ Cardinality(Stale') <= S
      BY <1>2, <2>1, FS_Subset
    <3>2. Cardinality(Stale') \in Nat
      BY <3>1, FS_CardinalityType
    <3> QED BY <1>2, <1>3, <2>1, <3>1, <3>2
  <2>2. ASSUME NEW x \in Users, faults' = faults + 1, Stale' \subseteq Stale \cup {x}
        PROVE  IsFiniteSet(Stale') /\ Cardinality(Stale') <= faults'
    <3> DEFINE B == Stale \cup {x}
    <3>1. IsFiniteSet(B) /\ Cardinality(B) <= S + 1
      <4>1. IsFiniteSet(B) /\ Cardinality(B) = IF x \in Stale THEN S ELSE S + 1
        BY <1>2, FS_AddElement
      <4> QED BY <1>3, <4>1
    <3>2. IsFiniteSet(Stale') /\ Cardinality(Stale') <= Cardinality(B)
      BY <2>2, <3>1, FS_Subset
    <3>3. Cardinality(Stale') \in Nat /\ Cardinality(B) \in Nat
      BY <3>1, <3>2, FS_CardinalityType
    <3> HIDE DEF B
    <3> QED BY <1>2, <1>3, <2>2, <3>1, <3>2, <3>3
  <2> QED BY <1>2, <2>1, <2>2, StaleChange
<1>5. /\ IsFiniteSet(AtModel') /\ Cardinality(AtModel') \in Nat
      /\ Cardinality(AtModel') <= T + Cardinality(Stale')
  <2>1. IsFiniteSet(AtModel') /\ Cardinality(AtModel') <= T + Cardinality(Stale')
    BY <1>4 DEF AliveBounded
  <2> QED BY <2>1, FS_CardinalityType
<1>6. Cardinality(Stale') \in Nat
  BY <1>4, FS_CardinalityType
<1>7. /\ today' \in Nat
      /\ today' + Cardinality(AtModel') <= DayLimit - 1 + T + faults'
  <2> DEFINE N == Cardinality(AtModel')
             f == faults'
             d == today'
  <2>1. T \in Nat /\ M \in Nat /\ N \in Nat /\ DayLimit \in Nat /\ today \in Nat
    BY <1>1, <1>2, <1>3, <1>5
  <2>2. f \in Nat /\ N <= T + f /\ today + M <= DayLimit - 1 + T + f
    BY <1>1, <1>2, <1>3, <1>4, <1>5, <1>6
  <2>3. \/ N <= M /\ d \in {today, 0}
        \/ d = today /\ today < DayLimit
        \/ N <= M - 1 /\ d \in {today, today + 1}
    <3>1. AtModel' \subseteq AtModel => N <= M
      BY <1>3, FS_Subset
    <3>2. ASSUME NEW e \in AtModel, AtModel' \subseteq AtModel \ {e} PROVE N <= M - 1
      <4>1. IsFiniteSet(AtModel \ {e}) /\ Cardinality(AtModel \ {e}) = M - 1
        BY <1>3, FS_RemoveElement
      <4> QED BY <3>2, <4>1, FS_Subset
    <3> QED BY <1>2, <3>1, <3>2, ModelChange
  <2> HIDE DEF N, M, T, f, d
  <2>4. d \in Nat /\ d + N <= DayLimit - 1 + T + f
    BY <2>1, <2>2, <2>3
  <2> QED BY <2>4 DEF N, T, f, d
<1> QED BY <1>2, <1>4, <1>7 DEF QuotaInv

\* However many attempts a day sees, its quota is overdrawn by no more calls
\* than there are turns, and one for each fault that left an execution behind.
\* There are finitely many turns, and one at least.
THEOREM QuotaIsOverdrawnByOverlap ==
  IsFiniteSet(Turns) /\ Turns # {} => (Spec => []OverdrawnByOverlap)
<1> SUFFICES ASSUME IsFiniteSet(Turns), Turns # {} PROVE Spec => []OverdrawnByOverlap
  OBVIOUS
<1>0. Cardinality(Turns) \in Nat \ {0} /\ DayLimit \in Nat
  BY FS_CardinalityType, FS_EmptySet, TurnsAssumption
<1>1. Init => QuotaInv
  <2> SUFFICES ASSUME Init PROVE QuotaInv
    OBVIOUS
  <2>1. Stale = {} /\ AtModel = {} /\ faults = 0 /\ today = 0
    BY DEF Init, Stale, Alive, AtModel, Gone
  <2>2. IsFiniteSet(Stale) /\ Cardinality(Stale) = 0 /\ Cardinality(AtModel) = 0
    BY <2>1, FS_EmptySet
  <2> QED BY <1>0, <2>1, <2>2 DEF QuotaInv
<1>2. ApprovalInv => Shape
  BY DEF ApprovalInv
<1>3. AliveBounded /\ QuotaInv => OverdrawnByOverlap
  <2> SUFFICES ASSUME AliveBounded, QuotaInv PROVE OverdrawnByOverlap
    OBVIOUS
  <2>1. IsFiniteSet(AtModel)
    BY DEF QuotaInv, AliveBounded
  <2>2. Cardinality(AtModel) \in Nat
    BY <2>1, FS_CardinalityType
  <2> QED BY <1>0, <2>2 DEF QuotaInv, OverdrawnByOverlap
<1>4. Shape => AliveBounded
  BY AliveBound
<1>5. Shape /\ AliveBounded /\ AliveBounded' /\ QuotaInv /\ [Next]_vars => QuotaInv'
  BY QuotaStep
<1> QED BY <1>1, <1>2, <1>3, <1>4, <1>5, ApprovalStart, ApprovalStep, PTL DEF Spec
=============================================================================
