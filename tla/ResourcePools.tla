--------------------------- MODULE ResourcePools ---------------------------
(***************************************************************************)
(* src/src/kernel/resource-pools.js: one pool, a counter of the places     *)
(* taken and a queue of those who wait.  Pools share nothing.  A user is a *)
(* call of run() with its AbortSignal; one that is granted a place goes on *)
(* in a reaction of its own, and its signal may fire in between.           *)
(***************************************************************************)
EXTENDS Naturals, Sequences, FiniteSets

CONSTANTS Users, Capacity

ASSUME PoolAssumption == Capacity \in Nat \ {0}

VARIABLES
  active,    \* pool.active
  queue,     \* pool.queue, the oldest first
  slot,      \* where the call of each user stands
  aborted    \* the users whose signal has fired

poolVars == <<active, queue, slot, aborted>>

PoolTypeOK ==
  /\ active \in Nat
  /\ queue \in Seq(Users)
  /\ slot \in [Users -> {"none", "queued", "granted", "held"}]
  /\ aborted \subseteq Users

PoolInit ==
  /\ active = 0 /\ queue = << >>
  /\ slot = [u \in Users |-> "none"]
  /\ aborted = {}

Acquire(u) ==
  /\ slot[u] = "none"
  /\ IF u \in aborted THEN UNCHANGED <<active, queue, slot>>
     ELSE IF active < Capacity
     THEN active' = active + 1 /\ slot' = [slot EXCEPT ![u] = "granted"] /\ UNCHANGED queue
     ELSE queue' = Append(queue, u) /\ slot' = [slot EXCEPT ![u] = "queued"] /\ UNCHANGED active
  /\ UNCHANGED aborted

\* drain() after one place has come free: entries whose signal has fired are
\* shifted and rejected, the first other one gets the place.
Live == {i \in DOMAIN queue : queue[i] \notin aborted}
Drain(u) ==
  IF Live = {}
  THEN /\ active' = active - 1 /\ queue' = << >>
       /\ slot' = [x \in Users |-> IF x = u \/ slot[x] = "queued" THEN "none" ELSE slot[x]]
  ELSE LET first == CHOOSE i \in Live : \A j \in Live : i <= j
           passed == {queue[i] : i \in 1..first - 1}
       IN  /\ active' = active /\ queue' = SubSeq(queue, first + 1, Len(queue))
           /\ slot' = [x \in Users |-> IF x = queue[first] THEN "granted"
                                       ELSE IF x = u \/ x \in passed THEN "none" ELSE slot[x]]

\* indexOf and splice.
Without(u) ==
  LET i == CHOOSE j \in DOMAIN queue : queue[j] = u
  IN  [j \in 1..Len(queue) - 1 |-> IF j < i THEN queue[j] ELSE queue[j + 1]]

\* The listener of an entry in the queue takes it out and rejects the call.
Abort(u) ==
  /\ u \notin aborted
  /\ aborted' = aborted \cup {u}
  /\ IF slot[u] = "queued"
     THEN queue' = Without(u) /\ slot' = [slot EXCEPT ![u] = "none"]
     ELSE UNCHANGED <<queue, slot>>
  /\ UNCHANGED active

\* Behind the await in run(): the operation starts, or the signal has fired
\* and the finally gives the place back at once.
Enter(u) ==
  /\ slot[u] = "granted" /\ u \notin aborted
  /\ slot' = [slot EXCEPT ![u] = "held"]
  /\ UNCHANGED <<active, queue, aborted>>

\* Faulty: the place was taken outside the try, and the finally is not reached.
BadEnterAborted(u) ==
  /\ slot[u] = "granted" /\ u \in aborted
  /\ slot' = [slot EXCEPT ![u] = "none"]
  /\ UNCHANGED <<active, queue, aborted>>

EnterAborted(u) ==
  /\ slot[u] = "granted" /\ u \in aborted
  /\ Drain(u)
  /\ UNCHANGED aborted

\* The operation has returned or thrown.
Leave(u) ==
  /\ slot[u] = "held"
  /\ Drain(u)
  /\ UNCHANGED aborted

PoolCrash ==
  /\ active' = 0 /\ queue' = << >>
  /\ slot' = [u \in Users |-> "none"]
  /\ aborted' = {}

PoolNext ==
  \/ \E u \in Users : Acquire(u) \/ Abort(u) \/ Enter(u) \/ EnterAborted(u) \/ Leave(u)
  \/ PoolCrash

PoolSpec == PoolInit /\ [][PoolNext]_poolVars

-----------------------------------------------------------------------------
(* The pool implements the semaphore: inside is who has been granted a     *)
(* place or holds one, wanting is who stands in the queue.                 *)

Inside == {u \in Users : slot[u] \in {"granted", "held"}}
Waiting == {u \in Users : slot[u] = "queued"}

Places == INSTANCE Semaphore WITH held <- Inside, wanting <- Waiting

\* A pool is a semaphore: it never lets in more users than it has places, and
\* gives back every place exactly once, whenever a signal fires (run, acquire
\* and drain with their abort paths, resource-pools.js:18-58).
PoolIsSemaphore == Places!Spec
=============================================================================
