-------------------------- MODULE Scheduler_proofs --------------------------
(* Theorems about Scheduler: it uses the store only in the ways the store   *)
(* was written for, so that what is proved of TaskStore holds in it, for    *)
(* every workflow, every number of executions and every bound.              *)
EXTENDS Scheduler, TaskStore_proofs

USE DEF storeVars, rowVars, controlVars, snapshotVars, eventVars, memoryVars, faultVars

-----------------------------------------------------------------------------
(* What the methods of the store leave to the executions.                  *)

\* Whoever holds the lease afterwards has held it before, and finds the
\* snapshot as it was.
Kept(u) ==
  lease'[u] # 0 => lease'[u] = lease[u] /\ pc'[u] = pc[u] /\ pend'[u] = pend[u]

\* Tokens and deliveries are not taken back.
Grows == (\A u \in Tasks : attempt[u] <= attempt'[u]) /\ delivered \subseteq delivered'

\* Methods that carry no token and claim nothing.
TokenFree ==
  \/ \E g \in Goals : CreateGoal(g)
  \/ \E t \in Tasks : \/ RefuseTask(t) \/ WakeDueTimer(t) \/ ExpireEventWait(t)
                      \/ RecoverExpiredLease(t) \/ SweepRow(t) \/ ByControl(t)
  \/ \E S \in SUBSET Tasks : RequestTaskPreemption(S)
  \/ \E e \in Events : PublishEvent(e)
  \/ SweepEnd \/ RecoverOrphanedTasks \/ StoreCrash

\* What the execution with that token writes.
TokenWrites(t, token) ==
  \/ \E retryable \in BOOLEAN : FailTask(t, token, retryable)
  \/ \E n \in 0..MaxPc, e \in Seen(t) : ByExecution(t, token, n, e)
  \/ \E n \in 0..MaxPc, ev \in Events : \E e \in {NoEvent, ev} :
       ConsumeEventAndCheckpoint(t, token, ev, n, e)

\* failTask takes the lease away and leaves the snapshots alone.
LEMMA FailRowKeeps ==
  ASSUME NEW t \in Tasks, NEW retryable, FailRow(t, retryable)
  PROVE  /\ lease' = [lease EXCEPT ![t] = 0]
         /\ UNCHANGED <<goal, pausedFrom, attempt, controlVars, snapshotVars, eventVars, crashes>>
BY DEF FailRow, LeaveRunning

LEMMA TokenFreeKeeps ==
  ASSUME Inv, TokenFree
  PROVE  (\A u \in Tasks : Kept(u)) /\ Grows /\ attempt' = attempt
<1> USE RowsAssumption
<1> USE DEF Inv, StoreTypeOK, LeaseMeansRunning, Kept, Grows
<1>1. ASSUME NEW g \in Goals, CreateGoal(g)
      PROVE  (\A u \in Tasks : Kept(u)) /\ Grows /\ attempt' = attempt
  BY <1>1 DEF CreateGoal
<1>2. ASSUME NEW t \in Tasks, RefuseTask(t) \/ ExpireEventWait(t)
      PROVE  (\A u \in Tasks : Kept(u)) /\ Grows /\ attempt' = attempt
  <2>1. FailRow(t, FALSE)
    BY <1>2 DEF RefuseTask, ExpireEventWait
  <2>2. lease' = [lease EXCEPT ![t] = 0] /\ UNCHANGED <<attempt, pc, pend, delivered>>
    BY <2>1, FailRowKeeps
  <2> QED
    BY <2>2
<1>3. ASSUME NEW t \in Tasks, WakeDueTimer(t) \/ RecoverExpiredLease(t) \/ SweepRow(t)
      PROVE  (\A u \in Tasks : Kept(u)) /\ Grows /\ attempt' = attempt
  <2>1. /\ lease' = lease \/ lease' = [lease EXCEPT ![t] = 0]
        /\ UNCHANGED <<attempt, pc, pend, delivered>>
    BY <1>3 DEF WakeDueTimer, RecoverExpiredLease, SweepRow, LeaveRunning
  <2> QED
    BY <2>1
<1>4. ASSUME NEW t \in Tasks, ByControl(t)
      PROVE  (\A u \in Tasks : Kept(u)) /\ Grows /\ attempt' = attempt
  <2>1. UNCHANGED <<lease, attempt, pc, pend, delivered>>
    BY <1>4 DEF ByControl, PauseTask, ResumeTask, CancelTask
  <2> QED
    BY <2>1
<1>5. ASSUME NEW e \in Events, PublishEvent(e)
      PROVE  (\A u \in Tasks : Kept(u)) /\ Grows /\ attempt' = attempt
  BY <1>5 DEF PublishEvent, Listening
<1>6. CASE (\E S \in SUBSET Tasks : RequestTaskPreemption(S)) \/ SweepEnd \/ RecoverOrphanedTasks \/ StoreCrash
  BY <1>6 DEF RequestTaskPreemption, SweepEnd, RecoverOrphanedTasks, StoreCrash
<1> QED
  BY <1>1, <1>2, <1>3, <1>4, <1>5, <1>6 DEF TokenFree

LEMMA TokenWritesKeep ==
  ASSUME Inv, NEW t \in Tasks, NEW token \in Issued(t), TokenWrites(t, token)
  PROVE  /\ \A u \in Tasks \ {t} : Kept(u)
         /\ Grows /\ attempt' = attempt
         /\ lease[t] = token /\ status[t] = "RUNNING"
         /\ lease'[t] \in {0, token}
<1> USE DEF Inv, StoreTypeOK, LeaseMeansRunning, Kept, Grows, Issued, Holds
<1>1. ASSUME NEW retryable \in BOOLEAN, FailTask(t, token, retryable)
      PROVE  /\ \A u \in Tasks \ {t} : Kept(u)
             /\ Grows /\ attempt' = attempt
             /\ lease[t] = token /\ status[t] = "RUNNING"
             /\ lease'[t] \in {0, token}
  BY <1>1, FailRowKeeps DEF FailTask
<1>2. ASSUME NEW n \in 0..MaxPc, NEW e \in Seen(t), ByExecution(t, token, n, e)
      PROVE  /\ \A u \in Tasks \ {t} : Kept(u)
             /\ Grows /\ attempt' = attempt
             /\ lease[t] = token /\ status[t] = "RUNNING"
             /\ lease'[t] \in {0, token}
  <2>1. /\ lease' = lease \/ lease' = [lease EXCEPT ![t] = 0]
        /\ pc' = [pc EXCEPT ![t] = n] /\ pend' = [pend EXCEPT ![t] = e]
        /\ UNCHANGED <<attempt, delivered>>
        /\ lease[t] = token
    BY <1>2 DEF ByExecution, CheckpointTask, YieldTask, WaitForTimer, WaitForEvent, CompleteTask,
         PreemptRunningTask, PauseRunningTask, CancelRunningTask, LeaveRunning, SaveSnapshot
  <2> QED
    BY <2>1
<1>3. ASSUME NEW n \in 0..MaxPc, NEW ev \in Events, NEW e \in {NoEvent, ev},
             ConsumeEventAndCheckpoint(t, token, ev, n, e)
      PROVE  /\ \A u \in Tasks \ {t} : Kept(u)
             /\ Grows /\ attempt' = attempt
             /\ lease[t] = token /\ status[t] = "RUNNING"
             /\ lease'[t] \in {0, token}
  BY <1>3 DEF ConsumeEventAndCheckpoint, SaveSnapshot
<1> QED
  BY <1>1, <1>2, <1>3 DEF TokenWrites

\* Whatever an execution writes, a candidate of the drain stays READY.
LEMMA ReadyStays ==
  ASSUME Inv, NEW u \in Tasks, status[u] = "READY",
         \/ \E t \in Tasks : \E token \in Issued(t) : TokenWrites(t, token)
         \/ \E t \in Tasks : SweepRow(t)
         \/ SweepEnd
         \/ \E e \in Events : PublishEvent(e)
  PROVE  status'[u] = "READY"
<1> USE DEF Inv, StoreTypeOK
<1>1. ASSUME NEW t \in Tasks, NEW token \in Issued(t), TokenWrites(t, token)
      PROVE  status'[u] = "READY"
  <2>1. status[t] = "RUNNING"
    BY <1>1, TokenWritesKeep
  <2>2. \/ UNCHANGED status
        \/ \E s : status' = [status EXCEPT ![t] = s]
    BY <1>1 DEF TokenWrites, FailTask, FailRow, ByExecution, CheckpointTask, YieldTask,
       WaitForTimer, WaitForEvent, CompleteTask, PreemptRunningTask, PauseRunningTask,
       CancelRunningTask, LeaveRunning, ConsumeEventAndCheckpoint
  <2> QED
    BY <2>1, <2>2
<1>2. ASSUME NEW t \in Tasks, SweepRow(t) PROVE status'[u] = "READY"
  BY <1>2 DEF SweepRow, SweepIsBlocked
<1>3. ASSUME NEW e \in Events, PublishEvent(e) PROVE status'[u] = "READY"
  BY <1>3 DEF PublishEvent
<1>4. CASE SweepEnd
  BY <1>4 DEF SweepEnd
<1> QED
  BY <1>1, <1>2, <1>3, <1>4

-----------------------------------------------------------------------------
(* The executions and the rows they work on.                               *)

Working == {"turn", "emitted", "call", "thrown"}

\* The snapshot in memory is the one that was saved.
Abreast(r) ==
  r.phase \in {"turn", "emitted", "call"} => r.n = pc[r.task] /\ r.p = pend[r.task]

AtOp(r, op) == r.quantum < MaxSteps /\ r.n < Len(Steps(r)) /\ Here(r).op = op

RunOk(r) ==
  /\ r.token \in Issued(r.task)
  /\ r.phase = "emitted" => AtOp(r, "emit")
  /\ r.phase = "call" => AtOp(r, "call")
  /\ Fresh(r) => r.phase \in Working /\ Abreast(r)

\* A token belongs to one execution.
Alone == \A r, s \in runs : r.task = s.task /\ r.token = s.token => r = s

RunsInv == (\A r \in runs : RunOk(r)) /\ Alone /\ RunningHasRun

PendingSeen == \A t \in Tasks : pend[t] \in Seen(t)

SInv == TypeOK /\ Inv /\ RunsInv /\ PendingSeen /\ batch \subseteq Ready

\* r becomes s, which is as sound as r was.
Becomes(r, s) ==
  /\ s \in Run /\ s.task = r.task /\ s.token = r.token
  /\ Replace(r, s)
  /\ RunOk(s)'

Moves(r) == \E s : Becomes(r, s)

LEMMA HereIsStep ==
  ASSUME NEW t \in Tasks, NEW i \in Nat, i < Len(Workflow[t])
  PROVE  /\ Workflow[t][i + 1] \in Step
         /\ i + 1 \in 0..MaxPc
         /\ LET s == Workflow[t][i + 1]
            IN  /\ s.op = "await" \/ "event" \in s.may => s.key \in Keys
                /\ s.op = "emit" => s.event \in Events
<1>1. Workflow[t] \in Seq(Step) /\ Len(Workflow[t]) <= MaxPc
  BY WorkflowAssumption
<1>2. i + 1 \in DOMAIN Workflow[t] /\ i + 1 \in 1..Len(Workflow[t])
  BY <1>1
<1> QED
  BY <1>1, <1>2, WorkflowAssumption, BoundsAssumption

LEMMA IssuedPositive ==
  ASSUME StoreTypeOK, NEW t \in Tasks, NEW token \in Issued(t)
  PROVE  token \in Nat /\ token # 0
<1>1. attempt[t] \in Nat
  BY DEF StoreTypeOK
<1> QED
  BY <1>1 DEF Issued

LEMMA RunFields ==
  ASSUME NEW r \in Run
  PROVE  /\ r.task \in Tasks /\ r.token \in Nat /\ r.n \in 0..MaxPc
         /\ r.p \in Events \cup {NoEvent} /\ r.quantum \in 0..MaxSteps
         /\ r.phase \in {"turn", "emitted", "call", "thrown", "ended", "settling", "settled"}
         /\ r.signal \in {"none", "control", "limit"}
         /\ r.error \in {"none", "plain", "limit", "denied"}
BY DEF Run

\* One execution moves; whoever else holds a lease still finds its row as it was.
LEMMA OneRunMoves ==
  ASSUME SInv, Inv', NEW r \in runs, Moves(r), proc' = proc, attempt' = attempt,
         \A u \in Tasks \ {r.task} : Kept(u),
         Kept(r.task) \/ (lease[r.task] = r.token /\ lease'[r.task] \in {0, r.token})
  PROVE  runs' \subseteq Run /\ RunsInv'
<1> USE DEF SInv, Inv, TypeOK, StoreTypeOK, Fresh, Holds
<1>0. \A q \in runs : q \in Run /\ q.task \in Tasks /\ q.token \in Nat /\ RunOk(q)
  BY RunFields DEF RunsInv
<1>1. PICK s : Becomes(r, s)
  BY DEF Moves
<1>2. /\ s \in Run /\ s.task = r.task /\ s.token = r.token /\ runs' = (runs \ {r}) \cup {s}
      /\ RunOk(s)'
  BY <1>1 DEF Becomes, Replace
<1>3. runs' \subseteq Run
  BY <1>2
<1>4. Alone'
  BY <1>2 DEF RunsInv, Alone
<1>5. ASSUME NEW q \in runs, q # r PROVE RunOk(q)' /\ (Fresh(q)' => lease'[q.task] = lease[q.task])
  <2>1. RunOk(q) /\ RunOk(r) /\ q.task \in Tasks /\ r.task \in Tasks
    BY <1>0
  <2>2. ~(q.task = r.task /\ q.token = r.token)
    BY <1>5 DEF RunsInv, Alone
  <2>3. q.token # 0 /\ r.token # 0
    <3>1. q.token \in Issued(q.task) /\ r.token \in Issued(r.task)
      BY <2>1 DEF RunOk
    <3> QED
      BY <2>1, <3>1, IssuedPositive
  <2>4. Fresh(q)' => Kept(q.task)
    BY <2>1, <2>2, <2>3
  <2>5. Fresh(q)' => Fresh(q) /\ (Abreast(q) => Abreast(q)')
    BY <2>1, <2>3, <2>4 DEF Kept, Abreast
  <2>6. Fresh(q)' => lease'[q.task] = lease[q.task]
    BY <2>1, <2>3, <2>4 DEF Kept
  <2>7. Fresh(q)' => q.phase \in Working /\ Abreast(q)'
    BY <2>1, <2>5 DEF RunOk
  <2>8. q.token \in Issued(q.task)'
    BY <2>1 DEF RunOk, Issued
  <2> QED
    BY <2>1, <2>6, <2>7, <2>8 DEF RunOk, AtOp, Steps, Here
<1>6. \A q \in runs' : RunOk(q)'
  BY <1>2, <1>5
<1>7. RunningHasRun'
  <2> SUFFICES ASSUME proc' # "down", NEW u \in Tasks, status'[u] = "RUNNING"
               PROVE  \E q \in runs' : q.task = u /\ Fresh(q)' /\ q.phase \in Working
    BY DEF RunningHasRun, Working
  <2>1. lease'[u] # 0
    BY DEF LeaseMeansRunning
  <2>2. lease'[u] = lease[u]
    BY <2>1 DEF Kept
  <2>3. status[u] = "RUNNING"
    BY <2>1, <2>2 DEF LeaseMeansRunning
  <2>4. PICK q \in runs : q.task = u /\ Fresh(q) /\ q.phase \in Working
    BY <2>3 DEF RunsInv, RunningHasRun, Working
  <2>5. CASE q = r
    <3>1. s \in runs' /\ s.task = u /\ Fresh(s)'
      BY <1>2, <2>2, <2>4, <2>5
    <3> QED
      BY <1>2, <3>1 DEF RunOk
  <2>6. CASE q # r
    BY <1>2, <2>2, <2>4, <2>6
  <2> QED
    BY <2>5, <2>6
<1> QED
  BY <1>3, <1>4, <1>6, <1>7 DEF RunsInv

\* An execution that has returned has no lease any more.
LEMMA LeaveMoves ==
  ASSUME SInv, NEW r \in runs, Leave(r), attempt' = attempt, lease'[r.task] # r.token
  PROVE  Moves(r)
<1> DEFINE s == [task |-> r.task, token |-> r.token, n |-> 0, p |-> NoEvent, quantum |-> 0,
                 phase |-> "ended", signal |-> "none", error |-> "none"]
<1>1. r \in Run /\ RunOk(r)
  BY DEF SInv, TypeOK, RunsInv
<1>2. s \in Run
  BY <1>1, RunFields, BoundsAssumption, SchedulerAssumption DEF Run
<1>3. RunOk(s)'
  BY <1>1 DEF RunOk, Issued, Fresh, Holds
<1>4. Becomes(r, s)
  BY <1>2, <1>3 DEF Becomes, Leave
<1> QED
  BY <1>4 DEF Moves

\* The next step, with the snapshot it starts from saved.
LEMMA AdvanceMoves ==
  ASSUME SInv, NEW r \in runs, NEW p \in Events \cup {NoEvent}, Advance(r, p), attempt' = attempt,
         r.quantum < MaxSteps, r.n < Len(Steps(r)),
         Fresh(r)' => pc'[r.task] = r.n + 1 /\ pend'[r.task] = p
  PROVE  Moves(r)
<1> DEFINE s == [r EXCEPT !.phase = "turn", !.n = @ + 1, !.p = p, !.quantum = @ + 1]
<1>1. r \in Run /\ RunOk(r)
  BY DEF SInv, TypeOK, RunsInv
<1>2. r.n + 1 \in 0..MaxPc
  BY <1>1, RunFields, HereIsStep DEF Steps
<1>3. r.quantum + 1 \in 0..MaxSteps
  BY <1>1, RunFields, SchedulerAssumption
<1>4. s \in Run
  BY <1>1, <1>2, <1>3 DEF Run
<1>5. /\ s.task = r.task /\ s.token = r.token /\ s.phase = "turn"
      /\ s.n = r.n + 1 /\ s.p = p
  BY <1>1 DEF Run
<1> HIDE DEF s
<1>6. RunOk(s)'
  BY <1>1, <1>5 DEF RunOk, Issued, Fresh, Holds, Abreast, Working
<1>7. Becomes(r, s)
  BY <1>4, <1>5, <1>6 DEF Becomes, Advance, s
<1> QED
  BY <1>7 DEF Moves

\* Another phase of the same step.
LEMMA PhaseMoves ==
  ASSUME SInv, NEW r \in runs, NEW s \in Run, Replace(r, s),
         s.task = r.task, s.token = r.token, s.n = r.n, s.p = r.p, s.quantum = r.quantum,
         attempt' = attempt, Kept(r.task),
         s.phase = "emitted" => AtOp(r, "emit"),
         s.phase = "call" => AtOp(r, "call"),
         Fresh(r) => s.phase \in Working,
         s.phase \in {"turn", "emitted", "call"} => r.phase \in {"turn", "emitted", "call"}
  PROVE  Moves(r)
<1>1. r \in Run /\ RunOk(r) /\ r.token \in Issued(r.task)
  BY DEF SInv, TypeOK, RunsInv, RunOk
<1>2. r.token # 0
  BY <1>1, RunFields, IssuedPositive DEF SInv, TypeOK
<1>3. Fresh(s)' => Fresh(r) /\ (Abreast(r) => Abreast(s)')
  BY <1>2 DEF Fresh, Holds, Kept, Abreast
<1>4. Fresh(s)' => s.phase \in Working /\ Abreast(s)'
  BY <1>1, <1>3 DEF RunOk
<1>5. RunOk(s)'
  BY <1>1, <1>4 DEF RunOk, Issued, AtOp, Steps, Here
<1>6. Becomes(r, s)
  BY <1>5 DEF Becomes
<1> QED
  BY <1>6 DEF Moves

-----------------------------------------------------------------------------
(* What an execution writes, and where that leaves it.                     *)

\* The row leaves RUNNING with the snapshot n, e.
Releases(t, token, n, e) ==
  \/ YieldTask(t, token, n, e)
  \/ WaitForTimer(t, token, n, e)
  \/ \E k \in Keys, timed \in BOOLEAN : WaitForEvent(t, token, n, e, k, timed)
  \/ CompleteTask(t, token, n, e)
  \/ PreemptRunningTask(t, token, n, e)
  \/ PauseRunningTask(t, token, n, e)
  \/ CancelRunningTask(t, token, n, e)

LEMMA ReleaseEffect ==
  ASSUME StoreTypeOK, NEW t \in Tasks, NEW token, NEW n \in 0..MaxPc, NEW e \in Seen(t),
         Releases(t, token, n, e)
  PROVE  /\ TokenWrites(t, token)
         /\ lease[t] = token /\ lease'[t] = 0
         /\ pc' = [pc EXCEPT ![t] = n] /\ pend' = [pend EXCEPT ![t] = e]
         /\ UNCHANGED <<attempt, eventVars>>
<1>1. ByExecution(t, token, n, e)
  BY DEF Releases, ByExecution
<1>2. /\ lease' = [lease EXCEPT ![t] = 0]
      /\ lease[t] = token
      /\ pc' = [pc EXCEPT ![t] = n] /\ pend' = [pend EXCEPT ![t] = e]
      /\ UNCHANGED <<attempt, eventVars>>
  BY DEF Releases, YieldTask, WaitForTimer, WaitForEvent, CompleteTask, PreemptRunningTask,
     PauseRunningTask, CancelRunningTask, LeaveRunning, SaveSnapshot, Holds
<1> QED
  BY <1>1, <1>2 DEF TokenWrites, StoreTypeOK

LEMMA CheckpointEffect ==
  ASSUME StoreTypeOK, NEW t \in Tasks, NEW token, NEW n \in 0..MaxPc, NEW e \in Seen(t),
         CheckpointTask(t, token, n, e)
  PROVE  /\ TokenWrites(t, token)
         /\ lease[t] = token
         /\ pc' = [pc EXCEPT ![t] = n] /\ pend' = [pend EXCEPT ![t] = e]
         /\ UNCHANGED <<rowVars, eventVars>>
<1>1. ByExecution(t, token, n, e)
  BY DEF ByExecution
<1> QED
  BY <1>1 DEF TokenWrites, CheckpointTask, SaveSnapshot, Holds

LEMMA ConsumeEffect ==
  ASSUME NEW t, NEW token, NEW n, NEW ev, NEW e, ConsumeEventAndCheckpoint(t, token, ev, n, e)
  PROVE  /\ lease[t] = token
         /\ ev \in Seen(t) \/ IsOldest(ev, Queued(t, KeyOf[ev]))
         /\ pc' = [pc EXCEPT ![t] = n] /\ pend' = [pend EXCEPT ![t] = e]
         /\ delivered' = delivered \cup {<<ev, t>>}
         /\ UNCHANGED <<rowVars, published, born>>
BY DEF ConsumeEventAndCheckpoint, SaveSnapshot, Holds

LEMMA FailEffect ==
  ASSUME NEW t \in Tasks, NEW token, NEW retryable \in BOOLEAN, FailTask(t, token, retryable)
  PROVE  /\ TokenWrites(t, token)
         /\ lease[t] = token /\ lease' = [lease EXCEPT ![t] = 0]
         /\ UNCHANGED <<attempt, snapshotVars, eventVars>>
<1>1. FailRow(t, retryable)
  BY DEF FailTask
<1>2. lease' = [lease EXCEPT ![t] = 0] /\ UNCHANGED <<attempt, snapshotVars, eventVars>>
  BY <1>1, FailRowKeeps
<1> QED
  BY <1>2 DEF TokenWrites, FailTask, Holds

\* All that an execution does to the rows.
RowWrite(r) ==
  \/ TokenWrites(r.task, r.token)
  \/ \E e \in Events : PublishEvent(e)
  \/ UNCHANGED storeVars

\* What is known of an execution before it acts.
LEMMA RunFacts ==
  ASSUME SInv, NEW r \in runs
  PROVE  /\ r \in Run /\ RunOk(r)
         /\ r.task \in Tasks /\ r.n \in 0..MaxPc /\ r.p \in Events \cup {NoEvent}
         /\ r.quantum \in 0..MaxSteps
         /\ r.token \in Issued(r.task) /\ r.token \in Nat /\ r.token # 0
         /\ StoreTypeOK
         /\ Fresh(r) => pend[r.task] \in Seen(r.task)
         /\ Fresh(r) /\ r.phase \in {"turn", "emitted", "call"} =>
              r.n = pc[r.task] /\ r.p = pend[r.task] /\ r.p \in Seen(r.task)
<1>1. r \in Run /\ RunOk(r) /\ r.token \in Issued(r.task) /\ StoreTypeOK /\ PendingSeen
  BY DEF SInv, TypeOK, RunsInv, RunOk
<1>2. r.task \in Tasks /\ r.n \in 0..MaxPc /\ r.p \in Events \cup {NoEvent}
      /\ r.quantum \in 0..MaxSteps
  BY <1>1, RunFields
<1> QED
  BY <1>1, <1>2, IssuedPositive DEF RunOk, Abreast, PendingSeen

\* The end of a turn that gives its task back, with the snapshot in memory or
\* with a later one.
LEMMA ReleaseRuns ==
  ASSUME SInv, NEW r \in runs, NEW n \in 0..MaxPc, NEW e \in Seen(r.task),
         Releases(r.task, r.token, n, e), Leave(r)
  PROVE  Moves(r) /\ RowWrite(r)
<1>1. TokenWrites(r.task, r.token) /\ lease'[r.task] = 0 /\ attempt' = attempt
  BY RunFacts, ReleaseEffect
<1>2. Moves(r)
  BY <1>1, RunFacts, LeaveMoves
<1> QED
  BY <1>1, <1>2 DEF RowWrite

\* The end of an execution that has no lease: nothing is written.
LEMMA StaleRuns ==
  ASSUME SInv, NEW r \in runs, ~Fresh(r), UNCHANGED storeVars, Leave(r)
  PROVE  Moves(r) /\ RowWrite(r)
BY RunFacts, LeaveMoves DEF Fresh, Holds, RowWrite

LEMMA NoEventSeen == \A t \in Tasks : NoEvent \in Seen(t)
BY DEF Seen

LEMMA PublishOnceWrites ==
  ASSUME SInv, NEW e \in Events, PublishOnce(e)
  PROVE  /\ PublishEvent(e) \/ UNCHANGED storeVars
         /\ \A u \in Tasks : Kept(u)
         /\ Grows /\ attempt' = attempt
<1>1. PublishEvent(e) \/ UNCHANGED storeVars
  BY DEF PublishOnce
<1>2. CASE PublishEvent(e)
  <2>1. TokenFree
    BY <1>2 DEF TokenFree
  <2> QED
    BY <1>1, <2>1, TokenFreeKeeps DEF SInv
<1>3. CASE UNCHANGED storeVars
  BY <1>1, <1>3 DEF Kept, Grows, SInv, Inv, StoreTypeOK
<1> QED
  BY <1>1, <1>2, <1>3

LEMMA TurnMoves ==
  ASSUME SInv, NEW r \in runs, Turn(r)
  PROVE  Moves(r) /\ RowWrite(r)
<1>0. /\ r \in Run /\ RunOk(r) /\ r.task \in Tasks /\ r.n \in 0..MaxPc
      /\ r.p \in Events \cup {NoEvent} /\ r.quantum \in 0..MaxSteps /\ r.token # 0
      /\ StoreTypeOK
      /\ Fresh(r) /\ r.phase \in {"turn", "emitted", "call"} =>
           r.n = pc[r.task] /\ r.p = pend[r.task] /\ r.p \in Seen(r.task)
  BY RunFacts
<1>1. CASE TurnYields(r)
  <2>1. CASE Fresh(r)
    <3>1. Releases(r.task, r.token, r.n, r.p) /\ Leave(r) /\ r.p \in Seen(r.task)
      BY <1>0, <1>1, <2>1 DEF TurnYields, IfFresh, Releases
    <3> QED
      BY <1>0, <3>1, ReleaseRuns
  <2>2. CASE ~Fresh(r)
    BY <1>1, <2>2, StaleRuns DEF TurnYields, IfFresh
  <2> QED
    BY <2>1, <2>2
<1>2. CASE TurnLostLease(r)
  BY <1>2, StaleRuns DEF TurnLostLease
<1>3. CASE TurnControlled(r)
  <2>1. Releases(r.task, r.token, r.n, r.p) /\ Leave(r) /\ r.p \in Seen(r.task)
    BY <1>0, <1>3 DEF TurnControlled, AtTop, Releases
  <2> QED
    BY <1>0, <2>1, ReleaseRuns
<1>4. CASE TurnAborts(r)
  <2> DEFINE error == IF r.signal = "limit" THEN "limit" ELSE "plain"
             s == [r EXCEPT !.phase = "thrown", !.error = error]
  <2>3. Replace(r, s) /\ UNCHANGED storeVars
    BY <1>4 DEF TurnAborts
  <2>4. attempt' = attempt /\ Kept(r.task)
    BY <2>3 DEF Kept
  <2>1. error \in {"none", "plain", "limit", "denied"}
    OBVIOUS
  <2> HIDE DEF error
  <2>2. s \in Run
    BY <1>0, <2>1 DEF Run
  <2>5. s.task = r.task /\ s.token = r.token /\ s.n = r.n /\ s.p = r.p
        /\ s.quantum = r.quantum /\ s.phase = "thrown"
    BY <1>0 DEF Run
  <2> HIDE DEF s
  <2>6. Moves(r)
    BY <2>2, <2>3, <2>4, <2>5, PhaseMoves DEF Working
  <2> QED
    BY <2>3, <2>6 DEF RowWrite
<1>5. CASE TurnFinishes(r)
  <2>1. Releases(r.task, r.token, r.n, r.p) /\ Leave(r) /\ r.p \in Seen(r.task)
    BY <1>0, <1>5 DEF TurnFinishes, Unhindered, AtTop, Releases
  <2> QED
    BY <1>0, <2>1, ReleaseRuns
<1>6. ASSUME NEW op, AtStep(r, op)
      PROVE  /\ Fresh(r) /\ r.p \in Seen(r.task) /\ r.phase = "turn"
             /\ r.n = pc[r.task] /\ r.p = pend[r.task]
             /\ AtOp(r, op) /\ r.n < Len(Steps(r)) /\ r.quantum < MaxSteps
             /\ r.n + 1 \in 0..MaxPc
             /\ Here(r) \in Step
             /\ op = "await" \/ "event" \in Here(r).may => Here(r).key \in Keys
             /\ op = "emit" => Here(r).event \in Events
  <2>1. /\ Fresh(r) /\ r.phase = "turn" /\ r.quantum < MaxSteps
        /\ r.n < Len(Workflow[r.task]) /\ Here(r).op = op
    BY <1>6 DEF AtStep, Unhindered, AtTop, Steps
  <2>2. r.n \in Nat
    BY <1>0, BoundsAssumption
  <2>3. /\ Workflow[r.task][r.n + 1] \in Step
        /\ r.n + 1 \in 0..MaxPc
        /\ LET s == Workflow[r.task][r.n + 1]
           IN  /\ s.op = "await" \/ "event" \in s.may => s.key \in Keys
               /\ s.op = "emit" => s.event \in Events
    BY <1>0, <2>1, <2>2, HereIsStep
  <2> QED
    BY <1>0, <2>1, <2>3 DEF Here, Steps, AtOp
<1>7. CASE StepComplete(r)
  <2>1. Releases(r.task, r.token, r.n + 1, r.p) /\ Leave(r) /\ AtStep(r, "complete")
    BY <1>7 DEF StepComplete, Releases
  <2> QED
    BY <1>0, <1>6, <2>1, ReleaseRuns
<1>8. ASSUME CheckpointTask(r.task, r.token, r.n + 1, r.p), Advance(r, r.p),
             r.n + 1 \in 0..MaxPc, r.p \in Seen(r.task), r.n < Len(Steps(r)), r.quantum < MaxSteps
      PROVE  Moves(r) /\ RowWrite(r)
  <2>1. TokenWrites(r.task, r.token) /\ attempt' = attempt
        /\ pc'[r.task] = r.n + 1 /\ pend'[r.task] = r.p
    <3> DEFINE m == r.n + 1
    <3>1. m \in 0..MaxPc /\ CheckpointTask(r.task, r.token, m, r.p)
      BY <1>8
    <3> HIDE DEF m
    <3>2. /\ TokenWrites(r.task, r.token)
          /\ pc' = [pc EXCEPT ![r.task] = m] /\ pend' = [pend EXCEPT ![r.task] = r.p]
          /\ UNCHANGED rowVars
      BY <1>0, <1>8, <3>1, CheckpointEffect
    <3> QED
      BY <1>0, <3>2 DEF StoreTypeOK, m
  <2>2. Moves(r)
    BY <1>0, <1>8, <2>1, AdvanceMoves
  <2> QED
    BY <2>1, <2>2 DEF RowWrite
<1>9. CASE StepLocal(r)
  <2>1. CheckpointTask(r.task, r.token, r.n + 1, r.p) /\ Advance(r, r.p) /\ AtStep(r, "local")
    BY <1>9 DEF StepLocal
  <2> QED
    BY <1>6, <1>8, <2>1
<1>10. CASE StepDelay(r)
  <2>1. Releases(r.task, r.token, r.n + 1, r.p) /\ Leave(r) /\ AtStep(r, "delay")
    BY <1>10 DEF StepDelay, Releases
  <2> QED
    BY <1>0, <1>6, <2>1, ReleaseRuns
<1>11. CASE StepAwaitTakes(r)
  <2>1. PICK e \in Events : ConsumeEventAndCheckpoint(r.task, r.token, e, r.n + 1, NoEvent)
    BY <1>11 DEF StepAwaitTakes
  <2>2. AtStep(r, "await") /\ Advance(r, NoEvent)
    BY <1>11 DEF StepAwaitTakes
  <2>3. r.n + 1 \in 0..MaxPc /\ r.n < Len(Steps(r)) /\ r.quantum < MaxSteps
    BY <1>6, <2>2
  <2>4. TokenWrites(r.task, r.token) /\ attempt' = attempt
        /\ pc'[r.task] = r.n + 1 /\ pend'[r.task] = NoEvent
    <3> DEFINE m == r.n + 1
    <3>1. m \in 0..MaxPc /\ ConsumeEventAndCheckpoint(r.task, r.token, e, m, NoEvent)
      BY <2>1, <2>3
    <3> HIDE DEF m
    <3>2. /\ pc' = [pc EXCEPT ![r.task] = m] /\ pend' = [pend EXCEPT ![r.task] = NoEvent]
          /\ UNCHANGED rowVars
      BY <3>1, ConsumeEffect
    <3>3. TokenWrites(r.task, r.token)
      BY <3>1 DEF TokenWrites
    <3> QED
      BY <1>0, <3>2, <3>3 DEF StoreTypeOK, m
  <2>5. Moves(r)
    BY <2>2, <2>3, <2>4, AdvanceMoves
  <2> QED
    BY <2>4, <2>5 DEF RowWrite
<1>12. CASE StepAwaitWaits(r)
  <2>1. AtStep(r, "await") /\ Leave(r)
        /\ WaitForEvent(r.task, r.token, r.n, r.p, Here(r).key, Here(r).timed)
    BY <1>12 DEF StepAwaitWaits
  <2>2. Here(r).key \in Keys /\ Here(r).timed \in BOOLEAN /\ r.p \in Seen(r.task)
    BY <1>6, <2>1 DEF Step
  <2>3. Releases(r.task, r.token, r.n, r.p)
    BY <2>1, <2>2 DEF Releases
  <2> QED
    BY <1>0, <2>1, <2>2, <2>3, ReleaseRuns
<1>13. CASE StepEmits(r)
  <2> DEFINE s == [r EXCEPT !.phase = "emitted"]
  <2>1. AtStep(r, "emit") /\ PublishOnce(Here(r).event) /\ Replace(r, s)
    BY <1>13 DEF StepEmits
  <2>2. Here(r).event \in Events /\ AtOp(r, "emit") /\ r.phase = "turn"
    BY <1>6, <2>1
  <2>3. /\ PublishEvent(Here(r).event) \/ UNCHANGED storeVars
        /\ Kept(r.task) /\ attempt' = attempt
    BY <1>0, <2>1, <2>2, PublishOnceWrites
  <2>4. s \in Run
    BY <1>0 DEF Run
  <2>5. s.task = r.task /\ s.token = r.token /\ s.n = r.n /\ s.p = r.p
        /\ s.quantum = r.quantum /\ s.phase = "emitted"
    BY <1>0 DEF Run
  <2> HIDE DEF s
  <2>6. Moves(r)
    BY <2>1, <2>2, <2>3, <2>4, <2>5, PhaseMoves DEF Working
  <2> QED
    BY <2>2, <2>3, <2>6 DEF RowWrite
<1>14. CASE StepEmitted(r)
  <2>1. r.phase = "emitted" /\ Advance(r, r.p)
        /\ CheckpointTask(r.task, r.token, r.n + 1, r.p)
    BY <1>14 DEF StepEmitted
  <2>2. AtOp(r, "emit") /\ Fresh(r)
    BY <1>0, <2>1 DEF RunOk, CheckpointTask, Fresh
  <2>3. r.n \in Nat /\ r.n < Len(Steps(r)) /\ r.quantum < MaxSteps
    BY <1>0, <2>2, BoundsAssumption DEF AtOp
  <2>4. r.n + 1 \in 0..MaxPc
    BY <1>0, <2>3, HereIsStep DEF Steps
  <2> QED
    BY <1>0, <1>8, <2>1, <2>2, <2>3, <2>4
<1>15. CASE StepCalls(r)
  <2> DEFINE s == [r EXCEPT !.phase = "call"]
  <2>1. AtStep(r, "call") /\ UNCHANGED storeVars /\ Replace(r, s)
    BY <1>15 DEF StepCalls
  <2>2. AtOp(r, "call") /\ r.phase = "turn"
    BY <1>6, <2>1
  <2>3. Kept(r.task) /\ attempt' = attempt
    BY <2>1 DEF Kept
  <2>4. s \in Run
    BY <1>0 DEF Run
  <2>5. s.task = r.task /\ s.token = r.token /\ s.n = r.n /\ s.p = r.p
        /\ s.quantum = r.quantum /\ s.phase = "call"
    BY <1>0 DEF Run
  <2> HIDE DEF s
  <2>6. Moves(r)
    BY <2>1, <2>2, <2>3, <2>4, <2>5, PhaseMoves DEF Working
  <2> QED
    BY <2>1, <2>6 DEF RowWrite
<1> QED
  BY <1>1, <1>2, <1>3, <1>4, <1>5, <1>7, <1>9, <1>10, <1>11, <1>12, <1>13, <1>14, <1>15 DEF Turn

\* The ways an awaited action may end; Spawns comes before it ends.
CallDone(r) ==
  \/ CallReturns(r) \/ CallWaitsForTimer(r) \/ CallTakesQueued(r) \/ CallWaitsForEvent(r)
  \/ \E error \in {"plain", "limit", "denied"} : CallThrows(r, error)

LEMMA CallMoves ==
  ASSUME SInv, NEW r \in runs, CallDone(r)
  PROVE  Moves(r) /\ RowWrite(r)
<1>0. /\ r \in Run /\ RunOk(r) /\ r.task \in Tasks /\ r.n \in 0..MaxPc
      /\ r.p \in Events \cup {NoEvent} /\ r.quantum \in 0..MaxSteps /\ r.token # 0
      /\ StoreTypeOK
      /\ Fresh(r) /\ r.phase \in {"turn", "emitted", "call"} =>
           r.n = pc[r.task] /\ r.p = pend[r.task] /\ r.p \in Seen(r.task)
  BY RunFacts
<1>1. NoEvent \in Seen(r.task)
  BY <1>0, NoEventSeen
<1>2. ASSUME r.phase = "call"
      PROVE  /\ AtOp(r, "call") /\ r.n < Len(Steps(r)) /\ r.quantum < MaxSteps
             /\ r.n + 1 \in 0..MaxPc /\ Here(r) \in Step
             /\ "event" \in Here(r).may => Here(r).key \in Keys
  <2>1. AtOp(r, "call") /\ r.n \in Nat
    BY <1>0, <1>2, BoundsAssumption DEF RunOk
  <2>2. r.n < Len(Workflow[r.task]) /\ r.quantum < MaxSteps
    BY <2>1 DEF AtOp, Steps
  <2>3. /\ Workflow[r.task][r.n + 1] \in Step
        /\ r.n + 1 \in 0..MaxPc
        /\ LET s == Workflow[r.task][r.n + 1]
           IN  /\ s.op = "await" \/ "event" \in s.may => s.key \in Keys
               /\ s.op = "emit" => s.event \in Events
    BY <1>0, <2>1, <2>2, HereIsStep
  <2> QED
    BY <2>1, <2>2, <2>3 DEF Here, Steps
<1>3. ASSUME NEW n \in 0..MaxPc, IfFresh(r, Releases(r.task, r.token, n, NoEvent)), Leave(r)
      PROVE  Moves(r) /\ RowWrite(r)
  <2>1. CASE Fresh(r)
    BY <1>1, <1>3, <2>1, ReleaseRuns DEF IfFresh
  <2>2. CASE ~Fresh(r)
    BY <1>3, <2>2, StaleRuns DEF IfFresh
  <2> QED
    BY <2>1, <2>2
<1>4. CASE CallReturns(r)
  <2>1. /\ r.phase = "call" /\ Advance(r, NoEvent)
        /\ IfFresh(r, CheckpointTask(r.task, r.token, r.n + 1, NoEvent))
    BY <1>4 DEF CallReturns, CallEnds
  <2>2. AtOp(r, "call") /\ r.n < Len(Steps(r)) /\ r.quantum < MaxSteps /\ r.n + 1 \in 0..MaxPc
    BY <1>2, <2>1
  <2>3. /\ RowWrite(r) /\ attempt' = attempt
        /\ Fresh(r)' => pc'[r.task] = r.n + 1 /\ pend'[r.task] = NoEvent
    <3>1. CASE Fresh(r)
      <4> DEFINE m == r.n + 1
      <4>1. m \in 0..MaxPc /\ CheckpointTask(r.task, r.token, m, NoEvent)
        BY <2>1, <2>2, <3>1 DEF IfFresh
      <4> HIDE DEF m
      <4>2. /\ TokenWrites(r.task, r.token)
            /\ pc' = [pc EXCEPT ![r.task] = m] /\ pend' = [pend EXCEPT ![r.task] = NoEvent]
            /\ UNCHANGED rowVars
        BY <1>0, <1>1, <4>1, CheckpointEffect
      <4> QED
        BY <1>0, <4>2 DEF StoreTypeOK, m, RowWrite
    <3>2. CASE ~Fresh(r)
      BY <2>1, <3>2 DEF IfFresh, RowWrite, Fresh, Holds
    <3> QED
      BY <3>1, <3>2
  <2>4. Moves(r)
    BY <2>1, <2>2, <2>3, AdvanceMoves
  <2> QED
    BY <2>3, <2>4
<1>5. CASE CallWaitsForTimer(r)
  <2>1. IfFresh(r, Releases(r.task, r.token, r.n, NoEvent)) /\ Leave(r)
    BY <1>5 DEF CallWaitsForTimer, IfFresh, Releases
  <2> QED
    BY <1>0, <1>3, <2>1
<1>6. CASE CallTakesQueued(r)
  <2>1. PICK e \in Events :
          /\ IfFresh(r, ConsumeEventAndCheckpoint(r.task, r.token, e, r.n, e))
          /\ Replace(r, [r EXCEPT !.phase = "turn", !.p = e, !.quantum = @ + 1])
    BY <1>6 DEF CallTakesQueued
  <2>2. r.phase = "call" /\ r.quantum < MaxSteps
    BY <1>2, <1>6 DEF CallTakesQueued, CallEnds
  <2> DEFINE s == [r EXCEPT !.phase = "turn", !.p = e, !.quantum = @ + 1]
  <2>3. r.quantum + 1 \in 0..MaxSteps
    BY <1>0, <2>2, SchedulerAssumption
  <2>4. s \in Run
    BY <1>0, <2>3 DEF Run
  <2>5. s.task = r.task /\ s.token = r.token /\ s.n = r.n /\ s.p = e /\ s.phase = "turn"
    BY <1>0 DEF Run
  <2>6. Replace(r, s)
    BY <2>1
  <2> HIDE DEF s
  <2>7. /\ RowWrite(r) /\ attempt' = attempt
        /\ Fresh(r)' => pc'[r.task] = r.n /\ pend'[r.task] = e
    <3>1. CASE Fresh(r)
      <4>1. ConsumeEventAndCheckpoint(r.task, r.token, e, r.n, e)
        BY <2>1, <3>1 DEF IfFresh
      <4>2. /\ pc' = [pc EXCEPT ![r.task] = r.n] /\ pend' = [pend EXCEPT ![r.task] = e]
            /\ UNCHANGED rowVars
        BY <4>1, ConsumeEffect
      <4>3. TokenWrites(r.task, r.token)
        BY <1>0, <4>1 DEF TokenWrites
      <4> QED
        BY <1>0, <4>2, <4>3 DEF StoreTypeOK, RowWrite
    <3>2. CASE ~Fresh(r)
      BY <2>1, <3>2 DEF IfFresh, RowWrite, Fresh, Holds
    <3> QED
      BY <3>1, <3>2
  <2>8. RunOk(s)'
    BY <1>0, <2>5, <2>7 DEF RunOk, Issued, Fresh, Holds, Abreast, Working
  <2>9. Becomes(r, s)
    BY <2>4, <2>5, <2>6, <2>8 DEF Becomes
  <2> QED
    BY <2>7, <2>9 DEF Moves
<1>7. CASE CallWaitsForEvent(r)
  <2>1. /\ r.phase = "call" /\ "event" \in Here(r).may /\ Leave(r)
        /\ IfFresh(r, WaitForEvent(r.task, r.token, r.n, NoEvent, Here(r).key, Here(r).timed))
    BY <1>7 DEF CallWaitsForEvent, CallEnds
  <2>2. Here(r).key \in Keys /\ Here(r).timed \in BOOLEAN
    BY <1>2, <2>1 DEF Step
  <2>3. IfFresh(r, Releases(r.task, r.token, r.n, NoEvent))
    BY <2>1, <2>2 DEF IfFresh, Releases
  <2> QED
    BY <1>0, <1>3, <2>1, <2>3
<1>8. ASSUME NEW error \in {"plain", "limit", "denied"}, CallThrows(r, error)
      PROVE  Moves(r) /\ RowWrite(r)
  <2> DEFINE s == [r EXCEPT !.phase = "thrown", !.error = error]
  <2>1. Replace(r, s) /\ UNCHANGED storeVars
    BY <1>8 DEF CallThrows
  <2>2. s \in Run
    BY <1>0 DEF Run
  <2>3. s.task = r.task /\ s.token = r.token /\ s.n = r.n /\ s.p = r.p
        /\ s.quantum = r.quantum /\ s.phase = "thrown"
    BY <1>0 DEF Run
  <2> HIDE DEF s
  <2>4. attempt' = attempt /\ Kept(r.task)
    BY <2>1 DEF Kept
  <2>5. Moves(r)
    BY <2>1, <2>2, <2>3, <2>4, PhaseMoves DEF Working
  <2> QED
    BY <2>1, <2>5 DEF RowWrite
<1> QED
  BY <1>4, <1>5, <1>6, <1>7, <1>8 DEF CallDone

\* The wall time runs out, the catch and the finally.
LEMMA EndMoves ==
  ASSUME SInv, NEW r \in runs, BudgetExpires(r) \/ RunCatches(r) \/ RunEnds(r)
  PROVE  Moves(r) /\ RowWrite(r)
<1>0. /\ r \in Run /\ RunOk(r) /\ r.task \in Tasks /\ r.token # 0
      /\ r.token \in Issued(r.task) /\ StoreTypeOK
      /\ Fresh(r) => pend[r.task] \in Seen(r.task)
  BY RunFacts
<1>1. CASE BudgetExpires(r)
  <2> DEFINE s == [r EXCEPT !.signal = "limit"]
  <2>1. r.phase = "call" /\ Replace(r, s) /\ UNCHANGED storeVars
    BY <1>1 DEF BudgetExpires
  <2>2. s \in Run
    BY <1>0 DEF Run
  <2>3. s.task = r.task /\ s.token = r.token /\ s.n = r.n /\ s.p = r.p
        /\ s.quantum = r.quantum /\ s.phase = "call"
    BY <1>0, <2>1 DEF Run
  <2> HIDE DEF s
  <2>4. attempt' = attempt /\ Kept(r.task)
    BY <2>1 DEF Kept
  <2>5. AtOp(r, "call")
    BY <1>0, <2>1 DEF RunOk
  <2>6. Moves(r)
    BY <2>1, <2>2, <2>3, <2>4, <2>5, PhaseMoves DEF Working
  <2> QED
    BY <2>1, <2>6 DEF RowWrite
<1>2. CASE RunCatches(r)
  <2> DEFINE t == r.task
  <2>1. Caught(r) /\ Leave(r)
    BY <1>2 DEF RunCatches
  <2>2. CASE ~Fresh(r)
    <3>1. UNCHANGED storeVars
      BY <2>1, <2>2 DEF Caught, IfFresh
    <3> QED
      BY <2>1, <2>2, <3>1, StaleRuns
  <2>3. CASE Fresh(r)
    <3>1. \/ Releases(r.task, r.token, pc[t], pend[t])
          \/ \E retryable \in BOOLEAN : FailTask(r.task, r.token, retryable)
      BY <2>1, <2>3 DEF Caught, IfFresh, Releases
    <3>2. pc[t] \in 0..MaxPc /\ pend[t] \in Seen(r.task)
      BY <1>0, <2>3 DEF StoreTypeOK
    <3>3. CASE Releases(r.task, r.token, pc[t], pend[t])
      BY <2>1, <3>2, <3>3, ReleaseRuns
    <3>4. CASE \E retryable \in BOOLEAN : FailTask(r.task, r.token, retryable)
      <4>1. /\ TokenWrites(r.task, r.token) /\ attempt' = attempt
            /\ lease' = [lease EXCEPT ![r.task] = 0]
        BY <1>0, <3>4, FailEffect
      <4>2. lease'[r.task] = 0
        BY <1>0, <4>1 DEF StoreTypeOK
      <4>3. Moves(r)
        BY <1>0, <2>1, <4>1, <4>2, LeaveMoves
      <4> QED
        BY <4>1, <4>3 DEF RowWrite
    <3> QED
      BY <3>1, <3>3, <3>4
  <2> QED
    BY <2>2, <2>3
<1>3. CASE RunEnds(r)
  <2> DEFINE phase == IF proc = "up" THEN "settling" ELSE "settled"
             s == [r EXCEPT !.phase = phase]
  <2>1. r.phase = "ended" /\ Replace(r, s)
    BY <1>3 DEF RunEnds
  <2>2. (\E e \in Events : PublishOnce(e)) \/ UNCHANGED storeVars
    <3>1. DoneEvent[GoalOf[r.task]] \in Events
      BY <1>0, RowsAssumption, WorkflowAssumption
    <3> QED
      BY <1>3, <3>1 DEF RunEnds
  <2>3. RowWrite(r) /\ Kept(r.task) /\ attempt' = attempt
    <3>1. CASE \E e \in Events : PublishOnce(e)
      BY <1>0, <3>1, PublishOnceWrites DEF RowWrite
    <3>2. CASE UNCHANGED storeVars
      BY <3>2 DEF RowWrite, Kept
    <3> QED
      BY <2>2, <3>1, <3>2
  <2>4. phase \in {"settling", "settled"}
    OBVIOUS
  <2> HIDE DEF phase
  <2>5. s \in Run
    BY <1>0, <2>4 DEF Run
  <2>6. s.task = r.task /\ s.token = r.token /\ s.n = r.n /\ s.p = r.p
        /\ s.quantum = r.quantum /\ s.phase \in {"settling", "settled"}
    BY <1>0, <2>4 DEF Run
  <2> HIDE DEF s
  <2>7. ~Fresh(r)
    BY <1>0, <2>1 DEF RunOk, Working
  <2>8. Moves(r)
    BY <2>1, <2>3, <2>5, <2>6, <2>7, PhaseMoves
  <2> QED
    BY <2>3, <2>8
<1> QED
  BY <1>1, <1>2, <1>3

-----------------------------------------------------------------------------
(* The other steps: executions come, go, or are told something.            *)

\* The same execution for all that the rows can tell.
Like(r, s) ==
  /\ s.task = r.task /\ s.token = r.token /\ s.n = r.n /\ s.p = r.p /\ s.quantum = r.quantum
  /\ s.phase = r.phase \/ {r.phase, s.phase} \subseteq {"ended", "settling", "settled"}

LEMMA RunsStay ==
  ASSUME SInv, Inv', NEW f \in [runs -> Run], runs' = {f[r] : r \in runs},
         \A r \in runs : Like(r, f[r]),
         \A u \in Tasks : Kept(u), attempt' = attempt,
         proc # "down" \/ proc' = "down" \/ \A u \in Tasks : status'[u] # "RUNNING"
  PROVE  runs' \subseteq Run /\ RunsInv'
<1>0. \A r \in runs : /\ r \in Run /\ RunOk(r) /\ r.task \in Tasks
                      /\ r.token \in Issued(r.task) /\ r.token # 0
  BY RunFacts
<1>1. runs' \subseteq Run
  OBVIOUS
<1>2. Alone'
  BY DEF Like, SInv, RunsInv, Alone
<1>3. ASSUME NEW r \in runs PROVE RunOk(f[r])'
  <2>1. Like(r, f[r])
    BY <1>3
  <2>2. RunOk(r) /\ r.token # 0 /\ Kept(r.task)
    BY <1>0, <1>3
  <2> DEFINE s == f[r]
  <2>3. /\ s.task = r.task /\ s.token = r.token /\ s.n = r.n /\ s.p = r.p
        /\ s.quantum = r.quantum
        /\ s.phase = r.phase \/ {r.phase, s.phase} \subseteq {"ended", "settling", "settled"}
    BY <2>1 DEF Like
  <2> HIDE DEF s
  <2>4. Fresh(s)' => /\ Fresh(r) /\ pc'[r.task] = pc[r.task]
                     /\ pend'[r.task] = pend[r.task]
    BY <2>2, <2>3 DEF Fresh, Holds, Kept
  <2>5. Fresh(s)' => s.phase \in Working /\ Abreast(s)'
    BY <2>2, <2>3, <2>4 DEF RunOk, Abreast, Working
  <2>6. RunOk(s)'
    BY <2>2, <2>3, <2>5 DEF RunOk, Issued, AtOp, Steps, Here
  <2> QED
    BY <2>6 DEF s
<1>4. \A s \in runs' : RunOk(s)'
  BY <1>3
<1>5. RunningHasRun'
  <2> SUFFICES ASSUME proc' # "down", NEW u \in Tasks, status'[u] = "RUNNING"
               PROVE  \E s \in runs' : s.task = u /\ Fresh(s)' /\ s.phase \in Working
    BY DEF RunningHasRun, Working
  <2>1. lease'[u] # 0
    BY DEF Inv, LeaseMeansRunning
  <2>2. lease'[u] = lease[u]
    BY <2>1 DEF Kept
  <2>3. status[u] = "RUNNING"
    BY <2>1, <2>2 DEF SInv, Inv, LeaseMeansRunning
  <2>4. PICK r \in runs : r.task = u /\ Fresh(r) /\ r.phase \in Working
    BY <2>3 DEF SInv, RunsInv, RunningHasRun, Working
  <2>5. f[r] \in runs' /\ Like(r, f[r])
    OBVIOUS
  <2> QED
    BY <2>2, <2>4, <2>5 DEF Like, Fresh, Holds, Working
<1> QED
  BY <1>1, <1>2, <1>4, <1>5 DEF RunsInv

\* In particular when the executions are left alone.
LEMMA RunsUnchanged ==
  ASSUME SInv, Inv', runs' = runs,
         TokenFree \/ UNCHANGED storeVars,
         proc # "down" \/ proc' = "down" \/ \A u \in Tasks : status'[u] # "RUNNING"
  PROVE  runs' \subseteq Run /\ RunsInv'
<1>1. (\A u \in Tasks : Kept(u)) /\ attempt' = attempt
  <2>1. CASE TokenFree
    BY <2>1, TokenFreeKeeps DEF SInv
  <2>2. CASE UNCHANGED storeVars
    BY <2>2 DEF Kept
  <2> QED
    BY <2>1, <2>2
<1> DEFINE f == [r \in runs |-> r]
<1>2. f \in [runs -> Run]
  BY DEF SInv, TypeOK
<1>3. runs' = {f[r] : r \in runs} /\ \A r \in runs : Like(r, f[r])
  BY DEF Like
<1> HIDE DEF f
<1> QED
  BY <1>1, <1>2, <1>3, RunsStay

\* When some of them are signalled.
LEMMA RunsSignalled ==
  ASSUME SInv, Inv', NEW S, runs' = Signalled(S), TokenFree, proc # "down"
  PROVE  runs' \subseteq Run /\ RunsInv'
<1>1. (\A u \in Tasks : Kept(u)) /\ attempt' = attempt
  BY TokenFreeKeeps DEF SInv
<1> DEFINE g(r) == IF r.task \in S /\ r.token = controller[r.task] /\ r.signal = "none"
                   THEN [r EXCEPT !.signal = "control"] ELSE r
           f == [r \in runs |-> g(r)]
<1>2. ASSUME NEW r \in runs PROVE g(r) \in Run /\ Like(r, g(r))
  <2>1. r \in Run
    BY DEF SInv, TypeOK
  <2>2. [r EXCEPT !.signal = "control"] \in Run
    BY <2>1 DEF Run
  <2>3. Like(r, [r EXCEPT !.signal = "control"]) /\ Like(r, r)
    BY <2>1 DEF Run, Like
  <2> QED
    BY <2>1, <2>2, <2>3
<1>3. runs' = {g(r) : r \in runs}
  BY DEF Signalled
<1> HIDE DEF g
<1>4. f \in [runs -> Run] /\ runs' = {f[r] : r \in runs} /\ \A r \in runs : Like(r, f[r])
  BY <1>2, <1>3
<1> HIDE DEF f
<1> QED
  BY <1>1, <1>4, RunsStay

\* When a drain settles the promises that were resolved before it.
LEMMA RunsSettle ==
  ASSUME SInv, Inv', UNCHANGED storeVars, proc' = proc,
         runs' = {IF r.phase = "settling" THEN [r EXCEPT !.phase = "settled"] ELSE r : r \in runs}
  PROVE  runs' \subseteq Run /\ RunsInv'
<1>1. (\A u \in Tasks : Kept(u)) /\ attempt' = attempt
  BY DEF Kept
<1> DEFINE g(r) == IF r.phase = "settling" THEN [r EXCEPT !.phase = "settled"] ELSE r
           f == [r \in runs |-> g(r)]
<1>2. ASSUME NEW r \in runs PROVE g(r) \in Run /\ Like(r, g(r))
  <2>1. r \in Run
    BY DEF SInv, TypeOK
  <2>2. [r EXCEPT !.phase = "settled"] \in Run
    BY <2>1 DEF Run
  <2>3. Like(r, r) /\ (r.phase = "settling" => Like(r, [r EXCEPT !.phase = "settled"]))
    BY <2>1 DEF Run, Like
  <2> QED
    BY <2>1, <2>2, <2>3
<1>3. runs' = {g(r) : r \in runs}
  OBVIOUS
<1> HIDE DEF g
<1>4. f \in [runs -> Run] /\ runs' = {f[r] : r \in runs} /\ \A r \in runs : Like(r, f[r])
  BY <1>2, <1>3
<1> HIDE DEF f
<1>5. proc # "down" \/ proc' = "down"
  OBVIOUS
<1> QED
  BY <1>1, <1>4, <1>5, RunsStay

\* When one of them is over for good.
LEMMA RunsForget ==
  ASSUME SInv, NEW r \in runs, r.phase = "settled", runs' = runs \ {r},
         UNCHANGED <<storeVars, proc>>
  PROVE  runs' \subseteq Run /\ RunsInv'
<1>1. \A q \in runs : RunOk(q)' <=> RunOk(q)
  BY DEF RunOk, Issued, AtOp, Steps, Here, Fresh, Holds, Abreast
<1>2. RunningHasRun'
  BY DEF SInv, RunsInv, RunningHasRun, Fresh, Holds
<1> QED
  BY <1>1, <1>2 DEF SInv, TypeOK, RunsInv, Alone

\* When a claim starts one.
LEMMA RunsBegin ==
  ASSUME SInv, Inv', NEW t \in Tasks, Claim(t), proc' = proc,
         runs' = runs \cup {[task |-> t, token |-> lease'[t], n |-> pc[t], p |-> pend[t],
                             quantum |-> 0, phase |-> "turn", signal |-> "none",
                             error |-> "none"]}
  PROVE  runs' \subseteq Run /\ RunsInv'
<1>0. PICK a : a = attempt[t] + 1
  OBVIOUS
<1>1. /\ status[t] = "READY"
      /\ attempt' = [attempt EXCEPT ![t] = a] /\ lease' = [lease EXCEPT ![t] = a]
      /\ UNCHANGED <<pc, pend>> /\ status' = [status EXCEPT ![t] = "RUNNING"]
  BY <1>0 DEF Claim
<1>2. StoreTypeOK /\ LeaseMeansRunning
  BY DEF SInv, Inv
<1>3. a \in Nat /\ attempt[t] \in Nat /\ a # 0
  BY <1>0, <1>2 DEF StoreTypeOK
<1>4. lease'[t] = a /\ attempt'[t] = a
      /\ \A u \in Tasks \ {t} : lease'[u] = lease[u] /\ attempt'[u] = attempt[u]
                                /\ status'[u] = status[u]
  BY <1>1, <1>2 DEF StoreTypeOK
<1>5. PICK s : s = [task |-> t, token |-> a, n |-> pc[t], p |-> pend[t],
                    quantum |-> 0, phase |-> "turn", signal |-> "none", error |-> "none"]
  OBVIOUS
<1>6. /\ s.task = t /\ s.token = a /\ s.n = pc[t] /\ s.p = pend[t] /\ s.phase = "turn"
      /\ runs' = runs \cup {s} /\ s \in Run
  <2>1. runs' = runs \cup {s}
    BY <1>4, <1>5
  <2>2. s \in Run
    BY <1>2, <1>3, <1>5, SchedulerAssumption DEF Run, StoreTypeOK
  <2> QED
    BY <1>5, <2>1, <2>2
<1>7. RunOk(s)'
  <2>1. a \in Issued(t)'
    BY <1>3, <1>4 DEF Issued
  <2>2. s.phase \in Working /\ Abreast(s)'
    BY <1>1, <1>6 DEF Working, Abreast
  <2> QED
    BY <1>6, <2>1, <2>2 DEF RunOk
<1>8. ASSUME NEW q \in runs
      PROVE  RunOk(q)' /\ ~(q.task = t /\ q.token = a) /\ (Fresh(q) => Fresh(q)')
  <2>1. q \in Run /\ RunOk(q) /\ q.task \in Tasks /\ q.token \in Issued(q.task) /\ q.token # 0
        /\ q.token \in Nat
    BY RunFacts
  <2>2. q.task = t => q.token \in 1..attempt[t] /\ q.token < a
    BY <1>0, <1>3, <2>1 DEF Issued
  <2>3. q.task = t => ~Fresh(q) /\ ~Fresh(q)'
    BY <1>1, <1>2, <1>3, <1>4, <2>1, <2>2 DEF Fresh, Holds, LeaseMeansRunning
  <2>4. q.task # t => (Fresh(q)' <=> Fresh(q))
    BY <1>4, <2>1 DEF Fresh, Holds
  <2>5. q.token \in Issued(q.task)'
    <3>1. CASE q.task = t
      BY <1>3, <1>4, <2>2, <3>1 DEF Issued
    <3>2. CASE q.task # t
      BY <1>4, <2>1, <3>2 DEF Issued
    <3> QED
      BY <3>1, <3>2
  <2>6. Fresh(q)' => q.phase \in Working /\ Abreast(q)'
    BY <1>1, <2>1, <2>3, <2>4 DEF RunOk, Abreast
  <2> QED
    BY <1>3, <2>1, <2>2, <2>3, <2>4, <2>5, <2>6 DEF RunOk, AtOp, Steps, Here
<1>9. RunningHasRun'
  <2> SUFFICES ASSUME proc' # "down", NEW u \in Tasks, status'[u] = "RUNNING"
               PROVE  \E q \in runs' : q.task = u /\ Fresh(q)' /\ q.phase \in Working
    BY DEF RunningHasRun, Working
  <2>1. CASE u = t
    BY <1>4, <1>6, <2>1 DEF Fresh, Holds, Working
  <2>2. CASE u # t
    <3>1. PICK q \in runs : q.task = u /\ Fresh(q) /\ q.phase \in Working
      BY <1>4, <2>2 DEF SInv, RunsInv, RunningHasRun, Working
    <3> QED
      BY <1>6, <1>8, <3>1
  <2> QED
    BY <2>1, <2>2
<1>10. Alone'
  BY <1>6, <1>8 DEF SInv, RunsInv, Alone
<1>11. runs' \subseteq Run
  BY <1>6 DEF SInv, TypeOK
<1>12. \A q \in runs' : RunOk(q)'
  BY <1>6, <1>7, <1>8
<1> QED
  BY <1>9, <1>10, <1>11, <1>12 DEF RunsInv

-----------------------------------------------------------------------------
(* Every step of the scheduler is a step of the store or none.             *)

StoreKind ==
  \/ TokenFree
  \/ \E t \in Tasks : \E token \in Issued(t) : TokenWrites(t, token)
  \/ \E t \in Tasks : Claim(t)
  \/ UNCHANGED storeVars

LEMMA KindIsStoreStep == StoreKind => [StoreNext]_storeVars
<1>1. TokenFree => StoreNext
  BY DEF TokenFree, StoreNext, ByKernel
<1>2. ASSUME NEW t \in Tasks, NEW token \in Issued(t), TokenWrites(t, token) PROVE StoreNext
  BY <1>2 DEF TokenWrites, StoreNext
<1>3. (\E t \in Tasks : Claim(t)) => StoreNext
  BY DEF StoreNext, ByKernel
<1> QED
  BY <1>1, <1>2, <1>3 DEF StoreKind

LEMMA RowWriteKind ==
  ASSUME SInv, NEW r \in runs, RowWrite(r)
  PROVE  StoreKind
<1>1. r.task \in Tasks /\ r.token \in Issued(r.task)
  BY RunFacts
<1> QED
  BY <1>1 DEF RowWrite, StoreKind, TokenFree

\* What is attached to a snapshot was delivered.
LEMMA PendingStep ==
  ASSUME SInv, StoreKind
  PROVE  PendingSeen'
<1> USE DEF SInv, Inv, StoreTypeOK, PendingSeen
<1>1. ASSUME UNCHANGED pend, delivered \subseteq delivered' PROVE PendingSeen'
  BY <1>1 DEF Seen
<1>2. CASE TokenFree
  <2>1. ASSUME NEW e \in Events, PublishEvent(e) PROVE PendingSeen'
    BY <2>1 DEF PublishEvent, Listening, Seen
  <2>2. ASSUME NEW t \in Tasks, RefuseTask(t) \/ ExpireEventWait(t) PROVE PendingSeen'
    <3>1. FailRow(t, FALSE)
      BY <2>2 DEF RefuseTask, ExpireEventWait
    <3>2. UNCHANGED <<pend, delivered>>
      BY <3>1, FailRowKeeps
    <3> QED
      BY <1>1, <3>2
  <2>3. CASE \/ \E g \in Goals : CreateGoal(g)
             \/ \E t \in Tasks : \/ WakeDueTimer(t) \/ RecoverExpiredLease(t) \/ SweepRow(t)
                                 \/ ByControl(t)
             \/ \E S \in SUBSET Tasks : RequestTaskPreemption(S)
             \/ SweepEnd \/ RecoverOrphanedTasks \/ StoreCrash
    <3>1. UNCHANGED <<pend, delivered>>
      BY <2>3 DEF CreateGoal, WakeDueTimer, RecoverExpiredLease, SweepRow, ByControl, PauseTask,
         ResumeTask, CancelTask, RequestTaskPreemption, SweepEnd, RecoverOrphanedTasks, StoreCrash
    <3> QED
      BY <1>1, <3>1
  <2> QED
    BY <1>2, <2>1, <2>2, <2>3 DEF TokenFree
<1>3. ASSUME NEW t \in Tasks, NEW token \in Issued(t), TokenWrites(t, token) PROVE PendingSeen'
  <2>1. ASSUME NEW retryable \in BOOLEAN, FailTask(t, token, retryable) PROVE PendingSeen'
    <3>1. UNCHANGED <<pend, delivered>>
      BY <2>1, FailEffect
    <3> QED
      BY <1>1, <3>1
  <2>2. ASSUME NEW n \in 0..MaxPc, NEW e \in Seen(t), ByExecution(t, token, n, e)
        PROVE  PendingSeen'
    <3>1. pend' = [pend EXCEPT ![t] = e] /\ delivered' = delivered
      <4>1. CASE CheckpointTask(t, token, n, e)
        BY <4>1, CheckpointEffect
      <4>2. CASE Releases(t, token, n, e)
        BY <4>2, ReleaseEffect
      <4> QED
        BY <2>2, <4>1, <4>2 DEF ByExecution, Releases
    <3> QED
      BY <2>2, <3>1 DEF Seen
  <2>3. ASSUME NEW n \in 0..MaxPc, NEW ev \in Events, NEW e \in {NoEvent, ev},
               ConsumeEventAndCheckpoint(t, token, ev, n, e)
        PROVE  PendingSeen'
    <3>1. pend' = [pend EXCEPT ![t] = e] /\ delivered' = delivered \cup {<<ev, t>>}
      BY <2>3 DEF ConsumeEventAndCheckpoint, SaveSnapshot
    <3> QED
      BY <2>3, <3>1 DEF Seen
  <2> QED
    BY <1>3, <2>1, <2>2, <2>3 DEF TokenWrites
<1>4. ASSUME NEW t \in Tasks, Claim(t) PROVE PendingSeen'
  BY <1>1, <1>4 DEF Claim
<1> QED
  BY <1>1, <1>2, <1>3, <1>4 DEF StoreKind

\* What remains of the invariant when the rows are in order.
Sound == runs \subseteq Run /\ RunsInv /\ batch \subseteq Ready

LEMMA ActsStep ==
  ASSUME SInv, Inv', NEW r \in runs, Moves(r), RowWrite(r), proc' = proc, batch' = batch
  PROVE  Sound'
<1>1. r.task \in Tasks /\ r.token \in Issued(r.task)
  BY RunFacts
<1>2. /\ attempt' = attempt
      /\ \A u \in Tasks \ {r.task} : Kept(u)
      /\ Kept(r.task) \/ (lease[r.task] = r.token /\ lease'[r.task] \in {0, r.token})
  <2>1. CASE TokenWrites(r.task, r.token)
    BY <1>1, <2>1, TokenWritesKeep DEF SInv
  <2>2. CASE \E e \in Events : PublishEvent(e)
    <3>1. TokenFree
      BY <2>2 DEF TokenFree
    <3> QED
      BY <1>1, <3>1, TokenFreeKeeps DEF SInv
  <2>3. CASE UNCHANGED storeVars
    BY <1>1, <2>3 DEF Kept
  <2> QED
    BY <2>1, <2>2, <2>3 DEF RowWrite
<1>3. runs' \subseteq Run /\ RunsInv'
  BY <1>2, OneRunMoves
<1>4. batch' \subseteq Ready'
  <2>1. ASSUME NEW u \in Tasks, status[u] = "READY" PROVE status'[u] = "READY"
    BY <1>1, <2>1, ReadyStays DEF RowWrite, SInv
  <2> QED
    BY <2>1 DEF SInv, Ready
<1> QED
  BY <1>3, <1>4 DEF Sound

\* What an execution does by itself, once the process has its turn.
Acts(r) == Turn(r) \/ CallDone(r) \/ BudgetExpires(r) \/ RunCatches(r) \/ RunEnds(r)

LEMMA ActsMoves ==
  ASSUME SInv, NEW r \in runs, Acts(r)
  PROVE  Moves(r) /\ RowWrite(r)
BY TurnMoves, CallMoves, EndMoves DEF Acts

LEMMA SpawnCreates ==
  ASSUME SInv, NEW r \in runs, Spawns(r)
  PROVE  \E g \in Goals : CreateGoal(g)
<1>1. r \in Run /\ RunOk(r) /\ r.task \in Tasks /\ r.n \in 0..MaxPc
  BY RunFacts
<1>2. r.phase = "call" /\ Here(r).child # NoGoal /\ CreateGoal(Here(r).child)
  BY DEF Spawns
<1>3. r.n \in Nat /\ r.n < Len(Workflow[r.task])
  BY <1>1, <1>2, BoundsAssumption DEF RunOk, AtOp, Steps
<1>4. Workflow[r.task][r.n + 1] \in Step
  BY <1>1, <1>3, HereIsStep
<1>5. Here(r).child \in Goals
  BY <1>2, <1>4 DEF Here, Steps, Step
<1> QED
  BY <1>2, <1>5

LEMMA NextSplits ==
  Next => \/ \E r \in runs : Acts(r) \/ Spawns(r) \/ RunSettles(r)
          \/ Sweep \/ Drain \/ DrainBreak
          \/ \E t \in Tasks : DrainDefer(t) \/ DrainRefuse(t) \/ DrainClaim(t)
          \/ TickIdle
          \/ \E t \in Tasks : TickLeaseExpired(t) \/ TickTimer(t) \/ TickWaitExpired(t)
          \/ \E g \in Goals : Submit(g)
          \/ \E e \in Events : Arrive(e)
          \/ \E t \in Tasks : OperatorPauses(t) \/ OperatorCancels(t) \/ InterruptPreempts(t)
                              \/ OperatorResumes(t)
          \/ Start \/ Stop \/ Stopped \/ Crash
BY DEF Next, LoopStep, CallSettles, CallDone, Acts

LEMMA NextKind ==
  ASSUME SInv, Next
  PROVE  StoreKind
<1>1. ASSUME NEW r \in runs, Acts(r) PROVE StoreKind
  BY <1>1, ActsMoves, RowWriteKind
<1>2. ASSUME NEW r \in runs, Spawns(r) PROVE StoreKind
  BY <1>2, SpawnCreates DEF StoreKind, TokenFree
<1>3. ASSUME NEW r \in runs, RunSettles(r) PROVE StoreKind
  BY <1>3 DEF RunSettles, StoreKind
<1>4. CASE Sweep
  BY <1>4 DEF Sweep, StoreKind, TokenFree
<1>5. CASE Drain \/ DrainBreak \/ TickIdle \/ Stopped
  BY <1>5 DEF Drain, DrainBreak, TickIdle, Stopped, StoreKind
<1>6. ASSUME NEW t \in Tasks, DrainDefer(t) PROVE StoreKind
  BY <1>6 DEF DrainDefer, StoreKind
<1>7. ASSUME NEW t \in Tasks, DrainRefuse(t) PROVE StoreKind
  <2>1. RefuseTask(t)
    BY <1>7 DEF DrainRefuse, RefuseTask, Yielded, SInv, Ready
  <2> QED
    BY <2>1 DEF StoreKind, TokenFree
<1>8. ASSUME NEW t \in Tasks, DrainClaim(t) PROVE StoreKind
  BY <1>8 DEF DrainClaim, StoreKind
<1>9. ASSUME NEW t \in Tasks, TickLeaseExpired(t) \/ TickTimer(t) \/ TickWaitExpired(t)
      PROVE  StoreKind
  BY <1>9 DEF TickLeaseExpired, TickTimer, TickWaitExpired, StoreKind, TokenFree
<1>10. ASSUME NEW g \in Goals, Submit(g) PROVE StoreKind
  BY <1>10 DEF Submit, StoreKind, TokenFree
<1>11. ASSUME NEW e \in Events, Arrive(e) PROVE StoreKind
  BY <1>11 DEF Arrive, StoreKind, TokenFree
<1>12. ASSUME NEW t \in Tasks, OperatorPauses(t) \/ OperatorCancels(t) \/ OperatorResumes(t)
       PROVE  StoreKind
  <2>1. ByControl(t)
    BY <1>12 DEF OperatorPauses, OperatorCancels, OperatorResumes, ByControl
  <2> QED
    BY <2>1 DEF StoreKind, TokenFree
<1>13. ASSUME NEW t \in Tasks, InterruptPreempts(t) PROVE StoreKind
  <2>1. {t} \in SUBSET Tasks /\ RequestTaskPreemption({t})
    BY <1>13 DEF InterruptPreempts
  <2> QED
    BY <2>1 DEF StoreKind, TokenFree
<1>14. CASE Stop
  <2>1. active \in SUBSET Tasks /\ RequestTaskPreemption(active)
    BY <1>14 DEF Stop, SInv, TypeOK
  <2> QED
    BY <2>1 DEF StoreKind, TokenFree
<1>15. CASE Start \/ Crash
  BY <1>15 DEF Start, Crash, StoreKind, TokenFree
<1> QED
  BY <1>1, <1>2, <1>3, <1>4, <1>5, <1>6, <1>7, <1>8, <1>9, <1>10, <1>11, <1>12, <1>13, <1>14, <1>15,
     NextSplits

LEMMA SoundStep ==
  ASSUME SInv, Inv', Next
  PROVE  Sound'
<1>0. /\ runs \subseteq Run /\ RunsInv /\ batch \subseteq Ready
      /\ proc \in {"down", "up", "stopping", "stopped"}
  BY DEF SInv, TypeOK
\* Steps that come when no drain is under way and leave the executions alone.
<1>a. ASSUME TokenFree \/ UNCHANGED storeVars, runs' = runs, batch' = {},
             proc # "down" \/ proc' = "down" \/ \A u \in Tasks : status'[u] # "RUNNING"
      PROVE  Sound'
  BY <1>a, RunsUnchanged DEF Sound
<1>b. ASSUME TokenFree, NEW S, runs' = Signalled(S), batch' = {}, proc # "down"
      PROVE  Sound'
  BY <1>b, RunsSignalled DEF Sound
<1>1. ASSUME NEW r \in runs, Acts(r) PROVE Sound'
  <2>1. proc' = proc /\ batch' = batch
    BY <1>1 DEF Acts, Turn, TurnYields, TurnLostLease, TurnControlled, TurnAborts, TurnFinishes,
       StepComplete, StepLocal, StepDelay, StepAwaitTakes, StepAwaitWaits, StepEmits, StepEmitted,
       StepCalls, CallDone, CallReturns, CallWaitsForTimer, CallTakesQueued, CallWaitsForEvent,
       CallThrows, BudgetExpires, RunCatches, RunEnds, SchedulerRest
  <2> QED
    BY <1>1, <2>1, ActsMoves, ActsStep
<1>2. ASSUME NEW r \in runs, Spawns(r) PROVE Sound'
  <2>1. TokenFree
    BY <1>2, SpawnCreates DEF TokenFree
  <2>2. runs' = runs /\ batch' = {} /\ proc' = proc
    BY <1>2 DEF Spawns, SchedulerRest, LoopFree
  <2> QED
    BY <1>a, <2>1, <2>2
<1>3. ASSUME NEW r \in runs, RunSettles(r) PROVE Sound'
  <2>1. r.phase = "settled" /\ runs' = runs \ {r} /\ UNCHANGED <<storeVars, proc>> /\ batch' = {}
    BY <1>3 DEF RunSettles, Resolved
  <2> QED
    BY <2>1, RunsForget DEF Sound
<1>4. CASE Sweep
  <2>1. TokenFree /\ runs' = runs /\ batch' = batch /\ proc' = proc
    BY <1>4 DEF Sweep, TokenFree
  <2>2. ASSUME NEW u \in Tasks, status[u] = "READY" PROVE status'[u] = "READY"
    BY <1>4, <2>2, ReadyStays DEF Sweep, SInv
  <2>3. batch' \subseteq Ready'
    BY <1>0, <2>1, <2>2 DEF Ready
  <2> QED
    BY <2>1, <2>3, RunsUnchanged DEF Sound
<1>5. CASE Drain
  <2>1. /\ UNCHANGED storeVars /\ proc' = proc
        /\ runs' = {IF r.phase = "settling" THEN [r EXCEPT !.phase = "settled"] ELSE r : r \in runs}
    BY <1>5 DEF Drain
  <2>2. batch' \subseteq Ready
    BY <1>5 DEF Drain
  <2>3. Ready' = Ready
    BY <2>1 DEF Ready
  <2> QED
    BY <2>1, <2>2, <2>3, RunsSettle DEF Sound
<1>6. CASE DrainBreak
  <2>1. UNCHANGED storeVars /\ runs' = runs /\ batch' = {} /\ proc' = proc
    BY <1>6 DEF DrainBreak
  <2> QED
    BY <1>a, <2>1
<1>7. ASSUME NEW t \in Tasks, DrainDefer(t) PROVE Sound'
  <2>1. UNCHANGED storeVars /\ runs' = runs /\ batch' = batch \ {t} /\ proc' = proc
    BY <1>7 DEF DrainDefer
  <2>2. batch' \subseteq Ready'
    BY <1>0, <2>1 DEF Ready
  <2> QED
    BY <2>1, <2>2, RunsUnchanged DEF Sound
<1>8. ASSUME NEW t \in Tasks, DrainRefuse(t) PROVE Sound'
  <2>1. RefuseTask(t) /\ runs' = runs /\ batch' = batch \ {t} /\ proc' = proc /\ FailRow(t, FALSE)
    BY <1>8 DEF DrainRefuse, RefuseTask, Yielded, SInv, Ready
  <2>2. TokenFree
    BY <2>1 DEF TokenFree
  <2>3. status' = [status EXCEPT ![t] = "FAILED"]
    BY <2>1 DEF FailRow, LeaveRunning
  <2>4. batch' \subseteq Ready'
    BY <1>0, <2>1, <2>3 DEF Ready, SInv, Inv, StoreTypeOK
  <2> QED
    BY <2>1, <2>2, <2>4, RunsUnchanged DEF Sound
<1>9. ASSUME NEW t \in Tasks, DrainClaim(t) PROVE Sound'
  <2>1. /\ Claim(t) /\ batch' = batch \ {t} /\ proc' = proc
        /\ runs' = runs \cup {[task |-> t, token |-> lease'[t], n |-> pc[t], p |-> pend[t],
                               quantum |-> 0, phase |-> "turn", signal |-> "none",
                               error |-> "none"]}
    BY <1>9 DEF DrainClaim
  <2>2. status' = [status EXCEPT ![t] = "RUNNING"]
    BY <2>1 DEF Claim
  <2>3. batch' \subseteq Ready'
    BY <1>0, <2>1, <2>2 DEF Ready, SInv, Inv, StoreTypeOK
  <2>4. runs' \subseteq Run /\ RunsInv'
    BY <2>1, RunsBegin
  <2> QED
    BY <2>3, <2>4 DEF Sound
<1>10. CASE TickIdle
  BY <1>10, <1>a DEF TickIdle, TickEnds, Tick, Idle, LoopFree
<1>11. ASSUME NEW t \in Tasks, TickLeaseExpired(t) \/ TickTimer(t) \/ TickWaitExpired(t)
       PROVE  Sound'
  <2>1. RecoverExpiredLease(t) \/ WakeDueTimer(t) \/ ExpireEventWait(t)
    BY <1>11 DEF TickLeaseExpired, TickTimer, TickWaitExpired
  <2>2. runs' = runs /\ batch' = {} /\ proc' = proc
    BY <1>11 DEF TickLeaseExpired, TickTimer, TickWaitExpired, TickEnds, Tick, Idle, LoopFree
  <2>3. TokenFree
    BY <2>1 DEF TokenFree
  <2> QED
    BY <1>a, <2>2, <2>3
<1>12. ASSUME NEW g \in Goals, Submit(g) PROVE Sound'
  <2>1. CreateGoal(g) /\ runs' = runs /\ batch' = {} /\ proc' = proc
    BY <1>12 DEF Submit, SchedulerRest, Alive, LoopFree
  <2> QED
    BY <1>a, <2>1 DEF TokenFree
<1>13. ASSUME NEW e \in Events, Arrive(e) PROVE Sound'
  <2>1. PublishEvent(e) /\ runs' = runs /\ batch' = {} /\ proc' = proc
    BY <1>13 DEF Arrive, SchedulerRest, Alive, LoopFree
  <2> QED
    BY <1>a, <2>1 DEF TokenFree
<1>14. ASSUME NEW t \in Tasks, OperatorPauses(t) \/ OperatorCancels(t) PROVE Sound'
  <2>1. ByControl(t) /\ runs' = Signalled({t}) /\ batch' = {} /\ proc # "down"
    BY <1>14 DEF OperatorPauses, OperatorCancels, ByControl, Control, Idle, LoopFree
  <2> QED
    BY <1>b, <2>1 DEF TokenFree
<1>15. ASSUME NEW t \in Tasks, InterruptPreempts(t) PROVE Sound'
  <2>1. /\ {t} \in SUBSET Tasks /\ RequestTaskPreemption({t})
        /\ runs' = Signalled({t}) /\ batch' = {} /\ proc # "down"
    BY <1>15 DEF InterruptPreempts, Control, Idle, LoopFree
  <2>2. TokenFree
    BY <2>1 DEF TokenFree
  <2> QED
    BY <1>b, <2>1, <2>2
<1>16. ASSUME NEW t \in Tasks, OperatorResumes(t) PROVE Sound'
  <2>1. ByControl(t) /\ runs' = runs /\ batch' = {} /\ proc' = proc
    BY <1>16 DEF OperatorResumes, ByControl, Idle, LoopFree, SchedulerRest
  <2> QED
    BY <1>a, <2>1 DEF TokenFree
<1>17. CASE Start
  <2>1. RecoverOrphanedTasks /\ runs' = runs /\ batch' = {}
    BY <1>17 DEF Start, LoopFree
  <2>2. \A u \in Tasks : status'[u] # "RUNNING"
    BY <2>1 DEF RecoverOrphanedTasks
  <2> QED
    BY <1>a, <2>1, <2>2 DEF TokenFree
<1>18. CASE Stop
  <2>1. /\ active \in SUBSET Tasks /\ RequestTaskPreemption(active)
        /\ runs' = Signalled(active) /\ batch' = {} /\ proc # "down"
    BY <1>18 DEF Stop, Idle, LoopFree, SInv, TypeOK
  <2>2. TokenFree
    BY <2>1 DEF TokenFree
  <2> QED
    BY <1>b, <2>1, <2>2
<1>19. CASE Stopped
  <2>1. UNCHANGED storeVars /\ runs' = runs /\ batch' = {} /\ proc # "down"
    BY <1>19 DEF Stopped, LoopFree
  <2> QED
    BY <1>a, <2>1
<1>20. CASE Crash
  <2>1. runs' = {} /\ batch' = {} /\ proc' = "down"
    BY <1>20 DEF Crash, ClearMemory
  <2> QED
    BY <2>1 DEF Sound, RunsInv, Alone, RunningHasRun
<1> QED
  BY <1>1, <1>2, <1>3, <1>4, <1>5, <1>6, <1>7, <1>8, <1>9, <1>10, <1>11, <1>12, <1>13, <1>14, <1>15,
     <1>16, <1>17, <1>18, <1>19, <1>20, NextSplits

\* The variables that the rows and the executions do not depend on.
RestTypeOK ==
  /\ proc \in {"down", "up", "stopping", "stopped"}
  /\ active \subseteq Tasks
  /\ controller \in [Tasks -> Nat]
  /\ inFlight \in [Tasks -> Nat]
  /\ awaited \subseteq Tasks \X Nat
  /\ drainQueued \in BOOLEAN
  /\ batch \subseteq Tasks
  /\ held \subseteq Tasks
  /\ lapses \in 0..MaxLapses /\ controls \in 0..MaxControls /\ stops \in 0..MaxStops
  /\ used \in [Tasks -> Seq(Events)]

LEMMA DrainTyped ==
  ASSUME drainQueued \in BOOLEAN
  PROVE  /\ RequestDrain => drainQueued' \in BOOLEAN
         /\ drainQueued' = drainQueued => drainQueued' \in BOOLEAN
BY DEF RequestDrain

LEMMA UsedTyped ==
  ASSUME SInv, NEW r \in runs, Acts(r)
  PROVE  used' \in [Tasks -> Seq(Events)]
<1>0. r.task \in Tasks /\ r.p \in Events \cup {NoEvent} /\ used \in [Tasks -> Seq(Events)]
  BY RunFacts DEF SInv, TypeOK
<1>1. ASSUME NEW e \in Events, Consumed(r.task, e) PROVE used' \in [Tasks -> Seq(Events)]
  <2>1. Append(used[r.task], e) \in Seq(Events)
    BY <1>0
  <2>2. used' = [used EXCEPT ![r.task] = Append(used[r.task], e)]
    BY <1>1 DEF Consumed
  <2> QED
    BY <1>0, <2>1, <2>2
<1>2. ASSUME Answered(r) PROVE used' \in [Tasks -> Seq(Events)]
  BY <1>0, <1>1, <1>2 DEF Answered
<1>3. \/ used' = used
      \/ \E e \in Events : Consumed(r.task, e)
      \/ Answered(r)
  BY DEF Acts, Turn, TurnYields, TurnLostLease, TurnControlled, TurnAborts, TurnFinishes,
     StepComplete, StepLocal, StepDelay, StepAwaitTakes, StepAwaitWaits, StepEmits, StepEmitted,
     StepCalls, CallDone, CallReturns, CallWaitsForTimer, CallTakesQueued, CallWaitsForEvent,
     CallThrows, BudgetExpires, RunCatches, RunEnds
<1> QED
  BY <1>0, <1>1, <1>2, <1>3

LEMMA RestStep ==
  ASSUME SInv, Inv', Next
  PROVE  RestTypeOK'
<1>0. RestTypeOK
  BY DEF SInv, TypeOK, RestTypeOK
<1>1. /\ RequestDrain => drainQueued' \in BOOLEAN
      /\ drainQueued' = drainQueued => drainQueued' \in BOOLEAN
  BY <1>0, DrainTyped DEF RestTypeOK
<1>2. lease' \in [Tasks -> Nat]
  BY DEF Inv, StoreTypeOK
<1>3. ASSUME NEW r \in runs, Acts(r) PROVE RestTypeOK'
  <2>1. CASE RunEnds(r)
    <3>1. /\ active' = active \ {r.task}
          /\ controller' = [controller EXCEPT ![r.task] = 0]
          /\ held' = held \ {r.task}
          /\ RequestDrain
          /\ UNCHANGED <<proc, inFlight, awaited, batch, faultVars, used>>
      BY <2>1 DEF RunEnds
    <3> QED
      BY <1>0, <1>1, <3>1 DEF RestTypeOK
  <2>2. CASE ~RunEnds(r)
    <3>1. SchedulerRest' = SchedulerRest /\ (drainQueued' = drainQueued \/ RequestDrain)
      BY <1>3, <2>2 DEF Acts, Turn, TurnYields, TurnLostLease, TurnControlled, TurnAborts,
         TurnFinishes, StepComplete, StepLocal, StepDelay, StepAwaitTakes, StepAwaitWaits,
         StepEmits, StepEmitted, StepCalls, CallDone, CallReturns, CallWaitsForTimer,
         CallTakesQueued, CallWaitsForEvent, CallThrows, BudgetExpires, RunCatches
    <3>2. used' \in [Tasks -> Seq(Events)]
      BY <1>3, UsedTyped
    <3> QED
      BY <1>0, <1>1, <3>1, <3>2 DEF RestTypeOK, SchedulerRest
  <2> QED
    BY <2>1, <2>2
<1>4. ASSUME NEW r \in runs, Spawns(r) PROVE RestTypeOK'
  BY <1>0, <1>1, <1>4 DEF Spawns, SchedulerRest, RestTypeOK
<1>5. ASSUME NEW r \in runs, RunSettles(r) PROVE RestTypeOK'
  <2>1. /\ inFlight' = [inFlight EXCEPT ![r.task] = 0]
        /\ UNCHANGED <<proc, active, controller, awaited, drainQueued, batch, held, faultVars, used>>
    BY <1>5 DEF RunSettles
  <2> QED
    BY <1>0, <2>1 DEF RestTypeOK
<1>6. CASE Sweep
  BY <1>0, <1>6 DEF Sweep, RestTypeOK
<1>7. CASE Drain
  <2>1. batch' \subseteq Tasks /\ drainQueued' = FALSE
    BY <1>7 DEF Drain, Ready
  <2>2. UNCHANGED <<proc, active, controller, inFlight, awaited, held, faultVars, used>>
    BY <1>7 DEF Drain
  <2> QED
    BY <1>0, <2>1, <2>2 DEF RestTypeOK
<1>8. CASE DrainBreak
  BY <1>0, <1>8 DEF DrainBreak, RestTypeOK
<1>9. ASSUME NEW t \in Tasks, DrainDefer(t) \/ DrainRefuse(t) PROVE RestTypeOK'
  <2>1. batch' = batch \ {t}
        /\ UNCHANGED <<proc, active, controller, inFlight, awaited, drainQueued, held,
                       faultVars, used>>
    BY <1>9 DEF DrainDefer, DrainRefuse
  <2> QED
    BY <1>0, <2>1 DEF RestTypeOK
<1>10. ASSUME NEW t \in Tasks, DrainClaim(t) PROVE RestTypeOK'
  <2>1. /\ batch' = batch \ {t} /\ active' = active \cup {t}
        /\ controller' = [controller EXCEPT ![t] = lease'[t]]
        /\ inFlight' = [inFlight EXCEPT ![t] = lease'[t]]
        /\ held' = held \/ held' = held \cup {t}
        /\ UNCHANGED <<proc, awaited, drainQueued, faultVars, used>>
    BY <1>10 DEF DrainClaim
  <2> QED
    BY <1>0, <1>2, <2>1 DEF RestTypeOK
<1>11. CASE TickIdle
  BY <1>0, <1>1, <1>11 DEF TickIdle, TickEnds, RestTypeOK
<1>12. ASSUME NEW t \in Tasks, TickLeaseExpired(t) \/ TickTimer(t) \/ TickWaitExpired(t)
       PROVE  RestTypeOK'
  <2>1. lapses' \in 0..MaxLapses
    BY <1>0, <1>12, SchedulerAssumption
    DEF TickLeaseExpired, TickTimer, TickWaitExpired, RestTypeOK
  <2>2. TickEnds
    BY <1>12 DEF TickLeaseExpired, TickTimer, TickWaitExpired
  <2> QED
    BY <1>0, <1>1, <2>1, <2>2 DEF TickEnds, RestTypeOK
<1>13. ASSUME NEW g \in Goals, Submit(g) PROVE RestTypeOK'
  BY <1>0, <1>1, <1>13 DEF Submit, SchedulerRest, RestTypeOK
<1>14. ASSUME NEW e \in Events, Arrive(e) PROVE RestTypeOK'
  BY <1>0, <1>1, <1>14 DEF Arrive, SchedulerRest, RestTypeOK
<1>15. ASSUME NEW kind, Control(kind), drainQueued' = drainQueued \/ RequestDrain
       PROVE  RestTypeOK'
  <2>1. controls' \in 0..MaxControls
    BY <1>0, <1>15, SchedulerAssumption DEF Control, RestTypeOK
  <2>2. UNCHANGED <<proc, active, controller, inFlight, awaited, batch, held, lapses, stops, used>>
    BY <1>15 DEF Control
  <2> QED
    BY <1>0, <1>1, <1>15, <2>1, <2>2 DEF RestTypeOK
<1>16. ASSUME NEW t \in Tasks, OperatorPauses(t) \/ OperatorCancels(t) \/ InterruptPreempts(t)
       PROVE  RestTypeOK'
  BY <1>15, <1>16 DEF OperatorPauses, OperatorCancels, InterruptPreempts
<1>17. ASSUME NEW t \in Tasks, OperatorResumes(t) PROVE RestTypeOK'
  BY <1>0, <1>1, <1>17 DEF OperatorResumes, SchedulerRest, RestTypeOK
<1>18. CASE Start
  BY <1>0, <1>18 DEF Start, RestTypeOK
<1>19. CASE Stop
  <2>1. stops' \in 0..MaxStops
    BY <1>0, <1>19, SchedulerAssumption DEF Stop, RestTypeOK
  <2>2. awaited' \subseteq Tasks \X Nat
    BY <1>0, <1>19 DEF Stop, RestTypeOK
  <2>3. /\ proc' = "stopping"
        /\ UNCHANGED <<active, controller, inFlight, drainQueued, batch, held, lapses, controls, used>>
    BY <1>19 DEF Stop
  <2> QED
    BY <1>0, <2>1, <2>2, <2>3 DEF RestTypeOK
<1>20. CASE Stopped
  BY <1>0, <1>20 DEF Stopped, RestTypeOK
<1>21. CASE Crash
  <2>1. /\ proc' = "down" /\ ClearMemory /\ UNCHANGED <<held, faultVars, used>>
    BY <1>21 DEF Crash
  <2> QED
    BY <1>0, <2>1 DEF ClearMemory, RestTypeOK
<1> QED
  BY <1>3, <1>4, <1>5, <1>6, <1>7, <1>8, <1>9, <1>10, <1>11, <1>12, <1>13, <1>14, <1>16, <1>17,
     <1>18, <1>19, <1>20, <1>21, NextSplits

-----------------------------------------------------------------------------

LEMMA SInvStep == SInv /\ [Next]_vars => SInv' /\ [StoreNext]_storeVars
<1> SUFFICES ASSUME SInv, [Next]_vars PROVE SInv' /\ [StoreNext]_storeVars
  OBVIOUS
<1>1. CASE Next
  <2>1. StoreKind /\ [StoreNext]_storeVars
    BY <1>1, NextKind, KindIsStoreStep
  <2>2. Inv'
    BY <2>1, InvStep DEF SInv
  <2>3. Sound' /\ RestTypeOK'
    BY <1>1, <2>2, SoundStep, RestStep
  <2>4. PendingSeen'
    BY <2>1, PendingStep
  <2> QED
    BY <2>1, <2>2, <2>3, <2>4 DEF SInv, TypeOK, Sound, RestTypeOK, Inv
<1>2. CASE UNCHANGED vars
  <2>1. /\ UNCHANGED <<storeVars, runs, proc, batch, active, controller, inFlight, awaited,
                       drainQueued, held, faultVars, used>>
        /\ [StoreNext]_storeVars
    BY <1>2 DEF vars
  <2>2. Inv'
    BY <2>1, InvStep DEF SInv
  <2>3. runs' \subseteq Run /\ RunsInv'
    BY <2>1, <2>2, RunsUnchanged
  <2>4. PendingSeen' /\ batch' \subseteq Ready'
    BY <2>1 DEF SInv, PendingSeen, Seen, Ready
  <2>5. RestTypeOK'
    BY <2>1 DEF SInv, TypeOK, RestTypeOK
  <2> QED
    BY <2>1, <2>2, <2>3, <2>4, <2>5 DEF SInv, TypeOK, RestTypeOK, Inv
<1> QED
  BY <1>1, <1>2

LEMMA SInvInit == Init => SInv /\ StoreInit
<1>1. StoreInit => Inv
  BY RowsAssumption, EventsAssumption, BoundsAssumption
  DEF StoreInit, Inv, StoreTypeOK, LeaseMeansRunning, RowsExist, SweepIsBlocked,
      TaskStatus, GoalStatus, NoSweep, Quiet
<1>2. Init => StoreInit /\ Inv
  BY <1>1 DEF Init
<1>3. Init => PendingSeen
  BY DEF Init, StoreInit, PendingSeen, Seen
<1>4. Init => RunsInv /\ batch \subseteq Ready
  BY DEF Init, RunsInv, Alone, RunningHasRun
<1>5. Init => TypeOK
  <2>1. [t \in Tasks |-> << >>] \in [Tasks -> Seq(Events)] /\ [t \in Tasks |-> 0] \in [Tasks -> Nat]
    OBVIOUS
  <2>2. 0 \in 0..MaxLapses /\ 0 \in 0..MaxControls /\ 0 \in 0..MaxStops
    BY SchedulerAssumption
  <2>3. Init => StoreTypeOK
    BY <1>2 DEF Inv
  <2> SUFFICES ASSUME Init PROVE TypeOK
    OBVIOUS
  <2>4. /\ proc = "down" /\ runs = {} /\ active = {} /\ awaited = {} /\ drainQueued = FALSE
        /\ batch = {} /\ held = {}
    BY DEF Init
  <2>5. controller \in [Tasks -> Nat] /\ inFlight \in [Tasks -> Nat] /\ used \in [Tasks -> Seq(Events)]
    BY <2>1 DEF Init
  <2>6. lapses \in 0..MaxLapses /\ controls \in 0..MaxControls /\ stops \in 0..MaxStops
    BY <2>2 DEF Init
  <2> QED
    BY <2>3, <2>4, <2>5, <2>6 DEF TypeOK
<1> QED
  BY <1>2, <1>3, <1>4, <1>5 DEF SInv

\* The inductive invariant of the scheduler.
THEOREM SchedulerInvariance == Spec => []SInv
BY SInvInit, SInvStep, PTL DEF Spec

\* Every variable keeps its type, for every workflow and every bound.
THEOREM SchedulerTypes == Spec => []TypeOK
<1>1. SInv => TypeOK
  BY DEF SInv
<1> QED
  BY <1>1, SchedulerInvariance, PTL

\* The executions, the drain, the tick and the operator call the methods of
\* the store in no other way than TaskStore lets callers call them.
THEOREM SchedulerImplementsStore == Spec => ImplementsStore
<1>1. Spec => StoreSpec
  BY SInvInit, SInvStep, SchedulerInvariance, PTL DEF Spec, StoreSpec
<1> QED
  BY <1>1 DEF ImplementsStore

\* A claimed row always has an execution that will give it back: no path
\* through the turn, the catch and the finally forgets one.
THEOREM RunningTasksAreRun == Spec => []RunningHasRun
<1>1. SInv => RunningHasRun
  BY DEF SInv, RunsInv
<1> QED
  BY <1>1, SchedulerInvariance, PTL

-----------------------------------------------------------------------------
(* What happens to the events of a task.                                   *)

\* The events the task was given, in the order in which it came by them: those
\* its steps have used, and then the one attached to its snapshot.
Handed(t) == IF pend[t] = NoEvent THEN used[t] ELSE Append(used[t], pend[t])

\* The step the saved snapshot is about to make takes events with this key.
TakesEvents(t, k) ==
  /\ pc[t] < Len(Workflow[t])
  /\ Workflow[t][pc[t] + 1].op \in {"await", "call"}
  /\ Workflow[t][pc[t] + 1].key = k

\* An attached event is one the next step takes, and a task sleeps in front of
\* the step that asked, with nothing attached.
PendingFits == \A t \in Tasks : pend[t] # NoEvent => TakesEvents(t, KeyOf[pend[t]])
WaitFits == \A t \in Tasks : Asleep(t) => TakesEvents(t, waitKey[t]) /\ pend[t] = NoEvent

\* A step of somebody else.
WaitsAs(u) == Asleep(u)' => Asleep(u) /\ waitKey'[u] = waitKey[u]
Still(u) == pc'[u] = pc[u] /\ pend'[u] = pend[u] /\ used'[u] = used[u] /\ WaitsAs(u)

\* A step of its own: the snapshot does not go back, what was handed to the task
\* stays, and at most the oldest queued event is added.
Turns(t) ==
  /\ pc'[t] >= pc[t]
  /\ pend'[t] # NoEvent => TakesEvents(t, KeyOf[pend[t]])'
  /\ Asleep(t)' => TakesEvents(t, waitKey[t])' /\ pend'[t] = NoEvent
  /\ \/ Handed(t)' = Handed(t) /\ delivered' = delivered
     \/ \E e \in Events : /\ IsOldest(e, Queued(t, KeyOf[e]))
                          /\ delivered' = delivered \cup {<<e, t>>}
                          /\ Handed(t)' = Append(Handed(t), e)

EventKind ==
  \/ /\ \A u \in Tasks : Still(u)
     /\ UNCHANGED <<published, delivered>>
     /\ born' = born \/ \E g \in Goals : CreateGoal(g)
  \/ /\ \E e \in Events : PublishEvent(e)
     /\ UNCHANGED used
  \/ \E t \in Tasks : /\ Turns(t)
                      /\ \A u \in Tasks \ {t} : Still(u)
                      /\ UNCHANGED <<published, born>>

\* Nobody begins to sleep and no snapshot moves when a row is failed, claimed,
\* woken, controlled or recovered.
LEMMA FailRowCalm ==
  ASSUME StoreTypeOK, NEW t \in Tasks, NEW retryable, FailRow(t, retryable)
  PROVE  /\ \A u \in Tasks : pc'[u] = pc[u] /\ pend'[u] = pend[u] /\ WaitsAs(u)
         /\ UNCHANGED eventVars
<1>1. /\ waitKind' = [waitKind EXCEPT ![t] = "NONE"]
      /\ waitKey' = [waitKey EXCEPT ![t] = NoKey]
      /\ UNCHANGED <<snapshotVars, eventVars>>
      /\ \E s : status' = [status EXCEPT ![t] = s]
  BY DEF FailRow, LeaveRunning
<1> QED
  BY <1>1 DEF StoreTypeOK, WaitsAs, Asleep

LEMMA TokenFreeCalm ==
  ASSUME Inv, TokenFree
  PROVE  \/ \E e \in Events : PublishEvent(e)
         \/ /\ \A u \in Tasks : pc'[u] = pc[u] /\ pend'[u] = pend[u] /\ WaitsAs(u)
            /\ UNCHANGED <<published, delivered>>
            /\ born' = born \/ \E g \in Goals : CreateGoal(g)
<1> DEFINE Calm == /\ \A u \in Tasks : pc'[u] = pc[u] /\ pend'[u] = pend[u] /\ WaitsAs(u)
                   /\ UNCHANGED <<published, delivered>>
                   /\ born' = born \/ \E g \in Goals : CreateGoal(g)
<1> USE DEF Inv, StoreTypeOK
<1>1. ASSUME NEW g \in Goals, CreateGoal(g) PROVE Calm
  <2>1. /\ UNCHANGED <<pc, pend, waitKind, waitKey, published, delivered>>
        /\ \A u \in Tasks : status'[u] = "WAITING" => status[u] = "WAITING"
    BY <1>1 DEF CreateGoal
  <2> QED
    BY <1>1, <2>1 DEF WaitsAs, Asleep
<1>2. ASSUME NEW t \in Tasks, RefuseTask(t) \/ ExpireEventWait(t) PROVE Calm
  <2>1. FailRow(t, FALSE)
    BY <1>2 DEF RefuseTask, ExpireEventWait
  <2> QED
    BY <2>1, FailRowCalm
<1>3. ASSUME NEW t \in Tasks, WakeDueTimer(t) \/ RecoverExpiredLease(t) \/ SweepRow(t) PROVE Calm
  <2>1. /\ waitKind' = waitKind \/ waitKind' = [waitKind EXCEPT ![t] = "NONE"]
        /\ UNCHANGED <<pc, pend, waitKey, published, delivered, born>>
        /\ \A u \in Tasks : status'[u] = "WAITING" => status[u] = "WAITING"
    BY <1>3 DEF WakeDueTimer, RecoverExpiredLease, SweepRow, LeaveRunning
  <2> QED
    BY <2>1 DEF WaitsAs, Asleep
<1>4. ASSUME NEW t \in Tasks, PauseTask(t) \/ CancelTask(t) PROVE Calm
  <2>1. /\ UNCHANGED <<pc, pend, waitKind, waitKey, published, delivered, born>>
        /\ \A u \in Tasks : status'[u] = "WAITING" => status[u] = "WAITING"
    BY <1>4 DEF PauseTask, CancelTask
  <2> QED
    BY <2>1 DEF WaitsAs, Asleep
<1>5. ASSUME NEW t \in Tasks, NEW due \in BOOLEAN, ResumeTask(t, due) PROVE Calm
  <2>1. /\ UNCHANGED <<pc, pend, waitKind, waitKey, published, delivered, born>>
        /\ status' = [status EXCEPT ![t] = ResumeStatus(t, due)]
    BY <1>5 DEF ResumeTask
  <2>2. ResumeStatus(t, due) = "WAITING" => waitKind[t] = "TIMER"
    BY DEF ResumeStatus
  <2> QED
    BY <2>1, <2>2 DEF WaitsAs, Asleep
<1>6. CASE \/ \E S \in SUBSET Tasks : RequestTaskPreemption(S)
           \/ SweepEnd \/ StoreCrash
  <2>1. UNCHANGED <<status, pc, pend, waitKind, waitKey, published, delivered, born>>
    BY <1>6 DEF RequestTaskPreemption, SweepEnd, StoreCrash
  <2> QED
    BY <2>1 DEF WaitsAs, Asleep
<1>7. CASE RecoverOrphanedTasks
  <2>1. /\ UNCHANGED <<pc, pend, waitKind, waitKey, published, delivered, born>>
        /\ \A u \in Tasks : status'[u] = "WAITING" => status[u] = "WAITING"
    BY <1>7 DEF RecoverOrphanedTasks
  <2> QED
    BY <2>1 DEF WaitsAs, Asleep
<1> QED
  BY <1>1, <1>2, <1>3, <1>4, <1>5, <1>6, <1>7 DEF TokenFree, ByControl

\* A row given back without a wait for an event.
LEMMA ReleaseCalm ==
  ASSUME StoreTypeOK, NEW t \in Tasks, NEW token, NEW n, NEW e,
         \/ YieldTask(t, token, n, e)
         \/ WaitForTimer(t, token, n, e)
         \/ CompleteTask(t, token, n, e)
         \/ PreemptRunningTask(t, token, n, e)
         \/ PauseRunningTask(t, token, n, e)
         \/ CancelRunningTask(t, token, n, e)
  PROVE  /\ pc' = [pc EXCEPT ![t] = n] /\ pend' = [pend EXCEPT ![t] = e]
         /\ UNCHANGED eventVars
         /\ \A u \in Tasks : WaitsAs(u)
         /\ ~Asleep(t)'
<1>1. /\ pc' = [pc EXCEPT ![t] = n] /\ pend' = [pend EXCEPT ![t] = e]
      /\ UNCHANGED eventVars
  BY DEF YieldTask, WaitForTimer, CompleteTask, PreemptRunningTask, PauseRunningTask,
     CancelRunningTask, SaveSnapshot
<1>2. \/ /\ \E s \in {"READY", "PAUSED", "CANCELLED", "SUCCEEDED"} : status' = [status EXCEPT ![t] = s]
         /\ waitKind' = waitKind \/ waitKind' = [waitKind EXCEPT ![t] = "NONE"]
         /\ waitKey' = waitKey \/ waitKey' = [waitKey EXCEPT ![t] = NoKey]
      \/ /\ \E s : status' = [status EXCEPT ![t] = s]
         /\ waitKind' = [waitKind EXCEPT ![t] = "TIMER"] /\ waitKey' = waitKey
  BY DEF YieldTask, WaitForTimer, CompleteTask, PreemptRunningTask, PauseRunningTask,
     CancelRunningTask, LeaveRunning
<1>3. (\A u \in Tasks : WaitsAs(u)) /\ ~Asleep(t)'
  BY <1>2 DEF StoreTypeOK, WaitsAs, Asleep
<1> QED
  BY <1>1, <1>3

LEMMA WaitEffect ==
  ASSUME StoreTypeOK, NEW t \in Tasks, NEW token, NEW n, NEW e, NEW k, NEW timed,
         WaitForEvent(t, token, n, e, k, timed)
  PROVE  /\ pc' = [pc EXCEPT ![t] = n] /\ pend' = [pend EXCEPT ![t] = e]
         /\ UNCHANGED eventVars
         /\ \A u \in Tasks \ {t} : WaitsAs(u)
         /\ waitKey'[t] = k
BY DEF WaitForEvent, LeaveRunning, SaveSnapshot, StoreTypeOK, WaitsAs, Asleep

\* The snapshot and the events stay as they are.
LEMMA OwnStays ==
  ASSUME SInv, NEW t \in Tasks, used' = used, UNCHANGED eventVars,
         pc' = [pc EXCEPT ![t] = pc[t]], pend' = [pend EXCEPT ![t] = pend[t]],
         \A u \in Tasks : WaitsAs(u)
  PROVE  EventKind
<1>1. pc' = pc /\ pend' = pend
  BY DEF SInv, Inv, StoreTypeOK
<1> QED
  BY <1>1 DEF EventKind, Still

\* What was attached, if anything, has been used, and nothing is attached now.
LEMMA OwnSettles ==
  ASSUME SInv, NEW t \in Tasks, NEW n, n >= pc[t], UNCHANGED eventVars,
         pc' = [pc EXCEPT ![t] = n], pend' = [pend EXCEPT ![t] = NoEvent],
         IF pend[t] = NoEvent THEN used' = used ELSE Consumed(t, pend[t]),
         \A u \in Tasks \ {t} : WaitsAs(u),
         Asleep(t)' => TakesEvents(t, waitKey[t])'
  PROVE  EventKind
<1>1. /\ pc \in [Tasks -> 0..MaxPc] /\ pend \in [Tasks -> Events \cup {NoEvent}]
      /\ used \in [Tasks -> Seq(Events)]
  BY DEF SInv, TypeOK, StoreTypeOK
<1>2. /\ pend'[t] = NoEvent /\ pc'[t] = n
      /\ used'[t] = IF pend[t] = NoEvent THEN used[t] ELSE Append(used[t], pend[t])
      /\ \A u \in Tasks \ {t} : pc'[u] = pc[u] /\ pend'[u] = pend[u] /\ used'[u] = used[u]
  BY <1>1 DEF Consumed
<1>3. Handed(t)' = Handed(t)
  BY <1>2 DEF Handed
<1>4. Turns(t)
  BY <1>2, <1>3 DEF Turns
<1>5. \A u \in Tasks \ {t} : Still(u)
  BY <1>2 DEF Still
<1> QED
  BY <1>4, <1>5 DEF EventKind

\* The oldest queued event is used at once.
LEMMA OwnTakes ==
  ASSUME SInv, NEW t \in Tasks, NEW n, NEW e \in Events, n >= pc[t], pend[t] = NoEvent,
         IsOldest(e, Queued(t, KeyOf[e])), delivered' = delivered \cup {<<e, t>>},
         UNCHANGED <<published, born, rowVars>>,
         pc' = [pc EXCEPT ![t] = n], pend' = [pend EXCEPT ![t] = NoEvent], Consumed(t, e),
         status[t] = "RUNNING"
  PROVE  EventKind
<1>1. /\ pc \in [Tasks -> 0..MaxPc] /\ pend \in [Tasks -> Events \cup {NoEvent}]
      /\ used \in [Tasks -> Seq(Events)]
  BY DEF SInv, TypeOK, StoreTypeOK
<1>2. /\ pend'[t] = NoEvent /\ pc'[t] = n /\ used'[t] = Append(used[t], e)
      /\ \A u \in Tasks \ {t} : pc'[u] = pc[u] /\ pend'[u] = pend[u] /\ used'[u] = used[u]
  BY <1>1 DEF Consumed
<1>3. Handed(t)' = Append(Handed(t), e)
  BY <1>2 DEF Handed
<1>4. Turns(t)
  BY <1>2, <1>3 DEF Turns, Asleep
<1>5. \A u \in Tasks \ {t} : Still(u)
  BY <1>2 DEF Still, WaitsAs, Asleep
<1> QED
  BY <1>4, <1>5 DEF EventKind

\* The oldest queued event is attached, and the one before it has been used.
LEMMA OwnAttaches ==
  ASSUME SInv, NEW t \in Tasks, NEW e \in Events, TakesEvents(t, KeyOf[e]),
         IsOldest(e, Queued(t, KeyOf[e])), delivered' = delivered \cup {<<e, t>>},
         UNCHANGED <<published, born, rowVars>>,
         pc' = [pc EXCEPT ![t] = pc[t]], pend' = [pend EXCEPT ![t] = e],
         IF pend[t] = NoEvent THEN used' = used ELSE Consumed(t, pend[t]),
         status[t] = "RUNNING"
  PROVE  EventKind
<1>1. /\ pc \in [Tasks -> 0..MaxPc] /\ pend \in [Tasks -> Events \cup {NoEvent}]
      /\ used \in [Tasks -> Seq(Events)]
  BY DEF SInv, TypeOK, StoreTypeOK
<1>2. /\ pend'[t] = e /\ pc' = pc /\ e # NoEvent
      /\ used'[t] = IF pend[t] = NoEvent THEN used[t] ELSE Append(used[t], pend[t])
      /\ \A u \in Tasks \ {t} : pend'[u] = pend[u] /\ used'[u] = used[u]
  BY <1>1, EventsAssumption DEF Consumed
<1>3. Handed(t)' = Append(Handed(t), e)
  BY <1>2 DEF Handed
<1>4. TakesEvents(t, KeyOf[pend[t]])'
  BY <1>2 DEF TakesEvents
<1>5. Turns(t)
  <2>1. pc'[t] >= pc[t]
    BY <1>1, <1>2, BoundsAssumption
  <2> QED
    BY <1>3, <1>4, <2>1 DEF Turns, Asleep
<1>6. \A u \in Tasks \ {t} : Still(u)
  BY <1>2 DEF Still, WaitsAs, Asleep
<1> QED
  BY <1>5, <1>6 DEF EventKind

\* The step an execution with a lease is at, as the rows tell it.
LEMMA AtStepFacts ==
  ASSUME SInv, PendingFits, NEW r \in runs, Fresh(r), NEW op, AtOp(r, op),
         r.phase \in {"turn", "emitted", "call"}
  PROVE  /\ r.task \in Tasks /\ r.n = pc[r.task] /\ r.p = pend[r.task]
         /\ r.n < Len(Workflow[r.task]) /\ Here(r) = Workflow[r.task][pc[r.task] + 1]
         /\ Workflow[r.task][pc[r.task] + 1].op = op
         /\ op \notin {"await", "call"} => pend[r.task] = NoEvent
         /\ pend[r.task] # NoEvent => Here(r).key = KeyOf[pend[r.task]]
         /\ status[r.task] = "RUNNING"
         /\ op \in {"await", "call"} => TakesEvents(r.task, Here(r).key)
<1>1. /\ r.task \in Tasks /\ r.n = pc[r.task] /\ r.p = pend[r.task]
      /\ r.token # 0 /\ lease[r.task] = r.token
  BY RunFacts DEF Fresh, Holds
<1>2. r.n < Len(Workflow[r.task]) /\ Here(r) = Workflow[r.task][pc[r.task] + 1]
      /\ Workflow[r.task][pc[r.task] + 1].op = op
  BY <1>1 DEF AtOp, Here, Steps
<1>3. status[r.task] = "RUNNING"
  BY <1>1 DEF SInv, Inv, LeaseMeansRunning
<1>4. pend[r.task] # NoEvent => TakesEvents(r.task, KeyOf[pend[r.task]])
  BY <1>1 DEF PendingFits
<1> QED
  BY <1>1, <1>2, <1>3, <1>4 DEF TakesEvents

LEMMA NothingHappens ==
  ASSUME SInv, UNCHANGED storeVars, used' = used
  PROVE  EventKind
BY DEF EventKind, Still, WaitsAs, Asleep

LEMMA PublishOnceEvents ==
  ASSUME SInv, NEW e \in Events, PublishOnce(e), used' = used
  PROVE  EventKind
<1>1. PublishEvent(e) \/ UNCHANGED storeVars
  BY DEF PublishOnce
<1> QED
  BY <1>1, NothingHappens DEF EventKind

LEMMA TurnEvents ==
  ASSUME SInv, PendingFits, NEW r \in runs, Turn(r)
  PROVE  EventKind
<1>0. /\ r.task \in Tasks /\ StoreTypeOK
      /\ r.phase = "emitted" => AtOp(r, "emit")
      /\ Fresh(r) /\ r.phase \in {"turn", "emitted", "call"} =>
           r.n = pc[r.task] /\ r.p = pend[r.task]
      /\ r.n \in Nat /\ r.n >= r.n /\ r.n + 1 >= r.n
  BY RunFacts, BoundsAssumption DEF RunOk
\* The snapshot is written as it is.
<1>a. ASSUME Fresh(r), r.phase = "turn", used' = used,
             \/ YieldTask(r.task, r.token, r.n, r.p)
             \/ CompleteTask(r.task, r.token, r.n, r.p)
             \/ PreemptRunningTask(r.task, r.token, r.n, r.p)
             \/ PauseRunningTask(r.task, r.token, r.n, r.p)
             \/ CancelRunningTask(r.task, r.token, r.n, r.p)
      PROVE  EventKind
  <2>1. /\ pc' = [pc EXCEPT ![r.task] = r.n] /\ pend' = [pend EXCEPT ![r.task] = r.p]
        /\ UNCHANGED eventVars /\ \A u \in Tasks : WaitsAs(u)
    BY <1>0, <1>a, ReleaseCalm
  <2> QED
    BY <1>0, <1>a, <2>1, OwnStays
<1>b. ASSUME NEW op, AtStep(r, op)
      PROVE  Fresh(r) /\ r.phase = "turn" /\ AtOp(r, op)
  BY <1>b DEF AtStep, Unhindered, AtTop, AtOp
\* The step takes no event: nothing is attached before and after it.
<1>c. ASSUME NEW op \in Ops \ {"await", "call"}, Fresh(r), AtOp(r, op),
             r.phase \in {"turn", "emitted"}, used' = used,
             \/ CheckpointTask(r.task, r.token, r.n + 1, r.p)
             \/ CompleteTask(r.task, r.token, r.n + 1, r.p)
             \/ WaitForTimer(r.task, r.token, r.n + 1, r.p)
      PROVE  EventKind
  <2>1. r.p = NoEvent /\ pend[r.task] = NoEvent /\ status[r.task] = "RUNNING"
    BY <1>c, AtStepFacts
  <2>2. /\ pc' = [pc EXCEPT ![r.task] = r.n + 1] /\ pend' = [pend EXCEPT ![r.task] = NoEvent]
        /\ UNCHANGED eventVars /\ \A u \in Tasks : WaitsAs(u)
        /\ ~Asleep(r.task)'
    <3>1. CASE CheckpointTask(r.task, r.token, r.n + 1, r.p)
      BY <2>1, <3>1 DEF CheckpointTask, SaveSnapshot, WaitsAs, Asleep
    <3>2. CASE CompleteTask(r.task, r.token, r.n + 1, r.p) \/ WaitForTimer(r.task, r.token, r.n + 1, r.p)
      <4> DEFINE m == r.n + 1
      <4>1. CompleteTask(r.task, r.token, m, r.p) \/ WaitForTimer(r.task, r.token, m, r.p)
        BY <3>2
      <4> HIDE DEF m
      <4>2. /\ pc' = [pc EXCEPT ![r.task] = m] /\ pend' = [pend EXCEPT ![r.task] = r.p]
            /\ UNCHANGED eventVars /\ \A u \in Tasks : WaitsAs(u)
            /\ ~Asleep(r.task)'
        BY <1>0, <4>1, ReleaseCalm
      <4> QED
        BY <2>1, <4>2 DEF m
    <3> QED
      BY <1>c, <3>1, <3>2
  <2> DEFINE m == r.n + 1
  <2>3. pc' = [pc EXCEPT ![r.task] = m] /\ m >= pc[r.task]
    BY <1>0, <1>c, <2>2
  <2> HIDE DEF m
  <2> QED
    BY <1>0, <1>c, <2>1, <2>2, <2>3, OwnSettles
<1>1. CASE TurnYields(r)
  <2>1. r.phase = "turn" /\ used' = used /\ IfFresh(r, YieldTask(r.task, r.token, r.n, r.p))
    BY <1>1 DEF TurnYields
  <2>2. CASE Fresh(r)
    BY <1>a, <2>1, <2>2 DEF IfFresh
  <2>3. CASE ~Fresh(r)
    BY <2>1, <2>3, NothingHappens DEF IfFresh
  <2> QED
    BY <2>2, <2>3
<1>2. CASE TurnLostLease(r) \/ TurnAborts(r) \/ StepCalls(r)
  BY <1>2, NothingHappens DEF TurnLostLease, TurnAborts, StepCalls
<1>3. CASE TurnControlled(r)
  BY <1>3, <1>a DEF TurnControlled, AtTop
<1>4. CASE TurnFinishes(r)
  BY <1>4, <1>a DEF TurnFinishes, Unhindered, AtTop
<1>5. CASE StepComplete(r)
  BY <1>5, <1>b, <1>c DEF StepComplete, Ops
<1>6. CASE StepLocal(r)
  BY <1>6, <1>b, <1>c DEF StepLocal, Ops
<1>7. CASE StepDelay(r)
  BY <1>7, <1>b, <1>c DEF StepDelay, Ops
<1>8. CASE StepEmitted(r)
  <2>1. r.phase = "emitted" /\ used' = used /\ CheckpointTask(r.task, r.token, r.n + 1, r.p)
    BY <1>8 DEF StepEmitted
  <2>2. Fresh(r)
    BY <2>1 DEF CheckpointTask, Fresh
  <2> QED
    BY <1>0, <1>c, <2>1, <2>2 DEF Ops
<1>9. CASE StepEmits(r)
  <2>1. AtStep(r, "emit") /\ PublishOnce(Here(r).event) /\ used' = used
    BY <1>9 DEF StepEmits
  <2>2. Fresh(r) /\ AtOp(r, "emit") /\ r.n \in Nat
    BY <1>0, <1>b, <2>1
  <2>3. Here(r).event \in Events
    BY <1>0, <2>2, HereIsStep DEF AtOp, Here, Steps
  <2> QED
    BY <2>1, <2>3, PublishOnceEvents
<1>10. CASE StepAwaitTakes(r)
  <2>1. PICK e \in Events : /\ Incoming(r, e)
                            /\ ConsumeEventAndCheckpoint(r.task, r.token, e, r.n + 1, NoEvent)
                            /\ Consumed(r.task, e)
    BY <1>10 DEF StepAwaitTakes
  <2>2. Fresh(r) /\ r.phase = "turn" /\ AtOp(r, "await")
    BY <1>10, <1>b DEF StepAwaitTakes
  <2>3. /\ r.p = pend[r.task] /\ status[r.task] = "RUNNING"
        /\ pend[r.task] # NoEvent => Here(r).key = KeyOf[pend[r.task]]
    BY <2>2, AtStepFacts
  <2> DEFINE m == r.n + 1
  <2>4. /\ pc' = [pc EXCEPT ![r.task] = m] /\ pend' = [pend EXCEPT ![r.task] = NoEvent]
        /\ delivered' = delivered \cup {<<e, r.task>>}
        /\ UNCHANGED <<rowVars, published, born>>
        /\ m >= pc[r.task]
    BY <1>0, <2>1, <2>2 DEF ConsumeEventAndCheckpoint, SaveSnapshot
  <2> HIDE DEF m
  <2>5. CASE pend[r.task] # NoEvent
    <3>1. e = pend[r.task]
      BY <2>1, <2>3, <2>5 DEF Incoming, Matches
    <3>2. <<e, r.task>> \in delivered
      BY <1>0, <2>5, <3>1 DEF SInv, PendingSeen, Seen
    <3>3. delivered' = delivered
      BY <2>4, <3>2
    <3>4. ~Asleep(r.task)' /\ \A u \in Tasks : WaitsAs(u)
      BY <2>3, <2>4 DEF WaitsAs, Asleep
    <3> QED
      BY <1>0, <2>1, <2>4, <2>5, <3>1, <3>3, <3>4, OwnSettles
  <2>6. CASE pend[r.task] = NoEvent
    <3>1. IsOldest(e, Queued(r.task, Here(r).key))
      BY <2>1, <2>3, <2>6 DEF Incoming, Matches
    <3>2. Here(r).key = KeyOf[e]
      BY <3>1 DEF IsOldest, Queued
    <3> QED
      BY <1>0, <2>1, <2>3, <2>4, <2>6, <3>1, <3>2, OwnTakes
  <2> QED
    BY <2>5, <2>6
<1>11. CASE StepAwaitWaits(r)
  <2>1. /\ AtStep(r, "await") /\ ~Matches(r) /\ used' = used
        /\ WaitForEvent(r.task, r.token, r.n, r.p, Here(r).key, Here(r).timed)
    BY <1>11 DEF StepAwaitWaits
  <2>2. Fresh(r) /\ r.phase = "turn" /\ AtOp(r, "await")
    BY <1>b, <2>1
  <2>3. /\ r.p = pend[r.task] /\ r.n = pc[r.task] /\ TakesEvents(r.task, Here(r).key)
        /\ pend[r.task] # NoEvent => Here(r).key = KeyOf[pend[r.task]]
    BY <2>2, AtStepFacts
  <2>4. pend[r.task] = NoEvent /\ r.p = NoEvent
    BY <2>1, <2>3 DEF Matches
  <2>5. /\ pc' = [pc EXCEPT ![r.task] = r.n] /\ pend' = [pend EXCEPT ![r.task] = NoEvent]
        /\ UNCHANGED eventVars /\ \A u \in Tasks \ {r.task} : WaitsAs(u)
        /\ waitKey'[r.task] = Here(r).key
    BY <1>0, <2>1, <2>4, WaitEffect
  <2>6. pc'[r.task] = pc[r.task]
    BY <1>0, <2>3, <2>5 DEF StoreTypeOK
  <2>7. TakesEvents(r.task, waitKey[r.task])'
    BY <2>3, <2>5, <2>6 DEF TakesEvents
  <2> QED
    BY <1>0, <2>1, <2>3, <2>4, <2>5, <2>7, OwnSettles
<1> QED
  BY <1>1, <1>2, <1>3, <1>4, <1>5, <1>6, <1>7, <1>8, <1>9, <1>10, <1>11 DEF Turn

LEMMA CallEvents ==
  ASSUME SInv, PendingFits, NEW r \in runs, CallDone(r)
  PROVE  EventKind
<1>0. /\ r.task \in Tasks /\ StoreTypeOK /\ r.n \in 0..MaxPc
      /\ r.phase = "call" => AtOp(r, "call")
      /\ Fresh(r) /\ r.phase \in {"turn", "emitted", "call"} =>
           r.n = pc[r.task] /\ r.p = pend[r.task]
      /\ r.n >= r.n /\ r.n + 1 >= r.n
  BY RunFacts, BoundsAssumption DEF RunOk
<1>1. ASSUME r.phase = "call", Fresh(r)
      PROVE  /\ r.n = pc[r.task] /\ r.p = pend[r.task] /\ status[r.task] = "RUNNING"
             /\ TakesEvents(r.task, Here(r).key)
  BY <1>0, <1>1, AtStepFacts
<1>2. ASSUME r.phase = "call", Fresh(r), Answered(r)
      PROVE  IF pend[r.task] = NoEvent THEN used' = used ELSE Consumed(r.task, pend[r.task])
  BY <1>1, <1>2 DEF Answered
<1>3. ASSUME ~Fresh(r), Answered(r), UNCHANGED storeVars PROVE EventKind
  BY <1>3, NothingHappens DEF Answered
<1>4. CASE CallReturns(r)
  <2>1. /\ r.phase = "call" /\ Answered(r)
        /\ IfFresh(r, CheckpointTask(r.task, r.token, r.n + 1, NoEvent))
    BY <1>4 DEF CallReturns, CallEnds
  <2>2. CASE Fresh(r)
    <3> DEFINE m == r.n + 1
    <3>1. /\ pc' = [pc EXCEPT ![r.task] = m] /\ pend' = [pend EXCEPT ![r.task] = NoEvent]
          /\ UNCHANGED <<rowVars, eventVars>>
          /\ m >= pc[r.task]
      BY <1>0, <1>1, <2>1, <2>2 DEF IfFresh, CheckpointTask, SaveSnapshot
    <3> HIDE DEF m
    <3>2. ~Asleep(r.task)' /\ \A u \in Tasks : WaitsAs(u)
      BY <1>1, <2>1, <2>2, <3>1 DEF WaitsAs, Asleep
    <3> QED
      BY <1>0, <1>2, <2>1, <2>2, <3>1, <3>2, OwnSettles
  <2>3. CASE ~Fresh(r)
    BY <1>3, <2>1, <2>3 DEF IfFresh
  <2> QED
    BY <2>2, <2>3
<1>5. CASE CallWaitsForTimer(r)
  <2>1. /\ r.phase = "call" /\ Answered(r)
        /\ IfFresh(r, WaitForTimer(r.task, r.token, r.n, NoEvent))
    BY <1>5 DEF CallWaitsForTimer, CallEnds
  <2>2. CASE Fresh(r)
    <3>1. WaitForTimer(r.task, r.token, r.n, NoEvent)
      BY <2>1, <2>2 DEF IfFresh
    <3>2. /\ pc' = [pc EXCEPT ![r.task] = r.n] /\ pend' = [pend EXCEPT ![r.task] = NoEvent]
          /\ UNCHANGED eventVars
          /\ \A u \in Tasks : WaitsAs(u)
          /\ ~Asleep(r.task)'
      BY <1>0, <3>1, ReleaseCalm
    <3> QED
      BY <1>0, <1>1, <1>2, <2>1, <2>2, <3>2, OwnSettles
  <2>3. CASE ~Fresh(r)
    BY <1>3, <2>1, <2>3 DEF IfFresh
  <2> QED
    BY <2>2, <2>3
<1>6. CASE CallTakesQueued(r)
  <2>1. PICK e \in Events :
          /\ IsOldest(e, Queued(r.task, Here(r).key))
          /\ IfFresh(r, ConsumeEventAndCheckpoint(r.task, r.token, e, r.n, e))
    BY <1>6 DEF CallTakesQueued
  <2>2. r.phase = "call" /\ Answered(r)
    BY <1>6 DEF CallTakesQueued, CallEnds
  <2>3. CASE Fresh(r)
    <3>1. /\ pc' = [pc EXCEPT ![r.task] = r.n] /\ pend' = [pend EXCEPT ![r.task] = e]
          /\ delivered' = delivered \cup {<<e, r.task>>}
          /\ UNCHANGED <<rowVars, published, born>>
      BY <2>1, <2>3 DEF IfFresh, ConsumeEventAndCheckpoint, SaveSnapshot
    <3>2. Here(r).key = KeyOf[e]
      BY <2>1 DEF IsOldest, Queued
    <3>3. r.n = pc[r.task] /\ status[r.task] = "RUNNING" /\ TakesEvents(r.task, KeyOf[e])
      BY <1>1, <2>2, <2>3, <3>2
    <3>4. IsOldest(e, Queued(r.task, KeyOf[e]))
      BY <2>1, <3>2
    <3>5. IF pend[r.task] = NoEvent THEN used' = used ELSE Consumed(r.task, pend[r.task])
      BY <1>2, <2>2, <2>3
    <3>6. pc' = [pc EXCEPT ![r.task] = pc[r.task]]
      BY <3>1, <3>3
    <3> QED
      BY <1>0, <3>1, <3>3, <3>4, <3>5, <3>6, OwnAttaches
  <2>4. CASE ~Fresh(r)
    BY <1>3, <2>1, <2>2, <2>4 DEF IfFresh
  <2> QED
    BY <2>3, <2>4
<1>7. CASE CallWaitsForEvent(r)
  <2>1. /\ r.phase = "call" /\ Answered(r)
        /\ IfFresh(r, WaitForEvent(r.task, r.token, r.n, NoEvent, Here(r).key, Here(r).timed))
    BY <1>7 DEF CallWaitsForEvent, CallEnds
  <2>2. CASE Fresh(r)
    <3>1. WaitForEvent(r.task, r.token, r.n, NoEvent, Here(r).key, Here(r).timed)
      BY <2>1, <2>2 DEF IfFresh
    <3>2. /\ pc' = [pc EXCEPT ![r.task] = r.n] /\ pend' = [pend EXCEPT ![r.task] = NoEvent]
          /\ UNCHANGED eventVars /\ \A u \in Tasks \ {r.task} : WaitsAs(u)
          /\ waitKey'[r.task] = Here(r).key
      BY <1>0, <3>1, WaitEffect
    <3>3. pc'[r.task] = pc[r.task]
      BY <1>0, <1>1, <2>1, <2>2, <3>2 DEF StoreTypeOK
    <3>4. TakesEvents(r.task, waitKey[r.task])'
      BY <1>1, <2>1, <2>2, <3>2, <3>3 DEF TakesEvents
    <3> QED
      BY <1>0, <1>1, <1>2, <2>1, <2>2, <3>2, <3>4, OwnSettles
  <2>3. CASE ~Fresh(r)
    BY <1>3, <2>1, <2>3 DEF IfFresh
  <2> QED
    BY <2>2, <2>3
<1>8. ASSUME NEW error, CallThrows(r, error) PROVE EventKind
  BY <1>8, NothingHappens DEF CallThrows
<1> QED
  BY <1>4, <1>5, <1>6, <1>7, <1>8 DEF CallDone

LEMMA EndEvents ==
  ASSUME SInv, NEW r \in runs, BudgetExpires(r) \/ RunCatches(r) \/ RunEnds(r)
  PROVE  EventKind
<1>0. r.task \in Tasks /\ StoreTypeOK
  BY RunFacts
<1>1. CASE BudgetExpires(r)
  BY <1>1, NothingHappens DEF BudgetExpires
<1>2. CASE RunCatches(r)
  <2> DEFINE t == r.task
  <2>1. Caught(r) /\ used' = used
    BY <1>2 DEF RunCatches
  <2>2. CASE \/ CancelRunningTask(t, r.token, pc[t], pend[t])
             \/ PauseRunningTask(t, r.token, pc[t], pend[t])
             \/ PreemptRunningTask(t, r.token, pc[t], pend[t])
    <3>1. /\ pc' = [pc EXCEPT ![t] = pc[t]] /\ pend' = [pend EXCEPT ![t] = pend[t]]
          /\ UNCHANGED eventVars /\ \A u \in Tasks : WaitsAs(u)
      BY <1>0, <2>2, ReleaseCalm
    <3> QED
      BY <1>0, <2>1, <3>1, OwnStays
  <2>3. CASE \E retryable \in BOOLEAN : FailTask(t, r.token, retryable)
    <3>1. PICK retryable \in BOOLEAN : FailRow(t, retryable)
      BY <2>3 DEF FailTask
    <3>2. /\ \A u \in Tasks : pc'[u] = pc[u] /\ pend'[u] = pend[u] /\ WaitsAs(u)
          /\ UNCHANGED eventVars
      BY <1>0, <3>1, FailRowCalm
    <3> QED
      BY <2>1, <3>2 DEF EventKind, Still
  <2>4. CASE UNCHANGED storeVars
    BY <2>1, <2>4, NothingHappens
  <2> QED
    BY <2>1, <2>2, <2>3, <2>4 DEF Caught, IfFresh
<1>3. CASE RunEnds(r)
  <2>1. DoneEvent[GoalOf[r.task]] \in Events
    BY <1>0, RowsAssumption, WorkflowAssumption
  <2>2. used' = used /\ (PublishOnce(DoneEvent[GoalOf[r.task]]) \/ UNCHANGED storeVars)
    BY <1>3 DEF RunEnds
  <2> QED
    BY <2>1, <2>2, PublishOnceEvents, NothingHappens
<1> QED
  BY <1>1, <1>2, <1>3

LEMMA NextEvents ==
  ASSUME SInv, PendingFits, Next
  PROVE  EventKind
<1>1. ASSUME NEW r \in runs, Acts(r) PROVE EventKind
  BY <1>1, TurnEvents, CallEvents, EndEvents DEF Acts
<1>2. ASSUME TokenFree, used' = used PROVE EventKind
  BY <1>2, TokenFreeCalm DEF EventKind, Still, SInv
<1>3. ASSUME NEW r \in runs, Spawns(r) PROVE EventKind
  <2>1. TokenFree /\ used' = used
    BY <1>3, SpawnCreates DEF TokenFree, Spawns
  <2> QED
    BY <1>2, <2>1
<1>4. ASSUME NEW r \in runs, RunSettles(r) PROVE EventKind
  BY <1>4, NothingHappens DEF RunSettles
<1>5. CASE Sweep
  BY <1>2, <1>5 DEF Sweep, TokenFree
<1>6. CASE Drain \/ DrainBreak \/ TickIdle \/ Stopped
  BY <1>6, NothingHappens DEF Drain, DrainBreak, TickIdle, TickEnds, Stopped
<1>7. ASSUME NEW t \in Tasks, DrainDefer(t) PROVE EventKind
  BY <1>7, NothingHappens DEF DrainDefer
<1>8. ASSUME NEW t \in Tasks, DrainRefuse(t) PROVE EventKind
  <2>1. RefuseTask(t) /\ used' = used
    BY <1>8 DEF DrainRefuse, RefuseTask, Yielded, SInv, Ready
  <2> QED
    BY <1>2, <2>1 DEF TokenFree
<1>9. ASSUME NEW t \in Tasks, DrainClaim(t) PROVE EventKind
  <2>1. /\ status' = [status EXCEPT ![t] = "RUNNING"]
        /\ UNCHANGED <<waitKind, waitKey, pc, pend, eventVars, used>>
    BY <1>9 DEF DrainClaim, Claim
  <2> QED
    BY <2>1 DEF EventKind, Still, WaitsAs, Asleep, SInv, Inv, StoreTypeOK
<1>10. ASSUME NEW t \in Tasks, TickLeaseExpired(t) \/ TickTimer(t) \/ TickWaitExpired(t)
       PROVE  EventKind
  <2>1. TokenFree /\ used' = used
    BY <1>10 DEF TickLeaseExpired, TickTimer, TickWaitExpired, TickEnds, TokenFree
  <2> QED
    BY <1>2, <2>1
<1>11. ASSUME NEW g \in Goals, Submit(g) PROVE EventKind
  BY <1>2, <1>11 DEF Submit, TokenFree
<1>12. ASSUME NEW e \in Events, Arrive(e) PROVE EventKind
  BY <1>2, <1>12 DEF Arrive, TokenFree
<1>13. ASSUME NEW t \in Tasks, OperatorPauses(t) \/ OperatorCancels(t) \/ OperatorResumes(t)
       PROVE  EventKind
  <2>1. ByControl(t) /\ used' = used
    BY <1>13 DEF OperatorPauses, OperatorCancels, OperatorResumes, ByControl, Control
  <2> QED
    BY <1>2, <2>1 DEF TokenFree
<1>14. ASSUME NEW t \in Tasks, InterruptPreempts(t) PROVE EventKind
  <2>1. {t} \in SUBSET Tasks /\ RequestTaskPreemption({t}) /\ used' = used
    BY <1>14 DEF InterruptPreempts, Control
  <2> QED
    BY <1>2, <2>1 DEF TokenFree
<1>15. CASE Stop
  <2>1. active \in SUBSET Tasks /\ RequestTaskPreemption(active) /\ used' = used
    BY <1>15 DEF Stop, SInv, TypeOK
  <2> QED
    BY <1>2, <2>1 DEF TokenFree
<1>16. CASE Start \/ Crash
  BY <1>2, <1>16 DEF Start, Crash, TokenFree
<1> QED
  BY <1>1, <1>3, <1>4, <1>5, <1>6, <1>7, <1>8, <1>9, <1>10, <1>11, <1>12, <1>13, <1>14, <1>15, <1>16,
     NextSplits

-----------------------------------------------------------------------------
(* Every event is handed to a task once.                                   *)

DeliveredPublished == \A t \in Tasks, e \in Events : <<e, t>> \in delivered => published[e] > 0

\* The list of what was handed to a task has no event twice, and is the list of
\* its deliveries.
HandedOnce ==
  \A t \in Tasks :
    /\ \A i, j \in DOMAIN Handed(t) : Handed(t)[i] = Handed(t)[j] => i = j
    /\ \A e \in Events : <<e, t>> \in delivered <=> \E i \in DOMAIN Handed(t) : Handed(t)[i] = e

EInv == PendingFits /\ WaitFits /\ DeliveredPublished /\ HandedOnce

LEMMA HandedTyped ==
  ASSUME TypeOK, NEW t \in Tasks
  PROVE  Handed(t) \in Seq(Events)
<1>1. used[t] \in Seq(Events) /\ pend[t] \in Events \cup {NoEvent}
  BY DEF TypeOK, StoreTypeOK
<1> QED
  BY <1>1 DEF Handed

\* One more event, and a new one: still no event twice.
LEMMA AppendOnce ==
  ASSUME NEW q \in Seq(Events), NEW e \in Events, NEW r, r = Append(q, e),
         \A i, j \in DOMAIN q : q[i] = q[j] => i = j,
         \A i \in DOMAIN q : q[i] # e
  PROVE  /\ \A i, j \in DOMAIN r : r[i] = r[j] => i = j
         /\ \A f \in Events : (\E i \in DOMAIN r : r[i] = f) <=> (\E i \in DOMAIN q : q[i] = f) \/ f = e
<1>1. DOMAIN q = 1..Len(q) /\ Len(q) \in Nat
  OBVIOUS
<1>2. DOMAIN r = 1..(Len(q) + 1) /\ r[Len(q) + 1] = e /\ \A i \in DOMAIN q : r[i] = q[i]
  OBVIOUS
<1>3. DOMAIN r = DOMAIN q \cup {Len(q) + 1}
  BY <1>1, <1>2
<1>4. ASSUME NEW D, NEW k, NEW f, DOMAIN f = D \cup {k}, f[k] = e,
             \A i \in D : f[i] = q[i], D = DOMAIN q
      PROVE  /\ \A i, j \in DOMAIN f : f[i] = f[j] => i = j
             /\ \A g \in Events : (\E i \in DOMAIN f : f[i] = g) <=> (\E i \in DOMAIN q : q[i] = g) \/ g = e
  BY <1>4
<1> QED
  BY <1>2, <1>3, <1>4

\* What a step does to the list of one task.
LEMMA HandedMoves ==
  ASSUME SInv, EInv, EventKind, NEW t \in Tasks
  PROVE  \/ /\ Handed(t)' = Handed(t)
            /\ \A f \in Events : <<f, t>> \in delivered' <=> <<f, t>> \in delivered
         \/ \E e \in Events :
              /\ Handed(t)' = Append(Handed(t), e)
              /\ <<e, t>> \notin delivered
              /\ \A f \in Events : <<f, t>> \in delivered' <=> <<f, t>> \in delivered \/ f = e
              /\ \/ PublishEvent(e) /\ t \in Listening(e)
                 \/ IsOldest(e, Queued(t, KeyOf[e])) /\ UNCHANGED published
<1>1. ASSUME Still(t) PROVE Handed(t)' = Handed(t)
  BY <1>1 DEF Still, Handed
<1>2. CASE (\A u \in Tasks : Still(u)) /\ UNCHANGED delivered
  BY <1>1, <1>2
<1>3. ASSUME NEW e \in Events, PublishEvent(e), used' = used
      PROVE  \/ /\ Handed(t)' = Handed(t)
                /\ \A f \in Events : <<f, t>> \in delivered' <=> <<f, t>> \in delivered
             \/ /\ Handed(t)' = Append(Handed(t), e)
                /\ <<e, t>> \notin delivered
                /\ \A f \in Events : <<f, t>> \in delivered' <=> <<f, t>> \in delivered \/ f = e
                /\ t \in Listening(e)
  <2>1. /\ published[e] = 0
        /\ delivered' = delivered \cup {<<e, u>> : u \in Listening(e)}
        /\ pend'[t] = IF t \in Listening(e) THEN e ELSE pend[t]
    BY <1>3 DEF PublishEvent
  <2>2. CASE t \in Listening(e)
    <3>1. pend[t] = NoEvent
      BY <2>2 DEF EInv, WaitFits, Asleep, Listening
    <3>2. Handed(t)' = Append(Handed(t), e)
      BY <1>3, <2>1, <2>2, <3>1, EventsAssumption DEF Handed
    <3>3. <<e, t>> \notin delivered
      BY <2>1 DEF EInv, DeliveredPublished
    <3>4. \A f \in Events : <<f, t>> \in delivered' <=> <<f, t>> \in delivered \/ f = e
      BY <2>1, <2>2
    <3> QED
      BY <2>2, <3>2, <3>3, <3>4
  <2>3. CASE t \notin Listening(e)
    <3>1. Handed(t)' = Handed(t)
      BY <1>3, <2>1, <2>3 DEF Handed
    <3>2. \A f \in Events : <<f, t>> \in delivered' <=> <<f, t>> \in delivered
      BY <2>1, <2>3
    <3> QED
      BY <3>1, <3>2
  <2> QED
    BY <2>2, <2>3
<1>4. ASSUME NEW s \in Tasks, Turns(s), \A u \in Tasks \ {s} : Still(u), UNCHANGED published
      PROVE  \/ /\ Handed(t)' = Handed(t)
                /\ \A f \in Events : <<f, t>> \in delivered' <=> <<f, t>> \in delivered
             \/ \E e \in Events :
                  /\ Handed(t)' = Append(Handed(t), e)
                  /\ <<e, t>> \notin delivered
                  /\ \A f \in Events : <<f, t>> \in delivered' <=> <<f, t>> \in delivered \/ f = e
                  /\ IsOldest(e, Queued(t, KeyOf[e]))
  <2>1. CASE Handed(s)' = Handed(s) /\ delivered' = delivered
    BY <1>1, <1>4, <2>1
  <2>2. ASSUME NEW e \in Events, IsOldest(e, Queued(s, KeyOf[e])),
               delivered' = delivered \cup {<<e, s>>}, Handed(s)' = Append(Handed(s), e)
        PROVE  \/ /\ Handed(t)' = Handed(t)
                  /\ \A f \in Events : <<f, t>> \in delivered' <=> <<f, t>> \in delivered
               \/ /\ Handed(t)' = Append(Handed(t), e)
                  /\ <<e, t>> \notin delivered
                  /\ \A f \in Events : <<f, t>> \in delivered' <=> <<f, t>> \in delivered \/ f = e
                  /\ IsOldest(e, Queued(t, KeyOf[e]))
    <3>1. <<e, s>> \notin delivered
      BY <2>2 DEF IsOldest, Queued
    <3>2. CASE t = s
      BY <2>2, <3>1, <3>2
    <3>3. CASE t # s
      BY <1>1, <1>4, <2>2, <3>3
    <3> QED
      BY <3>2, <3>3
  <2> QED
    BY <1>4, <2>1, <2>2 DEF Turns
<1> QED
  BY <1>2, <1>3, <1>4 DEF EventKind

LEMMA HandedStep ==
  ASSUME SInv, EInv, EventKind
  PROVE  HandedOnce'
<1> SUFFICES ASSUME NEW t \in Tasks
             PROVE  /\ \A i, j \in DOMAIN Handed(t)' : Handed(t)'[i] = Handed(t)'[j] => i = j
                    /\ \A e \in Events : <<e, t>> \in delivered' <=>
                         \E i \in DOMAIN Handed(t)' : Handed(t)'[i] = e
  BY DEF HandedOnce
<1>1. /\ \A i, j \in DOMAIN Handed(t) : Handed(t)[i] = Handed(t)[j] => i = j
      /\ \A e \in Events : <<e, t>> \in delivered <=> \E i \in DOMAIN Handed(t) : Handed(t)[i] = e
  BY DEF EInv, HandedOnce
<1>2. Handed(t) \in Seq(Events)
  BY HandedTyped DEF SInv
<1>3. ASSUME Handed(t)' = Handed(t),
             \A f \in Events : <<f, t>> \in delivered' <=> <<f, t>> \in delivered
      PROVE  /\ \A i, j \in DOMAIN Handed(t)' : Handed(t)'[i] = Handed(t)'[j] => i = j
             /\ \A e \in Events : <<e, t>> \in delivered' <=>
                  \E i \in DOMAIN Handed(t)' : Handed(t)'[i] = e
  BY <1>1, <1>3
<1>4. ASSUME NEW e \in Events, Handed(t)' = Append(Handed(t), e), <<e, t>> \notin delivered,
             \A f \in Events : <<f, t>> \in delivered' <=> <<f, t>> \in delivered \/ f = e
      PROVE  /\ \A i, j \in DOMAIN Handed(t)' : Handed(t)'[i] = Handed(t)'[j] => i = j
             /\ \A f \in Events : <<f, t>> \in delivered' <=>
                  \E i \in DOMAIN Handed(t)' : Handed(t)'[i] = f
  <2>1. \A i \in DOMAIN Handed(t) : Handed(t)[i] # e
    BY <1>1, <1>4
  <2>2. PICK r : r = Handed(t)'
    OBVIOUS
  <2>3. PICK q : q = Handed(t)
    OBVIOUS
  <2>4. /\ \A i, j \in DOMAIN r : r[i] = r[j] => i = j
        /\ \A f \in Events : (\E i \in DOMAIN r : r[i] = f) <=> (\E i \in DOMAIN q : q[i] = f) \/ f = e
    BY <1>1, <1>2, <1>4, <2>1, <2>2, <2>3, AppendOnce
  <2> QED
    BY <1>1, <1>4, <2>2, <2>3, <2>4
<1> QED
  BY <1>3, <1>4, HandedMoves

LEMMA FitsStep ==
  ASSUME SInv, EInv, EventKind
  PROVE  PendingFits' /\ WaitFits' /\ DeliveredPublished'
<1>0. PendingFits /\ WaitFits /\ DeliveredPublished
  BY DEF EInv
<1>1. ASSUME NEW u \in Tasks, Still(u)
      PROVE  /\ pend'[u] # NoEvent => TakesEvents(u, KeyOf[pend[u]])'
             /\ Asleep(u)' => TakesEvents(u, waitKey[u])' /\ pend'[u] = NoEvent
  BY <1>0, <1>1 DEF Still, WaitsAs, PendingFits, WaitFits, TakesEvents
<1>2. ASSUME NEW e \in Events, PublishEvent(e), NEW u \in Tasks
      PROVE  /\ pend'[u] # NoEvent => TakesEvents(u, KeyOf[pend[u]])'
             /\ Asleep(u)' => TakesEvents(u, waitKey[u])' /\ pend'[u] = NoEvent
  <2>1. /\ pc' = pc
        /\ status'[u] = IF u \in Listening(e) THEN "READY" ELSE status[u]
        /\ pend'[u] = IF u \in Listening(e) THEN e ELSE pend[u]
        /\ waitKind'[u] = IF u \in Listening(e) THEN "NONE" ELSE waitKind[u]
        /\ waitKey'[u] = IF u \in Listening(e) THEN NoKey ELSE waitKey[u]
    BY <1>2 DEF PublishEvent
  <2>2. CASE u \in Listening(e)
    <3>1. Asleep(u) /\ waitKey[u] = KeyOf[e]
      BY <2>2 DEF Listening, Asleep
    <3> QED
      BY <1>0, <2>1, <2>2, <3>1 DEF WaitFits, TakesEvents, Asleep
  <2>3. CASE u \notin Listening(e)
    BY <1>0, <2>1, <2>3 DEF PendingFits, WaitFits, TakesEvents, Asleep
  <2> QED
    BY <2>2, <2>3
<1>3. PendingFits' /\ WaitFits'
  BY <1>1, <1>2 DEF EventKind, Turns, PendingFits, WaitFits
<1>4. DeliveredPublished'
  <2>1. published \in [Events -> Nat] /\ born \in [Goals -> Nat]
    BY DEF SInv, TypeOK, StoreTypeOK
  <2>2. CASE UNCHANGED <<published, delivered>>
    BY <1>0, <2>2 DEF DeliveredPublished
  <2>3. ASSUME NEW e \in Events, PublishEvent(e) PROVE DeliveredPublished'
    <3>1. Newest \in Nat
      BY NewestIsNat
    <3>2. /\ published' = [published EXCEPT ![e] = Newest + 1]
          /\ delivered' = delivered \cup {<<e, u>> : u \in Listening(e)}
      BY <2>3 DEF PublishEvent
    <3>3. published'[e] > 0 /\ \A f \in Events \ {e} : published'[f] = published[f]
      BY <2>1, <3>1, <3>2
    <3> QED
      BY <1>0, <3>2, <3>3 DEF DeliveredPublished
  <2>4. ASSUME NEW t \in Tasks, Turns(t), UNCHANGED published PROVE DeliveredPublished'
    <3>1. ASSUME NEW e \in Events, IsOldest(e, Queued(t, KeyOf[e])) PROVE published[e] > 0
      <4>1. published[e] > born[GoalOf[t]] /\ GoalOf[t] \in Goals
        BY <3>1, RowsAssumption DEF IsOldest, Queued
      <4> QED
        BY <2>1, <4>1
    <3> QED
      BY <1>0, <2>4, <3>1 DEF Turns, DeliveredPublished
  <2> QED
    BY <2>2, <2>3, <2>4 DEF EventKind
<1> QED
  BY <1>3, <1>4

LEMMA EventStep ==
  ASSUME SInv, EInv, [Next]_vars
  PROVE  EventKind
<1>1. CASE Next
  BY <1>1, NextEvents DEF EInv
<1>2. CASE UNCHANGED vars
  BY <1>2, NothingHappens DEF vars
<1> QED
  BY <1>1, <1>2

\* The inductive invariant of the events of the tasks.
THEOREM EventInvariance == Spec => []EInv
<1>1. Init => EInv
  <2> SUFFICES ASSUME Init PROVE EInv
    OBVIOUS
  <2>1. /\ \A t \in Tasks : pend[t] = NoEvent /\ status[t] = "NONE" /\ used[t] = << >>
        /\ delivered = {}
    BY DEF Init, StoreInit
  <2>2. \A t \in Tasks : Handed(t) = << >>
    BY <2>1 DEF Handed
  <2> QED
    BY <2>1, <2>2 DEF EInv, PendingFits, WaitFits, Asleep, DeliveredPublished, HandedOnce
<1>2. SInv /\ EInv /\ [Next]_vars => EInv'
  BY EventStep, HandedStep, FitsStep DEF EInv
<1> QED
  BY <1>1, <1>2, SchedulerInvariance, PTL DEF Spec

LEMMA UsedIsHanded ==
  ASSUME TypeOK, NEW t \in Tasks
  PROVE  /\ DOMAIN used[t] \subseteq DOMAIN Handed(t)
         /\ \A i \in DOMAIN used[t] : Handed(t)[i] = used[t][i]
         /\ pend[t] = NoEvent => DOMAIN Handed(t) = DOMAIN used[t]
         /\ pend[t] # NoEvent => \E k \in DOMAIN Handed(t) :
              /\ k \notin DOMAIN used[t] /\ Handed(t)[k] = pend[t]
              /\ DOMAIN Handed(t) = DOMAIN used[t] \cup {k}
<1>1. used[t] \in Seq(Events) /\ pend[t] \in Events \cup {NoEvent}
  BY DEF TypeOK, StoreTypeOK
<1>2. CASE pend[t] = NoEvent
  BY <1>1, <1>2 DEF Handed
<1>3. CASE pend[t] # NoEvent
  <2> DEFINE k == Len(used[t]) + 1
  <2>1. Handed(t) = Append(used[t], pend[t]) /\ pend[t] \in Events
    BY <1>1, <1>3 DEF Handed
  <2>2. DOMAIN used[t] = 1..Len(used[t]) /\ Len(used[t]) \in Nat
    BY <1>1
  <2>3. /\ DOMAIN Handed(t) = 1..k /\ Handed(t)[k] = pend[t]
        /\ \A i \in DOMAIN used[t] : Handed(t)[i] = used[t][i]
    BY <1>1, <2>1, <2>2
  <2>4. k \in 1..k /\ k \notin 1..Len(used[t]) /\ 1..k = 1..Len(used[t]) \cup {k}
    BY <2>2
  <2> QED
    BY <1>3, <2>2, <2>3, <2>4
<1> QED
  BY <1>2, <1>3

\* No event is handed to a task twice and none is lost on the way from its
\* delivery to the step that uses it, for every workflow and every crash.
THEOREM EventsAreHandledOnce == Spec => []EventsHandledOnce
<1>1. SInv /\ EInv => EventsHandledOnce
  <2> SUFFICES ASSUME SInv, EInv, NEW t \in Tasks, NEW e \in Events
               PROVE  Uses(t, e) + (IF pend[t] = e THEN 1 ELSE 0) =
                        (IF <<e, t>> \in delivered THEN 1 ELSE 0)
    BY DEF EventsHandledOnce
  <2> DEFINE U == {i \in DOMAIN used[t] : used[t][i] = e}
  <2>0. TypeOK
    BY DEF SInv
  <2>1. /\ \A i, j \in DOMAIN Handed(t) : Handed(t)[i] = Handed(t)[j] => i = j
        /\ <<e, t>> \in delivered <=> \E i \in DOMAIN Handed(t) : Handed(t)[i] = e
    BY DEF EInv, HandedOnce
  <2>2. e # NoEvent
    BY EventsAssumption
  <2>3. CASE U = {}
    <3>1. Uses(t, e) = 0
      BY <2>3, FS_EmptySet DEF Uses
    <3>2. \A i \in DOMAIN used[t] : Handed(t)[i] # e
      BY <2>0, <2>3, UsedIsHanded
    <3>3. ASSUME pend[t] = NoEvent PROVE <<e, t>> \in delivered <=> pend[t] = e
      BY <2>0, <2>1, <2>2, <3>2, <3>3, UsedIsHanded
    <3>4. ASSUME pend[t] # NoEvent PROVE <<e, t>> \in delivered <=> pend[t] = e
      <4>1. PICK k \in DOMAIN Handed(t) :
              Handed(t)[k] = pend[t] /\ DOMAIN Handed(t) = DOMAIN used[t] \cup {k}
        BY <2>0, <3>4, UsedIsHanded
      <4> QED
        BY <2>1, <3>2, <4>1
    <3>5. <<e, t>> \in delivered <=> pend[t] = e
      BY <3>3, <3>4
    <3> QED
      BY <3>1, <3>5
  <2>4. ASSUME NEW i \in U PROVE Uses(t, e) = 1 /\ <<e, t>> \in delivered /\ pend[t] # e
    <3>1. i \in DOMAIN Handed(t) /\ Handed(t)[i] = e
      BY <2>0, UsedIsHanded
    <3>2. \A j \in U : j = i
      BY <2>0, <2>1, <3>1, UsedIsHanded
    <3>3. U = {i}
      BY <3>2
    <3>4. Uses(t, e) = 1
      BY <3>3, FS_Singleton DEF Uses
    <3>5. pend[t] # e
      BY <2>0, <2>1, <2>2, <3>1, UsedIsHanded
    <3> QED
      BY <2>1, <3>1, <3>4, <3>5
  <2> QED
    BY <2>3, <2>4
<1> QED
  BY <1>1, SchedulerInvariance, EventInvariance, PTL

\* The saved point of a workflow never moves back, whoever writes the row and
\* however late.
THEOREM ProgressIsKept == Spec => NoLostProgress
<1>1. SInv /\ EInv /\ [Next]_vars => [\A t \in Tasks : pc'[t] >= pc[t]]_vars
  <2> SUFFICES ASSUME SInv, EInv, [Next]_vars, NEW t \in Tasks PROVE pc'[t] >= pc[t]
    OBVIOUS
  <2>1. pc[t] \in Nat /\ pc[t] >= pc[t]
    BY BoundsAssumption DEF SInv, Inv, StoreTypeOK
  <2>2. pc'[t] = pc[t] \/ pc'[t] >= pc[t]
    BY EventStep DEF EventKind, Still, Turns, PublishEvent
  <2> QED
    BY <2>1, <2>2
<1> QED
  BY <1>1, SchedulerInvariance, EventInvariance, PTL DEF Spec, NoLostProgress

-----------------------------------------------------------------------------
(* A task is handed the events of one key in the order of publication.     *)

\* An event's number is its place in the order of publication.
Numbered ==
  /\ \A e \in Events : published[e] <= Newest
  /\ \A e, f \in Events : published[e] = published[f] /\ published[e] > 0 => e = f

\* What is still queued for a task is newer than what it was given before.
DeliveredInOrder ==
  \A t \in Tasks, d, e \in Events :
    <<d, t>> \in delivered /\ e \in Queued(t, KeyOf[d]) => published[d] < published[e]

HandedInOrder ==
  \A t \in Tasks : \A i, j \in DOMAIN Handed(t) :
    i < j /\ KeyOf[Handed(t)[i]] = KeyOf[Handed(t)[j]] =>
      published[Handed(t)[i]] < published[Handed(t)[j]]

OInv == Numbered /\ NoLostWakeup /\ DeliveredInOrder /\ HandedInOrder

LEMMA PublishNumbers ==
  ASSUME StoreTypeOK, Numbered, NEW e \in Events, PublishEvent(e)
  PROVE  /\ Newest \in Nat /\ Newest' = Newest + 1 /\ published'[e] = Newest + 1
         /\ \A f \in Events \ {e} : published'[f] = published[f]
<1> DEFINE P == {f \in Events : published[f] > 0}
<1>1. /\ published[e] = 0 /\ published' = [published EXCEPT ![e] = Newest + 1]
      /\ published \in [Events -> Nat]
  BY DEF PublishEvent, StoreTypeOK
<1>2. Newest \in Nat
  BY NewestIsNat
<1>3. published'[e] = Newest + 1 /\ \A f \in Events \ {e} : published'[f] = published[f]
  BY <1>1
<1>4. P' = P \cup {e} /\ e \notin P
  BY <1>1, <1>2, <1>3
<1>5. IsFiniteSet(P)
  BY FS_Subset, EventsAssumption
<1>6. Cardinality(P \cup {e}) = Cardinality(P) + 1
  BY <1>4, <1>5, FS_AddElement
<1>7. Newest' = Newest + 1
  BY <1>4, <1>6 DEF Newest
<1> QED
  BY <1>2, <1>3, <1>7

\* What is published keeps its number.
LEMMA NumbersStay ==
  ASSUME SInv, Numbered, EventKind
  PROVE  \A f \in Events : published[f] > 0 => published'[f] = published[f]
<1>1. published \in [Events -> Nat] /\ StoreTypeOK
  BY DEF SInv, Inv, StoreTypeOK
<1>2. ASSUME NEW e \in Events, PublishEvent(e), NEW f \in Events, published[f] > 0
      PROVE  published'[f] = published[f]
  BY <1>1, <1>2, PublishNumbers DEF PublishEvent
<1> QED
  BY <1>2 DEF EventKind

LEMMA NumberedStep ==
  ASSUME SInv, Numbered, EventKind
  PROVE  Numbered'
<1>1. published \in [Events -> Nat] /\ StoreTypeOK
  BY DEF SInv, Inv, StoreTypeOK
<1>2. ASSUME published' = published PROVE Numbered'
  BY <1>2 DEF Numbered, Newest
<1>3. ASSUME NEW e \in Events, PublishEvent(e) PROVE Numbered'
  <2>1. /\ Newest \in Nat /\ Newest' = Newest + 1 /\ published'[e] = Newest + 1
        /\ \A f \in Events \ {e} : published'[f] = published[f]
    BY <1>1, <1>3, PublishNumbers
  <2>2. \A f \in Events : published[f] <= Newest /\ published[f] \in Nat
    BY <1>1 DEF Numbered
  <2>3. \A f \in Events : published'[f] <= Newest'
    BY <2>1, <2>2
  <2>4. ASSUME NEW f \in Events, NEW g \in Events, published'[f] = published'[g], published'[f] > 0
        PROVE  f = g
    BY <2>1, <2>2, <2>4 DEF Numbered
  <2> QED
    BY <2>3, <2>4 DEF Numbered
<1> QED
  BY <1>2, <1>3 DEF EventKind

LEMMA OrderStep ==
  ASSUME SInv, EInv, OInv, EventKind
  PROVE  DeliveredInOrder'
<1>1. /\ published \in [Events -> Nat] /\ born \in [Goals -> Nat] /\ StoreTypeOK
      /\ \A t \in Tasks : GoalOf[t] \in Goals
  BY RowsAssumption DEF SInv, Inv, StoreTypeOK
<1>2. Numbered /\ DeliveredInOrder
  BY DEF OInv
<1>3. ASSUME NEW g \in Goals, CreateGoal(g), UNCHANGED <<published, delivered>>
      PROVE  DeliveredInOrder'
  <2>1. born' = [born EXCEPT ![g] = Newest]
    BY <1>3 DEF CreateGoal
  <2>2. ASSUME NEW t \in Tasks, NEW d \in Events, NEW e \in Events,
               <<d, t>> \in delivered, published[e] > born'[GoalOf[t]], e \in Queued(t, KeyOf[d])'
        PROVE  e \in Queued(t, KeyOf[d])
    <3>1. published[e] <= Newest /\ Newest \in Nat
      BY <1>2, NewestIsNat DEF Numbered
    <3>2. born'[GoalOf[t]] = born[GoalOf[t]]
      BY <1>1, <2>1, <2>2, <3>1
    <3> QED
      BY <1>3, <2>2, <3>2 DEF Queued
  <2> QED
    BY <1>2, <1>3, <2>2 DEF DeliveredInOrder, Queued
<1>4. ASSUME UNCHANGED <<published, delivered, born>> PROVE DeliveredInOrder'
  BY <1>2, <1>4 DEF DeliveredInOrder, Queued
<1>5. ASSUME NEW x \in Events, PublishEvent(x) PROVE DeliveredInOrder'
  <2>1. /\ Newest \in Nat /\ published'[x] = Newest + 1
        /\ \A f \in Events \ {x} : published'[f] = published[f]
    BY <1>1, <1>2, <1>5, PublishNumbers
  <2>2. /\ delivered' = delivered \cup {<<x, t>> : t \in Listening(x)}
        /\ born' = born /\ published[x] = 0
    BY <1>5 DEF PublishEvent
  <2> SUFFICES ASSUME NEW t \in Tasks, NEW d \in Events, NEW e \in Events,
                      <<d, t>> \in delivered', e \in Queued(t, KeyOf[d])'
               PROVE  published'[d] < published'[e]
    BY DEF DeliveredInOrder
  <2>3. KeyOf[e] = KeyOf[d] /\ <<e, t>> \notin delivered' /\ d # e
    BY DEF Queued
  <2>4. e # x => e \in Queued(t, KeyOf[d])
    BY <2>1, <2>2 DEF Queued
  <2>5. CASE d = x
    <3>1. t \in Listening(x)
      BY <2>2, <2>5 DEF EInv, DeliveredPublished
    <3>2. Queued(t, KeyOf[x]) = {}
      BY <3>1 DEF OInv, NoLostWakeup, Listening
    <3> QED
      BY <2>3, <2>4, <2>5, <3>2
  <2>6. CASE d # x
    <3>1. <<d, t>> \in delivered /\ published'[d] = published[d]
      BY <2>1, <2>2, <2>6
    <3>2. CASE e = x
      <4>1. published[d] <= Newest /\ published[d] \in Nat
        BY <1>1, <1>2 DEF Numbered
      <4> QED
        BY <2>1, <3>1, <3>2, <4>1
    <3>3. CASE e # x
      BY <1>2, <2>1, <2>4, <3>1, <3>3 DEF DeliveredInOrder
    <3> QED
      BY <3>2, <3>3
  <2> QED
    BY <2>5, <2>6
<1>6. ASSUME NEW s \in Tasks, NEW x \in Events, IsOldest(x, Queued(s, KeyOf[x])),
             delivered' = delivered \cup {<<x, s>>}, UNCHANGED <<published, born>>
      PROVE  DeliveredInOrder'
  <2> SUFFICES ASSUME NEW t \in Tasks, NEW d \in Events, NEW e \in Events,
                      <<d, t>> \in delivered', e \in Queued(t, KeyOf[d])'
               PROVE  published[d] < published[e]
    BY <1>6 DEF DeliveredInOrder
  <2>1. e \in Queued(t, KeyOf[d]) /\ d # e
    BY <1>6 DEF Queued
  <2>2. CASE <<d, t>> \in delivered
    BY <1>2, <2>1, <2>2 DEF DeliveredInOrder
  <2>3. CASE d = x /\ t = s
    <3>1. published[x] <= published[e] /\ published[x] > born[GoalOf[s]]
      BY <1>6, <2>1, <2>3 DEF IsOldest, Queued
    <3>2. published[x] # published[e]
      BY <1>1, <1>2, <2>1, <2>3, <3>1 DEF Numbered
    <3> QED
      BY <1>1, <2>3, <3>1, <3>2
  <2> QED
    BY <1>6, <2>2, <2>3
<1>7. ASSUME NEW s \in Tasks, Turns(s), UNCHANGED <<published, born>> PROVE DeliveredInOrder'
  BY <1>4, <1>6, <1>7 DEF Turns
<1> QED
  BY <1>3, <1>4, <1>5, <1>7 DEF EventKind

LEMMA HandedOrderStep ==
  ASSUME SInv, EInv, OInv, EventKind
  PROVE  HandedInOrder'
<1> SUFFICES ASSUME NEW t \in Tasks, NEW i \in DOMAIN Handed(t)', NEW j \in DOMAIN Handed(t)',
                    i < j, KeyOf[Handed(t)'[i]] = KeyOf[Handed(t)'[j]]
             PROVE  published'[Handed(t)'[i]] < published'[Handed(t)'[j]]
  BY DEF HandedInOrder
<1>0. Numbered /\ DeliveredInOrder /\ StoreTypeOK /\ published \in [Events -> Nat]
  BY DEF OInv, SInv, Inv, StoreTypeOK
<1>1. /\ Handed(t) \in Seq(Events) /\ DOMAIN Handed(t) = 1..Len(Handed(t))
      /\ Len(Handed(t)) \in Nat
  BY HandedTyped DEF SInv
<1>2. \A k \in DOMAIN Handed(t) :
        /\ Handed(t)[k] \in Events /\ <<Handed(t)[k], t>> \in delivered
        /\ published'[Handed(t)[k]] = published[Handed(t)[k]]
  <2>1. \A k \in DOMAIN Handed(t) : Handed(t)[k] \in Events /\ <<Handed(t)[k], t>> \in delivered
    BY <1>1 DEF EInv, HandedOnce
  <2>2. \A k \in DOMAIN Handed(t) : published[Handed(t)[k]] > 0
    BY <2>1 DEF EInv, DeliveredPublished
  <2> QED
    BY <1>0, <2>1, <2>2, NumbersStay
<1>3. ASSUME NEW k \in DOMAIN Handed(t), NEW l \in DOMAIN Handed(t), k < l,
             KeyOf[Handed(t)[k]] = KeyOf[Handed(t)[l]]
      PROVE  published'[Handed(t)[k]] < published'[Handed(t)[l]]
  BY <1>2, <1>3 DEF OInv, HandedInOrder
<1>4. CASE Handed(t)' = Handed(t)
  BY <1>3, <1>4
<1>5. ASSUME NEW e \in Events, Handed(t)' = Append(Handed(t), e),
             \/ PublishEvent(e) /\ t \in Listening(e)
             \/ IsOldest(e, Queued(t, KeyOf[e])) /\ UNCHANGED published
      PROVE  published'[Handed(t)'[i]] < published'[Handed(t)'[j]]
  <2>1. /\ i \in 1..(Len(Handed(t)) + 1) /\ j \in 1..(Len(Handed(t)) + 1)
        /\ \A k \in DOMAIN Handed(t) : Handed(t)'[k] = Handed(t)[k]
        /\ Handed(t)'[Len(Handed(t)) + 1] = e
    BY <1>1, <1>5
  <2>2. i \in DOMAIN Handed(t)
    BY <1>1, <2>1
  <2>3. CASE j \in DOMAIN Handed(t)
    BY <1>3, <2>1, <2>2, <2>3
  <2>4. CASE j = Len(Handed(t)) + 1
    <3>1. PICK d \in Events : d = Handed(t)[i]
      BY <1>2, <2>2
    <3>2. /\ Handed(t)'[i] = d /\ Handed(t)'[j] = e /\ KeyOf[d] = KeyOf[e]
          /\ <<d, t>> \in delivered /\ published'[d] = published[d]
      BY <1>2, <2>1, <2>2, <2>4, <3>1
    <3>3. published'[d] < published'[e]
      <4>1. CASE PublishEvent(e)
        <5>1. published'[e] = Newest + 1 /\ Newest \in Nat
          BY <1>0, <4>1, PublishNumbers
        <5>2. published[d] <= Newest /\ published[d] \in Nat
          BY <1>0 DEF Numbered
        <5> QED
          BY <3>2, <5>1, <5>2
      <4>2. CASE IsOldest(e, Queued(t, KeyOf[e])) /\ UNCHANGED published
        BY <1>0, <3>2, <4>2 DEF IsOldest, DeliveredInOrder
      <4> QED
        BY <1>5, <4>1, <4>2
    <3> QED
      BY <3>2, <3>3
  <2> QED
    BY <1>1, <2>1, <2>3, <2>4
<1> QED
  BY <1>4, <1>5, HandedMoves

\* A task uses the events of one key in the order in which they were published,
\* whether it found them queued, was woken by them or was given them again.
THEOREM EventsAreUsedInOrder == Spec => []UsedInOrder
<1>1. Init => OInv
  <2> SUFFICES ASSUME Init PROVE OInv
    OBVIOUS
  <2>1. /\ \A t \in Tasks : pend[t] = NoEvent /\ status[t] = "NONE" /\ used[t] = << >>
        /\ delivered = {} /\ \A e \in Events : published[e] = 0
    BY DEF Init, StoreInit
  <2>2. \A t \in Tasks : Handed(t) = << >>
    BY <2>1 DEF Handed
  <2>3. Newest \in Nat
    BY NewestIsNat
  <2> QED
    BY <2>1, <2>2, <2>3 DEF OInv, Numbered, NoLostWakeup, DeliveredInOrder, HandedInOrder
<1>2. SInv /\ EInv /\ OInv /\ [Next]_vars => OInv'
  <2> SUFFICES ASSUME SInv, EInv, OInv, [Next]_vars PROVE OInv'
    OBVIOUS
  <2>1. EventKind
    BY EventStep
  <2>2. NoLostWakeup'
    BY SInvStep, SleepStep DEF SInv, Inv, OInv
  <2> QED
    BY <2>1, <2>2, NumberedStep, OrderStep, HandedOrderStep DEF OInv
<1>3. SInv /\ OInv => UsedInOrder
  <2> SUFFICES ASSUME SInv, OInv, NEW t \in Tasks, NEW i \in DOMAIN used[t], NEW j \in DOMAIN used[t],
                      i < j, KeyOf[used[t][i]] = KeyOf[used[t][j]]
               PROVE  published[used[t][i]] < published[used[t][j]]
    BY DEF UsedInOrder
  <2>1. /\ i \in DOMAIN Handed(t) /\ j \in DOMAIN Handed(t)
        /\ Handed(t)[i] = used[t][i] /\ Handed(t)[j] = used[t][j]
    BY UsedIsHanded DEF SInv
  <2> QED
    BY <2>1 DEF OInv, HandedInOrder
<1> QED
  BY <1>1, <1>2, <1>3, SchedulerInvariance, EventInvariance, PTL DEF Spec

-----------------------------------------------------------------------------
(* Whoever waits for the end of a goal is told of it.  The end is published  *)
(* by the execution that brings it about, in its finally.                    *)

StepsOf(t) == {Workflow[t][i] : i \in DOMAIN Workflow[t]}

\* The goal ends with an execution: no task of it is refused by the drain or
\* waits with a deadline.
EndsWithRun(g) == \A t \in TasksOf(g) : t \notin Refusable /\ \A s \in StepsOf(t) : ~s.timed

\* How spawn_goals waits: for the end of the goal it has created, which belongs
\* to the agent of the parent.
WaitsForChild(t, s, g) ==
  s.op = "call" /\ s.child = g /\ GoalOf[t] \in Audience[DoneEvent[g]] /\ EndsWithRun(g)

\* The topic goal.completed and the id of the goal are for the scheduler to
\* publish, once for each goal; a control cancels no sleeping task, and the
\* process does not crash.
EndsAreAnnounced ==
  /\ \A g, h \in Goals : DoneEvent[g] = DoneEvent[h] => g = h
  /\ \A g \in Goals, e \in Events : KeyOf[e] = KeyOf[DoneEvent[g]] => e = DoneEvent[g]
  /\ \A g \in Goals : DoneEvent[g] \notin External
  /\ \A g \in Goals, t \in Tasks : \A s \in StepsOf(t) :
       /\ s.op = "emit" => s.event # DoneEvent[g]
       /\ s.op \in {"await", "call"} /\ s.key = KeyOf[DoneEvent[g]] => WaitsForChild(t, s, g)
  /\ "cancel" \notin Operator /\ MaxCrashes = 0

Ending(g) == \E r \in runs : r.phase = "ended" /\ GoalOf[r.task] = g

\* The pass that gives the verdict has an execution behind it that is over.
VerdictIsBehind ==
  sweep.whole => sweep.goal \in Goals /\ (EndsWithRun(sweep.goal) => Ending(sweep.goal))

\* Until the end of a goal is published an execution that ended it is on its
\* way to the finally.
AnnInv ==
  /\ \A t \in Tasks : EndsWithRun(GoalOf[t]) /\ waitKind[t] = "EVENT" => ~wakeAt[t]
  /\ \A g \in Goals : published[DoneEvent[g]] # 0 => Ended(g)
  /\ \A t \in Tasks, g \in Goals :
       Asleep(t) /\ waitKey[t] = KeyOf[DoneEvent[g]] => published[DoneEvent[g]] = 0
  /\ \A g \in Goals : EndsWithRun(g) /\ Ended(g) => published[DoneEvent[g]] # 0 \/ Ending(g)
  /\ VerdictIsBehind

\* Nobody begins to wait, and nobody gets a deadline.
WaitsOn(u) ==
  /\ waitKind'[u] = "EVENT" => waitKind[u] = "EVENT" /\ (wakeAt'[u] => wakeAt[u])
  /\ WaitsAs(u)

EndingKept == \A g \in Goals : Ending(g) => Ending(g)'

\* A pass that gives a verdict is the one under way, or an execution that is
\* over has begun it, or the goal may end without one.
PassKept ==
  sweep'.whole =>
    \/ sweep.whole /\ sweep'.goal = sweep.goal
    \/ sweep'.goal \in Goals /\ ~EndsWithRun(sweep'.goal)
    \/ \E r \in runs' : r.phase = "ended" /\ GoalOf[r.task] = sweep'.goal

LEMMA StepIn ==
  ASSUME NEW t \in Tasks, NEW n \in Nat, n < Len(Workflow[t])
  PROVE  Workflow[t][n + 1] \in StepsOf(t)
<1>1. Workflow[t] \in Seq(Step)
  BY WorkflowAssumption
<1>2. n + 1 \in DOMAIN Workflow[t]
  BY <1>1
<1> QED
  BY <1>2 DEF StepsOf

LEMMA FailRowWaits ==
  ASSUME StoreTypeOK, NEW t \in Tasks, NEW retryable, FailRow(t, retryable)
  PROVE  /\ \A u \in Tasks : WaitsOn(u)
         /\ sweep' = sweep \/ sweep'.goal = GoalOf[t]
         /\ UNCHANGED <<goal, published>>
<1>1. /\ waitKind' = [waitKind EXCEPT ![t] = "NONE"] /\ wakeAt' = [wakeAt EXCEPT ![t] = FALSE]
      /\ UNCHANGED <<goal, published>>
      /\ sweep' = sweep \/ StartSweep(GoalOf[t], TRUE)
  BY DEF FailRow, eventVars
<1>2. \A u \in Tasks : WaitsAs(u)
  BY FailRowCalm
<1>3. sweep' = sweep \/ sweep'.goal = GoalOf[t]
  BY <1>1 DEF StartSweep
<1> QED
  BY <1>1, <1>2, <1>3 DEF WaitsOn, StoreTypeOK

LEMMA ReleaseWaits ==
  ASSUME StoreTypeOK, NEW t \in Tasks, NEW token, NEW n, NEW e,
         \/ YieldTask(t, token, n, e)
         \/ WaitForTimer(t, token, n, e)
         \/ CompleteTask(t, token, n, e)
         \/ PreemptRunningTask(t, token, n, e)
         \/ PauseRunningTask(t, token, n, e)
         \/ CancelRunningTask(t, token, n, e)
  PROVE  /\ \A u \in Tasks : WaitsOn(u)
         /\ sweep' = sweep \/ sweep'.goal = GoalOf[t]
         /\ UNCHANGED <<goal, published>>
<1>1. \A u \in Tasks : WaitsAs(u)
  BY ReleaseCalm
<1>2. \/ waitKind' = waitKind /\ wakeAt' = wakeAt
      \/ waitKind' = [waitKind EXCEPT ![t] = "NONE"] /\ wakeAt' = [wakeAt EXCEPT ![t] = FALSE]
      \/ waitKind' = [waitKind EXCEPT ![t] = "TIMER"] /\ wakeAt' = [wakeAt EXCEPT ![t] = TRUE]
  BY DEF YieldTask, WaitForTimer, CompleteTask, PreemptRunningTask, PauseRunningTask,
     CancelRunningTask
<1>3. /\ UNCHANGED <<goal, published>>
      /\ sweep' = sweep \/ StartSweep(GoalOf[t], TRUE)
  BY DEF YieldTask, WaitForTimer, CompleteTask, PreemptRunningTask, PauseRunningTask,
     CancelRunningTask, eventVars
<1>4. sweep' = sweep \/ sweep'.goal = GoalOf[t]
  BY <1>3 DEF StartSweep
<1> QED
  BY <1>1, <1>2, <1>3, <1>4 DEF WaitsOn, StoreTypeOK

\* The rows are left alone, but for a snapshot and its delivery.
LEMMA SavesWait ==
  ASSUME UNCHANGED <<goal, rowVars, published, sweep>>
  PROVE  /\ \A u \in Tasks : WaitsOn(u)
         /\ sweep' = sweep /\ UNCHANGED <<goal, published>>
BY DEF WaitsOn, WaitsAs, Asleep, rowVars

-----------------------------------------------------------------------------
(* What an execution does about its end.                                   *)

Asks(r) == (StepAwaitWaits(r) \/ CallWaitsForEvent(r)) /\ Fresh(r)

EndKind ==
  \/ /\ EndingKept /\ PassKept /\ \A u \in Tasks : WaitsOn(u)
     /\ published' = published
     /\ goal' = goal \/ (\E g \in Goals : CreateGoal(g)) \/ SweepEnd
  \/ /\ EndingKept /\ sweep' = sweep
     /\ \E e \in Events : PublishEvent(e) /\ \A g \in Goals : e # DoneEvent[g]
  \/ \E r \in runs : Asks(r) \/ RunEnds(r)

LEMMA LeaveEnds ==
  ASSUME NEW r \in runs, Leave(r), sweep' = sweep \/ sweep'.goal = GoalOf[r.task]
  PROVE  EndingKept /\ PassKept
<1> DEFINE s == [task |-> r.task, token |-> r.token, n |-> 0, p |-> NoEvent, quantum |-> 0,
                 phase |-> "ended", signal |-> "none", error |-> "none"]
<1>1. runs' = (runs \ {r}) \cup {s}
  BY DEF Leave, Replace
<1>2. s.phase = "ended" /\ s.task = r.task
  OBVIOUS
<1> HIDE DEF s
<1> QED
  BY <1>1, <1>2 DEF EndingKept, Ending, PassKept

LEMMA ReplaceEnds ==
  ASSUME NEW r \in runs, NEW s, Replace(r, s), r.phase # "ended", sweep' = sweep
  PROVE  EndingKept /\ PassKept
BY DEF Replace, EndingKept, Ending, PassKept

LEMMA SameEnds ==
  ASSUME runs' = runs, sweep' = sweep
  PROVE  EndingKept /\ PassKept
BY DEF EndingKept, Ending, PassKept

\* A signal, or the resolution of a promise, leaves executions where they were.
LEMMA LikeEnds ==
  ASSUME NEW f, runs' = {f[r] : r \in runs}, sweep' = sweep \/ ~sweep'.whole,
         \A r \in runs : r.phase = "ended" => f[r].phase = "ended" /\ f[r].task = r.task
  PROVE  EndingKept /\ PassKept
<1>1. \A r \in runs : r.phase = "ended" => \E s \in runs' : s.phase = "ended" /\ s.task = r.task
  OBVIOUS
<1> QED
  BY <1>1 DEF EndingKept, Ending, PassKept

LEMMA TurnEnds ==
  ASSUME SInv, EndsAreAnnounced, NEW r \in runs, Turn(r)
  PROVE  EndKind
<1>0. /\ r.task \in Tasks /\ r \in Run /\ StoreTypeOK /\ r.n \in Nat
      /\ r.phase = "emitted" => AtOp(r, "emit")
  BY RunFacts, BoundsAssumption DEF RunOk
<1>1. ASSUME \A u \in Tasks : WaitsOn(u), sweep' = sweep \/ sweep'.goal = GoalOf[r.task],
             UNCHANGED <<goal, published>>, Leave(r)
      PROVE  EndKind
  BY <1>1, LeaveEnds DEF EndKind
<1>2. ASSUME NEW s, Replace(r, s), r.phase # "ended",
             UNCHANGED <<goal, rowVars, published, sweep>>
      PROVE  EndKind
  BY <1>2, ReplaceEnds, SavesWait DEF EndKind
<1>3. CASE TurnYields(r) \/ TurnLostLease(r)
  <2>1. /\ Leave(r)
        /\ YieldTask(r.task, r.token, r.n, r.p) \/ UNCHANGED storeVars
    BY <1>3 DEF TurnYields, TurnLostLease, IfFresh
  <2>2. CASE UNCHANGED storeVars
    BY <1>1, <2>1, <2>2, SavesWait DEF storeVars, eventVars
  <2> QED
    BY <1>0, <1>1, <2>1, <2>2, ReleaseWaits
<1>4. CASE TurnControlled(r) \/ TurnFinishes(r) \/ StepDelay(r) \/ StepComplete(r)
  <2>1. /\ Leave(r)
        /\ \E n \in {r.n, r.n + 1} :
             \/ CancelRunningTask(r.task, r.token, n, r.p)
             \/ PauseRunningTask(r.task, r.token, n, r.p)
             \/ PreemptRunningTask(r.task, r.token, n, r.p)
             \/ CompleteTask(r.task, r.token, n, r.p)
             \/ WaitForTimer(r.task, r.token, n, r.p)
    BY <1>4 DEF TurnControlled, TurnFinishes, StepDelay, StepComplete
  <2> QED
    BY <1>0, <1>1, <2>1, ReleaseWaits
<1>5. CASE TurnAborts(r) \/ StepCalls(r)
  <2>1. /\ \E s : Replace(r, s)
        /\ r.phase = "turn" /\ UNCHANGED storeVars
    BY <1>5 DEF TurnAborts, StepCalls, AtStep, Unhindered, AtTop
  <2> QED
    BY <1>2, <2>1 DEF storeVars, eventVars
<1>6. CASE StepLocal(r) \/ StepEmitted(r)
  <2>1. /\ \E s : Replace(r, s)
        /\ r.phase \in {"turn", "emitted"} /\ CheckpointTask(r.task, r.token, r.n + 1, r.p)
    BY <1>6 DEF StepLocal, StepEmitted, AtStep, Unhindered, AtTop, Advance
  <2> QED
    BY <1>2, <2>1 DEF CheckpointTask, eventVars
<1>7. CASE StepAwaitTakes(r)
  <2>1. /\ \E s : Replace(r, s)
        /\ r.phase = "turn"
        /\ \E e \in Events : ConsumeEventAndCheckpoint(r.task, r.token, e, r.n + 1, NoEvent)
    BY <1>7 DEF StepAwaitTakes, AtStep, Unhindered, AtTop, Advance
  <2> QED
    BY <1>2, <2>1 DEF ConsumeEventAndCheckpoint
<1>8. CASE StepAwaitWaits(r)
  BY <1>8 DEF EndKind, Asks, StepAwaitWaits, AtStep, Unhindered
<1>9. CASE StepEmits(r)
  <2>1. PICK s : Replace(r, s) /\ r.phase = "turn" /\ PublishOnce(Here(r).event)
    BY <1>9 DEF StepEmits, AtStep, Unhindered, AtTop
  <2>2. r.n < Len(Workflow[r.task]) /\ Here(r).op = "emit" /\ Here(r) = Workflow[r.task][r.n + 1]
    BY <1>9 DEF StepEmits, AtStep, Here, Steps
  <2>3. Here(r) \in StepsOf(r.task) /\ Here(r).event \in Events
    BY <1>0, <2>2, StepIn, HereIsStep
  <2>4. CASE UNCHANGED storeVars
    BY <1>2, <2>1, <2>4 DEF storeVars, eventVars
  <2>5. CASE PublishEvent(Here(r).event)
    <3>1. sweep' = sweep
      BY <2>5 DEF PublishEvent
    <3>2. \A g \in Goals : Here(r).event # DoneEvent[g]
      BY <1>0, <2>2, <2>3 DEF EndsAreAnnounced
    <3> QED
      BY <2>1, <2>3, <2>5, <3>1, <3>2, ReplaceEnds DEF EndKind
  <2> QED
    BY <2>1, <2>4, <2>5 DEF PublishOnce
<1> QED
  BY <1>3, <1>4, <1>5, <1>6, <1>7, <1>8, <1>9 DEF Turn

LEMMA OwnEnds ==
  ASSUME SInv, EndsAreAnnounced, NEW r \in runs, Acts(r)
  PROVE  EndKind
<1>0. r.task \in Tasks /\ r \in Run /\ StoreTypeOK
  BY RunFacts
<1>1. ASSUME \A u \in Tasks : WaitsOn(u), sweep' = sweep \/ sweep'.goal = GoalOf[r.task],
             UNCHANGED <<goal, published>>, Leave(r)
      PROVE  EndKind
  BY <1>1, LeaveEnds DEF EndKind
<1>2. ASSUME NEW s, Replace(r, s), r.phase # "ended",
             UNCHANGED <<goal, rowVars, published, sweep>>
      PROVE  EndKind
  BY <1>2, ReplaceEnds, SavesWait DEF EndKind
<1>3. ASSUME UNCHANGED storeVars, Leave(r) PROVE EndKind
  BY <1>1, <1>3, SavesWait DEF storeVars, eventVars
<1>4. CASE CallReturns(r) \/ CallTakesQueued(r)
  <2>1. /\ \E s : Replace(r, s)
        /\ r.phase = "call"
        /\ \/ UNCHANGED storeVars
           \/ CheckpointTask(r.task, r.token, r.n + 1, NoEvent)
           \/ \E e \in Events : ConsumeEventAndCheckpoint(r.task, r.token, e, r.n, e)
    BY <1>4 DEF CallReturns, CallTakesQueued, CallEnds, Advance, IfFresh
  <2>2. UNCHANGED <<goal, rowVars, published, sweep>>
    BY <2>1 DEF CheckpointTask, ConsumeEventAndCheckpoint, storeVars, eventVars
  <2> QED
    BY <1>2, <2>1, <2>2
<1>5. CASE CallWaitsForTimer(r)
  <2>1. Leave(r) /\ (WaitForTimer(r.task, r.token, r.n, NoEvent) \/ UNCHANGED storeVars)
    BY <1>5 DEF CallWaitsForTimer, IfFresh
  <2> QED
    BY <1>0, <1>1, <1>3, <2>1, ReleaseWaits
<1>6. CASE CallWaitsForEvent(r)
  <2>1. Fresh(r) \/ (Leave(r) /\ UNCHANGED storeVars)
    BY <1>6 DEF CallWaitsForEvent, IfFresh
  <2> QED
    BY <1>3, <1>6, <2>1 DEF EndKind, Asks
<1>7. CASE BudgetExpires(r) \/ \E error \in {"plain", "limit", "denied"} : CallThrows(r, error)
  <2>1. (\E s : Replace(r, s)) /\ r.phase = "call" /\ UNCHANGED storeVars
    BY <1>7 DEF BudgetExpires, CallThrows
  <2> QED
    BY <1>2, <2>1 DEF storeVars, eventVars
<1>8. CASE RunCatches(r)
  <2> DEFINE t == r.task
             token == r.token
  <2>1. Leave(r) /\ Caught(r)
    BY <1>8 DEF RunCatches
  <2>2. \/ UNCHANGED storeVars
        \/ CancelRunningTask(t, token, pc[t], pend[t])
        \/ PauseRunningTask(t, token, pc[t], pend[t])
        \/ PreemptRunningTask(t, token, pc[t], pend[t])
        \/ \E retryable \in BOOLEAN : FailTask(t, token, retryable)
    BY <2>1 DEF Caught, IfFresh
  <2>3. ASSUME NEW retryable \in BOOLEAN, FailTask(t, token, retryable)
        PROVE  /\ \A u \in Tasks : WaitsOn(u)
               /\ sweep' = sweep \/ sweep'.goal = GoalOf[t]
               /\ UNCHANGED <<goal, published>>
    BY <1>0, <2>3, FailRowWaits DEF FailTask
  <2> QED
    BY <1>0, <1>1, <1>3, <2>1, <2>2, <2>3, ReleaseWaits
<1>9. CASE RunEnds(r)
  BY <1>9 DEF EndKind
<1> QED
  BY <1>4, <1>5, <1>6, <1>7, <1>8, <1>9, TurnEnds DEF Acts, CallDone

\* What comes from outside, and the store's own passes.
LEMMA CalmWaits ==
  ASSUME Inv, NEW t \in Tasks,
         \/ \E g \in Goals : CreateGoal(g)
         \/ Claim(t) \/ WakeDueTimer(t) \/ RecoverExpiredLease(t) \/ SweepRow(t)
         \/ PauseTask(t) \/ \E due \in BOOLEAN : ResumeTask(t, due)
  PROVE  /\ \A u \in Tasks : WaitsOn(u)
         /\ published' = published
<1>1. \/ waitKind' = waitKind /\ wakeAt' = wakeAt
      \/ waitKind' = [waitKind EXCEPT ![t] = "NONE"] /\ wakeAt' = [wakeAt EXCEPT ![t] = FALSE]
  BY DEF CreateGoal, Claim, WakeDueTimer, RecoverExpiredLease, SweepRow, PauseTask, ResumeTask
<1>2. CASE Claim(t)
  <2>1. status' = [status EXCEPT ![t] = "RUNNING"] /\ UNCHANGED <<waitKind, waitKey, published>>
    BY <1>2 DEF Claim, eventVars
  <2>2. \A u \in Tasks : WaitsAs(u)
    BY <2>1 DEF Inv, StoreTypeOK, WaitsAs, Asleep
  <2> QED
    BY <1>1, <2>1, <2>2 DEF WaitsOn, Inv, StoreTypeOK
<1>3. CASE ~Claim(t)
  <2>1. TokenFree
    BY <1>3 DEF TokenFree, ByControl
  <2>2. published' = published
    BY <1>3 DEF CreateGoal, WakeDueTimer, RecoverExpiredLease, SweepRow, PauseTask, ResumeTask, eventVars
  <2>3. ASSUME NEW e \in Events, PublishEvent(e) PROVE FALSE
    <3>1. published' = [published EXCEPT ![e] = Newest + 1] /\ published[e] = 0
      BY <2>3 DEF PublishEvent
    <3>2. Newest + 1 # 0
      BY NewestIsNat
    <3> QED
      BY <2>2, <3>1, <3>2 DEF Inv, StoreTypeOK
  <2>4. \A u \in Tasks : WaitsAs(u)
    BY <2>1, <2>3, TokenFreeCalm
  <2> QED
    BY <1>1, <2>2, <2>4 DEF WaitsOn, Inv, StoreTypeOK
<1> QED
  BY <1>2, <1>3

LEMMA OutsideEnds ==
  ASSUME SInv, EndsAreAnnounced, AnnInv, Next, \A r \in runs : ~Acts(r)
  PROVE  EndKind
<1>0. Inv /\ StoreTypeOK /\ crashes \in Nat /\ GoalOf \in [Tasks -> Goals]
  BY BoundsAssumption, RowsAssumption DEF SInv, Inv, StoreTypeOK
<1>1. ASSUME runs' = runs, sweep' = sweep, NEW t \in Tasks,
             \/ \E g \in Goals : CreateGoal(g)
             \/ Claim(t) \/ WakeDueTimer(t) \/ RecoverExpiredLease(t)
             \/ PauseTask(t)
      PROVE  EndKind
  <2>1. goal' = goal \/ \E g \in Goals : CreateGoal(g)
    BY <1>1 DEF Claim, WakeDueTimer, RecoverExpiredLease, PauseTask
  <2> QED
    BY <1>0, <1>1, <2>1, CalmWaits, SameEnds DEF EndKind
<1>2. ASSUME UNCHANGED <<goal, rowVars, published>>, EndingKept, PassKept
      PROVE  EndKind
  BY <1>2 DEF EndKind, WaitsOn, WaitsAs, Asleep, rowVars
<1>3. ASSUME NEW g \in Goals, CreateGoal(g), runs' = runs PROVE EndKind
  <2>1. sweep' = sweep
    BY <1>3 DEF CreateGoal
  <2>2. CASE Tasks = {}
    BY <1>3, <2>1, <2>2, SameEnds DEF EndKind, CreateGoal
  <2> QED
    BY <1>1, <1>3, <2>1, <2>2
<1>4. ASSUME NEW t \in Tasks, FailRow(t, FALSE), ~EndsWithRun(GoalOf[t]), runs' = runs PROVE EndKind
  <2>1. /\ \A u \in Tasks : WaitsOn(u)
        /\ sweep' = sweep \/ sweep'.goal = GoalOf[t]
        /\ UNCHANGED <<goal, published>>
    BY <1>0, <1>4, FailRowWaits
  <2> QED
    BY <1>0, <1>4, <2>1 DEF EndKind, EndingKept, Ending, PassKept
<1>5. ASSUME NEW r \in runs, Spawns(r) PROVE EndKind
  BY <1>3, <1>5, SpawnCreates DEF Spawns
<1>6. ASSUME NEW r \in runs, RunSettles(r) PROVE EndKind
  <2>1. runs' = runs \ {r} /\ r.phase = "settled" /\ UNCHANGED storeVars
    BY <1>6 DEF RunSettles, Resolved
  <2>2. EndingKept /\ PassKept
    BY <2>1 DEF EndingKept, Ending, PassKept, storeVars
  <2> QED
    BY <1>2, <2>1, <2>2 DEF storeVars, eventVars
<1>7. ASSUME Sweep PROVE EndKind
  <2>1. runs' = runs
    BY <1>7 DEF Sweep, memoryVars
  <2>2. ASSUME NEW t \in Tasks, SweepRow(t) PROVE EndKind
    <3>1. sweep' = [sweep EXCEPT !.rows = @ \ {t}] /\ goal' = goal
      BY <2>2 DEF SweepRow
    <3>2. sweep'.goal = sweep.goal /\ sweep'.whole = sweep.whole
      BY <1>0, <3>1 DEF StoreTypeOK
    <3>3. EndingKept /\ PassKept
      BY <2>1, <3>2 DEF EndingKept, Ending, PassKept
    <3> QED
      BY <1>0, <2>2, <3>1, <3>3, CalmWaits DEF EndKind
  <2>3. ASSUME SweepEnd PROVE EndKind
    <3>1. ~sweep'.whole /\ UNCHANGED <<rowVars, published>>
      BY <2>3 DEF SweepEnd, NoSweep, eventVars
    <3>2. EndingKept /\ PassKept
      BY <2>1, <3>1 DEF EndingKept, Ending, PassKept
    <3>3. \A u \in Tasks : WaitsOn(u)
      BY <3>1 DEF WaitsOn, WaitsAs, Asleep, rowVars
    <3> QED
      BY <2>3, <3>1, <3>2, <3>3 DEF EndKind
  <2> QED
    BY <1>7, <2>2, <2>3 DEF Sweep
<1>8. ASSUME Drain PROVE EndKind
  <2> DEFINE f == [r \in runs |-> IF r.phase = "settling" THEN [r EXCEPT !.phase = "settled"] ELSE r]
  <2>1. runs' = {f[r] : r \in runs} /\ UNCHANGED storeVars
    BY <1>8 DEF Drain
  <2>2. \A r \in runs : r.phase = "ended" => f[r].phase = "ended" /\ f[r].task = r.task
    OBVIOUS
  <2> HIDE DEF f
  <2>3. sweep' = sweep
    BY <2>1 DEF storeVars
  <2> QED
    BY <1>2, <2>1, <2>2, <2>3, LikeEnds DEF storeVars, eventVars
<1>9. ASSUME runs' = runs, UNCHANGED storeVars PROVE EndKind
  <2>1. sweep' = sweep
    BY <1>9 DEF storeVars
  <2> QED
    BY <1>2, <1>9, <2>1, SameEnds DEF storeVars, eventVars
<1>10. ASSUME NEW t \in Tasks, DrainRefuse(t) PROVE EndKind
  <2>1. FailRow(t, FALSE) /\ t \in Refusable /\ runs' = runs
    BY <1>10 DEF DrainRefuse
  <2>2. ~EndsWithRun(GoalOf[t])
    BY <2>1 DEF EndsWithRun, TasksOf
  <2> QED
    BY <1>4, <2>1, <2>2
<1>11. ASSUME NEW t \in Tasks, DrainClaim(t) PROVE EndKind
  <2>1. /\ Claim(t) /\ runs \subseteq runs'
    BY <1>11 DEF DrainClaim
  <2>2. UNCHANGED <<goal, sweep>>
    BY <2>1 DEF Claim
  <2>3. EndingKept /\ PassKept
    BY <2>1, <2>2 DEF EndingKept, Ending, PassKept
  <2> QED
    BY <1>0, <2>1, <2>2, <2>3, CalmWaits DEF EndKind
<1>12. ASSUME NEW t \in Tasks, TickLeaseExpired(t) \/ TickTimer(t) PROVE EndKind
  BY <1>1, <1>12 DEF TickLeaseExpired, TickTimer, TickEnds, RecoverExpiredLease, WakeDueTimer
<1>13. ASSUME NEW t \in Tasks, TickWaitExpired(t) PROVE EndKind
  <2>1. /\ FailRow(t, FALSE) /\ waitKind[t] = "EVENT" /\ wakeAt[t] /\ runs' = runs
    BY <1>13 DEF TickWaitExpired, ExpireEventWait, TickEnds
  <2>2. ~EndsWithRun(GoalOf[t])
    BY <2>1 DEF AnnInv
  <2> QED
    BY <1>4, <2>1, <2>2
<1>14. ASSUME NEW e \in Events, Arrive(e) PROVE EndKind
  <2>1. PublishEvent(e) /\ e \in External /\ runs' = runs
    BY <1>14 DEF Arrive
  <2>2. sweep' = sweep
    BY <2>1 DEF PublishEvent
  <2> QED
    BY <2>1, <2>2, SameEnds DEF EndKind, EndsAreAnnounced
<1>15. ASSUME NEW S, runs' = Signalled(S), sweep' = sweep \/ ~sweep'.whole PROVE EndingKept /\ PassKept
  <2> DEFINE f == [r \in runs |-> IF r.task \in S /\ r.token = controller[r.task] /\ r.signal = "none"
                                  THEN [r EXCEPT !.signal = "control"] ELSE r]
  <2>1. runs' = {f[r] : r \in runs}
    BY <1>15 DEF Signalled
  <2>2. \A r \in runs : r \in Run
    BY DEF SInv, TypeOK
  <2>3. \A r \in runs : r.phase = "ended" => f[r].phase = "ended" /\ f[r].task = r.task
    BY <2>2 DEF Run
  <2> HIDE DEF f
  <2> QED
    BY <1>15, <2>1, <2>3, LikeEnds
<1>16. ASSUME NEW t \in Tasks, OperatorPauses(t) PROVE EndKind
  <2>1. PauseTask(t) /\ runs' = Signalled({t})
    BY <1>16 DEF OperatorPauses
  <2>2. UNCHANGED <<goal, sweep>>
    BY <2>1 DEF PauseTask
  <2> QED
    BY <1>0, <1>15, <2>1, <2>2, CalmWaits DEF EndKind
<1>17. ASSUME NEW t \in Tasks, OperatorCancels(t) PROVE EndKind
  BY <1>17 DEF OperatorCancels, Control, EndsAreAnnounced
<1>18. ASSUME NEW S, RequestTaskPreemption(S), runs' = Signalled(S) PROVE EndKind
  <2>1. UNCHANGED <<goal, rowVars, published, sweep>>
    BY <1>18 DEF RequestTaskPreemption, eventVars
  <2> QED
    BY <1>2, <1>15, <1>18, <2>1
<1>19. ASSUME NEW t \in Tasks, OperatorResumes(t) PROVE EndKind
  <2>1. PICK due \in BOOLEAN : ResumeTask(t, due)
    BY <1>19 DEF OperatorResumes
  <2>2. runs' = runs
    BY <1>19 DEF OperatorResumes
  <2>3. goal' = goal /\ (sweep' = sweep \/ StartSweep(GoalOf[t], FALSE))
    BY <2>1 DEF ResumeTask
  <2>4. EndingKept /\ PassKept
    BY <2>2, <2>3 DEF EndingKept, Ending, PassKept, StartSweep
  <2> QED
    BY <1>0, <2>1, <2>3, <2>4, CalmWaits DEF EndKind
<1>20. ASSUME Start PROVE EndKind
  <2>1. RecoverOrphanedTasks /\ runs' = runs
    BY <1>20 DEF Start
  <2>2. /\ UNCHANGED <<goal, sweep, published, waitKind, waitKey, wakeAt>>
        /\ \A u \in Tasks : status'[u] = "WAITING" => status[u] = "WAITING"
    BY <2>1 DEF RecoverOrphanedTasks, eventVars
  <2>3. \A u \in Tasks : WaitsOn(u)
    BY <2>2 DEF WaitsOn, WaitsAs, Asleep
  <2> QED
    BY <2>1, <2>2, <2>3, SameEnds DEF EndKind
<1>21. ASSUME Crash PROVE FALSE
  BY <1>0, <1>21 DEF Crash, StoreCrash, EndsAreAnnounced
<1>22. CASE DrainBreak \/ TickIdle \/ Stopped \/ \E t \in Tasks : DrainDefer(t)
  BY <1>9, <1>22 DEF DrainBreak, TickIdle, TickEnds, Stopped, DrainDefer, memoryVars
<1>23. CASE Stop
  BY <1>18, <1>23 DEF Stop
<1>24. CASE \E t \in Tasks : InterruptPreempts(t)
  BY <1>18, <1>24 DEF InterruptPreempts
<1>25. CASE \E g \in Goals : Submit(g)
  BY <1>3, <1>25 DEF Submit
<1> QED
  BY <1>5, <1>6, <1>7, <1>8, <1>10, <1>11, <1>12, <1>13, <1>14, <1>16, <1>17, <1>19, <1>20, <1>21,
     <1>22, <1>23, <1>24, <1>25, NextSplits

-----------------------------------------------------------------------------
(* The invariant of the announcements.                                     *)

\* A task asleep until the end of a goal is a parent that waits for its child.
LEMMA SleeperIsParent ==
  ASSUME SInv, WaitFits, EndsAreAnnounced, NEW u \in Tasks, Asleep(u),
         NEW g \in Goals, waitKey[u] = KeyOf[DoneEvent[g]]
  PROVE  GoalOf[u] \in Audience[DoneEvent[g]] /\ EndsWithRun(g)
<1> DEFINE s == Workflow[u][pc[u] + 1]
<1>1. TakesEvents(u, waitKey[u]) /\ pc[u] \in Nat
  BY BoundsAssumption DEF WaitFits, SInv, Inv, StoreTypeOK
<1>2. s \in StepsOf(u) /\ s.op \in {"await", "call"} /\ s.key = KeyOf[DoneEvent[g]]
  BY <1>1, StepIn DEF TakesEvents
<1> HIDE DEF s
<1>3. WaitsForChild(u, s, g)
  BY <1>2 DEF EndsAreAnnounced
<1> QED
  BY <1>3 DEF WaitsForChild

LEMMA VerdictStays ==
  ASSUME SInv, goal' = goal \/ (\E g \in Goals : CreateGoal(g)) \/ SweepEnd, NEW g \in Goals
  PROVE  /\ Ended(g) => Ended(g)'
         /\ Ended(g)' => Ended(g) \/ (sweep.whole /\ sweep.goal = g)
<1>0. goal \in [Goals -> GoalStatus \cup {"NONE"}]
  BY DEF SInv, Inv, StoreTypeOK
<1>1. CASE goal' = goal
  BY <1>1 DEF Ended
<1>2. ASSUME NEW h \in Goals, CreateGoal(h)
      PROVE  goal[h] = "NONE" /\ goal' = [goal EXCEPT ![h] = "ACTIVE"]
  BY <1>2 DEF CreateGoal
<1>3. CASE SweepEnd
  BY <1>0, <1>3 DEF SweepEnd, GoalVerdict, Ended
<1> QED
  BY <1>0, <1>1, <1>2, <1>3 DEF Ended

\* A step that publishes nothing and lets nobody begin to wait.
LEMMA SilentAnn ==
  ASSUME SInv, SInv', AnnInv, EndingKept, PassKept, \A u \in Tasks : WaitsOn(u),
         published' = published,
         goal' = goal \/ (\E g \in Goals : CreateGoal(g)) \/ SweepEnd
  PROVE  AnnInv'
<1>1. ASSUME NEW t \in Tasks
      PROVE  EndsWithRun(GoalOf[t]) /\ waitKind'[t] = "EVENT" => ~wakeAt'[t]
  BY <1>1 DEF AnnInv, WaitsOn
<1>2. ASSUME NEW g \in Goals
      PROVE  published'[DoneEvent[g]] # 0 => Ended(g)'
  BY <1>2, VerdictStays DEF AnnInv
<1>3. ASSUME NEW t \in Tasks, NEW g \in Goals
      PROVE  Asleep(t)' /\ waitKey'[t] = KeyOf[DoneEvent[g]] => published'[DoneEvent[g]] = 0
  BY <1>3 DEF AnnInv, WaitsOn, WaitsAs
<1>4. ASSUME NEW g \in Goals
      PROVE  EndsWithRun(g) /\ Ended(g)' => published'[DoneEvent[g]] # 0 \/ Ending(g)'
  BY <1>4, VerdictStays DEF AnnInv, VerdictIsBehind, EndingKept
<1>5. VerdictIsBehind'
  <2> SUFFICES ASSUME NEW g, g = sweep'.goal, sweep'.whole
               PROVE  g \in Goals /\ (EndsWithRun(g) => \E r \in runs' : r.phase = "ended" /\ GoalOf[r.task] = g)
    BY DEF VerdictIsBehind, Ending, EndsWithRun, TasksOf
  <2>0. \A r \in runs' : r.phase = "ended" => GoalOf[r.task] \in Goals
    BY RowsAssumption, RunFields DEF SInv, TypeOK
  <2>1. CASE sweep.whole /\ g = sweep.goal
    BY <2>1 DEF AnnInv, VerdictIsBehind, EndingKept, Ending
  <2>2. CASE g \in Goals /\ ~EndsWithRun(g)
    BY <2>2
  <2>3. CASE \E r \in runs' : r.phase = "ended" /\ GoalOf[r.task] = g
    BY <2>0, <2>3
  <2> QED
    BY <2>1, <2>2, <2>3 DEF PassKept
<1> QED
  BY <1>1, <1>2, <1>3, <1>4, <1>5 DEF AnnInv

\* An event is published, and what is handed out wakes the tasks that listen.
LEMMA PublishAnn ==
  ASSUME SInv, SInv', AnnInv, NEW e \in Events, PublishEvent(e), EndingKept, sweep' = sweep,
         \A g \in Goals : e # DoneEvent[g]
  PROVE  AnnInv'
<1>1. /\ published' = [published EXCEPT ![e] = Newest + 1] /\ goal' = goal
      /\ \A t \in Tasks : /\ waitKind'[t] = "EVENT" => waitKind[t] = "EVENT" /\ wakeAt'[t] = wakeAt[t]
                          /\ Asleep(t)' => Asleep(t) /\ waitKey'[t] = waitKey[t]
  BY DEF PublishEvent, Asleep
<1>2. \A g \in Goals : published'[DoneEvent[g]] = published[DoneEvent[g]]
  BY <1>1 DEF SInv, Inv, StoreTypeOK
<1>3. ASSUME NEW t \in Tasks
      PROVE  EndsWithRun(GoalOf[t]) /\ waitKind'[t] = "EVENT" => ~wakeAt'[t]
  BY <1>1, <1>3 DEF AnnInv
<1>4. ASSUME NEW g \in Goals
      PROVE  /\ published'[DoneEvent[g]] # 0 => Ended(g)'
             /\ EndsWithRun(g) /\ Ended(g)' => published'[DoneEvent[g]] # 0 \/ Ending(g)'
  BY <1>1, <1>2, <1>4 DEF AnnInv, Ended, EndingKept
<1>5. ASSUME NEW t \in Tasks, NEW g \in Goals
      PROVE  Asleep(t)' /\ waitKey'[t] = KeyOf[DoneEvent[g]] => published'[DoneEvent[g]] = 0
  BY <1>1, <1>2, <1>5 DEF AnnInv
<1>6. VerdictIsBehind'
  <2> SUFFICES ASSUME sweep.whole
               PROVE  sweep.goal \in Goals /\ (EndsWithRun(sweep.goal) =>
                        \E r \in runs' : r.phase = "ended" /\ GoalOf[r.task] = sweep.goal)
    BY DEF VerdictIsBehind, Ending, EndsWithRun, TasksOf
  <2> QED
    BY DEF AnnInv, VerdictIsBehind, EndingKept, Ending
<1> QED
  BY <1>3, <1>4, <1>5, <1>6 DEF AnnInv

\* Somebody begins to wait.  A parent has looked at its child before, in the
\* same synchronous stretch: the end of the child is still to be published.
LEMMA AskAnn ==
  ASSUME SInv, SInv', EInv, EndsAreAnnounced, AnnInv, NEW r \in runs, Asks(r)
  PROVE  AnnInv'
<1>0. /\ r.task \in Tasks /\ r \in Run /\ StoreTypeOK /\ RunOk(r) /\ r.n \in Nat
      /\ r.phase \in {"turn", "call"}
  BY RunFacts, BoundsAssumption DEF Asks, StepAwaitWaits, CallWaitsForEvent, CallEnds, AtStep,
     Unhindered, AtTop
<1> DEFINE t == r.task
           s == Here(r)
<1>1. /\ Leave(r) /\ goal' = goal /\ published' = published /\ sweep' = sweep
      /\ Queued(t, s.key) = {} /\ waitKey'[t] = s.key /\ \A u \in Tasks \ {t} : WaitsAs(u)
      /\ waitKind' = [waitKind EXCEPT ![t] = "EVENT"] /\ wakeAt' = [wakeAt EXCEPT ![t] = s.timed]
  <2>1. /\ Leave(r)
        /\ \E e : WaitForEvent(t, r.token, r.n, e, s.key, s.timed)
    BY DEF Asks, StepAwaitWaits, CallWaitsForEvent, IfFresh
  <2>2. PICK e : WaitForEvent(t, r.token, r.n, e, s.key, s.timed)
    BY <2>1
  <2>3. waitKey'[t] = s.key /\ published' = published /\ \A u \in Tasks \ {t} : WaitsAs(u)
    BY <1>0, <2>2, WaitEffect DEF eventVars
  <2> QED
    BY <2>1, <2>2, <2>3 DEF WaitForEvent
<1>2. s \in StepsOf(t) /\ s.op \in {"await", "call"}
  <2>1. r.n < Len(Workflow[t]) /\ s = Workflow[t][r.n + 1] /\ s.op \in {"await", "call"}
    BY <1>0 DEF Asks, StepAwaitWaits, CallWaitsForEvent, CallEnds, AtStep, Here, Steps, RunOk, AtOp
  <2> QED
    BY <1>0, <2>1, StepIn
<1>3. ASSUME NEW g \in Goals, s.key = KeyOf[DoneEvent[g]]
      PROVE  published[DoneEvent[g]] = 0
  <2>1. WaitsForChild(t, s, g)
    BY <1>0, <1>2, <1>3 DEF EndsAreAnnounced
  <2>2. CallWaitsForEvent(r)
    BY <2>1 DEF WaitsForChild, Asks, StepAwaitWaits, AtStep
  <2>3. goal[g] = "ACTIVE"
    BY <1>1, <2>1, <2>2, RowsAssumption DEF CallWaitsForEvent, CallEnds, ChildAllows, WaitsForChild
  <2> QED
    BY <2>3 DEF AnnInv, Ended
<1> HIDE DEF s
<1>4. EndingKept
  BY <1>1, LeaveEnds
<1>5. ASSUME NEW u \in Tasks
      PROVE  EndsWithRun(GoalOf[u]) /\ waitKind'[u] = "EVENT" => ~wakeAt'[u]
  <2>1. CASE u = t
    BY <1>0, <1>1, <1>2, <2>1 DEF EndsWithRun, TasksOf, StoreTypeOK
  <2>2. CASE u # t
    BY <1>0, <1>1, <2>2 DEF AnnInv, StoreTypeOK
  <2> QED
    BY <2>1, <2>2
<1>6. ASSUME NEW g \in Goals
      PROVE  /\ published'[DoneEvent[g]] # 0 => Ended(g)'
             /\ EndsWithRun(g) /\ Ended(g)' => published'[DoneEvent[g]] # 0 \/ Ending(g)'
  BY <1>1, <1>4, <1>6 DEF AnnInv, Ended, EndingKept
<1>7. ASSUME NEW u \in Tasks, NEW g \in Goals
      PROVE  Asleep(u)' /\ waitKey'[u] = KeyOf[DoneEvent[g]] => published'[DoneEvent[g]] = 0
  <2>1. CASE u = t
    BY <1>1, <1>3, <2>1
  <2>2. CASE u # t
    BY <1>1, <2>2 DEF AnnInv, WaitsAs
  <2> QED
    BY <2>1, <2>2
<1>8. VerdictIsBehind'
  <2> SUFFICES ASSUME sweep.whole
               PROVE  sweep.goal \in Goals /\ (EndsWithRun(sweep.goal) =>
                        \E q \in runs' : q.phase = "ended" /\ GoalOf[q.task] = sweep.goal)
    BY <1>1 DEF VerdictIsBehind, Ending, EndsWithRun, TasksOf
  <2> QED
    BY <1>4 DEF AnnInv, VerdictIsBehind, EndingKept, Ending
<1> QED
  BY <1>5, <1>6, <1>7, <1>8 DEF AnnInv

\* The finally publishes the end of its goal, and the parents that sleep in
\* front of it are in its audience.
LEMMA EndAnn ==
  ASSUME SInv, SInv', EInv, EndsAreAnnounced, AnnInv, NEW r \in runs, RunEnds(r)
  PROVE  AnnInv'
<1> DEFINE h == GoalOf[r.task]
<1>0. /\ r.task \in Tasks /\ h \in Goals /\ StoreTypeOK /\ DoneEvent[h] \in Events
  BY RunFacts, RowsAssumption, WorkflowAssumption
<1>1. /\ \E s : Replace(r, s)
      /\ IF Ended(h) THEN PublishOnce(DoneEvent[h]) ELSE UNCHANGED storeVars
      /\ ~sweep.whole
  BY DEF RunEnds, LoopFree, Yielded, Quiet, NoSweep
<1> HIDE DEF h
<1>2. PublishEvent(DoneEvent[h]) \/ UNCHANGED storeVars
  BY <1>1 DEF PublishOnce
<1>3. /\ goal' = goal /\ sweep' = sweep
      /\ \A u \in Tasks : /\ waitKind'[u] = "EVENT" => waitKind[u] = "EVENT" /\ wakeAt'[u] = wakeAt[u]
                          /\ Asleep(u)' => Asleep(u) /\ waitKey'[u] = waitKey[u]
  BY <1>2 DEF PublishEvent, Asleep, storeVars, rowVars
<1>4. /\ \A g \in Goals \ {h} : published'[DoneEvent[g]] = published[DoneEvent[g]]
      /\ Ended(h) => published'[DoneEvent[h]] # 0
      /\ ~Ended(h) => published' = published
  <2>1. CASE ~Ended(h)
    BY <1>1, <2>1 DEF storeVars, eventVars
  <2>2. CASE Ended(h) /\ published[DoneEvent[h]] # 0
    BY <1>1, <2>2 DEF PublishOnce, storeVars, eventVars
  <2>3. CASE Ended(h) /\ published[DoneEvent[h]] = 0
    <3>1. published' = [published EXCEPT ![DoneEvent[h]] = Newest + 1]
      BY <1>1, <2>3 DEF PublishOnce, PublishEvent
    <3>2. Newest + 1 # 0
      BY NewestIsNat
    <3>3. \A g \in Goals \ {h} : DoneEvent[g] # DoneEvent[h]
      BY <1>0 DEF EndsAreAnnounced
    <3> QED
      BY <1>0, <2>3, <3>1, <3>2, <3>3 DEF StoreTypeOK
  <2> QED
    BY <2>1, <2>2, <2>3
<1>5. ASSUME NEW u \in Tasks
      PROVE  EndsWithRun(GoalOf[u]) /\ waitKind'[u] = "EVENT" => ~wakeAt'[u]
  BY <1>3, <1>5 DEF AnnInv
<1>6. ASSUME NEW g \in Goals
      PROVE  published'[DoneEvent[g]] # 0 => Ended(g)'
  BY <1>3, <1>4, <1>6 DEF AnnInv, Ended
<1>7. ASSUME NEW u \in Tasks, NEW g \in Goals, Asleep(u)', waitKey'[u] = KeyOf[DoneEvent[g]]
      PROVE  published'[DoneEvent[g]] = 0
  <2>1. Asleep(u) /\ waitKey[u] = KeyOf[DoneEvent[g]] /\ published[DoneEvent[g]] = 0
    BY <1>3, <1>7 DEF AnnInv
  <2>2. GoalOf[u] \in Audience[DoneEvent[g]]
    BY <2>1, SleeperIsParent DEF EInv
  <2>3. ASSUME g = h, PublishEvent(DoneEvent[h]) PROVE FALSE
    <3>1. u \in Listening(DoneEvent[h])
      BY <2>1, <2>2, <2>3 DEF Listening, Asleep
    <3>2. status'[u] = "READY"
      BY <2>3, <3>1 DEF PublishEvent
    <3> QED
      BY <1>7, <3>2 DEF Asleep
  <2>4. CASE g = h
    BY <1>2, <2>1, <2>3, <2>4 DEF storeVars, eventVars
  <2>5. CASE g # h
    BY <1>4, <2>1, <2>5
  <2> QED
    BY <2>4, <2>5
<1>8. ASSUME NEW g \in Goals, EndsWithRun(g), Ended(g)'
      PROVE  published'[DoneEvent[g]] # 0 \/ Ending(g)'
  <2>1. Ended(g)
    BY <1>3, <1>8 DEF Ended
  <2>2. CASE g = h
    BY <1>4, <2>1, <2>2
  <2>3. CASE g # h /\ published[DoneEvent[g]] # 0
    BY <1>4, <2>3
  <2>4. CASE g # h /\ Ending(g)
    BY <1>1, <2>4 DEF Ending, Replace, h
  <2> QED
    BY <1>8, <2>1, <2>2, <2>3, <2>4 DEF AnnInv
<1>9. VerdictIsBehind'
  BY <1>1, <1>3 DEF VerdictIsBehind
<1> QED
  BY <1>5, <1>6, <1>7, <1>8, <1>9 DEF AnnInv

LEMMA AnnStep ==
  ASSUME SInv, SInv', EInv, EndsAreAnnounced, AnnInv, [Next]_vars
  PROVE  AnnInv'
<1>1. CASE Next
  <2>1. EndKind
    BY <1>1, OwnEnds, OutsideEnds
  <2> QED
    BY <2>1, SilentAnn, PublishAnn, AskAnn, EndAnn DEF EndKind
<1>2. CASE UNCHANGED vars
  <2>1. runs' = runs /\ sweep' = sweep /\ UNCHANGED <<goal, rowVars, published>>
    BY <1>2 DEF vars, storeVars, eventVars, memoryVars
  <2> QED
    BY <2>1, SavesWait, SameEnds, SilentAnn
<1> QED
  BY <1>1, <1>2

\* Where goals end through their executions, whoever waits for the end of a
\* child it has spawned is woken: whenever the loop is idle, nobody is asleep
\* until the end of a goal that has ended.
THEOREM WaitersAreTold == EndsAreAnnounced => (Spec => []WaitersAreWoken)
<1> SUFFICES ASSUME EndsAreAnnounced PROVE Spec => []WaitersAreWoken
  OBVIOUS
<1>1. Init => AnnInv
  <2> SUFFICES ASSUME Init PROVE AnnInv
    OBVIOUS
  <2>1. /\ \A g \in Goals : goal[g] = "NONE"
        /\ \A t \in Tasks : waitKind[t] = "NONE"
        /\ \A e \in Events : published[e] = 0
        /\ ~sweep.whole
    BY DEF Init, StoreInit, NoSweep
  <2>2. \A g \in Goals : DoneEvent[g] \in Events
    BY WorkflowAssumption
  <2> QED
    BY <2>1, <2>2 DEF AnnInv, VerdictIsBehind, Asleep, Ended
<1>2. SInv /\ SInv' /\ EInv /\ AnnInv /\ [Next]_vars => AnnInv'
  BY AnnStep
<1>3. SInv /\ EInv /\ AnnInv => WaitersAreWoken
  <2> SUFFICES ASSUME SInv, EInv, AnnInv, Idle, NEW u \in Tasks, NEW g \in Goals,
                      Asleep(u), waitKey[u] = KeyOf[DoneEvent[g]], Ended(g)
               PROVE  FALSE
    BY DEF WaitersAreWoken, Asleep, Ended
  <2>1. EndsWithRun(g)
    BY SleeperIsParent DEF EInv
  <2>2. published[DoneEvent[g]] = 0
    BY DEF AnnInv
  <2>3. Ending(g)
    BY <2>1, <2>2 DEF AnnInv
  <2> QED
    BY <2>3 DEF Idle, Ending
<1> QED
  BY <1>1, <1>2, <1>3, SchedulerInvariance, EventInvariance, PTL DEF Spec
=============================================================================
