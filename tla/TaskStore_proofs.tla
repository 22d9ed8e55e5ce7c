-------------------------- MODULE TaskStore_proofs --------------------------
(* Theorems about TaskStore, for every graph of tasks, every number of     *)
(* goals and events, and every bound.                                      *)
EXTENDS TaskStore, TLAPS, FiniteSetTheorems, WellFoundedInduction

USE DEF storeVars, rowVars, controlVars, snapshotVars, eventVars

-----------------------------------------------------------------------------
(* Type correctness.                                                       *)

\* Events are numbered by counting: the newest number is a natural.
LEMMA NewestIsNat == Newest \in Nat
<1>1. IsFiniteSet({e \in Events : published[e] > 0})
  BY FS_Subset, EventsAssumption
<1> QED
  BY <1>1, FS_CardinalityType DEF Newest

\* A pass that starts is about tasks of one goal.
LEMMA SweepTyped ==
  ASSUME NEW g \in Goals, NEW whole \in BOOLEAN, StartSweep(g, whole)
  PROVE  sweep' \in [goal : Goals \cup {NoGoal}, rows : SUBSET Tasks, whole : BOOLEAN]
BY DEF StartSweep, TasksOf

\* failTask writes well-typed rows, whether it retries or gives up.
LEMMA FailRowTyped ==
  ASSUME StoreTypeOK, NEW t \in Tasks, NEW retryable \in BOOLEAN, FailRow(t, retryable)
  PROVE  StoreTypeOK'
<1> DEFINE again == retryable /\ failures[t] + 1 < MaxAttempts[t]
<1>1. sweep' \in [goal : Goals \cup {NoGoal}, rows : SUBSET Tasks, whole : BOOLEAN]
  <2>1. CASE again
    BY <2>1 DEF FailRow, StoreTypeOK
  <2>2. CASE ~again
    BY <2>2, SweepTyped, RowsAssumption DEF FailRow
  <2> QED
    BY <2>1, <2>2
<1>2. /\ status' \in [Tasks -> TaskStatus \cup {"NONE"}]
      /\ lease' \in [Tasks -> Nat]
  BY DEF FailRow, LeaveRunning, StoreTypeOK, TaskStatus
<1>3. /\ waitKind' \in [Tasks -> {"NONE", "TIMER", "EVENT"}]
      /\ waitKey' \in [Tasks -> Keys \cup {NoKey}]
      /\ wakeAt' \in [Tasks -> BOOLEAN]
      /\ failures' \in [Tasks -> Nat]
  BY DEF FailRow, StoreTypeOK
<1>4. UNCHANGED <<goal, pausedFrom, attempt, controlVars, snapshotVars, eventVars, crashes>>
  BY DEF FailRow
<1> QED
  BY <1>1, <1>2, <1>3, <1>4 DEF StoreTypeOK

\* Every method leaves the rows well-typed.
LEMMA TypeStep == StoreTypeOK /\ [StoreNext]_storeVars => StoreTypeOK'
<1> SUFFICES ASSUME StoreTypeOK, [StoreNext]_storeVars PROVE StoreTypeOK'
  OBVIOUS
<1> USE RowsAssumption, EventsAssumption, BoundsAssumption
<1> USE DEF StoreTypeOK, TaskStatus, GoalStatus
<1>1. ASSUME NEW g \in Goals, CreateGoal(g) PROVE StoreTypeOK'
  BY NewestIsNat, <1>1 DEF CreateGoal
<1>2. ASSUME NEW t \in Tasks, ByKernel(t) PROVE StoreTypeOK'
  <2>1. ASSUME Claim(t) PROVE StoreTypeOK'
    BY <2>1 DEF Claim
  <2>2. ASSUME RefuseTask(t) PROVE StoreTypeOK'
    BY FailRowTyped, <2>2 DEF RefuseTask
  <2>3. ASSUME WakeDueTimer(t) PROVE StoreTypeOK'
    BY <2>3 DEF WakeDueTimer
  <2>4. ASSUME ExpireEventWait(t) PROVE StoreTypeOK'
    BY FailRowTyped, <2>4 DEF ExpireEventWait
  <2>5. ASSUME RecoverExpiredLease(t) PROVE StoreTypeOK'
    BY <2>5 DEF RecoverExpiredLease, LeaveRunning
  <2>6. ASSUME SweepRow(t) PROVE StoreTypeOK'
    BY <2>6 DEF SweepRow
  <2> QED
    BY <2>1, <2>2, <2>3, <2>4, <2>5, <2>6, <1>2 DEF ByKernel
<1>3. ASSUME NEW t \in Tasks, ByControl(t) PROVE StoreTypeOK'
  <2>1. ASSUME PauseTask(t) PROVE StoreTypeOK'
    BY <2>1 DEF PauseTask, Terminal
  <2>2. ASSUME NEW due \in BOOLEAN, ResumeTask(t, due) PROVE StoreTypeOK'
    <3>1. sweep' \in [goal : Goals \cup {NoGoal}, rows : SUBSET Tasks, whole : BOOLEAN]
      BY SweepTyped, <2>2 DEF ResumeTask
    <3>2. ResumeStatus(t, due) \in TaskStatus
      BY DEF ResumeStatus
    <3> QED
      BY <3>1, <3>2, <2>2 DEF ResumeTask
  <2>3. ASSUME CancelTask(t) PROVE StoreTypeOK'
    <3>1. sweep' \in [goal : Goals \cup {NoGoal}, rows : SUBSET Tasks, whole : BOOLEAN]
      BY SweepTyped, <2>3 DEF CancelTask
    <3>2. CASE status[t] = "RUNNING"
      BY <3>1, <3>2, <2>3 DEF CancelTask
    <3>3. CASE status[t] # "RUNNING"
      BY <3>1, <3>3, <2>3 DEF CancelTask
    <3> QED
      BY <3>2, <3>3
  <2> QED
    BY <2>1, <2>2, <2>3, <1>3 DEF ByControl
<1>4. ASSUME NEW t \in Tasks, NEW token \in Issued(t), NEW retryable \in BOOLEAN, FailTask(t, token, retryable)
      PROVE StoreTypeOK'
  BY FailRowTyped, <1>4 DEF FailTask
<1>5. ASSUME NEW t \in Tasks, NEW token \in Issued(t), NEW n \in 0..MaxPc, NEW e \in Seen(t),
             ByExecution(t, token, n, e)
      PROVE  StoreTypeOK'
  <2> e \in Events \cup {NoEvent}
    BY DEF Seen
  <2>1. ASSUME CheckpointTask(t, token, n, e) PROVE StoreTypeOK'
    BY <2>1 DEF CheckpointTask, SaveSnapshot
  <2>2. ASSUME YieldTask(t, token, n, e) PROVE StoreTypeOK'
    BY <2>2 DEF YieldTask, LeaveRunning, SaveSnapshot
  <2>3. ASSUME WaitForTimer(t, token, n, e) PROVE StoreTypeOK'
    BY <2>3 DEF WaitForTimer, LeaveRunning, SaveSnapshot
  <2>4. ASSUME NEW k \in Keys, NEW timed \in BOOLEAN, WaitForEvent(t, token, n, e, k, timed)
        PROVE StoreTypeOK'
    BY <2>4 DEF WaitForEvent, LeaveRunning, SaveSnapshot
  <2>5. ASSUME CompleteTask(t, token, n, e) PROVE StoreTypeOK'
    BY <2>5 DEF CompleteTask, LeaveRunning, StartSweep, TasksOf, SaveSnapshot
  <2>6. ASSUME PreemptRunningTask(t, token, n, e) PROVE StoreTypeOK'
    BY <2>6 DEF PreemptRunningTask, LeaveRunning, SaveSnapshot
  <2>7. ASSUME PauseRunningTask(t, token, n, e) PROVE StoreTypeOK'
    BY <2>7 DEF PauseRunningTask, LeaveRunning, SaveSnapshot
  <2>8. ASSUME CancelRunningTask(t, token, n, e) PROVE StoreTypeOK'
    BY <2>8 DEF CancelRunningTask, LeaveRunning, StartSweep, TasksOf, SaveSnapshot
  <2> QED
    BY <2>1, <2>2, <2>3, <2>4, <2>5, <2>6, <2>7, <2>8, <1>5 DEF ByExecution
<1>6. ASSUME NEW t \in Tasks, NEW token \in Issued(t), NEW n \in 0..MaxPc, NEW ev \in Events,
             NEW e \in {NoEvent, ev}, ConsumeEventAndCheckpoint(t, token, ev, n, e)
      PROVE StoreTypeOK'
  BY <1>6 DEF ConsumeEventAndCheckpoint, SaveSnapshot
<1>7. ASSUME NEW S \in SUBSET Tasks, RequestTaskPreemption(S) PROVE StoreTypeOK'
  BY <1>7 DEF RequestTaskPreemption
<1>8. ASSUME NEW e \in Events, PublishEvent(e) PROVE StoreTypeOK'
  <2>1. published' \in [Events -> Nat] /\ delivered' \subseteq Events \X Tasks
    BY NewestIsNat, <1>8 DEF PublishEvent, Listening
  <2>2. /\ status' \in [Tasks -> TaskStatus \cup {"NONE"}]
        /\ pend' \in [Tasks -> Events \cup {NoEvent}]
    BY <1>8 DEF PublishEvent
  <2>3. /\ waitKind' \in [Tasks -> {"NONE", "TIMER", "EVENT"}]
        /\ waitKey' \in [Tasks -> Keys \cup {NoKey}]
        /\ wakeAt' \in [Tasks -> BOOLEAN]
    BY <1>8 DEF PublishEvent
  <2> QED
    BY <2>1, <2>2, <2>3, <1>8 DEF PublishEvent
<1>9. ASSUME SweepEnd PROVE StoreTypeOK'
  BY <1>9 DEF SweepEnd, GoalVerdict, NoSweep
<1>10. ASSUME RecoverOrphanedTasks PROVE StoreTypeOK'
  BY <1>10 DEF RecoverOrphanedTasks
<1>11. ASSUME StoreCrash PROVE StoreTypeOK'
  BY <1>11 DEF StoreCrash, NoSweep
<1>12. ASSUME UNCHANGED storeVars PROVE StoreTypeOK'
  BY <1>12
<1> HIDE DEF StoreTypeOK, TaskStatus, GoalStatus, storeVars
<1> QED
  BY <1>1, <1>2, <1>3, <1>4, <1>5, <1>6, <1>7, <1>8, <1>9, <1>10, <1>11, <1>12 DEF StoreNext

\* Every variable of the store keeps its type, whoever calls in what order.
THEOREM StoreTypes == StoreSpec => []StoreTypeOK
<1>1. StoreInit => StoreTypeOK
  BY RowsAssumption, EventsAssumption, BoundsAssumption
  DEF StoreInit, StoreTypeOK, TaskStatus, GoalStatus, NoSweep
<1>2. QED
  BY <1>1, TypeStep, PTL DEF StoreSpec

-----------------------------------------------------------------------------
(* Leases, and the finality of a verdict on a task.                        *)

\* A goal and its tasks come into being together.
RowsExist == \A t \in Tasks : goal[GoalOf[t]] = "NONE" <=> status[t] = "NONE"

\* A pass has yet to look only at tasks that are BLOCKED: nothing else runs
\* while it is under way.
SweepIsBlocked == \A t \in sweep.rows : status[t] = "BLOCKED"

\* The inductive strengthening of LeaseMeansRunning: failTask tells a late
\* caller by the token alone, and a pass overwrites the status it has read.
Inv ==
  /\ StoreTypeOK
  /\ LeaseMeansRunning
  /\ RowsExist
  /\ SweepIsBlocked

TerminalKept == \A u \in Tasks : status[u] \in Terminal => status'[u] = status[u]

\* No action takes a task out of a terminal status.
LEMMA TerminalStep == Inv /\ [StoreNext]_storeVars => TerminalKept
<1> SUFFICES ASSUME Inv, [StoreNext]_storeVars PROVE TerminalKept
  OBVIOUS
<1> USE RowsAssumption
<1> USE DEF Inv, StoreTypeOK, LeaseMeansRunning, RowsExist, SweepIsBlocked, TerminalKept, Terminal
<1>1. ASSUME NEW g \in Goals, CreateGoal(g) PROVE TerminalKept
  BY <1>1 DEF CreateGoal, TasksOf
<1>2. ASSUME NEW t \in Tasks, ByKernel(t) PROVE TerminalKept
  <2>1. ASSUME Claim(t) PROVE TerminalKept
    BY <2>1 DEF Claim
  <2>2. ASSUME RefuseTask(t) PROVE TerminalKept
    BY <2>2 DEF RefuseTask, FailRow, LeaveRunning
  <2>3. ASSUME WakeDueTimer(t) PROVE TerminalKept
    BY <2>3 DEF WakeDueTimer
  <2>4. ASSUME ExpireEventWait(t) PROVE TerminalKept
    BY <2>4 DEF ExpireEventWait, FailRow, LeaveRunning
  <2>5. ASSUME RecoverExpiredLease(t) PROVE TerminalKept
    BY <2>5 DEF RecoverExpiredLease, LeaveRunning
  <2>6. ASSUME SweepRow(t) PROVE TerminalKept
    BY <2>6 DEF SweepRow
  <2> QED
    BY <2>1, <2>2, <2>3, <2>4, <2>5, <2>6, <1>2 DEF ByKernel
<1>3. ASSUME NEW t \in Tasks, ByControl(t) PROVE TerminalKept
  <2>1. ASSUME PauseTask(t) PROVE TerminalKept
    BY <2>1 DEF PauseTask, Terminal
  <2>2. ASSUME NEW due \in BOOLEAN, ResumeTask(t, due) PROVE TerminalKept
    BY <2>2 DEF ResumeTask, ResumeStatus
  <2>3. ASSUME CancelTask(t) PROVE TerminalKept
    <3>1. CASE status[t] = "RUNNING"
      BY <3>1, <2>3 DEF CancelTask, Terminal
    <3>2. CASE status[t] # "RUNNING"
      BY <3>2, <2>3 DEF CancelTask, Terminal
    <3> QED
      BY <3>1, <3>2
  <2> QED
    BY <2>1, <2>2, <2>3, <1>3 DEF ByControl
<1>4. ASSUME NEW t \in Tasks, NEW token \in Issued(t), NEW retryable \in BOOLEAN, FailTask(t, token, retryable)
      PROVE TerminalKept
  BY <1>4 DEF FailTask, FailRow, LeaveRunning, Holds, Issued
<1>5. ASSUME NEW t \in Tasks, NEW token \in Issued(t), NEW n \in 0..MaxPc, NEW e \in Seen(t),
             ByExecution(t, token, n, e)
      PROVE  TerminalKept
  <2> e \in Events \cup {NoEvent}
    BY DEF Seen
  <2>1. ASSUME CheckpointTask(t, token, n, e) PROVE TerminalKept
    BY <2>1 DEF CheckpointTask
  <2>2. ASSUME YieldTask(t, token, n, e) PROVE TerminalKept
    BY <2>2 DEF YieldTask, LeaveRunning
  <2>3. ASSUME WaitForTimer(t, token, n, e) PROVE TerminalKept
    BY <2>3 DEF WaitForTimer, LeaveRunning
  <2>4. ASSUME NEW k \in Keys, NEW timed \in BOOLEAN, WaitForEvent(t, token, n, e, k, timed)
        PROVE TerminalKept
    BY <2>4 DEF WaitForEvent, LeaveRunning
  <2>5. ASSUME CompleteTask(t, token, n, e) PROVE TerminalKept
    BY <2>5 DEF CompleteTask, LeaveRunning
  <2>6. ASSUME PreemptRunningTask(t, token, n, e) PROVE TerminalKept
    BY <2>6 DEF PreemptRunningTask, LeaveRunning
  <2>7. ASSUME PauseRunningTask(t, token, n, e) PROVE TerminalKept
    BY <2>7 DEF PauseRunningTask, LeaveRunning
  <2>8. ASSUME CancelRunningTask(t, token, n, e) PROVE TerminalKept
    BY <2>8 DEF CancelRunningTask, LeaveRunning
  <2> QED
    BY <2>1, <2>2, <2>3, <2>4, <2>5, <2>6, <2>7, <2>8, <1>5 DEF ByExecution
<1>6. ASSUME NEW t \in Tasks, NEW token \in Issued(t), NEW n \in 0..MaxPc, NEW ev \in Events,
             NEW e \in {NoEvent, ev}, ConsumeEventAndCheckpoint(t, token, ev, n, e)
      PROVE TerminalKept
  BY <1>6 DEF ConsumeEventAndCheckpoint
<1>7. ASSUME NEW S \in SUBSET Tasks, RequestTaskPreemption(S) PROVE TerminalKept
  BY <1>7 DEF RequestTaskPreemption
<1>8. ASSUME NEW e \in Events, PublishEvent(e) PROVE TerminalKept
  BY <1>8 DEF PublishEvent, Listening
<1>9. ASSUME SweepEnd PROVE TerminalKept
  BY <1>9 DEF SweepEnd
<1>10. ASSUME RecoverOrphanedTasks PROVE TerminalKept
  BY <1>10 DEF RecoverOrphanedTasks
<1>11. ASSUME StoreCrash PROVE TerminalKept
  BY <1>11 DEF StoreCrash
<1>12. ASSUME UNCHANGED storeVars PROVE TerminalKept
  BY <1>12
<1> HIDE DEF Inv, StoreTypeOK, storeVars, LeaseMeansRunning, RowsExist, SweepIsBlocked, TerminalKept, Terminal
<1> QED
  BY <1>1, <1>2, <1>3, <1>4, <1>5, <1>6, <1>7, <1>8, <1>9, <1>10, <1>11, <1>12 DEF StoreNext

\* Every UPDATE that leaves RUNNING clears the lease, and only claimTask sets it.
LEMMA LeaseStep == Inv /\ [StoreNext]_storeVars => LeaseMeansRunning'
<1> SUFFICES ASSUME Inv, [StoreNext]_storeVars PROVE LeaseMeansRunning'
  OBVIOUS
<1> USE RowsAssumption
<1> USE DEF Inv, StoreTypeOK, LeaseMeansRunning, RowsExist, SweepIsBlocked
<1>1. ASSUME NEW g \in Goals, CreateGoal(g) PROVE LeaseMeansRunning'
  BY <1>1 DEF CreateGoal, TasksOf
<1>2. ASSUME NEW t \in Tasks, ByKernel(t) PROVE LeaseMeansRunning'
  <2>1. ASSUME Claim(t) PROVE LeaseMeansRunning'
    BY <2>1 DEF Claim
  <2>2. ASSUME RefuseTask(t) PROVE LeaseMeansRunning'
    BY <2>2 DEF RefuseTask, FailRow, LeaveRunning
  <2>3. ASSUME WakeDueTimer(t) PROVE LeaseMeansRunning'
    BY <2>3 DEF WakeDueTimer
  <2>4. ASSUME ExpireEventWait(t) PROVE LeaseMeansRunning'
    BY <2>4 DEF ExpireEventWait, FailRow, LeaveRunning
  <2>5. ASSUME RecoverExpiredLease(t) PROVE LeaseMeansRunning'
    BY <2>5 DEF RecoverExpiredLease, LeaveRunning
  <2>6. ASSUME SweepRow(t) PROVE LeaseMeansRunning'
    BY <2>6 DEF SweepRow
  <2> QED
    BY <2>1, <2>2, <2>3, <2>4, <2>5, <2>6, <1>2 DEF ByKernel
<1>3. ASSUME NEW t \in Tasks, ByControl(t) PROVE LeaseMeansRunning'
  <2>1. ASSUME PauseTask(t) PROVE LeaseMeansRunning'
    BY <2>1 DEF PauseTask, Terminal
  <2>2. ASSUME NEW due \in BOOLEAN, ResumeTask(t, due) PROVE LeaseMeansRunning'
    BY <2>2 DEF ResumeTask, ResumeStatus
  <2>3. ASSUME CancelTask(t) PROVE LeaseMeansRunning'
    <3>1. CASE status[t] = "RUNNING"
      BY <3>1, <2>3 DEF CancelTask, Terminal
    <3>2. CASE status[t] # "RUNNING"
      BY <3>2, <2>3 DEF CancelTask, Terminal
    <3> QED
      BY <3>1, <3>2
  <2> QED
    BY <2>1, <2>2, <2>3, <1>3 DEF ByControl
<1>4. ASSUME NEW t \in Tasks, NEW token \in Issued(t), NEW retryable \in BOOLEAN, FailTask(t, token, retryable)
      PROVE LeaseMeansRunning'
  BY <1>4 DEF FailTask, FailRow, LeaveRunning, Holds, Issued
<1>5. ASSUME NEW t \in Tasks, NEW token \in Issued(t), NEW n \in 0..MaxPc, NEW e \in Seen(t),
             ByExecution(t, token, n, e)
      PROVE  LeaseMeansRunning'
  <2> e \in Events \cup {NoEvent}
    BY DEF Seen
  <2>1. ASSUME CheckpointTask(t, token, n, e) PROVE LeaseMeansRunning'
    BY <2>1 DEF CheckpointTask
  <2>2. ASSUME YieldTask(t, token, n, e) PROVE LeaseMeansRunning'
    BY <2>2 DEF YieldTask, LeaveRunning
  <2>3. ASSUME WaitForTimer(t, token, n, e) PROVE LeaseMeansRunning'
    BY <2>3 DEF WaitForTimer, LeaveRunning
  <2>4. ASSUME NEW k \in Keys, NEW timed \in BOOLEAN, WaitForEvent(t, token, n, e, k, timed)
        PROVE LeaseMeansRunning'
    BY <2>4 DEF WaitForEvent, LeaveRunning
  <2>5. ASSUME CompleteTask(t, token, n, e) PROVE LeaseMeansRunning'
    BY <2>5 DEF CompleteTask, LeaveRunning
  <2>6. ASSUME PreemptRunningTask(t, token, n, e) PROVE LeaseMeansRunning'
    BY <2>6 DEF PreemptRunningTask, LeaveRunning
  <2>7. ASSUME PauseRunningTask(t, token, n, e) PROVE LeaseMeansRunning'
    BY <2>7 DEF PauseRunningTask, LeaveRunning
  <2>8. ASSUME CancelRunningTask(t, token, n, e) PROVE LeaseMeansRunning'
    BY <2>8 DEF CancelRunningTask, LeaveRunning
  <2> QED
    BY <2>1, <2>2, <2>3, <2>4, <2>5, <2>6, <2>7, <2>8, <1>5 DEF ByExecution
<1>6. ASSUME NEW t \in Tasks, NEW token \in Issued(t), NEW n \in 0..MaxPc, NEW ev \in Events,
             NEW e \in {NoEvent, ev}, ConsumeEventAndCheckpoint(t, token, ev, n, e)
      PROVE LeaseMeansRunning'
  BY <1>6 DEF ConsumeEventAndCheckpoint
<1>7. ASSUME NEW S \in SUBSET Tasks, RequestTaskPreemption(S) PROVE LeaseMeansRunning'
  BY <1>7 DEF RequestTaskPreemption
<1>8. ASSUME NEW e \in Events, PublishEvent(e) PROVE LeaseMeansRunning'
  BY <1>8 DEF PublishEvent, Listening
<1>9. ASSUME SweepEnd PROVE LeaseMeansRunning'
  BY <1>9 DEF SweepEnd
<1>10. ASSUME RecoverOrphanedTasks PROVE LeaseMeansRunning'
  BY <1>10 DEF RecoverOrphanedTasks
<1>11. ASSUME StoreCrash PROVE LeaseMeansRunning'
  BY <1>11 DEF StoreCrash
<1>12. ASSUME UNCHANGED storeVars PROVE LeaseMeansRunning'
  BY <1>12
<1> HIDE DEF Inv, StoreTypeOK, storeVars, LeaseMeansRunning, RowsExist, SweepIsBlocked
<1> QED
  BY <1>1, <1>2, <1>3, <1>4, <1>5, <1>6, <1>7, <1>8, <1>9, <1>10, <1>11, <1>12 DEF StoreNext

\* No method brings the row of a task into being without its goal, or undoes one.
LEMMA RowsStep == Inv /\ [StoreNext]_storeVars => RowsExist'
<1> SUFFICES ASSUME Inv, [StoreNext]_storeVars PROVE RowsExist'
  OBVIOUS
<1> USE RowsAssumption
<1> USE DEF Inv, StoreTypeOK, LeaseMeansRunning, RowsExist, SweepIsBlocked
<1>1. ASSUME NEW g \in Goals, CreateGoal(g) PROVE RowsExist'
  BY <1>1 DEF CreateGoal, TasksOf
<1>2. ASSUME NEW t \in Tasks, ByKernel(t) PROVE RowsExist'
  <2>1. ASSUME Claim(t) PROVE RowsExist'
    BY <2>1 DEF Claim
  <2>2. ASSUME RefuseTask(t) PROVE RowsExist'
    BY <2>2 DEF RefuseTask, FailRow, LeaveRunning
  <2>3. ASSUME WakeDueTimer(t) PROVE RowsExist'
    BY <2>3 DEF WakeDueTimer
  <2>4. ASSUME ExpireEventWait(t) PROVE RowsExist'
    BY <2>4 DEF ExpireEventWait, FailRow, LeaveRunning
  <2>5. ASSUME RecoverExpiredLease(t) PROVE RowsExist'
    BY <2>5 DEF RecoverExpiredLease, LeaveRunning
  <2>6. ASSUME SweepRow(t) PROVE RowsExist'
    BY <2>6 DEF SweepRow
  <2> QED
    BY <2>1, <2>2, <2>3, <2>4, <2>5, <2>6, <1>2 DEF ByKernel
<1>3. ASSUME NEW t \in Tasks, ByControl(t) PROVE RowsExist'
  <2>1. ASSUME PauseTask(t) PROVE RowsExist'
    BY <2>1 DEF PauseTask, Terminal
  <2>2. ASSUME NEW due \in BOOLEAN, ResumeTask(t, due) PROVE RowsExist'
    BY <2>2 DEF ResumeTask, ResumeStatus
  <2>3. ASSUME CancelTask(t) PROVE RowsExist'
    <3>1. CASE status[t] = "RUNNING"
      BY <3>1, <2>3 DEF CancelTask, Terminal
    <3>2. CASE status[t] # "RUNNING"
      BY <3>2, <2>3 DEF CancelTask, Terminal
    <3> QED
      BY <3>1, <3>2
  <2> QED
    BY <2>1, <2>2, <2>3, <1>3 DEF ByControl
<1>4. ASSUME NEW t \in Tasks, NEW token \in Issued(t), NEW retryable \in BOOLEAN, FailTask(t, token, retryable)
      PROVE RowsExist'
  BY <1>4 DEF FailTask, FailRow, LeaveRunning, Holds, Issued
<1>5. ASSUME NEW t \in Tasks, NEW token \in Issued(t), NEW n \in 0..MaxPc, NEW e \in Seen(t),
             ByExecution(t, token, n, e)
      PROVE  RowsExist'
  <2> e \in Events \cup {NoEvent}
    BY DEF Seen
  <2>1. ASSUME CheckpointTask(t, token, n, e) PROVE RowsExist'
    BY <2>1 DEF CheckpointTask
  <2>2. ASSUME YieldTask(t, token, n, e) PROVE RowsExist'
    BY <2>2 DEF YieldTask, LeaveRunning
  <2>3. ASSUME WaitForTimer(t, token, n, e) PROVE RowsExist'
    BY <2>3 DEF WaitForTimer, LeaveRunning
  <2>4. ASSUME NEW k \in Keys, NEW timed \in BOOLEAN, WaitForEvent(t, token, n, e, k, timed)
        PROVE RowsExist'
    BY <2>4 DEF WaitForEvent, LeaveRunning
  <2>5. ASSUME CompleteTask(t, token, n, e) PROVE RowsExist'
    BY <2>5 DEF CompleteTask, LeaveRunning
  <2>6. ASSUME PreemptRunningTask(t, token, n, e) PROVE RowsExist'
    BY <2>6 DEF PreemptRunningTask, LeaveRunning
  <2>7. ASSUME PauseRunningTask(t, token, n, e) PROVE RowsExist'
    BY <2>7 DEF PauseRunningTask, LeaveRunning
  <2>8. ASSUME CancelRunningTask(t, token, n, e) PROVE RowsExist'
    BY <2>8 DEF CancelRunningTask, LeaveRunning
  <2> QED
    BY <2>1, <2>2, <2>3, <2>4, <2>5, <2>6, <2>7, <2>8, <1>5 DEF ByExecution
<1>6. ASSUME NEW t \in Tasks, NEW token \in Issued(t), NEW n \in 0..MaxPc, NEW ev \in Events,
             NEW e \in {NoEvent, ev}, ConsumeEventAndCheckpoint(t, token, ev, n, e)
      PROVE RowsExist'
  BY <1>6 DEF ConsumeEventAndCheckpoint
<1>7. ASSUME NEW S \in SUBSET Tasks, RequestTaskPreemption(S) PROVE RowsExist'
  BY <1>7 DEF RequestTaskPreemption
<1>8. ASSUME NEW e \in Events, PublishEvent(e) PROVE RowsExist'
  BY <1>8 DEF PublishEvent, Listening
<1>9. ASSUME SweepEnd PROVE RowsExist'
  BY <1>9 DEF SweepEnd, GoalVerdict, TasksOf, Terminal
<1>10. ASSUME RecoverOrphanedTasks PROVE RowsExist'
  BY <1>10 DEF RecoverOrphanedTasks
<1>11. ASSUME StoreCrash PROVE RowsExist'
  BY <1>11 DEF StoreCrash
<1>12. ASSUME UNCHANGED storeVars PROVE RowsExist'
  BY <1>12
<1> HIDE DEF Inv, StoreTypeOK, storeVars, LeaseMeansRunning, RowsExist, SweepIsBlocked
<1> QED
  BY <1>1, <1>2, <1>3, <1>4, <1>5, <1>6, <1>7, <1>8, <1>9, <1>10, <1>11, <1>12 DEF StoreNext

\* A pass starts from BLOCKED rows, and no other method runs before it ends.
LEMMA SweepStep == Inv /\ [StoreNext]_storeVars => SweepIsBlocked'
<1> SUFFICES ASSUME Inv, [StoreNext]_storeVars PROVE SweepIsBlocked'
  OBVIOUS
<1> USE RowsAssumption
<1> USE DEF Inv, StoreTypeOK, LeaseMeansRunning, SweepIsBlocked, Quiet, NoSweep
<1>1. ASSUME NEW g \in Goals, CreateGoal(g) PROVE SweepIsBlocked'
  BY <1>1 DEF CreateGoal
<1>2. ASSUME NEW t \in Tasks, ByKernel(t) PROVE SweepIsBlocked'
  <2>1. ASSUME Claim(t) PROVE SweepIsBlocked'
    BY <2>1 DEF Claim
  <2>2. ASSUME RefuseTask(t) PROVE SweepIsBlocked'
    BY <2>2 DEF RefuseTask, FailRow, LeaveRunning, StartSweep, TasksOf
  <2>3. ASSUME WakeDueTimer(t) PROVE SweepIsBlocked'
    BY <2>3 DEF WakeDueTimer
  <2>4. ASSUME ExpireEventWait(t) PROVE SweepIsBlocked'
    BY <2>4 DEF ExpireEventWait, FailRow, LeaveRunning, StartSweep, TasksOf
  <2>5. ASSUME RecoverExpiredLease(t) PROVE SweepIsBlocked'
    BY <2>5 DEF RecoverExpiredLease, LeaveRunning
  <2>6. ASSUME SweepRow(t) PROVE SweepIsBlocked'
    BY <2>6 DEF SweepRow
  <2> QED
    BY <2>1, <2>2, <2>3, <2>4, <2>5, <2>6, <1>2 DEF ByKernel
<1>3. ASSUME NEW t \in Tasks, ByControl(t) PROVE SweepIsBlocked'
  <2>1. ASSUME PauseTask(t) PROVE SweepIsBlocked'
    BY <2>1 DEF PauseTask, Terminal
  <2>2. ASSUME NEW due \in BOOLEAN, ResumeTask(t, due) PROVE SweepIsBlocked'
    BY <2>2 DEF ResumeTask, ResumeStatus, StartSweep, TasksOf
  <2>3. ASSUME CancelTask(t) PROVE SweepIsBlocked'
    <3>1. CASE status[t] = "RUNNING"
      BY <3>1, <2>3 DEF CancelTask, Terminal, StartSweep, TasksOf
    <3>2. CASE status[t] # "RUNNING"
      BY <3>2, <2>3 DEF CancelTask, Terminal, StartSweep, TasksOf
    <3> QED
      BY <3>1, <3>2
  <2> QED
    BY <2>1, <2>2, <2>3, <1>3 DEF ByControl
<1>4. ASSUME NEW t \in Tasks, NEW token \in Issued(t), NEW retryable \in BOOLEAN, FailTask(t, token, retryable)
      PROVE SweepIsBlocked'
  BY <1>4 DEF FailTask, FailRow, LeaveRunning, Holds, Issued, StartSweep, TasksOf
<1>5. ASSUME NEW t \in Tasks, NEW token \in Issued(t), NEW n \in 0..MaxPc, NEW e \in Seen(t),
             ByExecution(t, token, n, e)
      PROVE  SweepIsBlocked'
  <2> e \in Events \cup {NoEvent}
    BY DEF Seen
  <2>1. ASSUME CheckpointTask(t, token, n, e) PROVE SweepIsBlocked'
    BY <2>1 DEF CheckpointTask
  <2>2. ASSUME YieldTask(t, token, n, e) PROVE SweepIsBlocked'
    BY <2>2 DEF YieldTask, LeaveRunning
  <2>3. ASSUME WaitForTimer(t, token, n, e) PROVE SweepIsBlocked'
    BY <2>3 DEF WaitForTimer, LeaveRunning
  <2>4. ASSUME NEW k \in Keys, NEW timed \in BOOLEAN, WaitForEvent(t, token, n, e, k, timed)
        PROVE SweepIsBlocked'
    BY <2>4 DEF WaitForEvent, LeaveRunning
  <2>5. ASSUME CompleteTask(t, token, n, e) PROVE SweepIsBlocked'
    BY <2>5 DEF CompleteTask, LeaveRunning, StartSweep, TasksOf
  <2>6. ASSUME PreemptRunningTask(t, token, n, e) PROVE SweepIsBlocked'
    BY <2>6 DEF PreemptRunningTask, LeaveRunning
  <2>7. ASSUME PauseRunningTask(t, token, n, e) PROVE SweepIsBlocked'
    BY <2>7 DEF PauseRunningTask, LeaveRunning
  <2>8. ASSUME CancelRunningTask(t, token, n, e) PROVE SweepIsBlocked'
    BY <2>8 DEF CancelRunningTask, LeaveRunning, StartSweep, TasksOf
  <2> QED
    BY <2>1, <2>2, <2>3, <2>4, <2>5, <2>6, <2>7, <2>8, <1>5 DEF ByExecution
<1>6. ASSUME NEW t \in Tasks, NEW token \in Issued(t), NEW n \in 0..MaxPc, NEW ev \in Events,
             NEW e \in {NoEvent, ev}, ConsumeEventAndCheckpoint(t, token, ev, n, e)
      PROVE SweepIsBlocked'
  BY <1>6 DEF ConsumeEventAndCheckpoint
<1>7. ASSUME NEW S \in SUBSET Tasks, RequestTaskPreemption(S) PROVE SweepIsBlocked'
  BY <1>7 DEF RequestTaskPreemption
<1>8. ASSUME NEW e \in Events, PublishEvent(e) PROVE SweepIsBlocked'
  BY <1>8 DEF PublishEvent, Listening
<1>9. ASSUME SweepEnd PROVE SweepIsBlocked'
  BY <1>9 DEF SweepEnd
<1>10. ASSUME RecoverOrphanedTasks PROVE SweepIsBlocked'
  BY <1>10 DEF RecoverOrphanedTasks
<1>11. ASSUME StoreCrash PROVE SweepIsBlocked'
  BY <1>11 DEF StoreCrash
<1>12. ASSUME UNCHANGED storeVars PROVE SweepIsBlocked'
  BY <1>12
<1> HIDE DEF Inv, StoreTypeOK, storeVars, LeaseMeansRunning, SweepIsBlocked, Quiet, NoSweep
<1> QED
  BY <1>1, <1>2, <1>3, <1>4, <1>5, <1>6, <1>7, <1>8, <1>9, <1>10, <1>11, <1>12 DEF StoreNext

\* The strengthening is inductive.
LEMMA InvStep == Inv /\ [StoreNext]_storeVars => Inv'
BY TypeStep, LeaseStep, RowsStep, SweepStep DEF Inv

\* The inductive invariant holds in every reachable state of the store.
THEOREM Invariance == StoreSpec => []Inv
<1>1. StoreInit => Inv
  BY RowsAssumption, EventsAssumption, BoundsAssumption
  DEF StoreInit, Inv, StoreTypeOK, LeaseMeansRunning, RowsExist, SweepIsBlocked,
      TaskStatus, GoalStatus, NoSweep
<1>2. QED
  BY <1>1, InvStep, PTL DEF StoreSpec

\* A lease token exists exactly while its task is RUNNING, and it is the one
\* of the newest claim: a caller with an older token is refused everywhere.
THEOREM LeaseSafety == StoreSpec => []LeaseMeansRunning
<1>1. Inv => LeaseMeansRunning
  BY DEF Inv
<1>2. QED
  BY <1>1, Invariance, PTL

\* SUCCEEDED, FAILED and CANCELLED are final, whatever retry, late failure,
\* event, timer, control or pass comes after.
THEOREM VerdictsAreFinal == StoreSpec => TerminalIsFinal
<1>1. Inv /\ [StoreNext]_storeVars =>
        [\A t \in Tasks : status[t] \in Terminal => status'[t] = status[t]]_storeVars
  BY TerminalStep DEF TerminalKept
<1>2. QED
  BY <1>1, Invariance, PTL DEF StoreSpec, TerminalIsFinal

-----------------------------------------------------------------------------
(* The order of the task graph.                                            *)

\* No method lets a task past BLOCKED before its dependencies have succeeded,
\* and none takes a dependency out of SUCCEEDED afterwards.
LEMMA DependStep == Inv /\ DependenciesFirst /\ [StoreNext]_storeVars => DependenciesFirst'
<1> SUFFICES ASSUME Inv /\ DependenciesFirst, [StoreNext]_storeVars PROVE DependenciesFirst'
  OBVIOUS
<1>0. TerminalKept
  BY TerminalStep
<1> USE RowsAssumption, <1>0
<1> USE DEF Inv, StoreTypeOK, LeaseMeansRunning, RowsExist, SweepIsBlocked, DependenciesFirst, Started, TerminalKept, Terminal
<1>1. ASSUME NEW g \in Goals, CreateGoal(g) PROVE DependenciesFirst'
  BY <1>1 DEF CreateGoal, TasksOf
<1>2. ASSUME NEW t \in Tasks, ByKernel(t) PROVE DependenciesFirst'
  <2>1. ASSUME Claim(t) PROVE DependenciesFirst'
    BY <2>1 DEF Claim
  <2>2. ASSUME RefuseTask(t) PROVE DependenciesFirst'
    BY <2>2 DEF RefuseTask, FailRow, LeaveRunning
  <2>3. ASSUME WakeDueTimer(t) PROVE DependenciesFirst'
    BY <2>3 DEF WakeDueTimer
  <2>4. ASSUME ExpireEventWait(t) PROVE DependenciesFirst'
    BY <2>4 DEF ExpireEventWait, FailRow, LeaveRunning
  <2>5. ASSUME RecoverExpiredLease(t) PROVE DependenciesFirst'
    BY <2>5 DEF RecoverExpiredLease, LeaveRunning
  <2>6. ASSUME SweepRow(t) PROVE DependenciesFirst'
    BY <2>6 DEF SweepRow, UpstreamFailed, UpstreamSucceeded
  <2> QED
    BY <2>1, <2>2, <2>3, <2>4, <2>5, <2>6, <1>2 DEF ByKernel
<1>3. ASSUME NEW t \in Tasks, ByControl(t) PROVE DependenciesFirst'
  <2>1. ASSUME PauseTask(t) PROVE DependenciesFirst'
    <3>1. CASE status[t] = "RUNNING"
      BY <3>1, <2>1 DEF PauseTask, Terminal
    <3>2. CASE status[t] # "RUNNING"
      <4>1. status[t] \in {"READY", "WAITING", "BLOCKED"}
        BY <3>2, <2>1 DEF PauseTask, TaskStatus
      <4>2. /\ status' = [status EXCEPT ![t] = "PAUSED"]
            /\ pausedFrom' = [pausedFrom EXCEPT ![t] = status[t]]
        BY <3>2, <2>1 DEF PauseTask
      <4>3. \A u \in Tasks \ {t} : Started(u)' => Started(u)
        BY <4>2
      <4>4. Started(t)' => Started(t)
        BY <4>1, <4>2
      <4> QED
        BY <4>3, <4>4
    <3> QED
      BY <3>1, <3>2
  <2>2. ASSUME NEW due \in BOOLEAN, ResumeTask(t, due) PROVE DependenciesFirst'
    BY <2>2 DEF ResumeTask, ResumeStatus
  <2>3. ASSUME CancelTask(t) PROVE DependenciesFirst'
    <3>1. CASE status[t] = "RUNNING"
      BY <3>1, <2>3 DEF CancelTask, Terminal
    <3>2. CASE status[t] # "RUNNING"
      BY <3>2, <2>3 DEF CancelTask, Terminal
    <3> QED
      BY <3>1, <3>2
  <2> QED
    BY <2>1, <2>2, <2>3, <1>3 DEF ByControl
<1>4. ASSUME NEW t \in Tasks, NEW token \in Issued(t), NEW retryable \in BOOLEAN, FailTask(t, token, retryable)
      PROVE DependenciesFirst'
  BY <1>4 DEF FailTask, FailRow, LeaveRunning, Holds, Issued
<1>5. ASSUME NEW t \in Tasks, NEW token \in Issued(t), NEW n \in 0..MaxPc, NEW e \in Seen(t),
             ByExecution(t, token, n, e)
      PROVE  DependenciesFirst'
  <2> e \in Events \cup {NoEvent}
    BY DEF Seen
  <2>1. ASSUME CheckpointTask(t, token, n, e) PROVE DependenciesFirst'
    BY <2>1 DEF CheckpointTask
  <2>2. ASSUME YieldTask(t, token, n, e) PROVE DependenciesFirst'
    BY <2>2 DEF YieldTask, LeaveRunning
  <2>3. ASSUME WaitForTimer(t, token, n, e) PROVE DependenciesFirst'
    BY <2>3 DEF WaitForTimer, LeaveRunning
  <2>4. ASSUME NEW k \in Keys, NEW timed \in BOOLEAN, WaitForEvent(t, token, n, e, k, timed)
        PROVE DependenciesFirst'
    BY <2>4 DEF WaitForEvent, LeaveRunning
  <2>5. ASSUME CompleteTask(t, token, n, e) PROVE DependenciesFirst'
    BY <2>5 DEF CompleteTask, LeaveRunning
  <2>6. ASSUME PreemptRunningTask(t, token, n, e) PROVE DependenciesFirst'
    BY <2>6 DEF PreemptRunningTask, LeaveRunning
  <2>7. ASSUME PauseRunningTask(t, token, n, e) PROVE DependenciesFirst'
    BY <2>7 DEF PauseRunningTask, LeaveRunning
  <2>8. ASSUME CancelRunningTask(t, token, n, e) PROVE DependenciesFirst'
    BY <2>8 DEF CancelRunningTask, LeaveRunning
  <2> QED
    BY <2>1, <2>2, <2>3, <2>4, <2>5, <2>6, <2>7, <2>8, <1>5 DEF ByExecution
<1>6. ASSUME NEW t \in Tasks, NEW token \in Issued(t), NEW n \in 0..MaxPc, NEW ev \in Events,
             NEW e \in {NoEvent, ev}, ConsumeEventAndCheckpoint(t, token, ev, n, e)
      PROVE DependenciesFirst'
  BY <1>6 DEF ConsumeEventAndCheckpoint
<1>7. ASSUME NEW S \in SUBSET Tasks, RequestTaskPreemption(S) PROVE DependenciesFirst'
  BY <1>7 DEF RequestTaskPreemption
<1>8. ASSUME NEW e \in Events, PublishEvent(e) PROVE DependenciesFirst'
  BY <1>8 DEF PublishEvent, Listening
<1>9. ASSUME SweepEnd PROVE DependenciesFirst'
  BY <1>9 DEF SweepEnd
<1>10. ASSUME RecoverOrphanedTasks PROVE DependenciesFirst'
  BY <1>10 DEF RecoverOrphanedTasks
<1>11. ASSUME StoreCrash PROVE DependenciesFirst'
  BY <1>11 DEF StoreCrash
<1>12. ASSUME UNCHANGED storeVars PROVE DependenciesFirst'
  BY <1>12
<1> HIDE DEF Inv, StoreTypeOK, storeVars, LeaseMeansRunning, RowsExist, SweepIsBlocked, DependenciesFirst, Started
<1> QED
  BY <1>1, <1>2, <1>3, <1>4, <1>5, <1>6, <1>7, <1>8, <1>9, <1>10, <1>11, <1>12 DEF StoreNext

\* A task that has got past BLOCKED has only succeeded dependencies.
THEOREM DependenciesComeFirst == StoreSpec => []DependenciesFirst
<1>1. StoreInit => DependenciesFirst
  BY DEF StoreInit, DependenciesFirst, Started
<1>2. QED
  BY <1>1, DependStep, Invariance, PTL DEF StoreSpec

-----------------------------------------------------------------------------
(* The verdict on a goal.                                                  *)

\* goals.status is written when the goal is made and at the end of a pass.
LEMMA GoalWriters ==
  ASSUME [StoreNext]_storeVars
  PROVE  (\E g \in Goals : CreateGoal(g)) \/ SweepEnd \/ UNCHANGED goal
<1>1. ASSUME NEW t \in Tasks, ByKernel(t) PROVE UNCHANGED goal
  BY <1>1 DEF ByKernel, Claim, RefuseTask, FailRow, WakeDueTimer, ExpireEventWait,
       RecoverExpiredLease, SweepRow
<1>2. ASSUME NEW t \in Tasks, ByControl(t) PROVE UNCHANGED goal
  BY <1>2 DEF ByControl, PauseTask, ResumeTask, CancelTask
<1>3. ASSUME NEW t \in Tasks, NEW token, NEW n, NEW e, ByExecution(t, token, n, e)
      PROVE  UNCHANGED goal
  BY <1>3 DEF ByExecution, CheckpointTask, YieldTask, WaitForTimer, WaitForEvent, CompleteTask,
       PreemptRunningTask, PauseRunningTask, CancelRunningTask
<1>4. ASSUME NEW t \in Tasks, NEW token, NEW retryable, FailTask(t, token, retryable)
      PROVE  UNCHANGED goal
  BY <1>4 DEF FailTask, FailRow
<1> QED
  BY <1>1, <1>2, <1>3, <1>4 DEF StoreNext, ConsumeEventAndCheckpoint, RequestTaskPreemption,
     PublishEvent, RecoverOrphanedTasks, StoreCrash

\* The end of a pass gives a goal the verdict on its tasks, and a goal that
\* had one keeps it, because its tasks keep theirs.
LEMMA VerdictStep == Inv /\ VerdictIsFinal /\ [StoreNext]_storeVars => VerdictIsFinal'
<1> SUFFICES ASSUME Inv, VerdictIsFinal, [StoreNext]_storeVars,
                    NEW g \in Goals, goal'[g] \in {"SUCCEEDED", "FAILED"}
             PROVE  /\ \A t \in TasksOf(g) : status'[t] \in Terminal
                    /\ goal'[g] = "SUCCEEDED" <=> \A t \in TasksOf(g) : status'[t] = "SUCCEEDED"
  BY DEF VerdictIsFinal, TasksOf
<1>1. TerminalKept
  BY TerminalStep
<1>2. CASE goal'[g] = goal[g]
  BY <1>1, <1>2 DEF VerdictIsFinal, TerminalKept, TasksOf
<1>3. ASSUME NEW h \in Goals, CreateGoal(h) PROVE goal'[g] = goal[g]
  BY <1>3 DEF CreateGoal, Inv, StoreTypeOK
<1>4. CASE SweepEnd /\ goal'[g] # goal[g]
  <2>1. goal'[g] = GoalVerdict(g) /\ UNCHANGED status
    BY <1>4 DEF SweepEnd, Inv, StoreTypeOK
  <2> QED
    BY <1>4, <2>1 DEF GoalVerdict, TasksOf, Terminal
<1> QED
  BY <1>2, <1>3, <1>4, GoalWriters

\* A verdict on a goal is the verdict on its tasks, and neither moves again.
THEOREM GoalVerdictsAreFinal == StoreSpec => []VerdictIsFinal
<1>1. StoreInit => VerdictIsFinal
  BY DEF StoreInit, VerdictIsFinal
<1>2. QED
  BY <1>1, VerdictStep, Invariance, PTL DEF StoreSpec

-----------------------------------------------------------------------------
(* Waiting for events.                                                     *)

Asleep(t) == status[t] = "WAITING" /\ waitKind[t] = "EVENT"

\* Who was asleep is asleep for the same key, and nobody else is.
NobodyFallsAsleep == \A t \in Tasks : Asleep(t)' => Asleep(t) /\ waitKey'[t] = waitKey[t]

LEMMA StillAwake ==
  ASSUME NoLostWakeup, NobodyFallsAsleep, published' = published, born' = born,
         delivered \subseteq delivered'
  PROVE  NoLostWakeup'
BY DEF NoLostWakeup, NobodyFallsAsleep, Asleep, Queued

\* An execution falls asleep when its queue is empty, and an event that is
\* published wakes every task that is asleep for its key.
LEMMA SleepStep == StoreTypeOK /\ NoLostWakeup /\ [StoreNext]_storeVars => NoLostWakeup'
<1> SUFFICES ASSUME StoreTypeOK, NoLostWakeup, [StoreNext]_storeVars PROVE NoLostWakeup'
  OBVIOUS
<1>1. ASSUME NEW g \in Goals, CreateGoal(g) PROVE NoLostWakeup'
  <2> SUFFICES ASSUME NEW t \in Tasks, status'[t] = "WAITING", waitKind'[t] = "EVENT"
               PROVE  Queued(t, waitKey[t])' = {}
    BY DEF NoLostWakeup
  <2>1. /\ GoalOf[t] # g /\ status'[t] = status[t] /\ born'[GoalOf[t]] = born[GoalOf[t]]
        /\ waitKind'[t] = waitKind[t] /\ waitKey'[t] = waitKey[t]
        /\ published' = published /\ delivered' = delivered
    BY <1>1, RowsAssumption DEF CreateGoal, StoreTypeOK
  <2> QED
    BY <2>1 DEF NoLostWakeup, Queued
<1>2. ASSUME NEW t \in Tasks, ByKernel(t) PROVE NoLostWakeup'
  <2>1. NobodyFallsAsleep
    <3> USE DEF StoreTypeOK, NobodyFallsAsleep, Asleep
    <3>1. CASE Claim(t) \/ WakeDueTimer(t) \/ RecoverExpiredLease(t)
      BY <3>1 DEF Claim, WakeDueTimer, RecoverExpiredLease, LeaveRunning
    <3>2. CASE RefuseTask(t) \/ ExpireEventWait(t)
      BY <3>2 DEF RefuseTask, ExpireEventWait, FailRow, LeaveRunning
    <3>3. CASE SweepRow(t)
      BY <3>3 DEF SweepRow
    <3> QED
      BY <3>1, <3>2, <3>3, <1>2 DEF ByKernel
  <2> QED
    BY <1>2, <2>1, StillAwake DEF ByKernel, Claim, RefuseTask, FailRow, WakeDueTimer,
       ExpireEventWait, RecoverExpiredLease, SweepRow
<1>3. ASSUME NEW t \in Tasks, ByControl(t) PROVE NoLostWakeup'
  <2>1. NobodyFallsAsleep
    <3> USE DEF StoreTypeOK, NobodyFallsAsleep, Asleep
    <3>1. CASE PauseTask(t)
      BY <3>1 DEF PauseTask
    <3>2. ASSUME NEW due \in BOOLEAN, ResumeTask(t, due) PROVE NobodyFallsAsleep
      BY <3>2 DEF ResumeTask, ResumeStatus
    <3>3. CASE CancelTask(t)
      BY <3>3 DEF CancelTask
    <3> QED
      BY <3>1, <3>2, <3>3, <1>3 DEF ByControl
  <2> QED
    BY <1>3, <2>1, StillAwake DEF ByControl, PauseTask, ResumeTask, CancelTask
<1>4. ASSUME NEW t \in Tasks, NEW token \in Issued(t), NEW retryable \in BOOLEAN,
             FailTask(t, token, retryable)
      PROVE  NoLostWakeup'
  <2>1. NobodyFallsAsleep
    BY <1>4 DEF FailTask, FailRow, LeaveRunning, StoreTypeOK, NobodyFallsAsleep, Asleep
  <2> QED
    BY <1>4, <2>1, StillAwake DEF FailTask, FailRow
<1>5. ASSUME NEW t \in Tasks, NEW token \in Issued(t), NEW n \in 0..MaxPc, NEW e \in Seen(t),
             ByExecution(t, token, n, e)
      PROVE  NoLostWakeup'
  <2>1. ASSUME NEW k \in Keys, NEW timed \in BOOLEAN, WaitForEvent(t, token, n, e, k, timed)
        PROVE  NoLostWakeup'
    BY <2>1 DEF WaitForEvent, LeaveRunning, StoreTypeOK, NoLostWakeup, Queued
  <2>2. CASE CheckpointTask(t, token, n, e) \/ YieldTask(t, token, n, e)
    <3>1. NobodyFallsAsleep
      BY <2>2 DEF CheckpointTask, YieldTask, LeaveRunning, StoreTypeOK, NobodyFallsAsleep, Asleep
    <3> QED
      BY <2>2, <3>1, StillAwake DEF CheckpointTask, YieldTask
  <2>3. CASE WaitForTimer(t, token, n, e) \/ CompleteTask(t, token, n, e)
    <3>1. NobodyFallsAsleep
      BY <2>3 DEF WaitForTimer, CompleteTask, LeaveRunning, StoreTypeOK, NobodyFallsAsleep, Asleep
    <3> QED
      BY <2>3, <3>1, StillAwake DEF WaitForTimer, CompleteTask
  <2>4. CASE \/ PreemptRunningTask(t, token, n, e) \/ PauseRunningTask(t, token, n, e)
             \/ CancelRunningTask(t, token, n, e)
    <3>1. NobodyFallsAsleep
      BY <2>4 DEF PreemptRunningTask, PauseRunningTask, CancelRunningTask, LeaveRunning,
           StoreTypeOK, NobodyFallsAsleep, Asleep
    <3> QED
      BY <2>4, <3>1, StillAwake DEF PreemptRunningTask, PauseRunningTask, CancelRunningTask
  <2> QED
    BY <2>1, <2>2, <2>3, <2>4, <1>5 DEF ByExecution
<1>6. ASSUME NEW e \in Events, PublishEvent(e) PROVE NoLostWakeup'
  <2> SUFFICES ASSUME NEW t \in Tasks, status'[t] = "WAITING", waitKind'[t] = "EVENT",
                      NEW f \in Queued(t, waitKey[t])'
               PROVE  FALSE
    BY DEF NoLostWakeup
  <2>1. t \notin Listening(e) /\ Asleep(t) /\ waitKey'[t] = waitKey[t]
    BY <1>6 DEF PublishEvent, Asleep, Listening
  <2>2. f \in Queued(t, waitKey[t]) \/ f = e
    BY <1>6, <2>1 DEF PublishEvent, Queued, StoreTypeOK
  <2> QED
    BY <2>1, <2>2 DEF NoLostWakeup, Asleep, Listening, Queued
<1>7. CASE \/ \E t \in Tasks : \E token \in Issued(t), n \in 0..MaxPc, ev \in Events :
                \E e \in {NoEvent, ev} : ConsumeEventAndCheckpoint(t, token, ev, n, e)
           \/ \E S \in SUBSET Tasks : RequestTaskPreemption(S)
           \/ SweepEnd \/ RecoverOrphanedTasks \/ StoreCrash \/ UNCHANGED storeVars
  <2>1. NobodyFallsAsleep
    BY <1>7 DEF ConsumeEventAndCheckpoint, RequestTaskPreemption, SweepEnd, RecoverOrphanedTasks,
         StoreCrash, NobodyFallsAsleep, Asleep
  <2> QED
    BY <1>7, <2>1, StillAwake DEF ConsumeEventAndCheckpoint, RequestTaskPreemption, SweepEnd,
       RecoverOrphanedTasks, StoreCrash
<1> QED
  BY <1>1, <1>2, <1>3, <1>4, <1>5, <1>6, <1>7 DEF StoreNext

\* No event is slept through, whether it came before the subscription, after
\* it, or while the task was paused.
THEOREM NoWakeupIsLost == StoreSpec => []NoLostWakeup
<1>1. StoreInit => NoLostWakeup
  BY DEF StoreInit, NoLostWakeup
<1>2. QED
  BY <1>1, SleepStep, StoreTypes, PTL DEF StoreSpec
-----------------------------------------------------------------------------
(* Goals that can move.                                                    *)

\* The rows of a goal come in an order in which no task precedes one it
\* depends on: the callers of createGoalWithTasks list them in this order.  A
\* goal with a cycle has no such order, and is refused.
RowsInOrder ==
  \A t \in Tasks : Acyclic(GoalOf[t]) => \A d \in DependsOn[t] : Row[d] < Row[t]

GraphClosed ==
  \A t \in Tasks : status[t] # "NONE" =>
    DependsOn[t] \subseteq TasksOf(GoalOf[t]) /\ Acyclic(GoalOf[t])

\* A task that is BLOCKED and that the pass under way will not look at is
\* rightly so, and the rest of the pass does not touch what it depends on.
RightlyBlocked(t) ==
  /\ ~UpstreamFailed(t) /\ ~UpstreamSucceeded(t)
  /\ DependsOn[t] \cap sweep.rows = {}

BlockedInv ==
  /\ GraphClosed
  /\ crashes = 0 => \A t \in Tasks : status[t] = "BLOCKED" => t \in sweep.rows \/ RightlyBlocked(t)

Finished(s) == s \in {"SUCCEEDED", "FAILED", "CANCELLED"}

\* What moves tasks among the statuses in which they are not finished, and
\* blocks none, changes nothing for those that are BLOCKED.
LEMMA MildStep ==
  ASSUME Inv, BlockedInv, sweep' = sweep, crashes' = crashes,
         \A u \in Tasks : /\ status'[u] = "BLOCKED" => status[u] = "BLOCKED"
                          /\ Finished(status[u]) \/ Finished(status'[u]) => status'[u] = status[u]
                          /\ status'[u] # "NONE" => status[u] # "NONE"
  PROVE  BlockedInv'
<1>1. GraphClosed'
  BY DEF BlockedInv, GraphClosed, TasksOf
<1>2. ASSUME NEW t \in Tasks, RightlyBlocked(t) PROVE RightlyBlocked(t)'
  BY <1>2, RowsAssumption DEF RightlyBlocked, UpstreamFailed, UpstreamSucceeded, Finished
<1> QED
  BY <1>1, <1>2 DEF BlockedInv

\* When a task of a goal is settled or blocked again, a pass over the goal
\* begins; the tasks of the other goals depend on none of them.
LEMMA HarshStep ==
  ASSUME Inv, BlockedInv, Quiet, crashes' = crashes,
         NEW t \in Tasks, NEW whole \in BOOLEAN, StartSweep(GoalOf[t], whole),
         status[t] # "NONE",
         \A u \in Tasks \ {t} : status'[u] = status[u]
  PROVE  BlockedInv'
<1>1. GraphClosed'
  BY DEF BlockedInv, GraphClosed, TasksOf
<1>2. ASSUME NEW u \in Tasks, status'[u] = "BLOCKED", crashes = 0, GoalOf[u] # GoalOf[t]
      PROVE  RightlyBlocked(u)'
  <2>1. RightlyBlocked(u) /\ DependsOn[u] \subseteq TasksOf(GoalOf[u]) /\ t \notin DependsOn[u]
    BY <1>2 DEF BlockedInv, GraphClosed, Quiet, NoSweep, TasksOf
  <2>2. sweep'.rows \subseteq TasksOf(GoalOf[t])
    BY DEF StartSweep
  <2> QED
    BY <1>2, <2>1, <2>2, RowsAssumption
    DEF RightlyBlocked, UpstreamFailed, UpstreamSucceeded, TasksOf
<1>3. ASSUME NEW u \in Tasks, status'[u] = "BLOCKED", GoalOf[u] = GoalOf[t]
      PROVE  u \in sweep'.rows
  BY <1>3 DEF StartSweep, TasksOf
<1> QED
  BY <1>1, <1>2, <1>3 DEF BlockedInv

\* failTask is mild when the task is tried again and harsh when it is not.
LEMMA FailBlocks ==
  ASSUME Inv, BlockedInv, Quiet, NEW t \in Tasks, NEW retryable \in BOOLEAN, FailRow(t, retryable),
         status[t] # "NONE", ~Finished(status[t])
  PROVE  BlockedInv'
<1> DEFINE again == retryable /\ failures[t] + 1 < MaxAttempts[t]
<1>1. crashes' = crashes
      /\ status' = [status EXCEPT ![t] = IF again THEN "READY" ELSE "FAILED"]
  BY DEF FailRow, LeaveRunning
<1>2. CASE again
  <2>1. sweep' = sweep
    BY <1>2 DEF FailRow
  <2> QED
    BY <1>1, <1>2, <2>1, MildStep DEF Inv, StoreTypeOK, Finished
<1>3. CASE ~again
  <2>1. StartSweep(GoalOf[t], TRUE)
    BY <1>3 DEF FailRow
  <2> QED
    BY <1>1, <1>3, <2>1, HarshStep DEF Inv, StoreTypeOK
<1> QED
  BY <1>2, <1>3

\* One row of a pass: its task is rightly left BLOCKED, or it is not any more;
\* and no task that was looked at before depends on it.
LEMMA PassStep ==
  ASSUME Inv, RowsInOrder, BlockedInv, NEW t \in Tasks, SweepRow(t)
  PROVE  BlockedInv'
<1>1. /\ t \in sweep.rows /\ sweep'.rows = sweep.rows \ {t} /\ crashes' = crashes
      /\ \A u \in sweep.rows : Row[t] <= Row[u]
  BY DEF SweepRow, Inv, StoreTypeOK
<1>2. /\ \A u \in Tasks \ {t} : status'[u] = status[u]
      /\ status'[t] = IF UpstreamFailed(t) THEN "FAILED"
                      ELSE IF UpstreamSucceeded(t) THEN "READY" ELSE "BLOCKED"
  BY DEF SweepRow, Inv, StoreTypeOK, SweepIsBlocked
<1>3. GraphClosed'
  BY <1>1, <1>2 DEF BlockedInv, GraphClosed, TasksOf, Inv, SweepIsBlocked
<1>4. DependsOn[t] \cap sweep.rows = {}
  <2>1. status[t] # "NONE"
    BY <1>1 DEF Inv, SweepIsBlocked
  <2>2. \A d \in DependsOn[t] : Row[d] < Row[t]
    BY <1>1, <2>1 DEF RowsInOrder, BlockedInv, GraphClosed
  <2> QED
    BY <1>1, <2>2, RowsAssumption
<1>5. ASSUME NEW u \in Tasks, RightlyBlocked(u) \/ u = t, status'[u] = "BLOCKED" PROVE RightlyBlocked(u)'
  <2>1. DependsOn[u] \cap sweep.rows = {} /\ ~UpstreamFailed(u) /\ ~UpstreamSucceeded(u)
    BY <1>2, <1>4, <1>5 DEF RightlyBlocked
  <2>2. t \notin DependsOn[u]
    BY <1>1, <2>1
  <2> QED
    BY <1>1, <1>2, <2>1, <2>2, RowsAssumption DEF RightlyBlocked, UpstreamFailed, UpstreamSucceeded
<1> QED
  BY <1>1, <1>2, <1>3, <1>5 DEF BlockedInv

\* Every method leaves the BLOCKED tasks rightly so, or has a pass look at them.
LEMMA BlockedStep == RowsInOrder /\ Inv /\ BlockedInv /\ [StoreNext]_storeVars => BlockedInv'
<1> SUFFICES ASSUME RowsInOrder, Inv, BlockedInv, [StoreNext]_storeVars PROVE BlockedInv'
  OBVIOUS
<1>1. ASSUME NEW g \in Goals, CreateGoal(g) PROVE BlockedInv'
  <2>1. /\ sweep' = sweep /\ sweep.rows = {} /\ crashes' = crashes
        /\ \A t \in TasksOf(g) : DependsOn[t] \subseteq TasksOf(g)
        /\ Acyclic(g)
    BY <1>1 DEF CreateGoal, Quiet, NoSweep
  <2>2. \A t \in Tasks : status'[t] = IF GoalOf[t] # g THEN status[t]
                                      ELSE IF DependsOn[t] = {} THEN "READY" ELSE "BLOCKED"
    BY <1>1 DEF CreateGoal
  <2>3. GraphClosed'
    BY <2>1, <2>2 DEF BlockedInv, GraphClosed, TasksOf
  <2>4. ASSUME NEW t \in Tasks, status'[t] = "BLOCKED", GoalOf[t] = g PROVE RightlyBlocked(t)'
    <3>1. \A d \in DependsOn[t] : status'[d] \in {"READY", "BLOCKED"}
      BY <2>1, <2>2, <2>4 DEF TasksOf
    <3> QED
      BY <2>1, <2>2, <2>4, <3>1 DEF RightlyBlocked, UpstreamFailed, UpstreamSucceeded
  <2>5. ASSUME NEW t \in Tasks, status'[t] = "BLOCKED", GoalOf[t] # g, crashes = 0 PROVE RightlyBlocked(t)'
    <3>1. RightlyBlocked(t) /\ \A d \in DependsOn[t] : status'[d] = status[d]
      BY <2>1, <2>2, <2>5 DEF BlockedInv, GraphClosed, TasksOf
    <3> QED
      BY <2>1, <3>1 DEF RightlyBlocked, UpstreamFailed, UpstreamSucceeded
  <2> QED
    BY <2>1, <2>3, <2>4, <2>5 DEF BlockedInv
<1>2. ASSUME NEW t \in Tasks, ByKernel(t) PROVE BlockedInv'
  <2>1. CASE Claim(t) \/ WakeDueTimer(t) \/ RecoverExpiredLease(t)
    BY <2>1, MildStep DEF Claim, WakeDueTimer, RecoverExpiredLease, LeaveRunning, Finished, Inv,
         StoreTypeOK
  <2>2. CASE RefuseTask(t) \/ ExpireEventWait(t)
    BY <2>2, FailBlocks DEF RefuseTask, ExpireEventWait, Finished
  <2>3. CASE SweepRow(t)
    BY <2>3, PassStep
  <2> QED
    BY <2>1, <2>2, <2>3, <1>2 DEF ByKernel
<1>3. ASSUME NEW t \in Tasks, ByControl(t) PROVE BlockedInv'
  <2>1. CASE PauseTask(t)
    <3>1. sweep' = sweep /\ crashes' = crashes
      BY <2>1 DEF PauseTask
    <3>2. CASE status[t] = "RUNNING"
      BY <2>1, <3>1, <3>2, MildStep DEF PauseTask, Terminal, Finished, Inv, StoreTypeOK
    <3>3. CASE status[t] # "RUNNING"
      BY <2>1, <3>1, <3>3, MildStep DEF PauseTask, Terminal, Finished, Inv, StoreTypeOK
    <3> QED
      BY <3>2, <3>3
  <2>2. ASSUME NEW due \in BOOLEAN, ResumeTask(t, due) PROVE BlockedInv'
    <3>1. /\ status' = [status EXCEPT ![t] = ResumeStatus(t, due)] /\ crashes' = crashes
          /\ status[t] = "PAUSED" /\ Quiet /\ status'[t] = ResumeStatus(t, due)
      BY <2>2 DEF ResumeTask, Inv, StoreTypeOK
    <3>2. CASE status'[t] = "BLOCKED"
      <4>1. StartSweep(GoalOf[t], FALSE)
        BY <2>2, <3>2 DEF ResumeTask
      <4> QED
        BY <3>1, <4>1, HarshStep DEF Inv, StoreTypeOK
    <3>3. CASE status'[t] # "BLOCKED"
      <4>1. sweep' = sweep /\ status'[t] \in {"WAITING", "READY"}
        BY <2>2, <3>1, <3>3 DEF ResumeTask, ResumeStatus
      <4> QED
        BY <3>1, <3>3, <4>1, MildStep DEF Finished, Inv, StoreTypeOK
    <3> QED
      BY <3>2, <3>3
  <2>3. CASE CancelTask(t)
    <3>1. CASE status[t] = "RUNNING"
      BY <2>3, <3>1, MildStep DEF CancelTask
    <3>2. CASE status[t] # "RUNNING"
      <4>1. StartSweep(GoalOf[t], TRUE) /\ status' = [status EXCEPT ![t] = "CANCELLED"] /\ Quiet
            /\ status[t] # "NONE" /\ crashes' = crashes
        BY <2>3, <3>2 DEF CancelTask
      <4> QED
        BY <4>1, HarshStep DEF Inv, StoreTypeOK
    <3> QED
      BY <3>1, <3>2
  <2> QED
    BY <2>1, <2>2, <2>3, <1>3 DEF ByControl
<1>4. ASSUME NEW t \in Tasks, NEW token \in Issued(t), NEW retryable \in BOOLEAN,
             FailTask(t, token, retryable)
      PROVE  BlockedInv'
  <2>1. status[t] = "RUNNING"
    BY <1>4 DEF FailTask, Holds, Issued, Inv, LeaseMeansRunning, StoreTypeOK
  <2> QED
    BY <1>4, <2>1, FailBlocks DEF FailTask, Finished
<1>5. ASSUME NEW t \in Tasks, NEW token \in Issued(t), NEW n \in 0..MaxPc, NEW e \in Seen(t),
             ByExecution(t, token, n, e)
      PROVE  BlockedInv'
  <2>1. ASSUME NEW k \in Keys, NEW timed \in BOOLEAN, WaitForEvent(t, token, n, e, k, timed)
        PROVE  BlockedInv'
    BY <2>1, MildStep DEF WaitForEvent, LeaveRunning, Finished, Inv, StoreTypeOK
  <2>2. CASE CheckpointTask(t, token, n, e)
    BY <2>2, MildStep DEF CheckpointTask
  <2>3. CASE YieldTask(t, token, n, e) \/ WaitForTimer(t, token, n, e)
    BY <2>3, MildStep DEF YieldTask, WaitForTimer, LeaveRunning, Finished, Inv, StoreTypeOK
  <2>4. CASE PreemptRunningTask(t, token, n, e) \/ PauseRunningTask(t, token, n, e)
    BY <2>4, MildStep DEF PreemptRunningTask, PauseRunningTask, LeaveRunning, Finished, Inv, StoreTypeOK
  <2>5. CASE CompleteTask(t, token, n, e) \/ CancelRunningTask(t, token, n, e)
    <3>1. /\ Quiet /\ StartSweep(GoalOf[t], TRUE) /\ crashes' = crashes /\ status[t] # "NONE"
          /\ \A u \in Tasks \ {t} : status'[u] = status[u]
      BY <2>5 DEF CompleteTask, CancelRunningTask, LeaveRunning, Inv, StoreTypeOK
    <3> QED
      BY <3>1, HarshStep
  <2> QED
    BY <2>1, <2>2, <2>3, <2>4, <2>5, <1>5 DEF ByExecution
<1>6. ASSUME NEW e \in Events, PublishEvent(e) PROVE BlockedInv'
  BY <1>6, MildStep DEF PublishEvent, Listening, Finished
<1>7. CASE \/ \E t \in Tasks : \E token \in Issued(t), n \in 0..MaxPc, ev \in Events :
                \E e \in {NoEvent, ev} : ConsumeEventAndCheckpoint(t, token, ev, n, e)
           \/ \E S \in SUBSET Tasks : RequestTaskPreemption(S)
           \/ UNCHANGED storeVars
  BY <1>7, MildStep DEF ConsumeEventAndCheckpoint, RequestTaskPreemption
<1>8. CASE RecoverOrphanedTasks
  BY <1>8, MildStep DEF RecoverOrphanedTasks, Finished
<1>9. CASE SweepEnd
  <2>1. sweep.rows = {} /\ sweep'.rows = {} /\ UNCHANGED <<status, crashes>>
    BY <1>9 DEF SweepEnd, NoSweep
  <2> QED
    BY <2>1 DEF BlockedInv, GraphClosed, RightlyBlocked, UpstreamFailed, UpstreamSucceeded
<1>10. CASE StoreCrash
  BY <1>10 DEF StoreCrash, BlockedInv, GraphClosed, Inv, StoreTypeOK
<1> QED
  BY <1>1, <1>2, <1>3, <1>4, <1>5, <1>6, <1>7, <1>8, <1>9, <1>10 DEF StoreNext

\* Among tasks there is one whose row comes first.
LEMMA FirstRow ==
  ASSUME NEW S \in SUBSET Tasks, S # {}
  PROVE  \E t \in S : \A u \in S : Row[t] <= Row[u]
<1> DEFINE R == {Row[t] : t \in S}
           Less == {p \in Nat \X Nat : p[1] < p[2]}
<1>1. R \subseteq Nat /\ R # {}
  BY RowsAssumption
<1>2. IsWellFoundedOn(Less, Nat)
  BY NatLessThanWellFounded DEF OpToRel
<1>3. \E x \in R : \A y \in R : ~(<<y, x>> \in Less)
  <2> HIDE DEF R, Less
  <2> QED
    BY <1>1, <1>2, WFMin
<1>4. \A x, y \in Nat : y < x => <<y, x>> \in Less
  OBVIOUS
<1>5. PICK x \in R : \A y \in R : ~(<<y, x>> \in Less)
  BY <1>3
<1>6. ASSUME NEW y \in R PROVE x <= y
  <2>1. x \in Nat /\ y \in Nat
    BY <1>1, <1>5
  <2>2. ~(y < x)
    BY <1>4, <1>5, <2>1
  <2> QED
    BY <2>1, <2>2
<1> QED
  BY <1>5, <1>6

\* The first of the BLOCKED tasks of a goal depends on a task that is neither
\* finished nor BLOCKED.
LEMMA FirstBlockedWaits == RowsInOrder /\ Inv /\ BlockedInv => ActiveGoalCanMove
<1> SUFFICES ASSUME RowsInOrder, Inv, BlockedInv, Quiet, crashes = 0, NEW g \in Goals,
                    NEW t \in TasksOf(g), status[t] \notin Terminal \cup {"NONE"},
                    \A u \in TasksOf(g) : status[u] \notin {"READY", "RUNNING", "WAITING", "PAUSED"}
             PROVE  FALSE
  BY DEF ActiveGoalCanMove
<1> DEFINE B == {u \in TasksOf(g) : status[u] = "BLOCKED"}
<1>1. \A u \in TasksOf(g) : status[u] \in Terminal \cup {"BLOCKED", "NONE"} /\ status[u] # "NONE"
  BY RowsAssumption DEF Inv, StoreTypeOK, TaskStatus, Terminal, RowsExist, TasksOf
<1>2. t \in B
  BY <1>1
<1>3. PICK u \in B : \A v \in B : Row[u] <= Row[v]
  BY <1>2, FirstRow DEF TasksOf
<1>4. RightlyBlocked(u) /\ DependsOn[u] \subseteq TasksOf(g)
  BY <1>3 DEF BlockedInv, GraphClosed, Quiet, NoSweep, TasksOf
<1>5. PICK d \in DependsOn[u] : status[d] # "SUCCEEDED"
  BY <1>4 DEF RightlyBlocked, UpstreamSucceeded
<1>6. d \in B
  BY <1>1, <1>4, <1>5 DEF RightlyBlocked, UpstreamFailed, Terminal
<1>7. Row[d] < Row[u]
  BY <1>3, <1>5 DEF RowsInOrder, BlockedInv, GraphClosed, TasksOf
<1> QED
  BY <1>3, <1>6, <1>7, RowsAssumption DEF TasksOf

\* In a process that has not crashed, a goal with unfinished tasks has one
\* that can move, provided that the rows of a goal are in order.
THEOREM ActiveGoalsMove == RowsInOrder => (StoreSpec => []ActiveGoalCanMove)
<1> SUFFICES ASSUME RowsInOrder PROVE StoreSpec => []ActiveGoalCanMove
  OBVIOUS
<1>1. StoreInit => BlockedInv
  BY DEF StoreInit, BlockedInv, GraphClosed
<1>2. Inv /\ BlockedInv /\ [StoreNext]_storeVars => BlockedInv'
  BY BlockedStep
<1>3. Inv /\ BlockedInv => ActiveGoalCanMove
  BY FirstBlockedWaits
<1>4. QED
  BY <1>1, <1>2, <1>3, Invariance, PTL DEF StoreSpec
=============================================================================
