----------------------------- MODULE TaskStore -----------------------------
(***************************************************************************)
(* The task and goal rows of src/src/infra/store.js and the methods that   *)
(* move them.  A store method is synchronous, so it runs to its end before *)
(* anything else does, with one exception that matters: completing,        *)
(* failing, cancelling and resuming a task are not SQL transactions.  The  *)
(* UPDATE of the task row, the pass over its blocked dependents and the    *)
(* verdict on its goal are separate commits, and a crash can fall between  *)
(* them.  That pass is the variable sweep, executed row by row.            *)
(*                                                                         *)
(* The module does not say who calls a method.  A caller that holds a      *)
(* lease token may call with it at any later moment, also long after the   *)
(* lease is gone: what the module promises, it promises to every caller.   *)
(***************************************************************************)
EXTENDS Integers, FiniteSets

CONSTANTS
  Tasks,
  Goals,
  GoalOf,       \* [Tasks -> Goals]: tasks.goal_id
  DependsOn,    \* [Tasks -> SUBSET Tasks]: tasks.depends_on_json
  Row,          \* [Tasks -> Nat]: order in which a SELECT returns the rows of a goal
  MaxAttempts,  \* [Tasks -> Nat \ {0}]: tasks.max_attempts
  MaxPc,        \* bound: a snapshot's pc is in 0..MaxPc
  MaxClaims,    \* bound: how often one task may be claimed
  MaxCrashes,   \* bound: how often the process may crash
  PauseIn,      \* environment: the statuses in which the operator pauses a task
  Events,       \* identities of the events that may be published
  Keys,         \* an event's topic and correlation key, as one value
  KeyOf,        \* [Events -> Keys]
  Audience,     \* [Events -> SUBSET Goals]: the goals of the event's tenant and agent
  NoKey, NoEvent, NoGoal

ASSUME RowsAssumption ==
  /\ GoalOf \in [Tasks -> Goals]
  /\ DependsOn \in [Tasks -> SUBSET Tasks]
  /\ Row \in [Tasks -> Nat]
  /\ MaxAttempts \in [Tasks -> Nat \ {0}]
  /\ NoGoal \notin Goals

ASSUME EventsAssumption ==
  /\ KeyOf \in [Events -> Keys]
  /\ Audience \in [Events -> SUBSET Goals]
  /\ NoKey \notin Keys
  /\ NoEvent \notin Events
  /\ IsFiniteSet(Events)

ASSUME BoundsAssumption == MaxPc \in Nat /\ MaxClaims \in Nat /\ MaxCrashes \in Nat

VARIABLES
  goal,        \* goals.status, "NONE" before the goal exists
  status,      \* tasks.status, "NONE" before the task exists
  pausedFrom,  \* tasks.paused_from_status, "NONE" for NULL
  waitKind,    \* tasks.wait_kind, "NONE" for NULL
  waitKey,     \* tasks.wait_topic and wait_key
  wakeAt,      \* is tasks.wake_at set: the timer, or the deadline of an event wait
  lease,       \* tasks.lease_token: the attempt it was issued for, 0 for NULL
  attempt,     \* tasks.attempt
  failures,    \* tasks.failure_count
  pauseReq, cancelReq, preemptReq,   \* the sticky controls: the tasks that have them
  pc,          \* pc of the saved snapshot
  pend,        \* pendingEvent of the saved snapshot
  published,   \* events: when the event was inserted, 0 when it was not
  delivered,   \* event_deliveries: pairs <<event, task>>
  born,        \* what the newest event was when the goal was created
  sweep,       \* the reconciliation pass in progress
  crashes

rowVars == <<status, pausedFrom, waitKind, waitKey, wakeAt, lease, attempt, failures>>
controlVars == <<pauseReq, cancelReq, preemptReq>>
snapshotVars == <<pc, pend>>
eventVars == <<published, delivered, born>>
storeVars == <<goal, rowVars, controlVars, snapshotVars, eventVars, sweep, crashes>>

-----------------------------------------------------------------------------

\* The statuses that rows take: nothing writes CREATED, nor CANCELLED for a goal,
\* whose verdict is SUCCEEDED or FAILED whatever its tasks came to.
TaskStatus == {"READY", "RUNNING", "WAITING", "BLOCKED", "PAUSED",
               "SUCCEEDED", "FAILED", "CANCELLED"}
Terminal == {"SUCCEEDED", "FAILED", "CANCELLED"}
GoalStatus == {"ACTIVE", "SUCCEEDED", "FAILED"}

TasksOf(g) == {t \in Tasks : GoalOf[t] = g}
NoSweep == [goal |-> NoGoal, rows |-> {}, whole |-> FALSE]
Quiet == sweep = NoSweep

StoreTypeOK ==
  /\ goal \in [Goals -> GoalStatus \cup {"NONE"}]
  /\ status \in [Tasks -> TaskStatus \cup {"NONE"}]
  /\ pausedFrom \in [Tasks -> {"NONE", "READY", "WAITING", "BLOCKED"}]
  /\ waitKind \in [Tasks -> {"NONE", "TIMER", "EVENT"}]
  /\ waitKey \in [Tasks -> Keys \cup {NoKey}]
  /\ wakeAt \in [Tasks -> BOOLEAN]
  /\ lease \in [Tasks -> Nat]
  /\ attempt \in [Tasks -> Nat]
  /\ failures \in [Tasks -> Nat]
  /\ pauseReq \subseteq Tasks /\ cancelReq \subseteq Tasks /\ preemptReq \subseteq Tasks
  /\ pc \in [Tasks -> 0..MaxPc]
  /\ pend \in [Tasks -> Events \cup {NoEvent}]
  /\ published \in [Events -> Nat]
  /\ delivered \subseteq Events \X Tasks
  /\ born \in [Goals -> Nat]
  /\ sweep \in [goal : Goals \cup {NoGoal}, rows : SUBSET Tasks, whole : BOOLEAN]
  /\ crashes \in 0..MaxCrashes

StoreInit ==
  /\ goal = [g \in Goals |-> "NONE"]
  /\ status = [t \in Tasks |-> "NONE"]
  /\ pausedFrom = [t \in Tasks |-> "NONE"]
  /\ waitKind = [t \in Tasks |-> "NONE"]
  /\ waitKey = [t \in Tasks |-> NoKey]
  /\ wakeAt = [t \in Tasks |-> FALSE]
  /\ lease = [t \in Tasks |-> 0]
  /\ attempt = [t \in Tasks |-> 0]
  /\ failures = [t \in Tasks |-> 0]
  /\ pauseReq = {} /\ cancelReq = {} /\ preemptReq = {}
  /\ pc = [t \in Tasks |-> 0]
  /\ pend = [t \in Tasks |-> NoEvent]
  /\ published = [e \in Events |-> 0]
  /\ delivered = {}
  /\ born = [g \in Goals |-> 0]
  /\ sweep = NoSweep
  /\ crashes = 0

-----------------------------------------------------------------------------
(* Goals and their reconciliation.                                         *)

Acyclic(g) ==
  \E rank \in [TasksOf(g) -> 0..Cardinality(TasksOf(g))] :
    \A t \in TasksOf(g) : \A d \in DependsOn[t] : rank[d] < rank[t]

\* How many events there are: the number of the newest one.
Newest == Cardinality({e \in Events : published[e] > 0})

\* A goal, its tasks and its contract are one transaction, refused when the
\* graph has a cycle or leaves the goal.
CreateGoal(g) ==
  /\ Quiet
  /\ goal[g] = "NONE"
  /\ TasksOf(g) # {}
  /\ \A t \in TasksOf(g) : DependsOn[t] \subseteq TasksOf(g)
  /\ Acyclic(g)
  /\ goal' = [goal EXCEPT ![g] = "ACTIVE"]
  /\ status' = [t \in Tasks |->
       IF GoalOf[t] # g THEN status[t]
       ELSE IF DependsOn[t] = {} THEN "READY" ELSE "BLOCKED"]
  /\ born' = [born EXCEPT ![g] = Newest]
  /\ UNCHANGED <<pausedFrom, waitKind, waitKey, wakeAt, lease, attempt, failures,
                 controlVars, snapshotVars, published, delivered, sweep, crashes>>

\* Faulty: the verdict on the goal is forgotten.
BadStartSweep(g, whole) ==
  sweep' = [goal |-> g, rows |-> {t \in TasksOf(g) : status'[t] = "BLOCKED"}, whole |-> FALSE]

\* reconcileBlocked(goalId) reads the BLOCKED rows once and then takes them
\* one by one; reconcileGoal(goalId) follows where the caller calls it too.
StartSweep(g, whole) ==
  sweep' = [goal |-> g,
            rows |-> {t \in TasksOf(g) : status'[t] = "BLOCKED"},
            whole |-> whole]

\* Faulty: a cancelled dependency is forgotten.
BadUpstreamFailed(t) == \E d \in DependsOn[t] : status[d] = "FAILED"
UpstreamFailed(t) == \E d \in DependsOn[t] : status[d] \in {"FAILED", "CANCELLED"}
UpstreamSucceeded(t) == \A d \in DependsOn[t] : status[d] = "SUCCEEDED"

SweepRow(t) ==
  /\ t \in sweep.rows
  /\ \A u \in sweep.rows : Row[t] <= Row[u]
  /\ sweep' = [sweep EXCEPT !.rows = @ \ {t}]
  /\ status' = [status EXCEPT ![t] =
       IF UpstreamFailed(t) THEN "FAILED"
       ELSE IF UpstreamSucceeded(t) THEN "READY" ELSE @]
  /\ UNCHANGED <<goal, pausedFrom, waitKind, waitKey, wakeAt, lease, attempt, failures,
                 controlVars, snapshotVars, eventVars, crashes>>

\* Faulty: a goal counts as failed with its first failed task.
BadGoalVerdict(g) ==
  IF \E t \in TasksOf(g) : status[t] \in {"FAILED", "CANCELLED"} THEN "FAILED"
  ELSE IF \A t \in TasksOf(g) : status[t] = "SUCCEEDED" THEN "SUCCEEDED" ELSE goal[g]
GoalVerdict(g) ==
  IF \E t \in TasksOf(g) : status[t] \notin Terminal THEN goal[g]
  ELSE IF \A t \in TasksOf(g) : status[t] = "SUCCEEDED" THEN "SUCCEEDED" ELSE "FAILED"

SweepEnd ==
  /\ ~Quiet
  /\ sweep.rows = {}
  /\ goal' = IF sweep.whole THEN [goal EXCEPT ![sweep.goal] = GoalVerdict(sweep.goal)] ELSE goal
  /\ sweep' = NoSweep
  /\ UNCHANGED <<rowVars, controlVars, snapshotVars, eventVars, crashes>>

-----------------------------------------------------------------------------
(* What the execution that holds the lease may do to its task.             *)

\* Faulty: the UPDATE does not ask for the lease token.
BadHolds(t, token) == TRUE
Holds(t, token) == lease[t] = token

\* The row leaves RUNNING: every such UPDATE clears the lease columns.
LeaveRunning(t, s) ==
  /\ status' = [status EXCEPT ![t] = s]
  /\ lease' = [lease EXCEPT ![t] = 0]

\* Faulty: the snapshot is saved without its pending event.
BadSaveSnapshot(t, n, e) ==
  /\ pc' = [pc EXCEPT ![t] = n]
  /\ pend' = [pend EXCEPT ![t] = NoEvent]
SaveSnapshot(t, n, e) ==
  /\ pc' = [pc EXCEPT ![t] = n]
  /\ pend' = [pend EXCEPT ![t] = e]

Claim(t) ==
  /\ Quiet
  /\ status[t] = "READY"
  /\ attempt[t] < MaxClaims
  /\ status' = [status EXCEPT ![t] = "RUNNING"]
  /\ attempt' = [attempt EXCEPT ![t] = @ + 1]
  /\ lease' = [lease EXCEPT ![t] = attempt[t] + 1]
  /\ UNCHANGED <<goal, pausedFrom, waitKind, waitKey, wakeAt, failures,
                 controlVars, snapshotVars, eventVars, sweep, crashes>>

CheckpointTask(t, token, n, e) ==
  /\ Quiet
  /\ Holds(t, token)
  /\ SaveSnapshot(t, n, e)
  /\ UNCHANGED <<goal, rowVars, controlVars, eventVars, sweep, crashes>>

YieldTask(t, token, n, e) ==
  /\ Quiet
  /\ status[t] = "RUNNING" /\ Holds(t, token)
  /\ LeaveRunning(t, "READY")
  /\ SaveSnapshot(t, n, e)
  /\ UNCHANGED <<goal, pausedFrom, waitKind, waitKey, wakeAt, attempt, failures,
                 controlVars, eventVars, sweep, crashes>>

\* wait_topic and wait_key keep whatever an earlier wait left there.
WaitForTimer(t, token, n, e) ==
  /\ Quiet
  /\ status[t] = "RUNNING" /\ Holds(t, token)
  /\ LeaveRunning(t, "WAITING")
  /\ SaveSnapshot(t, n, e)
  /\ waitKind' = [waitKind EXCEPT ![t] = "TIMER"]
  /\ wakeAt' = [wakeAt EXCEPT ![t] = TRUE]
  /\ UNCHANGED <<goal, pausedFrom, waitKey, attempt, failures,
                 controlVars, eventVars, sweep, crashes>>

\* The events consumeQueuedEvent(t, key) may find: newer than the goal,
\* addressed to its tenant and agent, and not delivered to the task before.
Queued(t, k) ==
  {e \in Events : /\ published[e] > born[GoalOf[t]]
                  /\ KeyOf[e] = k
                  /\ GoalOf[t] \in Audience[e]
                  /\ <<e, t>> \notin delivered}

\* Faulty: ORDER BY the other way round.
BadIsOldest(e, S) == e \in S /\ \A f \in S : published[e] >= published[f]
IsOldest(e, S) == e \in S /\ \A f \in S : published[e] <= published[f]

\* Both callers subscribe in the same synchronous stretch in which
\* consumeQueuedEvent returned null.
WaitForEvent(t, token, n, e, k, timed) ==
  /\ Quiet
  /\ Queued(t, k) = {}
  /\ status[t] = "RUNNING" /\ Holds(t, token)
  /\ LeaveRunning(t, "WAITING")
  /\ SaveSnapshot(t, n, e)
  /\ waitKind' = [waitKind EXCEPT ![t] = "EVENT"]
  /\ waitKey' = [waitKey EXCEPT ![t] = k]
  /\ wakeAt' = [wakeAt EXCEPT ![t] = timed]
  /\ UNCHANGED <<goal, pausedFrom, attempt, failures, controlVars, eventVars, sweep, crashes>>

\* What a caller's snapshot may carry as its pending event.
Seen(t) == {NoEvent} \cup {e \in Events : <<e, t>> \in delivered}

\* One transaction: the snapshot and the delivery row.  The event is the one
\* consumeQueuedEvent just returned or the one pending in the snapshot.
ConsumeEventAndCheckpoint(t, token, ev, n, e) ==
  /\ Quiet
  /\ ev \in Seen(t) \/ IsOldest(ev, Queued(t, KeyOf[ev]))
  /\ status[t] = "RUNNING" /\ Holds(t, token)
  /\ SaveSnapshot(t, n, e)
  /\ delivered' = delivered \cup {<<ev, t>>}
  /\ UNCHANGED <<goal, rowVars, controlVars, published, born, sweep, crashes>>

CompleteTask(t, token, n, e) ==
  /\ Quiet
  /\ status[t] = "RUNNING" /\ Holds(t, token)
  /\ LeaveRunning(t, "SUCCEEDED")
  /\ SaveSnapshot(t, n, e)
  /\ waitKind' = [waitKind EXCEPT ![t] = "NONE"]
  /\ waitKey' = [waitKey EXCEPT ![t] = NoKey]
  /\ wakeAt' = [wakeAt EXCEPT ![t] = FALSE]
  /\ StartSweep(GoalOf[t], TRUE)
  /\ UNCHANGED <<goal, pausedFrom, attempt, failures, controlVars, eventVars, crashes>>

\* The UPDATE of failTask looks at no status: the row goes where it is sent.
FailRow(t, retryable) ==
  LET again == retryable /\ failures[t] + 1 < MaxAttempts[t]
  IN  /\ LeaveRunning(t, IF again THEN "READY" ELSE "FAILED")
      /\ waitKind' = [waitKind EXCEPT ![t] = "NONE"]
      /\ waitKey' = [waitKey EXCEPT ![t] = NoKey]
      /\ wakeAt' = [wakeAt EXCEPT ![t] = FALSE]
      /\ failures' = [failures EXCEPT ![t] = @ + 1]
      /\ IF again THEN UNCHANGED sweep ELSE StartSweep(GoalOf[t], TRUE)
      /\ UNCHANGED <<goal, pausedFrom, attempt, controlVars, snapshotVars, eventVars, crashes>>

FailTask(t, token, retryable) ==
  /\ Quiet
  /\ Holds(t, token)
  /\ FailRow(t, retryable)

\* The scheduler's drain refuses a READY task for good, without a token.
RefuseTask(t) ==
  /\ Quiet
  /\ status[t] = "READY"
  /\ FailRow(t, FALSE)

PreemptRunningTask(t, token, n, e) ==
  /\ Quiet
  /\ status[t] = "RUNNING" /\ Holds(t, token)
  /\ LeaveRunning(t, "READY")
  /\ SaveSnapshot(t, n, e)
  /\ preemptReq' = preemptReq \ {t}
  /\ UNCHANGED <<goal, pausedFrom, waitKind, waitKey, wakeAt, attempt, failures,
                 pauseReq, cancelReq, eventVars, sweep, crashes>>

PauseRunningTask(t, token, n, e) ==
  /\ Quiet
  /\ status[t] = "RUNNING" /\ Holds(t, token)
  /\ LeaveRunning(t, "PAUSED")
  /\ SaveSnapshot(t, n, e)
  /\ pausedFrom' = [pausedFrom EXCEPT ![t] = "READY"]
  /\ pauseReq' = pauseReq \ {t}
  /\ UNCHANGED <<goal, waitKind, waitKey, wakeAt, attempt, failures,
                 cancelReq, preemptReq, eventVars, sweep, crashes>>

CancelRunningTask(t, token, n, e) ==
  /\ Quiet
  /\ status[t] = "RUNNING" /\ Holds(t, token)
  /\ LeaveRunning(t, "CANCELLED")
  /\ SaveSnapshot(t, n, e)
  /\ cancelReq' = cancelReq \ {t}
  /\ StartSweep(GoalOf[t], TRUE)
  /\ UNCHANGED <<goal, pausedFrom, waitKind, waitKey, wakeAt, attempt, failures,
                 pauseReq, preemptReq, eventVars, crashes>>

-----------------------------------------------------------------------------
(* Controls: the operator, the interrupt reactor, the shutdown.            *)

RequestTaskPreemption(S) ==
  /\ Quiet
  /\ preemptReq' = preemptReq \cup {t \in S : status[t] = "RUNNING"}
  /\ UNCHANGED <<goal, rowVars, pauseReq, cancelReq, snapshotVars, eventVars, sweep, crashes>>

PauseTask(t) ==
  /\ Quiet
  /\ status[t] \notin Terminal \cup {"PAUSED", "NONE"}
  /\ status[t] \in PauseIn
  /\ IF status[t] = "RUNNING"
     THEN /\ pauseReq' = pauseReq \cup {t}
          /\ UNCHANGED <<status, pausedFrom>>
     ELSE /\ status' = [status EXCEPT ![t] = "PAUSED"]
          /\ pausedFrom' = [pausedFrom EXCEPT ![t] = status[t]]
          /\ UNCHANGED pauseReq
  /\ UNCHANGED <<goal, waitKind, waitKey, wakeAt, lease, attempt, failures,
                 cancelReq, preemptReq, snapshotVars, eventVars, sweep, crashes>>

\* Faulty: a task paused while BLOCKED resumes as READY.
BadResumeReady(t, due) ==
  IF pausedFrom[t] = "WAITING" /\ waitKind[t] = "TIMER" /\ ~due THEN "WAITING" ELSE "READY"
\* Faulty: an event wait is resumed as it was left.
BadResumeWaiting(t, due) ==
  IF pausedFrom[t] = "BLOCKED" THEN "BLOCKED"
  ELSE IF pausedFrom[t] = "WAITING" /\ ~due THEN "WAITING" ELSE "READY"
\* due: the wake_at of a timer wait has passed.  An event wait always
\* resumes as READY, so that the task looks at its queue again.
ResumeStatus(t, due) ==
  IF pausedFrom[t] = "BLOCKED" THEN "BLOCKED"
  ELSE IF pausedFrom[t] = "WAITING" /\ waitKind[t] = "TIMER" /\ ~due THEN "WAITING"
  ELSE "READY"

ResumeTask(t, due) ==
  /\ Quiet
  /\ status[t] = "PAUSED"
  /\ status' = [status EXCEPT ![t] = ResumeStatus(t, due)]
  /\ pausedFrom' = [pausedFrom EXCEPT ![t] = "NONE"]
  /\ pauseReq' = pauseReq \ {t}
  /\ IF status'[t] = "BLOCKED" THEN StartSweep(GoalOf[t], FALSE) ELSE UNCHANGED sweep
  /\ UNCHANGED <<goal, waitKind, waitKey, wakeAt, lease, attempt, failures,
                 cancelReq, preemptReq, snapshotVars, eventVars, crashes>>

CancelTask(t) ==
  /\ Quiet
  /\ status[t] \notin Terminal \cup {"NONE"}
  /\ IF status[t] = "RUNNING"
     THEN /\ cancelReq' = cancelReq \cup {t}
          /\ UNCHANGED <<status, sweep>>
     ELSE /\ status' = [status EXCEPT ![t] = "CANCELLED"]
          /\ StartSweep(GoalOf[t], TRUE)
          /\ UNCHANGED cancelReq
  /\ UNCHANGED <<goal, pausedFrom, waitKind, waitKey, wakeAt, lease, attempt, failures,
                 pauseReq, preemptReq, snapshotVars, eventVars, crashes>>

-----------------------------------------------------------------------------
(* Events, timers, lost leases, crashes.                                   *)

Listening(e) ==
  {t \in Tasks : /\ status[t] = "WAITING" /\ waitKind[t] = "EVENT"
                 /\ waitKey[t] = KeyOf[e]
                 /\ GoalOf[t] \in Audience[e]}

\* One transaction.  A second publication under the same idempotency key
\* changes nothing, so an identity is published once.
PublishEvent(e) ==
  /\ Quiet
  /\ published[e] = 0
  /\ published' = [published EXCEPT ![e] = Newest + 1]
  /\ delivered' = delivered \cup {<<e, t>> : t \in Listening(e)}
  /\ status' = [t \in Tasks |-> IF t \in Listening(e) THEN "READY" ELSE status[t]]
  /\ pend' = [t \in Tasks |-> IF t \in Listening(e) THEN e ELSE pend[t]]
  /\ waitKind' = [t \in Tasks |-> IF t \in Listening(e) THEN "NONE" ELSE waitKind[t]]
  /\ waitKey' = [t \in Tasks |-> IF t \in Listening(e) THEN NoKey ELSE waitKey[t]]
  /\ wakeAt' = [t \in Tasks |-> IF t \in Listening(e) THEN FALSE ELSE wakeAt[t]]
  /\ UNCHANGED <<goal, pausedFrom, lease, attempt, failures, controlVars, pc, born,
                 sweep, crashes>>

WakeDueTimer(t) ==
  /\ Quiet
  /\ status[t] = "WAITING" /\ waitKind[t] = "TIMER"
  /\ status' = [status EXCEPT ![t] = "READY"]
  /\ waitKind' = [waitKind EXCEPT ![t] = "NONE"]
  /\ wakeAt' = [wakeAt EXCEPT ![t] = FALSE]
  /\ UNCHANGED <<goal, pausedFrom, waitKey, lease, attempt, failures,
                 controlVars, snapshotVars, eventVars, sweep, crashes>>

ExpireEventWait(t) ==
  /\ Quiet
  /\ status[t] = "WAITING" /\ waitKind[t] = "EVENT" /\ wakeAt[t]
  /\ FailRow(t, FALSE)

\* renewLease moves lease_expires_at and nothing else; whether the lease of
\* a RUNNING task has run out is left open.
RecoverExpiredLease(t) ==
  /\ Quiet
  /\ status[t] = "RUNNING"
  /\ LeaveRunning(t, "READY")
  /\ UNCHANGED <<goal, pausedFrom, waitKind, waitKey, wakeAt, attempt, failures,
                 controlVars, snapshotVars, eventVars, sweep, crashes>>

RecoverOrphanedTasks ==
  /\ Quiet
  /\ status' = [t \in Tasks |-> IF status[t] = "RUNNING" THEN "READY" ELSE status[t]]
  /\ lease' = [t \in Tasks |-> IF status[t] = "RUNNING" THEN 0 ELSE lease[t]]
  /\ UNCHANGED <<goal, pausedFrom, waitKind, waitKey, wakeAt, attempt, failures,
                 controlVars, snapshotVars, eventVars, sweep, crashes>>

\* The rows are on disk; a pass that was under way is not.
StoreCrash ==
  /\ crashes < MaxCrashes
  /\ crashes' = crashes + 1
  /\ sweep' = NoSweep
  /\ UNCHANGED <<goal, rowVars, controlVars, snapshotVars, eventVars>>

-----------------------------------------------------------------------------

\* Every token ever issued for the task.
Issued(t) == 1..attempt[t]

ByExecution(t, token, n, e) ==
  \/ CheckpointTask(t, token, n, e)
  \/ YieldTask(t, token, n, e)
  \/ WaitForTimer(t, token, n, e)
  \/ \E k \in Keys, timed \in BOOLEAN : WaitForEvent(t, token, n, e, k, timed)
  \/ CompleteTask(t, token, n, e)
  \/ PreemptRunningTask(t, token, n, e)
  \/ PauseRunningTask(t, token, n, e)
  \/ CancelRunningTask(t, token, n, e)

ByControl(t) ==
  \/ PauseTask(t)
  \/ \E due \in BOOLEAN : ResumeTask(t, due)
  \/ CancelTask(t)

ByKernel(t) ==
  \/ Claim(t)
  \/ RefuseTask(t)
  \/ WakeDueTimer(t)
  \/ ExpireEventWait(t)
  \/ RecoverExpiredLease(t)
  \/ SweepRow(t)

StoreNext ==
  \/ \E g \in Goals : CreateGoal(g)
  \/ \E t \in Tasks : ByKernel(t)
  \/ \E t \in Tasks : ByControl(t)
  \/ \E t \in Tasks : \E token \in Issued(t), retryable \in BOOLEAN : FailTask(t, token, retryable)
  \/ \E t \in Tasks : \E token \in Issued(t), n \in 0..MaxPc, e \in Seen(t) :
       ByExecution(t, token, n, e)
  \/ \E t \in Tasks : \E token \in Issued(t), n \in 0..MaxPc, ev \in Events :
       \E e \in {NoEvent, ev} : ConsumeEventAndCheckpoint(t, token, ev, n, e)
  \/ \E S \in SUBSET Tasks : RequestTaskPreemption(S)
  \/ \E e \in Events : PublishEvent(e)
  \/ SweepEnd
  \/ RecoverOrphanedTasks
  \/ StoreCrash

StoreSpec == StoreInit /\ [][StoreNext]_storeVars

-----------------------------------------------------------------------------
(* What the store promises to every caller.                                *)

\* A lease token exists exactly while the task is RUNNING, and it is the one
\* issued by the newest claim.  Every UPDATE that leaves RUNNING must clear
\* it: failTask trusts the token alone to keep a late caller off a finished row.
LeaseMeansRunning ==
  \A t \in Tasks :
    /\ (status[t] = "RUNNING") <=> (lease[t] # 0)
    /\ lease[t] \in {0, attempt[t]}

\* A task that was let past BLOCKED has only succeeded dependencies, also
\* after it was paused, resumed, retried or recovered.
Started(t) ==
  \/ status[t] \in {"READY", "RUNNING", "WAITING", "SUCCEEDED"}
  \/ status[t] = "PAUSED" /\ pausedFrom[t] # "BLOCKED"

DependenciesFirst ==
  \A t \in Tasks : Started(t) => \A d \in DependsOn[t] : status[d] = "SUCCEEDED"

\* No event is slept through: a task that waits for a key has been handed
\* every event with that key addressed to it, whether the event came before
\* the subscription, after it, or while the task was paused.
NoLostWakeup ==
  \A t \in Tasks :
    status[t] = "WAITING" /\ waitKind[t] = "EVENT" => Queued(t, waitKey[t]) = {}

\* A verdict on a goal is the verdict on its tasks, and neither moves again.
VerdictIsFinal ==
  \A g \in Goals : goal[g] \in {"SUCCEEDED", "FAILED"} =>
    /\ \A t \in TasksOf(g) : status[t] \in Terminal
    /\ goal[g] = "SUCCEEDED" <=> \A t \in TasksOf(g) : status[t] = "SUCCEEDED"

\* No step takes a task out of SUCCEEDED, FAILED or CANCELLED: not a retry,
\* not a late failure of an older execution, not an event or a timer.
TerminalIsFinal ==
  [][\A t \in Tasks : status[t] \in Terminal => status'[t] = status[t]]_storeVars

\* Between two calls, in a process that has not crashed, a goal with
\* unfinished tasks has one that can still move: the pass over the blocked
\* dependents misses none that a failure, a cancellation or a late resume
\* should have reached.
ActiveGoalCanMove ==
  Quiet /\ crashes = 0 => \A g \in Goals :
    (\E t \in TasksOf(g) : status[t] \notin Terminal \cup {"NONE"}) =>
      \E t \in TasksOf(g) : status[t] \in {"READY", "RUNNING", "WAITING", "PAUSED"}
=============================================================================
