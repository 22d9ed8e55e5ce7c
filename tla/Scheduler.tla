----------------------------- MODULE Scheduler -----------------------------
(***************************************************************************)
(* src/src/runtime/scheduler.js and workflow-engine.js over the rows of    *)
(* TaskStore: the drain that claims READY tasks, the executions that walk  *)
(* a workflow step by step, what happens when one throws, is signalled or  *)
(* outlives its lease, the tick, the operator's controls, and the end of   *)
(* the process, orderly or not.                                            *)
(*                                                                         *)
(* One event loop runs everything.  An execution holds it from the claim   *)
(* to the next awaited action and again from there on; only while every    *)
(* execution is waiting for an action may a tick, a drain, another         *)
(* execution or the operator come in (LoopFree).  A crash may come at any  *)
(* moment.  Time is not modelled: a due date is a choice of the            *)
(* environment.                                                            *)
(***************************************************************************)
EXTENDS TaskStore, Sequences

CONSTANTS
  Workflow,        \* [Tasks -> Seq(Step)]: tasks.workflow_json
  DoneEvent,       \* [Goals -> Events]: the goal.completed event of a goal
  External,        \* the events that come from outside
  Clash,           \* pairs of tasks whose goals declare conflicting resource claims
  Refusable,       \* tasks the Resource Kernel may refuse for good
  Budgeted,        \* tasks whose execution may run out of wall time
  Operator,        \* the controls in use: a subset of {"pause", "cancel", "preempt"}
  MaxConcurrency,  \* kernel.maxConcurrency
  MaxSteps,        \* maxStepsPerTurn
  MaxLapses,       \* bound: how many leases expire under a live execution
  MaxControls,     \* bound: how many controls the operator issues
  MaxStops         \* bound: how often the scheduler is stopped

Ops == {"local", "call", "delay", "await", "emit", "complete"}
Outcomes == {"value", "timer", "event", "plain", "limit", "denied"}
Step == [op : Ops,
         key : Keys \cup {NoKey},       \* what an await waits for, or a call may wait for
         timed : BOOLEAN,               \* that wait has a deadline
         event : Events \cup {NoEvent}, \* what an emit publishes
         may : SUBSET Outcomes,         \* how a call may end
         child : Goals \cup {NoGoal}]   \* the goal a call of spawn_goals creates

\* A step that waits for an event names it, and so does one that publishes.
ASSUME WorkflowAssumption ==
  /\ Workflow \in [Tasks -> Seq(Step)]
  /\ \A t \in Tasks : Len(Workflow[t]) <= MaxPc
  /\ \A t \in Tasks : \A i \in DOMAIN Workflow[t] :
       LET s == Workflow[t][i]
       IN  /\ s.op = "await" \/ "event" \in s.may => s.key \in Keys
           /\ s.op = "emit" => s.event \in Events
  /\ DoneEvent \in [Goals -> Events]
  /\ External \subseteq Events

ASSUME SchedulerAssumption ==
  /\ Clash \subseteq Tasks \X Tasks
  /\ \A pair \in Clash : <<pair[2], pair[1]>> \in Clash
  /\ Refusable \subseteq Tasks /\ Budgeted \subseteq Tasks
  /\ MaxConcurrency \in Nat \ {0} /\ MaxSteps \in Nat \ {0}
  /\ MaxLapses \in Nat /\ MaxControls \in Nat /\ MaxStops \in Nat

VARIABLES
  proc,         \* "down", "up", "stopping", "stopped"
  runs,         \* the executions alive in the process
  active,       \* scheduler.active
  controller,   \* scheduler.controllers: whose signal the task id leads to, 0 for none
  inFlight,     \* scheduler.inFlight: whose promise the task id leads to, 0 for none
  awaited,      \* the promises stop() is waiting for
  drainQueued,  \* scheduler.drainQueued
  batch,        \* the candidates a drain in progress has yet to look at
  held,         \* tasks whose resource claims are HELD
  lapses, controls, stops,
  used          \* history: the events each task's steps have consumed, in order

memoryVars == <<runs, active, controller, inFlight, awaited, drainQueued, batch>>
faultVars == <<lapses, controls, stops>>
vars == <<storeVars, proc, memoryVars, held, faultVars, used>>

\* n, p: pc and pendingEvent of the snapshot in memory.  quantum: loop
\* iterations of this turn.  signal: why its AbortSignal fired.
Run == [task : Tasks, token : Nat, n : 0..MaxPc, p : Events \cup {NoEvent},
        quantum : 0..MaxSteps,
        phase : {"turn", "emitted", "call", "thrown", "ended", "settling", "settled"},
        signal : {"none", "control", "limit"},
        error : {"none", "plain", "limit", "denied"}]

TypeOK ==
  /\ StoreTypeOK
  /\ proc \in {"down", "up", "stopping", "stopped"}
  /\ runs \subseteq Run
  /\ active \subseteq Tasks
  /\ controller \in [Tasks -> Nat]
  /\ inFlight \in [Tasks -> Nat]
  /\ awaited \subseteq Tasks \X Nat
  /\ drainQueued \in BOOLEAN
  /\ batch \subseteq Tasks
  /\ held \subseteq Tasks
  /\ lapses \in 0..MaxLapses /\ controls \in 0..MaxControls /\ stops \in 0..MaxStops
  /\ used \in [Tasks -> Seq(Events)]

ClearMemory ==
  /\ runs' = {}
  /\ active' = {}
  /\ controller' = [t \in Tasks |-> 0]
  /\ inFlight' = [t \in Tasks |-> 0]
  /\ awaited' = {}
  /\ drainQueued' = FALSE
  /\ batch' = {}

Init ==
  /\ StoreInit
  /\ proc = "down"
  /\ runs = {} /\ active = {}
  /\ controller = [t \in Tasks |-> 0]
  /\ inFlight = [t \in Tasks |-> 0]
  /\ awaited = {}
  /\ drainQueued = FALSE
  /\ batch = {}
  /\ held = {}
  /\ lapses = 0 /\ controls = 0 /\ stops = 0
  /\ used = [t \in Tasks |-> << >>]

-----------------------------------------------------------------------------

Steps(r) == Workflow[r.task]
Here(r) == Steps(r)[r.n + 1]
Fresh(r) == Holds(r.task, r.token)
InLoop(r) == r.phase \in {"turn", "emitted"}

\* Nothing is in the middle of a synchronous stretch.
Yielded == Quiet /\ \A r \in runs : ~InLoop(r)
Resolved == {r \in runs : r.phase = "settled"}
\* Faulty: the drain gives the loop away between two candidates.
BadLoopFree == Yielded /\ Resolved = {}
LoopFree == Yielded /\ batch = {} /\ Resolved = {}

\* No promise reaction or queued drain is pending either: only then does the
\* event loop turn to a timer, a request or a signal of the process.
Idle == LoopFree /\ ~drainQueued /\ \A r \in runs : r.phase = "call"

\* requestDrain(): ignored unless the scheduler is started and not stopping.
RequestDrain == drainQueued' = (drainQueued \/ proc = "up")

Replace(r, s) == runs' = (runs \ {r}) \cup {s}

\* Of an execution that has returned, nobody looks at the memory again.
Leave(r) ==
  Replace(r, [task |-> r.task, token |-> r.token, n |-> 0, p |-> NoEvent, quantum |-> 0,
              phase |-> "ended", signal |-> "none", error |-> "none"])
Advance(r, p) == Replace(r, [r EXCEPT !.phase = "turn", !.n = @ + 1, !.p = p, !.quantum = @ + 1])

\* signalTask(): the signal of whichever execution the id leads to.
Signalled(S) ==
  {IF r.task \in S /\ r.token = controller[r.task] /\ r.signal = "none"
   THEN [r EXCEPT !.signal = "control"] ELSE r : r \in runs}

\* The methods that take a token do nothing when it is not the current one.
IfFresh(r, Write) == IF Fresh(r) THEN Write ELSE UNCHANGED storeVars

SchedulerRest == <<proc, active, controller, inFlight, awaited, batch, held, faultVars>>

-----------------------------------------------------------------------------
(* The drain.                                                              *)

Ready == {t \in Tasks : status[t] = "READY"}

\* getReadyTasks returns at most twice the free capacity; which tasks are due
\* and how the rest is ordered is left open.
Drain ==
  /\ LoopFree
  /\ drainQueued
  /\ drainQueued' = FALSE
  /\ LET capacity == MaxConcurrency - Cardinality(active)
     IN  batch' \in IF capacity <= 0 THEN {{}}
                    ELSE IF Cardinality(Ready) <= 2 * capacity THEN {Ready}
                    ELSE {S \in SUBSET Ready : Cardinality(S) = 2 * capacity}
  /\ runs' = {IF r.phase = "settling" THEN [r EXCEPT !.phase = "settled"] ELSE r : r \in runs}
  /\ UNCHANGED <<storeVars, proc, active, controller, inFlight, awaited, held,
                 faultVars, used>>

DrainFull == Cardinality(active) >= MaxConcurrency
Blocking(t) == {u \in held \ {t} : <<t, u>> \in Clash}

DrainBreak ==
  /\ batch # {} /\ Yielded
  /\ DrainFull
  /\ batch' = {}
  /\ UNCHANGED <<storeVars, proc, runs, active, controller, inFlight, awaited,
                 drainQueued, held, faultVars, used>>

\* Not due, over a daily quota, or in conflict with a held claim: the task
\* keeps its status and gets a later next_run_at.
DrainDefer(t) ==
  /\ t \in batch /\ Yielded /\ ~DrainFull
  /\ batch' = batch \ {t}
  /\ UNCHANGED <<storeVars, proc, runs, active, controller, inFlight, awaited,
                 drainQueued, held, faultVars, used>>

\* failTask is given the id of the candidate and no token.
DrainRefuse(t) ==
  /\ t \in batch /\ Yielded /\ ~DrainFull
  /\ t \in Refusable
  /\ FailRow(t, FALSE)
  /\ batch' = batch \ {t}
  /\ UNCHANGED <<proc, runs, active, controller, inFlight, awaited, drainQueued, held,
                 faultVars, used>>

HasClaims(t) == \E pair \in Clash : pair[1] = t

DrainClaim(t) ==
  /\ t \in batch /\ Yielded /\ ~DrainFull
  /\ Blocking(t) = {}
  /\ Claim(t)
  /\ held' = IF HasClaims(t) THEN held \cup {t} ELSE held
  /\ active' = active \cup {t}
  /\ controller' = [controller EXCEPT ![t] = lease'[t]]
  /\ inFlight' = [inFlight EXCEPT ![t] = lease'[t]]
  /\ runs' = runs \cup {[task |-> t, token |-> lease'[t], n |-> pc[t], p |-> pend[t],
                         quantum |-> 0, phase |-> "turn", signal |-> "none",
                         error |-> "none"]}
  /\ batch' = batch \ {t}
  /\ UNCHANGED <<proc, awaited, drainQueued, faultVars, used>>

-----------------------------------------------------------------------------
(* executeTurn: one action per branch of the loop.                         *)

TurnYields(r) ==
  /\ r.phase = "turn" /\ Quiet
  /\ r.quantum = MaxSteps
  /\ IfFresh(r, YieldTask(r.task, r.token, r.n, r.p))
  /\ Leave(r)
  /\ UNCHANGED <<SchedulerRest, drainQueued, used>>

AtTop(r) == r.phase = "turn" /\ Quiet /\ r.quantum < MaxSteps

TurnLostLease(r) ==
  /\ AtTop(r)
  /\ ~Fresh(r)
  /\ Leave(r)
  /\ UNCHANGED <<storeVars, SchedulerRest, drainQueued, used>>

\* The three controls, in the order in which they are looked at.
TurnControlled(r) ==
  /\ AtTop(r) /\ Fresh(r)
  /\ r.task \in cancelReq \cup pauseReq \cup preemptReq
  /\ IF r.task \in cancelReq THEN CancelRunningTask(r.task, r.token, r.n, r.p)
     ELSE IF r.task \in pauseReq THEN PauseRunningTask(r.task, r.token, r.n, r.p)
     ELSE PreemptRunningTask(r.task, r.token, r.n, r.p)
  /\ Leave(r)
  /\ UNCHANGED <<SchedulerRest, drainQueued, used>>

Unhindered(r) ==
  /\ AtTop(r) /\ Fresh(r)
  /\ r.task \notin cancelReq \cup pauseReq \cup preemptReq

TurnAborts(r) ==
  /\ Unhindered(r) /\ r.signal # "none"
  /\ Replace(r, [r EXCEPT !.phase = "thrown",
                          !.error = IF r.signal = "limit" THEN "limit" ELSE "plain"])
  /\ UNCHANGED <<storeVars, SchedulerRest, drainQueued, used>>

AtStep(r, op) ==
  /\ Unhindered(r) /\ r.signal = "none"
  /\ r.n < Len(Steps(r)) /\ Here(r).op = op

TurnFinishes(r) ==
  /\ Unhindered(r) /\ r.signal = "none"
  /\ r.n = Len(Steps(r))
  /\ CompleteTask(r.task, r.token, r.n, r.p)
  /\ Leave(r)
  /\ UNCHANGED <<SchedulerRest, drainQueued, used>>

StepComplete(r) ==
  /\ AtStep(r, "complete")
  /\ CompleteTask(r.task, r.token, r.n + 1, r.p)
  /\ Leave(r)
  /\ UNCHANGED <<SchedulerRest, drainQueued, used>>

\* record and set.
StepLocal(r) ==
  /\ AtStep(r, "local")
  /\ CheckpointTask(r.task, r.token, r.n + 1, r.p)
  /\ Advance(r, r.p)
  /\ UNCHANGED <<SchedulerRest, drainQueued, used>>

StepDelay(r) ==
  /\ AtStep(r, "delay")
  /\ WaitForTimer(r.task, r.token, r.n + 1, r.p)
  /\ Leave(r)
  /\ UNCHANGED <<SchedulerRest, drainQueued, used>>

\* The pending event if it is the one awaited, else the oldest in the queue.
Matches(r) == r.p # NoEvent /\ KeyOf[r.p] = Here(r).key
Incoming(r, e) ==
  IF Matches(r) THEN e = r.p ELSE IsOldest(e, Queued(r.task, Here(r).key))

Consumed(t, e) == used' = [used EXCEPT ![t] = Append(@, e)]

StepAwaitTakes(r) ==
  /\ AtStep(r, "await")
  /\ \E e \in Events :
       /\ Incoming(r, e)
       /\ ConsumeEventAndCheckpoint(r.task, r.token, e, r.n + 1, NoEvent)
       /\ Consumed(r.task, e)
  /\ Advance(r, NoEvent)
  /\ UNCHANGED <<SchedulerRest, drainQueued>>

StepAwaitWaits(r) ==
  /\ AtStep(r, "await")
  /\ ~Matches(r)
  /\ WaitForEvent(r.task, r.token, r.n, r.p, Here(r).key, Here(r).timed)
  /\ Leave(r)
  /\ UNCHANGED <<SchedulerRest, drainQueued, used>>

\* Publication under the key of the step, then the checkpoint: two commits.
PublishOnce(e) == IF published[e] = 0 THEN PublishEvent(e) ELSE UNCHANGED storeVars

StepEmits(r) ==
  /\ AtStep(r, "emit")
  /\ PublishOnce(Here(r).event)
  /\ Replace(r, [r EXCEPT !.phase = "emitted"])
  /\ RequestDrain
  /\ UNCHANGED <<SchedulerRest, used>>

StepEmitted(r) ==
  /\ r.phase = "emitted" /\ Quiet
  /\ CheckpointTask(r.task, r.token, r.n + 1, r.p)
  /\ Advance(r, r.p)
  /\ UNCHANGED <<SchedulerRest, drainQueued, used>>

StepCalls(r) ==
  /\ AtStep(r, "call")
  /\ Replace(r, [r EXCEPT !.phase = "call"])
  /\ UNCHANGED <<storeVars, SchedulerRest, drainQueued, used>>

\* The tool spawn_goals submits its child, unless an earlier execution of the
\* same call did, waits while the child is pending, and then returns.  The
\* child may end between the look at it and the wait; then its event is there.
Spawns(r) ==
  /\ r.phase = "call" /\ LoopFree
  /\ Here(r).child # NoGoal
  /\ CreateGoal(Here(r).child)
  /\ RequestDrain
  /\ UNCHANGED <<SchedulerRest, runs, used>>

ChildAllows(r, outcome) ==
  LET g == Here(r).child
  IN  g # NoGoal =>
        /\ outcome = "value" => goal[g] \in {"SUCCEEDED", "FAILED"}
        /\ outcome = "event" => goal[g] = "ACTIVE" \/ Queued(r.task, Here(r).key) # {}

\* How the awaited action ends.  The lease was not looked at meanwhile.
CallEnds(r, outcome) ==
  /\ r.phase = "call" /\ LoopFree
  /\ outcome \in Here(r).may
  /\ ChildAllows(r, outcome)

\* The action got the pending event as its resumeEvent, and it leaves the
\* snapshot when the action settles without an error.
Answered(r) == IF Fresh(r) /\ r.p # NoEvent THEN Consumed(r.task, r.p) ELSE UNCHANGED used

\* Saved with a plain checkpoint or, when the snapshot the turn started from
\* had a pending event, together with a delivery row that exists already.
CallReturns(r) ==
  /\ CallEnds(r, "value")
  /\ IfFresh(r, CheckpointTask(r.task, r.token, r.n + 1, NoEvent))
  /\ Answered(r)
  /\ Advance(r, NoEvent)
  /\ UNCHANGED <<SchedulerRest, drainQueued>>

CallWaitsForTimer(r) ==
  /\ CallEnds(r, "timer")
  /\ IfFresh(r, WaitForTimer(r.task, r.token, r.n, NoEvent))
  /\ Answered(r)
  /\ Leave(r)
  /\ UNCHANGED <<SchedulerRest, drainQueued>>

\* The event is there already: it becomes pending and the call is made again.
CallTakesQueued(r) ==
  /\ CallEnds(r, "event")
  /\ \E e \in Events :
       /\ IsOldest(e, Queued(r.task, Here(r).key))
       /\ IfFresh(r, ConsumeEventAndCheckpoint(r.task, r.token, e, r.n, e))
       /\ Replace(r, [r EXCEPT !.phase = "turn", !.p = e, !.quantum = @ + 1])
  /\ Answered(r)
  /\ UNCHANGED <<SchedulerRest, drainQueued>>

CallWaitsForEvent(r) ==
  /\ CallEnds(r, "event")
  /\ Queued(r.task, Here(r).key) = {}
  /\ IfFresh(r, WaitForEvent(r.task, r.token, r.n, NoEvent, Here(r).key, Here(r).timed))
  /\ Answered(r)
  /\ Leave(r)
  /\ UNCHANGED <<SchedulerRest, drainQueued>>

\* An action throws an error of its own, or the reason of its signal.
CallThrows(r, error) ==
  /\ r.phase = "call" /\ LoopFree
  /\ \/ error \in Here(r).may
     \/ r.signal = "control" /\ error = "plain"
     \/ r.signal = "limit" /\ error = "limit"
  /\ Replace(r, [r EXCEPT !.phase = "thrown", !.error = error])
  /\ UNCHANGED <<storeVars, SchedulerRest, drainQueued, used>>

BudgetExpires(r) ==
  /\ r.phase = "call" /\ Idle
  /\ r.task \in Budgeted /\ r.signal = "none"
  /\ Replace(r, [r EXCEPT !.signal = "limit"])
  /\ UNCHANGED <<storeVars, SchedulerRest, drainQueued, used>>

-----------------------------------------------------------------------------
(* runTask: the catch and the finally.                                     *)

\* Faulty: an execution that was signalled leaves its row to whoever signalled.
BadCaught(r) ==
  IF r.signal # "none" /\ status[r.task] = "RUNNING" THEN UNCHANGED storeVars
  ELSE IfFresh(r, FailTask(r.task, r.token, r.error \notin {"limit", "denied"}))

\* The controls are read from the row, whoever runs it by now; the writes
\* carry this execution's own token.
Caught(r) ==
  LET t == r.task
  IN  IF r.signal # "none" /\ status[t] = "RUNNING"
      THEN IF t \in cancelReq THEN IfFresh(r, CancelRunningTask(t, r.token, pc[t], pend[t]))
           ELSE IF t \in pauseReq THEN IfFresh(r, PauseRunningTask(t, r.token, pc[t], pend[t]))
           ELSE IF t \in preemptReq THEN IfFresh(r, PreemptRunningTask(t, r.token, pc[t], pend[t]))
           ELSE IfFresh(r, FailTask(t, r.token, r.error # "limit"))
      ELSE IfFresh(r, FailTask(t, r.token, r.error \notin {"limit", "denied"}))

RunCatches(r) ==
  /\ r.phase = "thrown" /\ LoopFree
  /\ Caught(r)
  /\ Leave(r)
  /\ UNCHANGED <<SchedulerRest, drainQueued, used>>

\* Faulty: only a success is announced.
BadEnded(g) == goal[g] = "SUCCEEDED"
Ended(g) == goal[g] \in {"SUCCEEDED", "FAILED"}

\* Everything in the finally goes by the id of the task.  It queues a drain
\* before the promise of the execution is resolved, and so the drain comes
\* before the reaction to that promise.
RunEnds(r) ==
  LET t == r.task
  IN  /\ r.phase = "ended" /\ LoopFree
      /\ Replace(r, [r EXCEPT !.phase = IF proc = "up" THEN "settling" ELSE "settled"])
      /\ active' = active \ {t}
      /\ controller' = [controller EXCEPT ![t] = 0]
      /\ held' = held \ {t}
      /\ IF Ended(GoalOf[t]) THEN PublishOnce(DoneEvent[GoalOf[t]])
         ELSE UNCHANGED storeVars
      /\ RequestDrain
      /\ UNCHANGED <<proc, inFlight, awaited, batch, faultVars, used>>

\* The reaction: also by the id of the task, whoever runs it by now.  It stands
\* right behind that drain; what the queue may hold in between does not touch
\* inFlight, and the model lets the reaction come first.
RunSettles(r) ==
  /\ r \in Resolved /\ Yielded /\ batch = {}
  /\ runs' = runs \ {r}
  /\ inFlight' = [inFlight EXCEPT ![r.task] = 0]
  /\ UNCHANGED <<storeVars, proc, active, controller, awaited, drainQueued, batch, held,
                 faultVars, used>>

-----------------------------------------------------------------------------
(* The tick.  A tick that touches several rows is several of these.        *)

\* releaseStaleResourceClaims and requestDrain end every tick.
TickEnds ==
  /\ held' = {t \in held : status'[t] = "RUNNING"}
  /\ RequestDrain
  /\ UNCHANGED <<proc, runs, active, controller, inFlight, awaited, batch,
                 controls, stops, used>>

Tick == proc = "up" /\ Idle

TickIdle ==
  /\ Tick
  /\ UNCHANGED <<storeVars, lapses>>
  /\ TickEnds

TickLeaseExpired(t) ==
  /\ Tick
  /\ lapses < MaxLapses
  /\ lapses' = lapses + 1
  /\ RecoverExpiredLease(t)
  /\ TickEnds

TickTimer(t) ==
  /\ Tick
  /\ WakeDueTimer(t)
  /\ UNCHANGED lapses
  /\ TickEnds

TickWaitExpired(t) ==
  /\ Tick
  /\ ExpireEventWait(t)
  /\ UNCHANGED lapses
  /\ TickEnds

-----------------------------------------------------------------------------
(* The operator, other producers of events, interrupts.                    *)

Alive == proc # "down" /\ LoopFree

Children == UNION {{Workflow[t][i].child : i \in DOMAIN Workflow[t]} : t \in Tasks}

Submit(g) ==
  /\ Alive
  /\ g \notin Children
  /\ CreateGoal(g)
  /\ RequestDrain
  /\ UNCHANGED <<SchedulerRest, runs, used>>

Arrive(e) ==
  /\ Alive
  /\ e \in External
  /\ PublishEvent(e)
  /\ RequestDrain
  /\ UNCHANGED <<SchedulerRest, runs, used>>

Control(kind) ==
  /\ proc # "down" /\ Idle
  /\ kind \in Operator
  /\ controls < MaxControls
  /\ controls' = controls + 1
  /\ UNCHANGED <<proc, active, controller, inFlight, awaited, batch, held, lapses, stops, used>>

OperatorPauses(t) ==
  /\ Control("pause")
  /\ PauseTask(t)
  /\ runs' = Signalled({t})
  /\ RequestDrain

OperatorCancels(t) ==
  /\ Control("cancel")
  /\ CancelTask(t)
  /\ runs' = Signalled({t})
  /\ RequestDrain

InterruptPreempts(t) ==
  /\ Control("preempt")
  /\ status[t] = "RUNNING"
  /\ RequestTaskPreemption({t})
  /\ runs' = Signalled({t})
  /\ UNCHANGED drainQueued

OperatorResumes(t) ==
  /\ proc # "down" /\ Idle
  /\ \E due \in BOOLEAN : ResumeTask(t, due)
  /\ RequestDrain
  /\ UNCHANGED <<SchedulerRest, runs, used>>

-----------------------------------------------------------------------------
(* The life of the process.                                                *)

\* start(): also after a stop in the same process, when the supervisor
\* launches the next generation of the service.
Start ==
  /\ proc \in {"down", "stopped"} /\ LoopFree
  /\ RecoverOrphanedTasks
  /\ held' = {}
  /\ proc' = "up"
  /\ drainQueued' = TRUE
  /\ awaited' = {}
  /\ UNCHANGED <<runs, active, controller, inFlight, batch, faultVars, used>>

Stop ==
  /\ proc = "up" /\ Idle
  /\ stops < MaxStops
  /\ stops' = stops + 1
  /\ proc' = "stopping"
  /\ RequestTaskPreemption(active)
  /\ runs' = Signalled(active)
  /\ awaited' = {<<t, inFlight[t]>> : t \in {u \in Tasks : inFlight[u] # 0}}
  /\ UNCHANGED <<active, controller, inFlight, drainQueued, batch, held, lapses, controls, used>>

Stopped ==
  /\ proc = "stopping" /\ LoopFree
  /\ \A r \in runs : <<r.task, r.token>> \notin awaited
  /\ proc' = "stopped"
  /\ UNCHANGED <<storeVars, memoryVars, held, faultVars, used>>

Crash ==
  /\ proc # "down"
  /\ StoreCrash
  /\ proc' = "down"
  /\ ClearMemory
  /\ UNCHANGED <<held, faultVars, used>>

-----------------------------------------------------------------------------

Turn(r) ==
  \/ TurnYields(r) \/ TurnLostLease(r) \/ TurnControlled(r) \/ TurnAborts(r) \/ TurnFinishes(r)
  \/ StepComplete(r) \/ StepLocal(r) \/ StepDelay(r)
  \/ StepAwaitTakes(r) \/ StepAwaitWaits(r)
  \/ StepEmits(r) \/ StepEmitted(r) \/ StepCalls(r)

CallSettles(r) ==
  \/ Spawns(r) \/ CallReturns(r) \/ CallWaitsForTimer(r) \/ CallTakesQueued(r) \/ CallWaitsForEvent(r)
  \/ \E error \in {"plain", "limit", "denied"} : CallThrows(r, error)

Sweep ==
  /\ \/ \E t \in Tasks : SweepRow(t)
     \/ SweepEnd
  /\ UNCHANGED <<proc, memoryVars, held, faultVars, used>>

\* What the event loop has in hand: the rest of a synchronous stretch, a
\* queued drain, the reactions to settled promises.
LoopStep ==
  \/ Sweep \/ Drain \/ DrainBreak
  \/ \E t \in Tasks : DrainDefer(t) \/ DrainRefuse(t) \/ DrainClaim(t)
  \/ \E r \in runs : Turn(r) \/ RunCatches(r) \/ RunEnds(r) \/ RunSettles(r)

Next ==
  \/ LoopStep
  \/ \E r \in runs : CallSettles(r) \/ BudgetExpires(r)
  \/ TickIdle
  \/ \E t \in Tasks : TickLeaseExpired(t) \/ TickTimer(t) \/ TickWaitExpired(t)
  \/ \E g \in Goals : Submit(g)
  \/ \E e \in Events : Arrive(e)
  \/ \E t \in Tasks : OperatorPauses(t) \/ OperatorCancels(t) \/ InterruptPreempts(t)
                      \/ OperatorResumes(t)
  \/ Start \/ Stop \/ Stopped \/ Crash

Spec == Init /\ [][Next]_vars

\* The loop runs what is queued; an action settles, in the end with an error
\* when its signal fired; timers fire; the supervisor starts the scheduler
\* again.  A candidate that the drain may defer now and then is due and within
\* its quota in the end.  Nothing is assumed of the operator, of interrupts,
\* of outside events, of leases, and of crashes.
Of(t, A(_)) == \E r \in runs : r.task = t /\ A(r)

Fairness ==
  /\ WF_vars(LoopStep)
  /\ WF_vars(Start \/ Stopped)
  /\ SF_vars(TickIdle)
  /\ \A t \in Tasks :
       /\ SF_vars(DrainClaim(t))
       /\ SF_vars(Of(t, CallSettles))
       /\ SF_vars(TickTimer(t) \/ TickWaitExpired(t))

FairSpec == Spec /\ Fairness

-----------------------------------------------------------------------------
(* Properties.                                                             *)

\* The drain and the executions, the tick and the controls use the rows only
\* in the ways the store was written for.  In particular the drain refuses a
\* candidate it read earlier, without a token, while it is still READY.
ImplementsStore == StoreSpec

\* A RUNNING task has a live execution that holds its lease, unless the
\* process is down: no path through the turn, the catch and the finally
\* leaves a claimed row to which nobody will return.
RunningHasRun ==
  proc # "down" => \A t \in Tasks : status[t] = "RUNNING" =>
    \E r \in runs : r.task = t /\ Fresh(r) /\ r.phase \in {"turn", "emitted", "call", "thrown"}

\* An event is handed to a task at most once: it is recorded as delivered,
\* and then it is either attached to the saved snapshot or was used by one
\* step, never both and never neither, whatever crashed, expired or retried.
Uses(t, e) == Cardinality({i \in DOMAIN used[t] : used[t][i] = e})
EventsHandledOnce ==
  \A t \in Tasks, e \in Events :
    Uses(t, e) + (IF pend[t] = e THEN 1 ELSE 0) = (IF <<e, t>> \in delivered THEN 1 ELSE 0)

\* A task uses the events of one key in the order of their publication.
UsedInOrder ==
  \A t \in Tasks : \A i, j \in DOMAIN used[t] :
    i < j /\ KeyOf[used[t][i]] = KeyOf[used[t][j]] =>
      published[used[t][i]] < published[used[t][j]]

\* No step takes a task back to an earlier point of its workflow: not a
\* restart, and not an execution that has lost its lease and returns late.
NoLostProgress == [][\A t \in Tasks : pc'[t] >= pc[t]]_vars

\* Two executions of tasks with conflicting resource claims are never alive
\* at the same time (between two synchronous stretches).
ClaimsExclusive ==
  Idle => \A r, s \in runs : <<r.task, s.task>> \notin Clash

\* Whenever the loop is idle, no task is asleep until the end of a goal that
\* has ended: spawn_goals suspends a parent until goal.completed arrives.
WaitersAreWoken ==
  proc = "up" /\ Idle => \A t \in Tasks, g \in Goals :
    status[t] = "WAITING" /\ waitKind[t] = "EVENT" /\ waitKey[t] = KeyOf[DoneEvent[g]] =>
      goal[g] \notin {"SUCCEEDED", "FAILED"}

\* Once the goals that wait for one another exist, every one of them ends:
\* retries, preemptions, a full worker pool and a restart only delay it.
GoalsEnd ==
  (\A g \in Goals : goal[g] # "NONE") ~> (\A g \in Goals : goal[g] \in {"SUCCEEDED", "FAILED"})
=============================================================================
