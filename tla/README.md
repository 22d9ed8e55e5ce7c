# TLA+ specifications of the asynchronous agent runtime

The runtime keeps goals, their tasks and everything they wait for in one
SQLite file, and one Node.js process moves them: a scheduler claims ready
tasks, a workflow engine walks each of them step by step until it has to wait,
and a set of resident services wakes, interrupts, repairs and cleans up.  The
modules here are translated from `src/src/`; `PROJECT.json` maps every
definition to the lines it stands for.

    tlc -workers 2 -config store.cfg MCTaskStore
    tlapm TaskStore_proofs.tla

## 1. The system

| component | state | operations | talks to |
|---|---|---|---|
| Task store (`infra/store.js`) | rows of goals, tasks, events, deliveries, claims | claim, checkpoint, yield, wait, complete, fail, pause, resume, cancel, publish, recover, reconcile | everybody calls it, synchronously |
| Scheduler (`runtime/scheduler.js`) | active set, controllers, promises in flight, `drainQueued` | tick, drain, runTask, signal, start, stop | store, engine, resource kernel; the event bus and the control API ask it for a drain |
| Workflow engine (`runtime/workflow-engine.js`) | the snapshot of the turn in memory | one branch per kind of step | store, bus, actions |
| Event bus (`runtime/event-bus.js`) | none | publish, announce | store; wakes scheduler, plan repair, signals |
| Operation manager (`kernel/operation-manager.js`) | operations table, in-flight map | execute, reconcile, reconcileDue, compensate | tool handlers outside, pools, store |
| Resource kernel | contracts, usage ledger | admit, check before a call, record after it, authorise a fan-out | scheduler, agent turn, tools, submissions |
| Resource pools | a counter and a FIFO queue per pool | run: acquire, drain, abort | tools, operations |
| Interrupt controller | interrupt rows | dispatch, reconcile | store, scheduler's signals |
| Supervisor, kernel daemon | service generations, kernel lease | start, pulse, launch, stop | starts and stops the scheduler and the reactors |
| Monitoring | monitor rows with leases and revisions | tick, poll, complete, fail | bus, sessions |
| Outbox and channels | outbox and inbound rows | send, retry, ingest, redeliver | outside, bus |
| I/O reactor (`system.js`) | the round it is at | tick the monitors, redeliver, reconcile, drain, run schedules | all of the four above |
| Plan repair | plan versions, assumptions; the repairs still to start, in memory | invalidate, start a repair, adopt its end, tell the parent's turn | bus, sessions, goals |
| Agent turn, approvals | the state of a suspended turn, approval rows | ask the model, call a tool, suspend, resume | tools, pools, resource and capability kernel, the operator |
| Sessions, schedules, child goals | sessions, messages, schedules | submit, spawn, purge | store, scheduler |
| Memory services | memories with their revisions, sync states, bundles | remember, confirm, retract, forget, export, import, push, pull | snapshot providers, other instances, the operator |

Everything runs on one event loop over a synchronous database, so a store
method is atomic with respect to the other parties.  What makes the system
hard is elsewhere:

* an execution holds a lease, awaits an action, and afterwards acts on what it
  read before: meanwhile the lease may have expired, the task may have been
  paused, cancelled, recovered, or claimed again by a second execution;
* the cleanup of an execution (`finally`) goes by the id of the task and not by
  the lease;
* completing or failing a task is several commits, and a crash may fall
  between them;
* events may come before the subscription, after it, or during a pause;
* side effects take place outside, time out with an unknown outcome, and are
  replayed; the call, a reactor and the operator work on one row;
* pauses, cancellations and preemptions are sticky flags that may meet any
  later execution;
* a turn that suspends is taken up by another execution, perhaps by two, with
  calls that were charged and approvals that were given to the first;
* a budget is checked before an await and used after it, by several parties;
* what an event has invalidated is kept in the memory of a promise, and the plan
  it concerns is changed in several commits;
* memories travel between instances through snapshots that land late, twice or
  not at all, and come back to where they started.

What has to hold, per component:

* store: a lease exists exactly while a task is RUNNING; finished tasks stay
  finished; nothing starts before its dependencies succeeded; verdicts on goals
  are final; no event is slept through; an active goal can move;
* scheduler and engine: no RUNNING task without an execution; events are used
  exactly once and in order; progress is never taken back by a late execution;
  conflicting claims are not held together; waiters are woken; goals end;
* operation manager: at most one effect per key, rows that tell the truth,
  compensation at most once and last, a housekeeping that goes on;
* pools: no place lost or doubled; outbox: every record delivered or given up,
  never forgotten; monitoring: every change published; supervisor: one
  generation per service and one kernel per database;
* agent turn: a tool that needs an approval starts only with one; every call is
  charged once; no turn hangs on an answer that was given;
* plan repair: one repair per invalidation and within the fan-out, no stale plan
  shown as current, and a parent that gets its revision;
* memories: nothing is active that nobody asked for or only an untrusted signer
  sent, nothing comes back as a copy of itself, and what was pushed arrives.

`PROJECT.json` lists all components with their status and, under `hazards`,
each of these at its line.

## 2. The modules

### TaskStore

The task, goal, event and delivery rows, with one action per store method.
`lease[t]` is the number of the claim that issued `lease_token`; `pc` and
`pend` are the two fields of the snapshot that decide what happens next
(`snapshot.pc`, `snapshot.pendingEvent`); `published[e]` is the event's place
in the order of `created_at`; `delivered` is the table `event_deliveries`.  An
event's topic and correlation key are one value.

The one thing that is not atomic is modelled as it is: `completeTask`,
`failTask`, `cancelTask`, `cancelRunningTask` and `resumeTask` commit their
UPDATE, then `reconcileBlocked` commits row by row, then `reconcileGoal`.  The
variable `sweep` is that pass in progress.  No other method may begin
meanwhile (`Quiet`: the stretch is synchronous) but the process may crash.

The module names no caller.  A holder of a token may use it at any later time
(`Issued` is every token ever issued), so every property of the module holds
whatever the rest of the process does.

### Scheduler

Extends TaskStore with the process: `runs` is the set of `runTask` calls that
are alive, each at a phase of its life:

| phase | where the execution is |
|---|---|
| `turn` | at the top of the loop of `executeTurn` |
| `emitted` | between the publication and the checkpoint of an `emit` |
| `call` | awaiting an action |
| `thrown` | `executeTurn` was rejected, the catch is to come |
| `ended` | the finally is to come |
| `settling`, `settled` | the promise is resolved; the reaction of `drain` that deletes the `inFlight` entry is to come |

One execution has the loop from the claim to the first await, and again from
there.  `LoopFree` says that nobody has it; `Idle` that no microtask is queued
either, which is when timers, requests and signals come in.  A drain is a
variable too (`batch`): the executions it starts run to their first await
before the next candidate is looked at.  The order "finally, queued drain,
reaction" is the one of the microtask queue.  `DrainDefer` stands for the
three reasons for which a READY task is not run now: it is not due, it is over
a quota, its claims conflict.  `controller` and `inFlight` map the id of a task
to the token of the run they belong to, so that a lookup by id that finds
another execution's entry is visible.

The environment may submit goals, publish the `External` events, issue the
`Operator`'s controls, let a lease expire under a live execution, let the wall
time run out, stop and start the scheduler (the supervisor does) and crash the
process.  `used` is a history variable: the events each task's steps consumed.

A parent that spawns a child and suspends on `goal.completed` is a step of kind
`call` with a `child`.

`ImplementsStore` is refinement: the scheduler, with its memory hidden, is
a caller TaskStore was written for.  This is not free, as DrainRefuse calls
`failTask` with a candidate read earlier and without a token.  A run checks it on
a small instance and section 5 proves it; with it the theorems about the store
hold in the scheduler.

### OperationManager

One row per idempotency key, the three parties that work on it (`exec`,
`manual`, `reactor`, each at the handler it awaits) and the outside world
(`effect`, `undone`).  The transition table is the one of
`transitionOperation`; an illegal transition throws, so it is the guard of the
action that would make it, except in the reactor, where throwing is an action
of its own because it ends the housekeeping round.  Tool handlers are external:
each may fail, time out, or say nothing, and an invocation that fails may or may
not have taken place.  What a handler does say is taken to be true, and to stay
so: an invocation that was given up does not land after its operation was found
absent.

### Supervisor

Several host processes on one database file.  A member of `Kernels` is one
process, so that a restart is another member.  `lease` is the row of
`kernel_leases`: its owner, and whether `expires_at` is still to come.  A run of
a service is identified like its row in `kernel_processes`, by process, name and
generation; `live` are the runs whose promise has not settled, `aborted` those
whose signal has fired, `silent` those whose last heartbeat is too old.  `entry`
is the supervisor's map of services and `timer` the relaunches that are due.
`shut` follows `system.stop()` of a process that was told to end, up to the
closing of the database.

The stop of a supervisor is in two steps, as in the code: `BeginStop` fires all
signals and ends the watchdog, so that nobody renews the lease any more, and
`StopFinishes` awaits the services, then releases it.  A shutdown that finds
such a stop under way does not wait for it (`ShutdownFindsStopping`).
`LeaseLapses` is time: for a process that has ended it always comes, for one
that is up it is a fault (a blocked event loop, a host that slept, a stop longer
than the lease), counted in `lapses`.  What a service does is not part of the
module; Scheduler's `Start` and `Stop` are what its service does.

### Monitoring

The rows of `monitors` and the calls of `run()` that are alive (`polls`), each
with the token and the state it was claimed with.  A state of what is outside is
a number that grows, so that an older observation can be told from a newer one.
`due` stands for `next_poll_at`, `expired` for `lease_expires_at`.  A tick
(`TickOn`) recovers lapsed leases and claims as many due monitors as `Capacity`
allows, in one stretch; a poll then awaits its sensor (`PollReads`), and what
it found is committed, announced and perhaps submitted (`PollFindsChange`) or
refused because its lease is gone (`PollRefused`).  `active` loses its entry by
the id of the monitor, whoever made it, as in the code.  `changes` is history:
what was taken into a row, whether told or not.

### Channels

The rows of `channel_messages` and of `outbox`, and the one drain that may be
under way: the rest of its batch, the row whose send it awaits, and whether the
adapter has handed that one over (`landed`; the call may still fail, in the
adapter or in the hook that follows it).  `announced` and `sends` count what has
happened outside the rows.  A message of `TooLong` is one that `ingest` accepts
and whose correlation key `publishEvent` refuses.

### Reactor

Extends both with the housekeeping round.  `round` is the stage the round is at;
monitors and inbound messages are one stretch without an await, the rest is
interleaved with everything else: the gateway, the polls, the listeners, time.
An error of a stage ends the round (`failed`) and the supervisor starts the next
one at the front.  Operations are one step here; what they do is
OperationManager's.  A schedule's `slot` numbers the values of `next_run_at`,
which are in the message id of its submission, so that a submission which was
repeated is told from a second one.  A crash may fall between any two commits
of one stretch: `CrashInPoll`, `CrashInIngest`, `CrashInSchedule`.

That the reactor implements MonitoringSpec and ChannelsSpec is proved (section
5), which is how the theorems about the two hold in it.

### ResourcePools and Semaphore

`Semaphore` is what a pool promises: a set of users inside, a set that wants to
be, never more inside than there are places, and a place that is given back goes
to somebody who waits in the same step.  `ResourcePools` is the code: a counter, a
queue, and per user the stand of its call of `run()`.  `granted` is the time
between the resolution of the promise in `acquire` and the reaction that starts
the operation; a signal that fires in it gives the place back without use
(`EnterAborted`).  `Places == INSTANCE Semaphore WITH held <- Inside, wanting <-
Waiting` is the refinement mapping, and `PoolIsSemaphore` its specification.

### Turns

Extends ResourcePools: the users of the pool are the executions of agent turns,
`<<turn, attempt>>`.  `row` is the part of the task's row and snapshot that a turn
can tell apart: its status, attempt and failures, the pending call, what that call
waits for, and the event it was given.  A call that is taken up may wait again, as
`spawn_goals` for its next child: `step` says at which of its waits the call is, `wait`
which one the row waits for, and each has an event of its own (`Keys`).  `run` are the executions alive, each at one
of its awaits:

| phase | where the execution is |
|---|---|
| `begin` | at the top of `run()` |
| `before`, `model` | awaiting the hook before the model call, and the model |
| `calls` | in the loop over the calls of a response |
| `hook`, `slot`, `tool` | in `ToolRegistry.execute`: awaiting the hook and the policy, the place in the pool, the tool |

A call is `<<turn, n>>`, the n-th that the model has asked for in this turn; `Tool`
says which kind of tool it names.  `charged`, `billed`, `spent` and `today` are the
usage ledger by the keys of its entries.  `Suspend` is `ActionControl.wait`
together with what `executeTurn` does with it, the event that is already in the
queue included.  Arguments that violate a tool's schema leave the turn as an error
(`ArgumentsRefused`, the check stands before the try of `execute`); all other
refusals are results that the model is told (`ToolRefused`).  The task rows are those of TaskStore reduced to what matters
here; the model, the tools, the hooks and the operator are external and may answer
in any way at any time.

### Repairs

An assumption belongs to the goal it was recorded for (`place`), a plan version to
the root or to a repair goal (`versions`).  A repair goal is named by what it
repairs, `<<assumption, event>>`, since the message id of its submission is made
of the two; a child of `spawn_goals` is named by its place in the call.  `stage` is
the synchronous stretch that is under way, and each of its actions is one commit:
`marking` and `stale` when an event invalidates assumptions, `ended`, `repaired`,
`superseded`, `revised` when a repair goal has ended.  `job` is what the service
keeps in memory.  The root's turn is there with its token, the notices in its
snapshot, and its executions with the copies they hold: what matters is that they
write the whole snapshot back.  `lost` and `missed` are history: what a fault, or a
turn that was running, has made the service forget.

### Memories

Several instances that exchange memories.  `rows[n]` are the memories of an
instance: its own ones by their id, imported ones by the record they came from,
which is what `memory.import:<digest>` names.  A record is an id, a revision and a
status.  Signatures, digests and the identity of a bundle are abstracted to
equality: a digest is its content, a signature says who made the bundle.  `sent`
are pushes on their way: one may land after its call has failed and after later
ones (`Lands`), or never (`IsLost`, when nobody waits for it).  `call` are the calls
of `push` and `pull` under way, at most one for the reactor and one for the
operator per instance and provider.  `Accepted` is what `importBundle` demands of the
signer of a remote bundle: trust, if the instance takes signed ones only
(`SignedOnly`) or the import activates.  The histories `wanted` and `refused` say
what the people in charge want, and do not look at that check: `Asks` counts an
import as wanted only if the operator has the bundle in hand or trusts its signer.

### Proofs

`TaskStore_proofs`, `Scheduler_proofs` (which extends it), `OperationManager_proofs`,
`Supervisor_proofs`, `Reactor_proofs` (with Monitoring and Channels), `Turns_proofs`
(with ResourcePools), `Repairs_proofs` and `Memories_proofs` hold the theorems of
section 5.  Each component has one type invariant.  Where it is proved, no run repeats it.

## 3. The runs

| run | instance | shows |
|---|---|---|
| `store` | chain of three tasks, a goal with a cycle, one event, one claim per task, one crash, pauses from READY, WAITING, BLOCKED | the promises of the store |
| `sched_core` | two goals, `emit` and `call` against `await`, `call`, `complete`; an outside event under the same key; turns of two steps; one lapsed lease | events of one key are used in the order of their publication |
| `sched_faults` | one task with a `call` and a timed `await`; one crash, stop, lapse, control; budget and refusal | no RUNNING task is left alone; events are handled once; no lost progress; TaskStore is implemented |
| `sched_ends` | parent waiting for a child of two tasks; one worker; retry, delay, preemption, restart | goals end and waiters are woken, under fairness |
| `ops` | one non-idempotent and one reconcilable operation, three calls, one crash | at most once; truthful rows; the housekeeping survives everything but a crash |
| `kernels` | two host processes, two services each; two services that fail or hang, one lease that expires under a live process, one crash | services never overlap, come back, and end before the database is closed |
| `reactor` | a monitor that submits goals, a message and one whose key is refused, a delivery with two attempts, a schedule of either kind; two arrivals and two troubles | every change told, one event per message, one goal per slot, truthful and final deliveries; under fairness the round reaches every stage and perception catches up |
| `turns` | two agent turns that share a pool of one place and a daily quota of three model calls: a call of the first may wait for two events one after the other, another needs an approval; the second waits for a timer and may be refused, its arguments too; one trouble, a revocation included | approvals bind, calls are charged once, model calls are billed, the quota is overdrawn by the overlap only, the pool is a semaphore; under fairness no turn hangs |
| `repairs` | two assumptions, two events, a call of `spawn_goals` that two executions make, fan-out of two; one fault | budgets hold, stale plans are not shown as current, notices stay; under fairness every invalidation is answered |
| `memories` | two instances with a memory each, a provider that one pushes to and the other, which trusts it, pulls and activates from; the first trusts nobody and takes unsigned bundles as candidates; three requests of operators and agents, one trouble | nothing unwanted or untrusted is active, nothing comes back as a copy; under fairness what is pushed arrives |
| `sched_claims` | two tasks with conflicting claims, no fault | a yield and an immediate second claim lose the claims (violation) |
| `ops_stuck` | as `ops` | a row left RECONCILING by a crash stops every later round (violation) |

Each property of a passing run has a mutant: a `Bad...` operator, placed before
the definition it replaces, that a plausible bug would write, and under which
TLC finds the property violated.

### Bounds

`MaxPc` bounds the workflow length, `MaxClaims` the executions per task,
`MaxCrashes`, `MaxLapses`, `MaxControls`, `MaxStops` the faults of each kind,
`MaxCalls` and `MaxReconciles` the calls and the operator's requests per
operation.  `PauseIn` and `Operator` are the parts of the operator in use.

* Three tasks in a chain are the least for which a pass has to carry something
  over two levels; one claim each is enough in `store` because a retry, a
  recovery and a wait already bring a task back to READY, and a stale token is
  one of an earlier claim or of a claim that was ended.  Stale tokens of an
  earlier claim against a newer one are what `sched_core` and `sched_faults` do.
* Two claims of one task are the least for a late execution to meet a newer one
  (`sched_faults`); three let the newer one end as well (`sched_core`).
* In `sched_ends` the bound `MaxClaims` is out of reach (nine claims, and what
  the faults allow is fewer), so that the bound does not cut the liveness.
* `sched_faults` takes one fault of each kind, in every order.  Its task makes
  its call first, so that the call can be interrupted while it holds an event.
* In `ops` the bound on attempts of the reactor is two and the operator asks up
  to three times, so that the operator can go on when the reactor has given up.
  The two kinds of operation are those whose repetition does harm; the theorems
  hold for all four.
* In `kernels` two troubles let a service fail while it is being replaced, or
  both services at once; one lapse and one crash meet any of them.  The second
  process is a rival as well as a successor.  Each process starts once, and every
  process may end, so the run may stop.

* In `reactor`, `MaxArrivals` counts what comes from outside (a change, a
  message, a delivery, a due slot), two of any kind, so that each kind meets
  each other and itself; `MaxTroubles` counts errors, lapsed leases, purges, what
  the operator does, and crashes together, so that two of any kind meet.
  `Attempts` is two where the code has five: a delivery can be retried and given
  up.  One monitor is enough, because monitors share only the capacity
  (two, so that a second poll of the same monitor can start); the theorems hold
  for any number.  A poll that could find nothing new is started by a trigger
  only.  The LIMITs of the queries (20 deliveries and schedules, 50 messages) are
  out of reach, and sessions of schedules are not purged, so that a slot's
  message is never deleted.
* In `turns`, a budget of two tool calls (`ToolLimit`) and a quota of three model
  calls (`DayLimit`) are both reached; `MaxRounds` is two where the code has eight,
  so that a turn can run out of iterations; with `MaxFailures` one an error ends a
  turn, and a retry is what a signal, a lapse or a crash brings.  A call may wait for
  two events (`MaxWaits`; `spawn_goals` has up to five children), the least with
  which a wait is not the first one; a timer once, as `sleep` does.  `MaxFaults` is
  one for crashes, lapses, signals, pauses and revocations together, of which only
  the first turn (`Disturbed`) loses a lease, is signalled or paused.  `MaxAttempts`
  is five: the two events, the approval and a fault of the first turn each bring one
  more claim than the first.  A model call asks for up to two tools.  One place in
  the pool is the least for which two turns queue.
* In `repairs`, two assumptions and two events let an event invalidate both, a
  second event find them answered or not, and repairs of one plan overlap; a fan-out
  of two lets one child of `spawn_goals` and one repair exhaust it, or two repairs.
  Two claims let a superseded execution live beside a newer one (`MaxClaims`).
  `MaxFaults` is one for a crash, a stop of the service, a lapse and a goal that
  ends without an event.
* In `memories`, `MaxRequests` is three: what is said in a circle (remember, export,
  import, and take back or confirm in between) needs as many beside the automatic
  pushes and pulls, which are not counted; `MaxTroubles` is one for a call that
  fails and a crash.  Two instances are the least for a record to return, and the
  properties do not speak of more than two at a time; the theorems hold for any
  number.  One trusts the other and not the reverse (`Trusts`), and only the one
  that trusts demands signatures (`SignedOnly`), so that bundles of a trusted and
  of an untrusted signer are met, and refused both for want of trust and for the
  activation only.

### Fairness

`FairSpec` of Scheduler assumes weak fairness of what the event loop has in
hand (`LoopStep`: the rest of a stretch, the queued drain, the reactions) and of
start and stop, strong fairness of the tick, of a candidate's claim, of the
settling of a task's action and of its timer.  Strong fairness stands for
"now and then it is not due, over its quota, or not looked at, but not for
ever": the tick is disabled whenever a microtask is queued, a candidate is in a
batch only for a moment.  The aging term of `getReadyTasks` (up to 30 points)
and the deadline term justify it for tasks whose priorities differ by no more
than that.  Nothing is assumed of the operator, of interrupts, of outside
events, of lapses or of crashes.

`FairSpec` of OperationManager assumes that an awaited handler settles (the
tools run under a signal and a timeout) and that the housekeeping timer goes on;
nobody has to call or to operate.

`FairSpec` of Supervisor assumes that the watchdog beats, that relaunch timers
fire, that a service whose signal has fired comes to its end (all six await the
signal, or look at it once per round), and that a stop with all services settled
goes on.  Nothing is assumed of starts, failures, silence, signals and lapses.

`FairSpec` of Reactor assumes that the round goes on (adapters, handlers and
submissions settle, the service is started again, as `ServicesComeBack` of
Supervisor says), that sensors settle, and that intervals, back-offs and leases
of the dead run out.  Nothing is assumed of arrivals and troubles; the bounds let
them end, and both liveness properties are about what comes after.

`FairSpec` of Turns assumes that something goes on as long as something can:
models and tools answer or are aborted (all run under a signal and a timeout),
timers fire, days end.  One weak fairness of all of it is enough, as a step that
can be taken is not taken back by the others.  The operator and the senders of
events owe nothing: `TurnsMove` allows a turn to wait for them, and excepts the wait
of section 4 that nobody can answer any more.

`FairSpec` of Repairs assumes that the event loop and the service go on, that
hooks answer, and that a repair goal ends, which its wall time enforces.

`FairSpec` of Memories assumes strong fairness of the beginning of an automatic
push and pull, because the other one, or the operator, may always be under way
when one is due, and weak fairness of the answer of a call and of the arrival of a
push that is waited for.  Operators, crashes and failing calls owe nothing and are
bounded.

## 4. What the violations show

The two violation runs each contradict a sentence of the repository;
`PROJECT.json` quotes them.  In short: the finally of an execution releases claims
by the id of the task (scheduler.js:155), while the drain that comes before it may
have claimed the task again; and a row found RECONCILING after a crash makes
`reconcileDue` throw in every round (operation-manager.js:148).

Some more disagreements were met and have no run.

**Store and scheduler.**  `reconcileBlocked` makes one pass in row order
(store.js:2014): with the rows of a chain against its dependencies a failure does
not reach the end of the chain, and `ActiveGoalCanMove` fails; `store` has them in
the order in which `createGoalWithTasks` is given them by the planner.  A task that
was paused while BLOCKED and whose dependency fails meanwhile is failed by
`resumeTask` when it is resumed, and leaves its goal ACTIVE (store.js:1942).
`goal.completed` is published by executions only (scheduler.js:158): a goal that is
cancelled, expires or is refused without an execution wakes nobody.
docs/architecture.md:64 says
that "an expiring singleton lease prevents two live daemons from controlling the
same database"; a process whose event loop was blocked for longer than the lease
keeps its services until its next pulse, beside those of its successor, which is
why `OneKernel`, `RowsShowTheLiving` and `StoreClosesLast` speak of `lapses`.  The state diagram of
docs/architecture.md:84-107 has no RUNNING to PAUSED, RUNNING to CANCELLED,
PAUSED to BLOCKED, BLOCKED to FAILED or BLOCKED to CANCELLED, all of which the
store makes.  Nobody uses
`assertTransition` (domain/states.js:31), nor writes the status CREATED of a task
and CANCELLED of a goal.

**Operations and the reactor.**  A row left COMPENSATING by a crash stays so, while docs/architecture.md:186 draws
"timeout or crash" as a way to COMPENSATION_UNCERTAIN; `CompensationShown` is
therefore stated for a process that lives on.  An inbound message whose account
and thread are long enough is accepted by `ingest` (256 characters each,
channels.js:51) and refused by `publishEvent` (256 for the three of them encoded,
store.js:1645): it stays PENDING, and every later round ends with its error
before operations, deliveries and schedules are reached, although
docs/architecture.md:192 says that operations are reconciled periodically and
deliveries retried; `ReactorServes` therefore speaks of `Refused`.  A crash
between the commit of an observation and its event loses the event, although the
next poll will not find the change again; `ChangesAreTold` allows one for each
crash.  `markScheduleRun` enables a recurring schedule that the operator has
disabled while its turn was under way.

**Agent turns.**  The calls of a response that come after one that suspends are
not looked at again; the model is asked anew and gives them new ids.  A tool that
needs an approval and then waits itself is pending as an approval all the while
(agent-turn.js:156-175).  A tool that waits again when it is taken up keeps in its
snapshot the topic and key of its first wait (agent-turn.js:91).  `spawn_goals` with
`waitForCompletion` and several children does so (system.js:540-546): paused while it
waits for the second child and resumed (store.js:1929-1940), its turn waits again for
the first one (agent-turn.js:222-227), whose event it has used.  The end of the second
child wakes nobody, and the turn waits for ever, as `goal.completed` has no deadline
there; `TurnsMove` excepts it (`Astray`).  When a suspended call finds its event in the queue, the
attempt starts its iterations over with the same keys, and the next model call
makes no entry in the ledger, against docs/architecture.md:130 and 134;
`BilledByAttempt` excepts these executions.  `recordToolCall` compares with the
limit before it recognises the key of a replayed call, and `admitTask` refuses a
goal at its limit: the last call a goal may make cannot be taken up again once it
has suspended.  Capabilities are compared before the place in the pool is awaited
and not again.  An approval that a superseded execution has asked for stays PENDING
after its turn is over.

**Plan repair.**  docs/architecture.md:252 says that an invalidation and the mark
on the plan happen atomically; they are two statements (store.js:1131), and a crash
in between leaves a plan CURRENT, which `StaleIsShown` excepts.  A repair that
completes makes its revision CURRENT also while another invalidation of the same
plan has no answer yet.  Events that come while the service is down are never
compared with assumptions.  A repair goal that is cancelled leaves its version
REPAIRING.  A parent whose turn is running when its plan is revised gets no notice
(store.js:1015; `missed`).  A parent may have ended before its repair is created.
A repair and `spawn_goals` use one fan-out budget, and the second submission of a
child that exists may be refused for it.

**Memories.**  A record that was exported by somebody else with a status of his own
(`includeInactive`) comes back to the instance it started from as a new row, against
docs/architecture.md:242 and README.md:280; `NoEcho` excepts it.  A memory that was
forgotten comes back with a later pull, and is ACTIVE where the pull activates,
although the command line says that it is deleted for good (system.js:556).  A
snapshot that another push has overwritten is not noticed by the instance that
pushed before, as it compares with what it sent last (memory-portability.js:868);
`MemoriesArrive` excepts it.  A retraction does not travel: an importer that
activates ignores the label of a record, and a newer revision of a memory is
activated though the older one was taken back.  Nor does one hold at home against
older records: a memory that was confirmed or taken back after its record left
matches that record no more (memory-portability.js:653-670), and when the record
returns it becomes a row of its own, ACTIVE if the import activates, which
docs/architecture.md:242 does not say.  `NoEcho` is therefore about records of the
present revision, and `ActiveIsWanted` about rows, not about what they mean.  A synchronisation that a crash has
cut off stays RUNNING in its table.

## 5. What is proved

For every value of the constants that satisfies the named assumptions
(`RowsAssumption`, `EventsAssumption`, `BoundsAssumption` of TaskStore,
`WorkflowAssumption`, `SchedulerAssumption` of Scheduler, `OperationsAssumption` of OperationManager, `SupervisorAssumption`,
`MonitorsAssumption`, `ChannelsAssumption`, `ReactorAssumption`, `PoolAssumption`,
`TurnsAssumption`, `RepairsAssumption`, `MemoriesAssumption`), with no bound on anything but by
those constants.  Three theorems need more, and say so in their statement:
`RowsInOrder`, `EndsAreAnnounced`, and finitely many turns, one at least.

| theorem | property |
|---|---|
| `StoreTypes` | `StoreTypeOK` |
| `LeaseSafety` | `LeaseMeansRunning` |
| `VerdictsAreFinal` | `TerminalIsFinal` |
| `DependenciesComeFirst` | `DependenciesFirst` |
| `GoalVerdictsAreFinal` | `VerdictIsFinal` |
| `NoWakeupIsLost` | `NoLostWakeup` |
| `ActiveGoalsMove` | `ActiveGoalCanMove`, under `RowsInOrder` |
| `SchedulerTypes` | `TypeOK` of Scheduler |
| `SchedulerImplementsStore` | `ImplementsStore`, which is `StoreSpec` |
| `RunningTasksAreRun` | `RunningHasRun` |
| `EventsAreHandledOnce` | `EventsHandledOnce` |
| `EventsAreUsedInOrder` | `UsedInOrder` |
| `ProgressIsKept` | `NoLostProgress` |
| `WaitersAreTold` | `WaitersAreWoken`, under `EndsAreAnnounced` |
| `Types` | `TypeOK` of OperationManager |
| `AtMostOnce` | `NeverTwice` |
| `Truthfulness` | `RowTellsTruth` |
| `CompensationOnce` | `CompensatedOnce` |
| `CompensationIsLast` | `NothingAfterCompensation` |
| `OneRunPerService` | `OneGeneration` |
| `OneKernelAtATime` | `OneKernel` |
| `StopIsFinal` | `NothingAfterStop` |
| `TableIsTrue` | `RowsShowTheLiving` |
| `StoreIsClosedLast` | `StoreClosesLast` |
| `SeenNeverGoesBack`, `ReactorSeesForward` | `SeenMovesForward`, of Monitoring and of Reactor |
| `MessagesBecomeOneEvent`, `OutboxIsTruthful`, `SettledIsFinal`, `ReactorDelivers` | `OneEventPerMessage`, `OutboxTellsTruth`, `SettledStaysSettled`, of Channels and of Reactor |
| `ReactorRunsMonitors`, `ReactorRunsChannels` | `Spec => MonitoringSpec`, `Spec => ChannelsSpec` |
| `SlotsAreOneGoal` | `OneGoalPerSlot` |
| `ChangesAreAnnounced` | `ChangesAreTold` |
| `PoolInvariant` | `PoolInv`: the counter is the number of users inside, and nobody waits in front of a free place |
| `PoolImplementsSemaphore` | `PoolIsSemaphore`, of the pool as the turns use it |
| `ApprovalIsNeeded` | `ApprovedOnly` |
| `CallsAreChargedOnce` | `ChargedOnce` |
| `CallsAreBilled` | `BilledByAttempt` |
| `QuotaIsOverdrawnByOverlap` | `OverdrawnByOverlap`, for finitely many turns |
| `RepairsTypes` | `RepairsTypeOK` |
| `FanOutIsKept` | `FanOutHolds` |
| `NoticesStay` | `NoticeIsKept` |
| `StaleIsNotCurrent` | `StaleIsShown` |
| `MemoriesTypes` | `MemoriesTypeOK` |
| `NothingUnwanted` | `ActiveIsWanted` |
| `NoCopies` | `NoEcho` |

**TaskStore.**  The inductive invariant `Inv` has four parts: `StoreTypeOK`;
`LeaseMeansRunning`; `RowsExist`, a goal and its tasks come into being together;
and `SweepIsBlocked`, the rows a pass has still to look at are BLOCKED.
`TypeStep`, `LeaseStep`, `RowsStep` and `SweepStep` show that each survives every
store method, and `InvStep` puts them together.  From `Inv`, `TerminalStep` shows
that no action takes a task out of a terminal status; for `failTask` this rests
on the lease, as the token of a late caller must not match the NULL of a
finished row.  `DependenciesFirst` is not inductive by itself: a task resumed to
READY or taken past BLOCKED needs to know that its dependencies have succeeded
and stay so.  `DependStep` proves it inductive relative to `Inv` and to what
`TerminalStep` gives.  `VerdictIsFinal` is inductive relative to the same
(`GoalWriters` says who writes a verdict), and so is `NoLostWakeup`, as a wait
begins in the stretch that has found the queue empty, and an event is given to all
that listen in the transaction that publishes it.

`ActiveGoalCanMove` needs `BlockedInv`: a task that is BLOCKED and that the pass
under way will not look at is rightly so (`RightlyBlocked`: no dependency has
failed, not all have succeeded), and the rest of the pass does not touch what it
depends on.  `MildStep` is for the steps that settle nothing, `HarshStep` for those
that begin a pass, `PassStep` for one row of it.  That last clause is where the
hypothesis `RowsInOrder` comes in: in a goal that is accepted no row stands before
one it depends on.  It is how the planner and the default graphs list their tasks;
without it the property fails, as section 4 says, and the instance of `store` has
it.  The first of the BLOCKED tasks of a goal then depends on one that is neither
finished nor BLOCKED (`FirstBlockedWaits`).

**Scheduler.**  The invariant `SInv` relates the executions to the rows.  `RunOk`: an
execution has a token that was issued; if it is the one in the row, the execution is
in its turn, in a call or has just thrown, and its snapshot in memory is the saved
one (`Abreast`).  `Alone`: a token belongs to one execution.  With `RunningHasRun`,
and with a batch whose candidates are still READY, each step is a step of the store
or leaves it alone (`KindIsStoreStep`, `NextKind`), and each keeps `SInv`
(`SInvStep`): `OneRunMoves` is for a step of one execution, `RunsStay` and its
relatives for the steps of everybody else.

What happens to events is said by `Handed(t)`, the events used by the steps of a task
and then the one attached to its snapshot.  `EventKind` says what a step may do to it:
nothing, add the oldest queued event, or attach the one that is published.  `EInv`
says that `Handed` has no event twice and is the list of the deliveries
(`HandedOnce`), that an attached event is one the next step takes (`PendingFits`),
and that a task sleeps in front of the step that asked (`WaitFits`).  `OInv` adds that
events are numbered in the order of their publication, and that what is queued is
newer than what was handed out under the same key.  Two concurrent executions of one
task cannot break either, as only the holder of the lease saves a snapshot.

`WaitersAreWoken` is proved under `EndsAreAnnounced`.  It says what `spawn_goals` and
the finally of `runTask` rely on: each goal has an event and a key of its own, which
no workflow emits and nobody sends from outside; who waits for the key is a `call`
with that child, in the event's audience; the child's tasks are not refused by the
drain and wait without deadlines; and no control cancels and no crash comes.  The
last three are real restrictions, not conveniences: a goal that is cancelled, expires
or is refused ends without an execution and wakes nobody (section 4), and a crash
between the verdict and the finally does the same.  The instance of `sched_ends` meets
the hypothesis.  `AnnInv` follows an end from the pass that gives the verdict to the
finally that publishes it: a pass that may end a goal has an execution of the goal
behind it that is over, and an ended goal has its event published or such an
execution still on its way (`VerdictIsBehind`, `Ending`).  A parent that begins to wait
has looked at its child in the same stretch, so the end is still to be published
(`AskAnn`), and the publication finds whoever sleeps for it (`EndAnn`).
`EndKind` and `OwnEnds`, `OutsideEnds` sort the steps for this.

**OperationManager.**  `NeverTwice` needs to know who is at work on a row.
The invariant `Inv` is `TypeOK` and, for each operation, `Attendance` and
`Truth`.  `Attendance` says, for each state of a row, which party may be
awaiting which handler: an awaited invocation means EXECUTING, nobody else is
then in a position to start one, and so on.  `Truth` says, for each state, what
has happened outside.  `Moves` reduces `Next` to one operation at a time,
`TypeStep`, `AttendanceStep` and `TruthStep` are the parts of `InvStep`, and
`LastStep` is the step of `NothingAfterCompensation`.

**Supervisor.**  That services do not overlap needs to know where a relaunch may
come from.  The invariant `Inv` adds three parts to the types and to
`RowsShowTheLiving`.  `Succession`: a live run is of the generation its
entry holds, its process has not stopped, and no relaunch of its service is due.
`Beginning`: a process whose supervisor is alive has not begun its shutdown, and
one that has not started has no timer.  `Ownership`: without a lapse, a process
that is alive or stopping owns a lease that has not expired, so that no other
can start; its stop is one that the shutdown awaits, and the shutdown goes on to
close the database only when it has stopped.  Each has its lemma
(`SuccessionStep`, `BeginningStep`, `OwnershipStep`, `TableStep`), and the five
theorems follow from `Invariance` without another induction.

**Monitoring.**  `MonitoringInv` adds two parts to the types.  `PollsAreTrue`:
a poll's token is one that was issued, so that a later claim has another; it
found nothing that was not there; and what the holder of the lease has found is
not older than what its row has seen.  `SeenIsPast`: nothing is seen that was
not there.  A poll that reads later than the claim finds at least what the row
has seen, and as long as it holds the lease nobody else writes the row.
`TickStep`, `QuietStep`, `ReadStep` and `EndingStep` are the kinds of step, and
`EveryStep` puts them together.

**Channels.**  The invariant has a half for either direction (`Halves`).  The
outbound half adds `DrainIsSound` (what a drain holds may still be sent, or is
gone; one row at a time; a landed message has been counted) and `AttemptsLeft`
(a row that may be sent has an attempt left, so that the last failure brings
exactly `Attempts`).

**Reactor.**  `MonitorsStep` and `ChannelsStepOrNot` show that each of its steps
is a step of either module or leaves it alone; for the channels this needs
`DrainsInTurn`, no drain is under way outside its stage, so that the next one
finds none.  `SchedulesInv` says that the slots of a schedule's messages are
finitely many and as many as its goals, and that a recurring schedule has moved
past only such slots.  `ChangesAreTold` counts the changes that are not told against
the crashes.  `ToldInv` adds that no change has a revision its row has not reached,
so that the event of the next one has a new key and is not taken for a repetition.

The theorems about Monitoring and Channels alone come first in the module, and are
carried over by the two refinements.

**ResourcePools and Turns.**  `PoolInv` relates the counter, the queue and the
stands of the calls: `active` is the cardinality of `Inside`, the queue holds each
waiting user once, and a queue that is not empty means a full pool.  `DrainHandsOver`
says what `drain()` does with signals that have fired in the queue; with it
`PoolStep` shows that each step of the pool is a step of Semaphore under the
mapping, or leaves it alone, and `TurnsUseThePool` that each step of Turns is one of
the pool.  `ApprovedOnly` needs to know why a gated call may be in the hands of an
execution: `ApprovalInv` follows an approval from its row through the event in the
queue, the `mail` of the snapshot and the `resumed` execution to the start of the
tool, and says that a decision is not taken back.  `StepKeepsApprovals` goes through
the steps of an execution, `AnswersKeepApprovals` through what comes from outside.
`ChargedOnce` is inductive with the cardinality of the charged calls of each turn.
`BilledByAttempt` speaks of the model calls that are answered, and needs `BillInv`: an attempt nobody has begun has left nothing in the
ledger, and one that goes on is past the rounds it has entered, unless it has started
its iterations over.  `OverdrawnByOverlap` needs a count of the calls under way:
`QuotaInv` bounds the executions that have lost their lease (`Stale`) by the faults,
and the entries of the day together with the executions at the model by `DayLimit - 1`,
a call for each turn, and one for each fault.  `AliveBound` shows that beside the
stale ones each turn has one execution.

**Repairs.**  The invariant `Inv` adds four parts to the types.  `Recorded`: what is
recorded belongs to a goal that there is.  `StageSound`: what a synchronous stretch
works on is there, and what it has still to mark is ACTIVE.  `TakenOnce`: an
assumption that an event has in hand or has had is INVALIDATED, and no other event
has it; this is what keeps repairs of one assumption apart, because an event only
takes what is ACTIVE.  `Bounded`: no goal has more children than its budget.
`NewChild` shows that a step makes at most one new child and checks the budget in
the same step.  `Writers` says which actions write which variable, so that each
lemma looks at those only.  `NoticeIsKept` needs `Snapshots`, the copy of the
execution that holds the lease has every notice of the row, for which it matters
that a notice is injected only while nobody holds it.  `StaleIsShown` needs
`Counted`, `OneCurrent` (which also says that there is no CURRENT plan between the
two statements of a revision) and `VersionsMove`: what was written keeps its place,
its kind and its repair, and does not become CURRENT again.

**Memories.**  `RowsInv` says that an own row is at home and was written, that what
was taken back is there and RETRACTED (`RefusedIsRetracted`), and that what is active
was asked for (`ActiveIsAsked`); `Replaced` is what an operation may do to the rows of
one instance, and each operation has its lemma.  `ActiveIsWanted` follows: an active
row is in `wanted`, and not in `refused`, as it is not RETRACTED.  That an import
keeps `ActiveIsAsked` rests on the check of the signer, since `wanted` does not grow
by what somebody untrusted has sent.  `NoEcho` is about what is under way as well: the records in every bundle,
in files, in snapshots, on their way and in the hands of a pull, must be of a
revision that exists, and of the present one only if they say what the row says
(`SoundStays`, `ExportSound`, `SoundStep`), unless somebody relabelled them.

The theorems about the operation manager rest on the truthfulness of the
handlers described in section 2.

## 6. What is model-checked only, and what is not modelled

Every invariant and action property of the passing runs is stated by a theorem of
section 5.  `WaitersAreWoken` is proved under its hypothesis and not without it, since
without it the property is false.  Liveness
(`GoalsEnd`, `HousekeepingSurvivesErrors`, `CompensationShown`, `ServicesComeBack`,
`PerceptionCatchesUp`, `ReactorServes`, `TurnsMove`, `InvalidationsAnswered`,
`MemoriesArrive`) is beyond the prover: it needs fairness and ENABLED.

Left out of the modelled components: time (a due date, an expiry, a deadline is
a choice of the environment), priorities and the order of candidates, the
content of snapshots beyond `pc` and `pendingEvent`, audit rows, tenants (an
event's audience is a set of goals), events without an idempotency key or a
nonce (each is an identity of its own), two events created in the same
millisecond (their order is the one of `published`), and two schedulers
on one database (Supervisor shows when the kernel lease excludes them).  In Turns:
messages, arguments and results, the tokens and costs of a model call beyond their
number, and the two hooks after a call, which change nothing.  In Repairs: the text
of a repair request, the capabilities it is narrowed to, and the limit of twenty
notices in a snapshot.  In Memories: expiry and validity of a memory, scoring,
limits of sizes (also that `exportBundle` takes the most recent rows first and leaves
out those that are not ACTIVE afterwards, memory-portability.js:608-617), and the
cryptography itself.

Three things that the runs do not catch although a property is near.
`CompensationShown` is about a process that lives on, and says nothing of a row that a
crash leaves COMPENSATING.  `ReactorServes` excludes the inbound message that can never
be published, as the round does not get past it.  `PerceptionCatchesUp` would not see an
observation overwritten by an older one, since the next poll heals it; the theorems
`SeenNeverGoesBack` and `ReactorSeesForward` state that it does not happen.

Not modelled, as `PROJECT.json` lists component by component: what is a sequential
computation over data that no other component reads back to decide a transition
(cognition, attention and context, observability, the planner, the comparison of
capabilities), what is I/O or presentation (platform, listeners, the terminal client,
the parsing of the gateway), and, of components that are modelled in part, the rows
of interrupts, the revision of a budget, the narrowing of a child's contract and the
choice of a session and a model.

## 7. Plan

Done so far: store, scheduler and engine, operations, supervisor, monitoring,
channels and the reactor that composes them; pools, agent turns and approvals; plan
repair with child goals; memories between instances.  What would come next, the most
important first:

1. `Interrupts`: the rows between an event, an attention rule and the task that is to
   be stopped, against a task that starts meanwhile.
2. `Capabilities`: the narrowing of a child's contract and `reviseBudget` as operators
   with lemmas, and the daily quota of tokens beside that of calls.
3. `Sessions`: the deletion of messages by a purge against a submission that is
   repeated under the same message id.
4. Proofs: that the task rows of Turns, and the root's row of Repairs, implement those
   of TaskStore, so that its theorems hold there too.
