------------------------------ MODULE Repairs ------------------------------
(***************************************************************************)
(* src/src/kernel/plan-repair-service.js with the part of                  *)
(* session-service.js, system.js and store.js it works on: assumptions of  *)
(* a goal that an event invalidates, the plan versions of the goal, the    *)
(* child goals that repair a plan, and those that the tool spawn_goals     *)
(* asks for.  Child goals of both kinds count against one fan-out budget.  *)
(*                                                                         *)
(* The service hears of an event when it is published, and only then: what *)
(* it still has to do is kept in memory.  One event loop runs everything;  *)
(* stage is the synchronous stretch it is in, and each action of a stretch *)
(* is one commit, so that a crash can come between any two.                *)
(***************************************************************************)
EXTENDS Naturals, Sequences, FiniteSets

CONSTANTS
  Assumptions,
  Events,      \* external events, each of the topic that every assumption watches
  Root,        \* the goal of a user
  Children,    \* how many goals its call of spawn_goals asks for
  MaxFanOut,   \* budget.maxFanOut of the root
  MaxClaims,   \* bound: leases of the root's turn
  MaxFaults,   \* bound: crashes, stops of the service, lapsed leases, silent ends
  None

Repairs == Assumptions \X Events
Kids == {"child"} \X (1..Children)
GoalIds == {Root} \cup Repairs \cup Kids
Planned == {Root} \cup Repairs

Tokens == 1..MaxClaims   \* of the leases of the root's turn, and so of its executions

ASSUME RepairsAssumption ==
  /\ Children \in Nat /\ MaxFanOut \in Nat /\ MaxClaims \in Nat /\ MaxFaults \in Nat
  /\ IsFiniteSet(Assumptions) /\ IsFiniteSet(Events)
  /\ "child" \notin Assumptions
  /\ Root \notin Repairs \cup Kids
  /\ None \notin GoalIds \cup Events \cup Assumptions

VARIABLES
  goal,        \* goals.status, "none" while there is no such goal
  place,       \* the goal each assumption has been recorded for
  assumption,  \* goal_assumptions.status
  versions,    \* plan_versions of the root and of the repair goals, in order
  task,        \* the root's turn: status, lease token, notices in its snapshot
  execs,       \* its executions alive, each with the snapshot it holds
  heard,       \* events published
  up,          \* the service listens
  job,         \* process(event): the repairs to start, and the one submitted
  spawner,     \* the call of spawn_goals each execution makes: the next child, and
               \* whether its submit is awaited
  stage,       \* the synchronous stretch
  blocked,     \* repairs with an audit entry PLAN_REPAIR_BLOCKED
  faults,
  since,       \* history: how many versions there were when an assumption fell
  lost,        \* history: assumptions a fault has made the service forget
  missed       \* history: repairs whose notice could not be put into the turn

goalVars == <<goal, place, assumption, versions>>
taskVars == <<task, execs>>
memory == <<job, spawner, stage>>
history == <<since, lost, missed>>
vars == <<goalVars, taskVars, heard, up, memory, blocked, faults, history>>

Version == [status : {"CURRENT", "STALE", "REPAIRING", "REPAIRED", "REPAIR_FAILED", "SUPERSEDED"},
            kind : {"created", "invalidated", "completed"}, of : Repairs \cup {None}]
Made == [status |-> "CURRENT", kind |-> "created", of |-> None]
Repairing(r) == [status |-> "REPAIRING", kind |-> "invalidated", of |-> r]
Revised(r) == [status |-> "CURRENT", kind |-> "completed", of |-> r]

Stage(op, of) == [op |-> op, of |-> of, at |-> None, rest |-> {}]
Idle == Stage("idle", None)
Resting == [todo |-> {}, at |-> None]
Unspawned == [next |-> 0, at |-> FALSE]

RepairsTypeOK ==
  /\ goal \in [GoalIds -> {"none", "ACTIVE", "SUCCEEDED", "FAILED"}]
  /\ place \in [Assumptions -> Planned \cup {None}]
  /\ assumption \in [Assumptions -> {"none", "ACTIVE", "INVALIDATED"}]
  /\ versions \in [Planned -> Seq(Version)]
  /\ task \in [status : {"resumable", "RUNNING", "ended"}, token : Nat, notices : SUBSET Repairs]
  /\ execs \subseteq [token : Nat, notices : SUBSET Repairs]
  /\ heard \subseteq Events
  /\ up \in BOOLEAN
  /\ job \in [Events -> [todo : SUBSET Assumptions, at : Assumptions \cup {None}]]
  /\ spawner \in [Tokens -> [next : Nat, at : BOOLEAN]]
  /\ stage \in [op : {"idle", "marking", "stale", "ended", "repaired", "superseded", "revised"},
                of : Repairs \cup Events \cup {None}, at : Assumptions \cup {None},
                rest : SUBSET Assumptions]
  /\ blocked \subseteq Repairs
  /\ faults \in Nat
  /\ since \in [Assumptions -> Nat]
  /\ lost \subseteq Assumptions
  /\ missed \subseteq Repairs

Init ==
  /\ goal = [g \in GoalIds |-> IF g = Root THEN "ACTIVE" ELSE "none"]
  /\ place = [a \in Assumptions |-> None]
  /\ assumption = [a \in Assumptions |-> "none"]
  /\ versions = [g \in Planned |-> IF g = Root THEN <<Made>> ELSE << >>]
  /\ task = [status |-> "resumable", token |-> 0, notices |-> {}]
  /\ execs = {}
  /\ heard = {}
  /\ up = TRUE
  /\ job = [e \in Events |-> Resting]
  /\ spawner = [x \in Tokens |-> Unspawned]
  /\ stage = Idle
  /\ blocked = {} /\ faults = 0
  /\ since = [a \in Assumptions |-> 0]
  /\ lost = {} /\ missed = {}

LoopFree == stage = Idle

-----------------------------------------------------------------------------
(* Goals and their budgets.                                                *)

ParentOf(g) == IF g \in Repairs THEN place[g[1]] ELSE Root
ChildrenOf(p) == {g \in Repairs \cup Kids : goal[g] # "none" /\ ParentOf(g) = p}

\* The contract of a repair goal allows it no children at all.
FanOut(g) == IF g = Root THEN MaxFanOut ELSE 0

\* Faulty: one child too many.
BadRoom(g) == Cardinality(ChildrenOf(g)) <= FanOut(g)
\* authorizeFanOut in buildGoalContract, and again in the transaction that
\* creates the goal: no await comes between them.
Room(g) == Cardinality(ChildrenOf(g)) + 1 <= FanOut(g)

\* plan_assume records for the goal of the task that calls it.
Assume(a, g) ==
  /\ LoopFree
  /\ goal[g] = "ACTIVE" /\ assumption[a] = "none"
  /\ assumption' = [assumption EXCEPT ![a] = "ACTIVE"]
  /\ place' = [place EXCEPT ![a] = g]
  /\ UNCHANGED <<goal, versions, taskVars, heard, up, memory, blocked, faults, history>>

-----------------------------------------------------------------------------
(* An event is published: process() up to its first await.                 *)

Falls(a) == assumption[a] = "ACTIVE" /\ goal[place[a]] = "ACTIVE"

Marking(e, s) ==
  IF s = {} THEN Idle ELSE [Stage("marking", e) EXCEPT !.rest = s]

Publish(e) ==
  /\ LoopFree /\ up /\ e \notin heard
  /\ heard' = heard \cup {e}
  /\ stage' = Marking(e, {a \in Assumptions : Falls(a)})
  /\ UNCHANGED <<goalVars, taskVars, up, job, spawner, blocked, faults, history>>

\* No one listens: the event is stored and never compared with an assumption.
PublishUnheard(e) ==
  /\ LoopFree /\ ~up /\ e \notin heard
  /\ heard' = heard \cup {e}
  /\ UNCHANGED <<goalVars, taskVars, up, memory, blocked, faults, history>>

MarkInvalid(a) ==
  /\ stage.op = "marking" /\ a \in stage.rest
  /\ assumption' = [assumption EXCEPT ![a] = "INVALIDATED"]
  /\ since' = [since EXCEPT ![a] = Len(versions[place[a]])]
  /\ job' = [job EXCEPT ![stage.of] = [todo |-> @.todo \cup {a}, at |-> @.at]]
  /\ stage' = [op |-> "stale", of |-> stage.of, at |-> a, rest |-> stage.rest \ {a}]
  /\ UNCHANGED <<goal, place, versions, taskVars, heard, up, spawner, blocked, faults, lost, missed>>

Current == {v \in Version : v.status = "CURRENT"}
Open(r) == {v \in Version : v.status = "REPAIRING" /\ v.of = r}

\* The status of some versions of a plan is set.
Restate(g, some, s) ==
  [versions EXCEPT ![g] =
     [i \in DOMAIN @ |-> IF @[i] \in some THEN [status |-> s, kind |-> @[i].kind, of |-> @[i].of]
                          ELSE @[i]]]

\* Faulty: a plan that a repair has revised is taken for sound.
BadInDoubt == {v \in Current : v.kind = "created"}
InDoubt == Current

MarkStale ==
  /\ stage.op = "stale"
  /\ versions' = Restate(place[stage.at], InDoubt, "STALE")
  /\ stage' = Marking(stage.of, stage.rest)
  /\ UNCHANGED <<goal, place, assumption, taskVars, heard, up, job, spawner, blocked, faults, history>>

-----------------------------------------------------------------------------
(* startRepair, one assumption after the other.  Nothing is read again      *)
(* after the await of submit() but the parent's budget.                    *)

TakeUp(e, a) ==
  /\ LoopFree /\ job[e].at = None /\ a \in job[e].todo
  /\ job' = [job EXCEPT ![e] = [todo |-> @.todo \ {a}, at |-> a]]
  /\ UNCHANGED <<goalVars, taskVars, heard, up, spawner, stage, blocked, faults, history>>

\* The await of the hook 'message_received' ends and the goal is created with
\* its first plan version, whatever has become of the parent meanwhile.
Create(e) ==
  LET a == job[e].at IN
  /\ LoopFree /\ a # None /\ goal[<<a, e>>] = "none" /\ Room(place[a])
  /\ goal' = [goal EXCEPT ![<<a, e>>] = "ACTIVE"]
  /\ versions' = [versions EXCEPT ![<<a, e>>] = <<Made>>]
  /\ UNCHANGED <<place, assumption, taskVars, heard, up, memory, blocked, faults, history>>

\* No room, or a policy hook cancels the message: submit() throws.
Block(e) ==
  LET a == job[e].at IN
  /\ LoopFree /\ a # None /\ goal[<<a, e>>] = "none"
  /\ blocked' = blocked \cup {<<a, e>>}
  /\ job' = [job EXCEPT ![e] = [todo |-> @.todo, at |-> None]]
  /\ UNCHANGED <<goalVars, taskVars, heard, up, spawner, stage, faults, history>>

\* Faulty: the service forgets the other repairs when one has been started.
BadAfter(j) == Resting
After(j) == [todo |-> j.todo, at |-> None]

AddRepairing(e) ==
  LET a == job[e].at IN
  /\ LoopFree /\ a # None /\ goal[<<a, e>>] # "none"
  /\ versions' = [versions EXCEPT ![place[a]] = Append(@, Repairing(<<a, e>>))]
  /\ job' = [job EXCEPT ![e] = After(@)]
  /\ UNCHANGED <<goal, place, assumption, taskVars, heard, up, spawner, stage, blocked, faults, history>>

-----------------------------------------------------------------------------
(* A goal ends.  The tasks of a new goal cannot have run before the reply   *)
(* of submit() is handled: each needs a turn of the scheduler.             *)

Submitted(g) == \E e \in Events : job[e].at # None /\ g = <<job[e].at, e>>

RepairEnds(r, s) ==
  /\ LoopFree /\ goal[r] = "ACTIVE" /\ ~Submitted(r)
  /\ goal' = [goal EXCEPT ![r] = s]
  /\ stage' = Stage("ended", r)
  /\ UNCHANGED <<place, assumption, versions, taskVars, heard, up, job, spawner, blocked, faults, history>>

\* completeRepair, when the reactor hears goal.completed: of a failed repair ...
AnnounceFailure ==
  /\ stage.op = "ended" /\ up /\ goal[stage.of] = "FAILED"
  /\ versions' = Restate(ParentOf(stage.of), Open(stage.of), "REPAIR_FAILED")
  /\ stage' = Idle
  /\ UNCHANGED <<goal, place, assumption, taskVars, heard, up, job, spawner, blocked, faults, history>>

\* ... and of one that succeeded: four commits,
AnnounceSuccess ==
  /\ stage.op = "ended" /\ up /\ goal[stage.of] = "SUCCEEDED"
  /\ versions' = Restate(ParentOf(stage.of), Open(stage.of), "REPAIRED")
  /\ stage' = Stage("repaired", stage.of)
  /\ UNCHANGED <<goal, place, assumption, taskVars, heard, up, job, spawner, blocked, faults, history>>

Supersede ==
  /\ stage.op = "repaired"
  /\ versions' = Restate(ParentOf(stage.of), Current, "SUPERSEDED")
  /\ stage' = Stage("superseded", stage.of)
  /\ UNCHANGED <<goal, place, assumption, taskVars, heard, up, job, spawner, blocked, faults, history>>

InsertRevised ==
  /\ stage.op = "superseded"
  /\ versions' = [versions EXCEPT ![ParentOf(stage.of)] = Append(@, Revised(stage.of))]
  /\ stage' = Stage("revised", stage.of)
  /\ UNCHANGED <<goal, place, assumption, taskVars, heard, up, job, spawner, blocked, faults, history>>

\* injectCognitiveNotice leaves a task alone that runs or has ended.
InjectNotice ==
  /\ stage.op = "revised" /\ ParentOf(stage.of) = Root
  /\ IF task.status = "resumable"
       THEN task' = [task EXCEPT !.notices = @ \cup {stage.of}] /\ missed' = missed
       ELSE task' = task /\ missed' = missed \cup {stage.of}
  /\ stage' = Idle
  /\ UNCHANGED <<goalVars, execs, heard, up, job, spawner, blocked, faults, since, lost>>

\* No one listens: the completion is never handled.
AnnounceUnheard ==
  /\ stage.op = "ended" /\ ~up
  /\ stage' = Idle
  /\ lost' = lost \cup {stage.of[1]}
  /\ UNCHANGED <<goalVars, taskVars, heard, up, job, spawner, blocked, faults, since, missed>>

\* A cancelled goal, and one that fails before its task runs, publish no event.
EndSilently(r) ==
  /\ LoopFree /\ goal[r] = "ACTIVE" /\ ~Submitted(r) /\ faults < MaxFaults
  /\ goal' = [goal EXCEPT ![r] = "FAILED"]
  /\ lost' = lost \cup {r[1]}
  /\ faults' = faults + 1
  /\ UNCHANGED <<place, assumption, versions, taskVars, heard, up, memory, blocked, since, missed>>

RootEnds ==
  /\ LoopFree /\ goal[Root] = "ACTIVE"
  /\ goal' = [goal EXCEPT ![Root] = "SUCCEEDED"]
  /\ task' = [task EXCEPT !.status = "ended"]
  /\ UNCHANGED <<place, assumption, versions, execs, heard, up, memory, blocked, faults, history>>

-----------------------------------------------------------------------------
(* The root's turn.  An execution holds a copy of the snapshot and writes   *)
(* all of it back.                                                         *)

Claim ==
  /\ LoopFree /\ task.status = "resumable" /\ task.token < MaxClaims
  /\ task' = [task EXCEPT !.status = "RUNNING", !.token = @ + 1]
  /\ execs' = execs \cup {[token |-> task.token + 1, notices |-> task.notices]}
  /\ UNCHANGED <<goalVars, heard, up, memory, blocked, faults, history>>

\* Faulty: a write asks only whether the task runs.
BadMayWrite(x) == task.status # "ended"
MayWrite(x) == task.status = "RUNNING" /\ task.token = x.token

\* An execution awaits its tool call.
Spawning(x) == spawner[x.token].next \in 1..Children

\* A checkpoint that also gives the lease back: a wait, a yield or a retry.
Suspend(x) ==
  /\ LoopFree /\ ~Spawning(x) /\ MayWrite(x)
  /\ task' = [task EXCEPT !.status = "resumable", !.notices = x.notices]
  /\ execs' = execs \ {x}
  /\ UNCHANGED <<goalVars, heard, up, memory, blocked, faults, history>>

\* The write of a superseded execution is refused, and it stops.
GiveUp(x) ==
  /\ LoopFree /\ ~Spawning(x) /\ ~MayWrite(x)
  /\ execs' = execs \ {x}
  /\ UNCHANGED <<goalVars, task, heard, up, memory, blocked, faults, history>>

Lapse ==
  /\ LoopFree /\ task.status = "RUNNING" /\ faults < MaxFaults
  /\ task' = [task EXCEPT !.status = "resumable"]
  /\ faults' = faults + 1
  /\ UNCHANGED <<goalVars, execs, heard, up, memory, blocked, history>>

-----------------------------------------------------------------------------
(* spawn_goals: a check of the budget for all missing children, then one    *)
(* submit() after the other.  Its message makes a child unique.            *)

Kid(x) == <<"child", spawner[x].next>>
Missing == {k \in Kids : goal[k] = "none"}

SpawnStart(x) ==
  /\ LoopFree /\ spawner[x] = Unspawned /\ \E y \in execs : y.token = x
  /\ spawner' = [spawner EXCEPT ![x] = [at |-> FALSE, next |->
       IF Cardinality(ChildrenOf(Root)) + Cardinality(Missing) <= FanOut(Root)
         THEN 1 ELSE Children + 1]]
  /\ UNCHANGED <<goalVars, taskVars, heard, up, job, stage, blocked, faults, history>>

SpawnSubmit(x) ==
  /\ LoopFree /\ ~spawner[x].at /\ Kid(x) \in Kids
  /\ spawner' = [spawner EXCEPT ![x] =
       IF goal[Kid(x)] # "none" THEN [next |-> @.next + 1, at |-> FALSE]
       ELSE [next |-> @.next, at |-> TRUE]]
  /\ UNCHANGED <<goalVars, taskVars, heard, up, job, stage, blocked, faults, history>>

\* The transaction finds the message of another execution, or creates the goal.
SpawnCreate(x) ==
  /\ LoopFree /\ spawner[x].at /\ Room(Root)
  /\ goal' = [goal EXCEPT ![Kid(x)] = IF @ = "none" THEN "ACTIVE" ELSE @]
  /\ spawner' = [spawner EXCEPT ![x] = [next |-> @.next + 1, at |-> FALSE]]
  /\ UNCHANGED <<place, assumption, versions, taskVars, heard, up, job, stage, blocked, faults, history>>

\* The budget refuses a child, of an existing message too: the call throws.
SpawnRefused(x) ==
  /\ LoopFree /\ spawner[x].at /\ ~Room(Root)
  /\ spawner' = [spawner EXCEPT ![x] = [next |-> Children + 1, at |-> FALSE]]
  /\ UNCHANGED <<goalVars, taskVars, heard, up, job, stage, blocked, faults, history>>

-----------------------------------------------------------------------------
(* Faults.  A stop of the service lets the jobs in memory finish.          *)

StopService ==
  /\ LoopFree /\ up /\ faults < MaxFaults
  /\ up' = FALSE
  /\ faults' = faults + 1
  /\ UNCHANGED <<goalVars, taskVars, heard, memory, blocked, history>>

StartService ==
  /\ LoopFree /\ ~up
  /\ up' = TRUE
  /\ UNCHANGED <<goalVars, taskVars, heard, memory, blocked, faults, history>>

\* What is in memory is gone, and no start looks for it.
InHand == UNION {job[e].todo \cup ({job[e].at} \ {None}) : e \in Events}

Crash ==
  /\ faults < MaxFaults
  /\ job' = [e \in Events |-> Resting]
  /\ spawner' = [x \in Tokens |-> Unspawned]
  /\ stage' = Idle
  /\ execs' = {}
  /\ task' = [task EXCEPT !.status = IF @ = "RUNNING" THEN "resumable" ELSE @]
  /\ up' = FALSE
  /\ lost' = lost \cup InHand \cup (IF stage.op = "ended" THEN {stage.of[1]} ELSE {})
  /\ missed' = missed \cup (IF stage.op = "revised" THEN {stage.of} ELSE {})
  /\ faults' = faults + 1
  /\ UNCHANGED <<goalVars, heard, blocked, since>>

-----------------------------------------------------------------------------
Completion ==
  AnnounceFailure \/ AnnounceSuccess \/ Supersede \/ InsertRevised \/ InjectNotice \/ AnnounceUnheard

\* What the event loop, the service and the repair goals do by themselves.
Progress ==
  \/ \E a \in Assumptions : MarkInvalid(a)
  \/ MarkStale
  \/ \E e \in Events : (\E a \in Assumptions : TakeUp(e, a)) \/ Create(e) \/ Block(e) \/ AddRepairing(e)
  \/ \E r \in Repairs, s \in {"SUCCEEDED", "FAILED"} : RepairEnds(r, s)
  \/ Completion

Turn == Claim \/ Lapse \/ \E x \in execs : Suspend(x) \/ GiveUp(x)
Spawn == \E x \in Tokens : SpawnStart(x) \/ SpawnSubmit(x) \/ SpawnCreate(x) \/ SpawnRefused(x)

Next ==
  \/ Progress
  \/ \E a \in Assumptions, g \in Planned : Assume(a, g)
  \/ \E e \in Events : Publish(e) \/ PublishUnheard(e)
  \/ RootEnds
  \/ \E r \in Repairs : EndSilently(r)
  \/ Turn
  \/ Spawn
  \/ StopService \/ StartService \/ Crash

Spec == Init /\ [][Next]_vars

\* The loop runs, hooks answer, and a repair goal ends by its own wall time.
FairSpec == Spec /\ WF_vars(Progress)
-----------------------------------------------------------------------------

\* No goal ever has more direct children than its budget allows, whichever
\* way they were asked for and however the awaits interleave; so repairs of
\* repairs do not breed, and an assumption is repaired by one goal at most
\* (system.js:203-244 and 513-538, store.js:853-866, resource-kernel.js:209-228).
FanOutHolds ==
  /\ \A g \in Planned : Cardinality(ChildrenOf(g)) <= FanOut(g)
  /\ \A a \in Assumptions : \A d, e \in Events :
       goal[<<a, d>>] # "none" /\ goal[<<a, e>>] # "none" => d = e

\* A plan that was there when one of its assumptions fell is not CURRENT any
\* more, then or later, and a goal has one CURRENT plan at most (store.js:981-999
\* and 1104-1148, plan-repair-service.js:130-203).  A crash between the two
\* statements of the invalidation is the exception.
StaleIsShown ==
  /\ \A a \in Assumptions :
       assumption[a] = "INVALIDATED" /\ a \notin lost /\ a # stage.at
         => \A i \in 1..since[a] : versions[place[a]][i].status # "CURRENT"
  /\ \A g \in Planned :
       Cardinality({i \in DOMAIN versions[g] : versions[g][i].status = "CURRENT"}) <= 1

\* Once the plan has been revised and the turn was not running, the notice
\* stays in the snapshot: no later write of any execution takes it out
\* (store.js:1015-1053 against 1506-1530; plan-repair-service.js:204-213).
NoticeIsKept ==
  \A i \in DOMAIN versions[Root] :
    LET v == versions[Root][i]
    IN  v.kind = "completed" /\ v.of \notin missed /\ stage # Stage("revised", v.of)
          => v.of \in task.notices

\* Every invalidation is answered: the repair is refused on the record, or it
\* ends and its end is written next to the plan; unless a crash, a silent end
\* or a stopped service has lost it (plan-repair-service.js:61-226).
Answered(a) ==
  \/ \E e \in Events : <<a, e>> \in blocked
  \/ \E e \in Events, g \in Planned : \E i \in DOMAIN versions[g] :
       versions[g][i].of = <<a, e>> /\ versions[g][i].status \in {"REPAIRED", "REPAIR_FAILED"}
Unanswered == {a \in Assumptions : assumption[a] = "INVALIDATED" /\ a \notin lost /\ ~Answered(a)}
InvalidationsAnswered == (Unanswered # {}) ~> (Unanswered = {})
=============================================================================
