-------------------------- MODULE Repairs_proofs ---------------------------
(* Proofs about Repairs, for any assumptions, events, children, budgets and *)
(* bounds.                                                                  *)
EXTENDS Repairs, FiniteSetTheorems, TLAPS

-----------------------------------------------------------------------------
(* Names of goals, and what the updates of versions do.                    *)

LEMMA Names ==
  /\ Root \in Planned /\ Root \in GoalIds /\ Root \notin Repairs /\ Root \notin Kids
  /\ Repairs \subseteq Planned /\ Planned \subseteq GoalIds /\ Kids \subseteq GoalIds
  /\ \A k \in Kids : k \notin Repairs /\ k \notin Planned
  /\ None \notin GoalIds /\ None \notin Events /\ None \notin Assumptions /\ None \notin Planned
  /\ \A r \in Repairs : r[1] \in Assumptions /\ r[2] \in Events /\ r = <<r[1], r[2]>>
  /\ \A a \in Assumptions, e \in Events : <<a, e>> \in Repairs
  /\ \A k \in Kids : k[1] = "child"
<1>1. \A k \in Kids : k[1] = "child" /\ k \notin Repairs
  BY RepairsAssumption DEF Kids, Repairs
<1> QED BY <1>1, RepairsAssumption DEF Planned, GoalIds, Repairs

Statuses == {"CURRENT", "STALE", "REPAIRING", "REPAIRED", "REPAIR_FAILED", "SUPERSEDED"}
VersionsTyped == versions \in [Planned -> Seq(Version)]

\* Restate changes nothing but the status of the versions it is given.
LEMMA Restated ==
  ASSUME VersionsTyped, NEW g, NEW some, NEW s \in Statuses, versions' = Restate(g, some, s)
  PROVE  /\ VersionsTyped'
         /\ \A p \in Planned :
              /\ Len(versions'[p]) = Len(versions[p])
              /\ \A i \in 1..Len(versions[p]) :
                   /\ versions'[p][i].kind = versions[p][i].kind
                   /\ versions'[p][i].of = versions[p][i].of
                   /\ versions'[p][i].status =
                        IF p = g /\ versions[p][i] \in some THEN s ELSE versions[p][i].status
<1> DEFINE Row(q, i) == IF q[i] \in some THEN [status |-> s, kind |-> q[i].kind, of |-> q[i].of] ELSE q[i]
           New(q) == [i \in DOMAIN q |-> Row(q, i)]
<1>1. versions' = [versions EXCEPT ![g] = New(versions[g])]
  BY DEF Restate
<1>2. ASSUME NEW q \in Seq(Version)
      PROVE  /\ New(q) \in Seq(Version) /\ Len(New(q)) = Len(q)
             /\ \A i \in 1..Len(q) : New(q)[i] = Row(q, i)
  <2>1. DOMAIN q = 1..Len(q) /\ \A i \in 1..Len(q) : q[i] \in Version
    OBVIOUS
  <2>2. \A i \in 1..Len(q) : Row(q, i) \in Version
    BY <2>1 DEF Version, Statuses
  <2> HIDE DEF Row
  <2>3. New(q) = [i \in 1..Len(q) |-> Row(q, i)]
    BY <2>1
  <2> QED BY <2>2, <2>3
<1> HIDE DEF New
<1>3. ASSUME NEW p \in Planned
      PROVE  versions[p] \in Seq(Version) /\ versions'[p] = IF p = g THEN New(versions[p]) ELSE versions[p]
  BY <1>1 DEF VersionsTyped
<1>4. VersionsTyped'
  BY <1>1, <1>2, <1>3 DEF VersionsTyped
<1>5. ASSUME NEW p \in Planned, NEW i \in 1..Len(versions[p])
      PROVE  /\ Len(versions'[p]) = Len(versions[p])
             /\ versions'[p][i].kind = versions[p][i].kind
             /\ versions'[p][i].of = versions[p][i].of
             /\ versions'[p][i].status =
                  IF p = g /\ versions[p][i] \in some THEN s ELSE versions[p][i].status
  <2>1. /\ Len(New(versions[p])) = Len(versions[p])
        /\ New(versions[p])[i] = Row(versions[p], i)
    BY <1>2, <1>3
  <2>2. CASE p = g
    BY <2>1, <2>2, <1>3
  <2>3. CASE p # g
    BY <2>3, <1>3
  <2> QED BY <2>2, <2>3
<1>6. \A p \in Planned : Len(versions'[p]) = Len(versions[p])
  BY <1>2, <1>3
<1> QED BY <1>4, <1>5, <1>6

\* Append leaves what there was in its place.
LEMMA Appended ==
  ASSUME VersionsTyped, NEW g \in Planned, NEW v \in Version,
         versions' = [versions EXCEPT ![g] = Append(@, v)]
  PROVE  /\ VersionsTyped'
         /\ \A p \in Planned \ {g} : versions'[p] = versions[p]
         /\ Len(versions'[g]) = Len(versions[g]) + 1
         /\ \A i \in 1..Len(versions[g]) : versions'[g][i] = versions[g][i]
         /\ versions'[g][Len(versions[g]) + 1] = v
BY DEF VersionsTyped

-----------------------------------------------------------------------------
(* The invariant.                                                          *)

Closing == {"ended", "repaired", "superseded", "revised"}

\* What is recorded belongs to a goal that there is.
Recorded ==
  /\ goal[Root] # "none"
  /\ \A a \in Assumptions : place[a] = None <=> assumption[a] = "none"
  /\ \A a \in Assumptions : place[a] # None => goal[place[a]] # "none"

\* What a synchronous stretch works on.
StageSound ==
  /\ stage.op = "idle" => stage = Idle
  /\ stage.op \in {"marking", "stale"} =>
       stage.of \in Events /\ \A a \in stage.rest : assumption[a] = "ACTIVE"
  /\ stage.op = "marking" => stage.at = None
  /\ stage.op = "stale" =>
       /\ stage.at \in Assumptions /\ assumption[stage.at] = "INVALIDATED"
       /\ stage.at \in job[stage.of].todo
  /\ stage.op \in Closing => stage.of \in Repairs /\ stage.at = None /\ goal[stage.of] # "none"

\* An event has the assumption to repair, or has had it.
Taken(a, e) == a \in job[e].todo \/ job[e].at = a \/ goal[<<a, e>>] # "none"
TakenOnce ==
  /\ \A a \in Assumptions, e \in Events : Taken(a, e) => assumption[a] = "INVALIDATED"
  /\ \A a \in Assumptions : \A d, e \in Events : Taken(a, d) /\ Taken(a, e) => d = e

Bounded == \A g \in Planned : Cardinality(ChildrenOf(g)) <= FanOut(g)

Inv == RepairsTypeOK /\ Recorded /\ StageSound /\ TakenOnce /\ Bounded

\* A write of the execution that holds the lease brings back what it found.
Snapshots ==
  /\ \A x \in execs : x.token <= task.token
  /\ task.status = "RUNNING" => \A x \in execs : x.token = task.token => x.notices = task.notices

\* A plan that an assumption fell under is still there.
Counted ==
  \A a \in Assumptions : assumption[a] = "INVALIDATED" => since[a] <= Len(versions[place[a]])

\* Of the versions of a plan one at most is CURRENT, and none between the two
\* statements of a revision.
OneCurrent ==
  /\ \A g \in Planned : \A i, j \in DOMAIN versions[g] :
       versions[g][i].status = "CURRENT" /\ versions[g][j].status = "CURRENT" => i = j
  /\ stage.op = "superseded" =>
       \A i \in DOMAIN versions[ParentOf(stage.of)] : versions[ParentOf(stage.of)][i].status # "CURRENT"

\* First part of StaleIsShown.
FallenIsShown ==
  \A a \in Assumptions :
    assumption[a] = "INVALIDATED" /\ a \notin lost /\ a # stage.at
      => \A i \in 1..since[a] : versions[place[a]][i].status # "CURRENT"

-----------------------------------------------------------------------------
(* Which actions write which variables.                                    *)

WritesGoal ==
  \/ \E e \in Events : Create(e)
  \/ \E r \in Repairs, s \in {"SUCCEEDED", "FAILED"} : RepairEnds(r, s)
  \/ \E r \in Repairs : EndSilently(r)
  \/ RootEnds
  \/ \E x \in Tokens : SpawnCreate(x)
WritesAssumption ==
  \/ \E a \in Assumptions, g \in Planned : Assume(a, g)
  \/ \E a \in Assumptions : MarkInvalid(a)
WritesVersions ==
  \/ MarkStale
  \/ \E e \in Events : Create(e)
  \/ \E e \in Events : AddRepairing(e)
  \/ AnnounceFailure
  \/ AnnounceSuccess
  \/ Supersede
  \/ InsertRevised
WritesTurn ==
  \/ InjectNotice
  \/ RootEnds
  \/ Claim
  \/ Lapse
  \/ \E x \in execs : Suspend(x)
  \/ \E x \in execs : GiveUp(x)
  \/ Crash
WritesJob ==
  \/ \E a \in Assumptions : MarkInvalid(a)
  \/ \E e \in Events, a \in Assumptions : TakeUp(e, a)
  \/ \E e \in Events : Block(e)
  \/ \E e \in Events : AddRepairing(e)
  \/ Crash
WritesSpawner ==
  \/ \E x \in Tokens : SpawnStart(x)
  \/ \E x \in Tokens : SpawnSubmit(x)
  \/ \E x \in Tokens : SpawnCreate(x)
  \/ \E x \in Tokens : SpawnRefused(x)
  \/ Crash
WritesStage ==
  \/ \E a \in Assumptions : MarkInvalid(a)
  \/ MarkStale
  \/ \E e \in Events : Publish(e)
  \/ \E r \in Repairs, s \in {"SUCCEEDED", "FAILED"} : RepairEnds(r, s)
  \/ AnnounceFailure
  \/ AnnounceSuccess
  \/ Supersede
  \/ InsertRevised
  \/ InjectNotice
  \/ AnnounceUnheard
  \/ Crash
WritesService ==
  \/ \E e \in Events : Publish(e)
  \/ \E e \in Events : PublishUnheard(e)
  \/ StopService
  \/ StartService
  \/ Crash
WritesBlocked == \E e \in Events : Block(e)
WritesFaults ==
  \/ \E r \in Repairs : EndSilently(r)
  \/ Lapse
  \/ StopService
  \/ Crash
WritesSince == \E a \in Assumptions : MarkInvalid(a)
WritesLost ==
  \/ AnnounceUnheard
  \/ \E r \in Repairs : EndSilently(r)
  \/ Crash
WritesMissed ==
  \/ InjectNotice
  \/ Crash

LEMMA LoopIsFree == ASSUME Next PROVE WritesStage \/ stage = Idle
<1>1. CASE Progress
  BY <1>1 DEF Progress, Completion, WritesStage, TakeUp, Create, Block, AddRepairing, LoopFree
<1>2. CASE Turn
  BY <1>2 DEF Turn, Claim, Lapse, Suspend, GiveUp, LoopFree
<1>3. CASE Spawn
  BY <1>3 DEF Spawn, SpawnStart, SpawnSubmit, SpawnCreate, SpawnRefused, LoopFree
<1>4. CASE StopService \/ StartService \/ RootEnds
  BY <1>4 DEF StopService, StartService, RootEnds, LoopFree
<1>5. ASSUME NEW a \in Assumptions, NEW g \in Planned, Assume(a, g) PROVE stage = Idle
  BY <1>5 DEF Assume, LoopFree
<1>6. ASSUME NEW e \in Events, Publish(e) \/ PublishUnheard(e) PROVE WritesStage \/ stage = Idle
  BY <1>6 DEF PublishUnheard, LoopFree, WritesStage
<1>7. ASSUME NEW r \in Repairs, EndSilently(r) PROVE stage = Idle
  BY <1>7 DEF EndSilently, LoopFree
<1>8. CASE Crash
  BY <1>8 DEF WritesStage
<1> QED BY <1>1, <1>2, <1>3, <1>4, <1>5, <1>6, <1>7, <1>8 DEF Next

LEMMA Writers ==
  ASSUME Next
  PROVE  /\ WritesGoal \/ UNCHANGED goal
         /\ WritesAssumption \/ UNCHANGED <<place, assumption>>
         /\ WritesVersions \/ UNCHANGED versions
         /\ WritesTurn \/ UNCHANGED taskVars
         /\ WritesJob \/ UNCHANGED job
         /\ WritesSpawner \/ UNCHANGED spawner
         /\ WritesStage \/ (stage = Idle /\ UNCHANGED stage)
         /\ WritesService \/ UNCHANGED <<heard, up>>
         /\ WritesBlocked \/ UNCHANGED blocked
         /\ WritesFaults \/ UNCHANGED faults
         /\ WritesSince \/ UNCHANGED since
         /\ WritesLost \/ UNCHANGED lost
         /\ WritesMissed \/ UNCHANGED missed
<1>1. WritesGoal \/ UNCHANGED goal
  BY DEF WritesGoal, Next, Progress, Completion, Turn, Spawn, goalVars, taskVars, memory, history,
    MarkInvalid, MarkStale, TakeUp, Block, AddRepairing, AnnounceFailure,
    AnnounceSuccess, Supersede, InsertRevised, InjectNotice,
    AnnounceUnheard, Assume, Publish, PublishUnheard, Claim, Lapse,
    Suspend, GiveUp, SpawnStart, SpawnSubmit, SpawnRefused, StopService,
    StartService, Crash
<1>2. WritesAssumption \/ UNCHANGED <<place, assumption>>
  BY DEF WritesAssumption, Next, Progress, Completion, Turn, Spawn, goalVars, taskVars, memory, history,
    MarkStale, TakeUp, Create, Block, AddRepairing, RepairEnds,
    AnnounceFailure, AnnounceSuccess, Supersede, InsertRevised,
    InjectNotice, AnnounceUnheard, Publish, PublishUnheard, RootEnds,
    EndSilently, Claim, Lapse, Suspend, GiveUp, SpawnStart, SpawnSubmit,
    SpawnCreate, SpawnRefused, StopService, StartService, Crash
<1>3. WritesVersions \/ UNCHANGED versions
  BY DEF WritesVersions, Next, Progress, Completion, Turn, Spawn, goalVars, taskVars, memory, history,
    MarkInvalid, TakeUp, Block, RepairEnds, InjectNotice, AnnounceUnheard,
    Assume, Publish, PublishUnheard, RootEnds, EndSilently, Claim, Lapse,
    Suspend, GiveUp, SpawnStart, SpawnSubmit, SpawnCreate, SpawnRefused,
    StopService, StartService, Crash
<1>4. WritesTurn \/ UNCHANGED taskVars
  BY DEF WritesTurn, Next, Progress, Completion, Turn, Spawn, goalVars, taskVars, memory, history,
    MarkInvalid, MarkStale, TakeUp, Create, Block, AddRepairing,
    RepairEnds, AnnounceFailure, AnnounceSuccess, Supersede,
    InsertRevised, AnnounceUnheard, Assume, Publish, PublishUnheard,
    EndSilently, SpawnStart, SpawnSubmit, SpawnCreate, SpawnRefused,
    StopService, StartService
<1>5. WritesJob \/ UNCHANGED job
  BY DEF WritesJob, Next, Progress, Completion, Turn, Spawn, goalVars, taskVars, memory, history,
    MarkStale, Create, RepairEnds, AnnounceFailure, AnnounceSuccess,
    Supersede, InsertRevised, InjectNotice, AnnounceUnheard, Assume,
    Publish, PublishUnheard, RootEnds, EndSilently, Claim, Lapse, Suspend,
    GiveUp, SpawnStart, SpawnSubmit, SpawnCreate, SpawnRefused,
    StopService, StartService
<1>6. WritesSpawner \/ UNCHANGED spawner
  BY DEF WritesSpawner, Next, Progress, Completion, Turn, Spawn, goalVars, taskVars, memory, history,
    MarkInvalid, MarkStale, TakeUp, Create, Block, AddRepairing,
    RepairEnds, AnnounceFailure, AnnounceSuccess, Supersede,
    InsertRevised, InjectNotice, AnnounceUnheard, Assume, Publish,
    PublishUnheard, RootEnds, EndSilently, Claim, Lapse, Suspend, GiveUp,
    StopService, StartService
<1>7. WritesStage \/ UNCHANGED stage
  BY DEF WritesStage, Next, Progress, Completion, Turn, Spawn, goalVars, taskVars, memory, history,
    TakeUp, Create, Block, AddRepairing, Assume, PublishUnheard, RootEnds,
    EndSilently, Claim, Lapse, Suspend, GiveUp, SpawnStart, SpawnSubmit,
    SpawnCreate, SpawnRefused, StopService, StartService
<1>8. WritesService \/ UNCHANGED <<heard, up>>
  BY DEF WritesService, Next, Progress, Completion, Turn, Spawn, goalVars, taskVars, memory, history,
    MarkInvalid, MarkStale, TakeUp, Create, Block, AddRepairing,
    RepairEnds, AnnounceFailure, AnnounceSuccess, Supersede,
    InsertRevised, InjectNotice, AnnounceUnheard, Assume, RootEnds,
    EndSilently, Claim, Lapse, Suspend, GiveUp, SpawnStart, SpawnSubmit,
    SpawnCreate, SpawnRefused
<1>9. WritesBlocked \/ UNCHANGED blocked
  BY DEF WritesBlocked, Next, Progress, Completion, Turn, Spawn, goalVars, taskVars, memory, history,
    MarkInvalid, MarkStale, TakeUp, Create, AddRepairing, RepairEnds,
    AnnounceFailure, AnnounceSuccess, Supersede, InsertRevised,
    InjectNotice, AnnounceUnheard, Assume, Publish, PublishUnheard,
    RootEnds, EndSilently, Claim, Lapse, Suspend, GiveUp, SpawnStart,
    SpawnSubmit, SpawnCreate, SpawnRefused, StopService, StartService,
    Crash
<1>10. WritesFaults \/ UNCHANGED faults
  BY DEF WritesFaults, Next, Progress, Completion, Turn, Spawn, goalVars, taskVars, memory, history,
    MarkInvalid, MarkStale, TakeUp, Create, Block, AddRepairing,
    RepairEnds, AnnounceFailure, AnnounceSuccess, Supersede,
    InsertRevised, InjectNotice, AnnounceUnheard, Assume, Publish,
    PublishUnheard, RootEnds, Claim, Suspend, GiveUp, SpawnStart,
    SpawnSubmit, SpawnCreate, SpawnRefused, StartService
<1>11. WritesSince \/ UNCHANGED since
  BY DEF WritesSince, Next, Progress, Completion, Turn, Spawn, goalVars, taskVars, memory, history,
    MarkStale, TakeUp, Create, Block, AddRepairing, RepairEnds,
    AnnounceFailure, AnnounceSuccess, Supersede, InsertRevised,
    InjectNotice, AnnounceUnheard, Assume, Publish, PublishUnheard,
    RootEnds, EndSilently, Claim, Lapse, Suspend, GiveUp, SpawnStart,
    SpawnSubmit, SpawnCreate, SpawnRefused, StopService, StartService,
    Crash
<1>12. WritesLost \/ UNCHANGED lost
  BY DEF WritesLost, Next, Progress, Completion, Turn, Spawn, goalVars, taskVars, memory, history,
    MarkInvalid, MarkStale, TakeUp, Create, Block, AddRepairing,
    RepairEnds, AnnounceFailure, AnnounceSuccess, Supersede,
    InsertRevised, InjectNotice, Assume, Publish, PublishUnheard,
    RootEnds, Claim, Lapse, Suspend, GiveUp, SpawnStart, SpawnSubmit,
    SpawnCreate, SpawnRefused, StopService, StartService
<1>13. WritesMissed \/ UNCHANGED missed
  BY DEF WritesMissed, Next, Progress, Completion, Turn, Spawn, goalVars, taskVars, memory, history,
    MarkInvalid, MarkStale, TakeUp, Create, Block, AddRepairing,
    RepairEnds, AnnounceFailure, AnnounceSuccess, Supersede,
    InsertRevised, AnnounceUnheard, Assume, Publish, PublishUnheard,
    RootEnds, EndSilently, Claim, Lapse, Suspend, GiveUp, SpawnStart,
    SpawnSubmit, SpawnCreate, SpawnRefused, StopService, StartService
<1> QED BY LoopIsFree, <1>1, <1>2, <1>3, <1>4, <1>5, <1>6, <1>7, <1>8, <1>9, <1>10, <1>11, <1>12, <1>13

-----------------------------------------------------------------------------
(* Types.                                                                  *)

GoalsTyped ==
  /\ goal \in [GoalIds -> {"none", "ACTIVE", "SUCCEEDED", "FAILED"}]
  /\ place \in [Assumptions -> Planned \cup {None}]
  /\ assumption \in [Assumptions -> {"none", "ACTIVE", "INVALIDATED"}]
TurnTyped ==
  /\ task \in [status : {"resumable", "RUNNING", "ended"}, token : Nat, notices : SUBSET Repairs]
  /\ execs \subseteq [token : Nat, notices : SUBSET Repairs]
JobTyped == job \in [Events -> [todo : SUBSET Assumptions, at : Assumptions \cup {None}]]
SpawnerTyped == spawner \in [Tokens -> [next : Nat, at : BOOLEAN]]
StageTyped ==
  stage \in [op : {"idle", "marking", "stale", "ended", "repaired", "superseded", "revised"},
             of : Repairs \cup Events \cup {None}, at : Assumptions \cup {None},
             rest : SUBSET Assumptions]
HistoryTyped ==
  /\ since \in [Assumptions -> Nat] /\ lost \subseteq Assumptions /\ missed \subseteq Repairs

LEMMA Parts ==
  RepairsTypeOK <=> /\ GoalsTyped /\ VersionsTyped /\ TurnTyped /\ JobTyped /\ SpawnerTyped
                    /\ StageTyped /\ HistoryTyped
                    /\ heard \subseteq Events /\ up \in BOOLEAN /\ blocked \subseteq Repairs /\ faults \in Nat
BY DEF RepairsTypeOK, GoalsTyped, VersionsTyped, TurnTyped, JobTyped, SpawnerTyped, StageTyped, HistoryTyped

LEMMA InitTyped == ASSUME Init PROVE RepairsTypeOK
<1> USE Names DEF Init
<1>1. GoalsTyped
  BY DEF GoalsTyped
<1>2. VersionsTyped
  <2>1. Made \in Version
    BY DEF Made, Version
  <2>2. <<Made>> \in Seq(Version) /\ << >> \in Seq(Version)
    BY <2>1
  <2> QED BY <2>2 DEF VersionsTyped
<1>3. TurnTyped /\ JobTyped /\ SpawnerTyped /\ HistoryTyped
  BY DEF TurnTyped, JobTyped, SpawnerTyped, HistoryTyped, Resting, Unspawned
<1>4. StageTyped
  BY DEF StageTyped, Idle, Stage
<1> QED BY Parts, <1>1, <1>2, <1>3, <1>4

LEMMA JobKept ==
  ASSUME Inv, Next
  PROVE  JobTyped'
<1> USE Parts, Names DEF Inv, JobTyped, StageTyped, StageSound
<1>1. ASSUME NEW a \in Assumptions, MarkInvalid(a) PROVE JobTyped'
  BY <1>1 DEF MarkInvalid
<1>2. ASSUME NEW e \in Events, NEW a \in Assumptions, TakeUp(e, a) PROVE JobTyped'
  BY <1>2 DEF TakeUp
<1>3. ASSUME NEW e \in Events, Block(e) PROVE JobTyped'
  BY <1>3 DEF Block
<1>4. ASSUME NEW e \in Events, AddRepairing(e) PROVE JobTyped'
  BY <1>4 DEF AddRepairing, After
<1>5. CASE Crash
  BY <1>5 DEF Crash, Resting
<1>6. CASE UNCHANGED job
  BY <1>6
<1> QED BY Writers, <1>1, <1>2, <1>3, <1>4, <1>5, <1>6 DEF WritesJob

LEMMA SpawnerKept ==
  ASSUME Inv, Next
  PROVE  SpawnerTyped'
<1> USE Parts, RepairsAssumption DEF Inv, SpawnerTyped
<1>1. ASSUME NEW x \in Tokens, SpawnStart(x) PROVE SpawnerTyped'
  BY <1>1 DEF SpawnStart
<1>2. ASSUME NEW x \in Tokens, SpawnSubmit(x) PROVE SpawnerTyped'
  BY <1>2 DEF SpawnSubmit
<1>3. ASSUME NEW x \in Tokens, SpawnCreate(x) PROVE SpawnerTyped'
  BY <1>3 DEF SpawnCreate
<1>4. ASSUME NEW x \in Tokens, SpawnRefused(x) PROVE SpawnerTyped'
  BY <1>4 DEF SpawnRefused
<1>5. CASE Crash
  BY <1>5 DEF Crash, Unspawned
<1>6. CASE UNCHANGED spawner
  BY <1>6
<1> QED BY Writers, <1>1, <1>2, <1>3, <1>4, <1>5, <1>6 DEF WritesSpawner

LEMMA TurnKept ==
  ASSUME Inv, Next
  PROVE  TurnTyped'
<1> USE Parts DEF Inv, TurnTyped, StageTyped, StageSound, Closing, taskVars
<1>1. CASE InjectNotice
  BY <1>1 DEF InjectNotice
<1>2. CASE RootEnds
  BY <1>2 DEF RootEnds
<1>3. CASE Claim
  <2>1. execs' = execs \cup {[token |-> task.token + 1, notices |-> task.notices]}
    BY <1>3 DEF Claim
  <2>2. task' \in [status : {"resumable", "RUNNING", "ended"}, token : Nat, notices : SUBSET Repairs]
    <3>1. task' = [status |-> "RUNNING", token |-> task.token + 1, notices |-> task.notices]
      BY <1>3 DEF Claim
    <3> QED BY <3>1
  <2>3. [token |-> task.token + 1, notices |-> task.notices] \in [token : Nat, notices : SUBSET Repairs]
    OBVIOUS
  <2> QED BY <2>1, <2>2, <2>3
<1>4. CASE Lapse
  BY <1>4 DEF Lapse
<1>5. ASSUME NEW x \in execs, Suspend(x) PROVE TurnTyped'
  BY <1>5 DEF Suspend
<1>6. ASSUME NEW x \in execs, GiveUp(x) PROVE TurnTyped'
  BY <1>6 DEF GiveUp
<1>7. CASE Crash
  BY <1>7 DEF Crash
<1>8. CASE UNCHANGED taskVars
  BY <1>8 DEF taskVars
<1> QED BY Writers, <1>1, <1>2, <1>3, <1>4, <1>5, <1>6, <1>7, <1>8 DEF WritesTurn

LEMMA StageKept ==
  ASSUME Inv, Next
  PROVE  StageTyped'
<1> USE Parts, Names DEF Inv, StageTyped, StageSound, Closing, Idle, Stage
<1>1. ASSUME NEW a \in Assumptions, MarkInvalid(a) PROVE StageTyped'
  BY <1>1 DEF MarkInvalid
<1>2. CASE MarkStale
  BY <1>2 DEF MarkStale, Marking
<1>3. ASSUME NEW e \in Events, Publish(e) PROVE StageTyped'
  BY <1>3 DEF Publish, Marking
<1>4. ASSUME NEW r \in Repairs, NEW s \in {"SUCCEEDED", "FAILED"}, RepairEnds(r, s) PROVE StageTyped'
  BY <1>4 DEF RepairEnds
<1>5. CASE AnnounceFailure
  BY <1>5 DEF AnnounceFailure
<1>6. CASE AnnounceSuccess
  BY <1>6 DEF AnnounceSuccess
<1>7. CASE Supersede
  BY <1>7 DEF Supersede
<1>8. CASE InsertRevised
  BY <1>8 DEF InsertRevised
<1>9. CASE InjectNotice
  BY <1>9 DEF InjectNotice
<1>10. CASE AnnounceUnheard
  BY <1>10 DEF AnnounceUnheard
<1>11. CASE Crash
  BY <1>11 DEF Crash
<1>12. CASE stage = Idle /\ UNCHANGED stage
  BY <1>12
<1> QED BY Writers, <1>1, <1>2, <1>3, <1>4, <1>5, <1>6, <1>7, <1>8, <1>9, <1>10, <1>11, <1>12 DEF WritesStage

LEMMA ParentThere ==
  ASSUME Inv, NEW a \in Assumptions, NEW e \in Events, Taken(a, e)
  PROVE  assumption[a] = "INVALIDATED" /\ place[a] \in Planned /\ ParentOf(<<a, e>>) = place[a]
<1>1. assumption[a] = "INVALIDATED"
  BY DEF Inv, TakenOnce
<1>2. place[a] \in Planned
  BY <1>1, Parts DEF Inv, Recorded, GoalsTyped
<1>3. ParentOf(<<a, e>>) = place[a]
  BY Names DEF ParentOf
<1> QED BY <1>1, <1>2, <1>3

LEMMA ParentOfStage ==
  ASSUME Inv, stage.op \in Closing
  PROVE  stage.of \in Repairs /\ ParentOf(stage.of) \in Planned
<1>1. stage.of \in Repairs /\ goal[stage.of] # "none"
  BY DEF Inv, StageSound
<1>2. Taken(stage.of[1], stage.of[2])
  BY <1>1, Names DEF Taken
<1> QED BY <1>1, <1>2, Names, ParentThere

LEMMA ParentOfJob ==
  ASSUME Inv, NEW e \in Events, job[e].at # None
  PROVE  /\ job[e].at \in Assumptions /\ <<job[e].at, e>> \in Repairs
         /\ place[job[e].at] \in Planned /\ assumption[job[e].at] = "INVALIDATED"
         /\ ParentOf(<<job[e].at, e>>) = place[job[e].at]
<1>1. job[e].at \in Assumptions
  BY Parts DEF Inv, JobTyped
<1>2. Taken(job[e].at, e)
  BY DEF Taken
<1> QED BY <1>1, <1>2, Names, ParentThere

LEMMA VersionsKept ==
  ASSUME Inv, Next
  PROVE  VersionsTyped'
<1> USE Parts, Names DEF Inv
<1>1. CASE MarkStale
  BY <1>1, Restated DEF MarkStale, Statuses
<1>2. ASSUME NEW e \in Events, Create(e) PROVE VersionsTyped'
  <2>1. Made \in Version
    BY DEF Made, Version
  <2>2. <<Made>> \in Seq(Version)
    BY <2>1
  <2> QED BY <1>2, <2>2 DEF Create, VersionsTyped
<1>3. ASSUME NEW e \in Events, AddRepairing(e) PROVE VersionsTyped'
  <2>1. job[e].at # None /\ versions' = [versions EXCEPT ![place[job[e].at]] = Append(@, Repairing(<<job[e].at, e>>))]
    BY <1>3 DEF AddRepairing
  <2>2. Repairing(<<job[e].at, e>>) \in Version
    BY <2>1, ParentOfJob DEF Repairing, Version
  <2> QED BY <2>1, <2>2, ParentOfJob, Appended
<1>4. CASE AnnounceFailure
  BY <1>4, Restated DEF AnnounceFailure, Statuses
<1>5. CASE AnnounceSuccess
  BY <1>5, Restated DEF AnnounceSuccess, Statuses
<1>6. CASE Supersede
  BY <1>6, Restated DEF Supersede, Statuses
<1>7. CASE InsertRevised
  <2>1. stage.op \in Closing /\ versions' = [versions EXCEPT ![ParentOf(stage.of)] = Append(@, Revised(stage.of))]
    BY <1>7 DEF InsertRevised, Closing
  <2>2. Revised(stage.of) \in Version
    BY <2>1, ParentOfStage DEF Revised, Version
  <2> QED BY <2>1, <2>2, ParentOfStage, Appended
<1>8. CASE UNCHANGED versions
  BY <1>8 DEF VersionsTyped
<1> QED BY Writers, <1>1, <1>2, <1>3, <1>4, <1>5, <1>6, <1>7, <1>8 DEF WritesVersions

\* Goals are not deleted.
LEMMA GoalsGrow ==
  ASSUME Inv, Next
  PROVE  /\ goal' \in [GoalIds -> {"none", "ACTIVE", "SUCCEEDED", "FAILED"}]
         /\ \A g \in GoalIds : goal[g] # "none" => goal'[g] # "none"
<1> DEFINE GoalsGo == /\ goal' \in [GoalIds -> {"none", "ACTIVE", "SUCCEEDED", "FAILED"}]
                     /\ \A g \in GoalIds : goal[g] # "none" => goal'[g] # "none"
<1> USE Parts, Names DEF Inv, GoalsTyped
<1>1. ASSUME NEW e \in Events, Create(e) PROVE GoalsGo
  BY <1>1 DEF Create
<1>2. ASSUME NEW r \in Repairs, NEW s \in {"SUCCEEDED", "FAILED"}, RepairEnds(r, s) PROVE GoalsGo
  BY <1>2 DEF RepairEnds
<1>3. ASSUME NEW r \in Repairs, EndSilently(r) PROVE GoalsGo
  BY <1>3 DEF EndSilently
<1>4. CASE RootEnds
  BY <1>4 DEF RootEnds
<1>5. ASSUME NEW x \in Tokens, SpawnCreate(x) PROVE GoalsGo
  BY <1>5 DEF SpawnCreate
<1>6. CASE UNCHANGED goal
  BY <1>6
<1> QED BY Writers, <1>1, <1>2, <1>3, <1>4, <1>5, <1>6 DEF WritesGoal

\* An assumption is recorded once and falls once.
LEMMA AssumptionsMove ==
  ASSUME Inv, Next
  PROVE  /\ place' \in [Assumptions -> Planned \cup {None}]
         /\ assumption' \in [Assumptions -> {"none", "ACTIVE", "INVALIDATED"}]
         /\ \A a \in Assumptions :
              /\ place'[a] = None <=> assumption'[a] = "none"
              /\ assumption[a] = "INVALIDATED" => assumption'[a] = "INVALIDATED"
              /\ place[a] # None => place'[a] = place[a]
              /\ place'[a] # None => goal[place'[a]] # "none"
<1> DEFINE Moves ==
         /\ place' \in [Assumptions -> Planned \cup {None}]
         /\ assumption' \in [Assumptions -> {"none", "ACTIVE", "INVALIDATED"}]
         /\ \A a \in Assumptions :
              /\ place'[a] = None <=> assumption'[a] = "none"
              /\ assumption[a] = "INVALIDATED" => assumption'[a] = "INVALIDATED"
              /\ place[a] # None => place'[a] = place[a]
              /\ place'[a] # None => goal[place'[a]] # "none"
<1> USE Parts, Names DEF Inv, GoalsTyped, Recorded
<1>1. ASSUME NEW a \in Assumptions, NEW g \in Planned, Assume(a, g) PROVE Moves
  BY <1>1 DEF Assume
<1>2. ASSUME NEW a \in Assumptions, MarkInvalid(a) PROVE Moves
  BY <1>2 DEF MarkInvalid, StageSound
<1>3. CASE UNCHANGED <<place, assumption>>
  BY <1>3
<1> HIDE DEF Moves
<1> QED BY <1>1, <1>2, <1>3, Writers DEF WritesAssumption, Moves

LEMMA HistoryKept ==
  ASSUME Inv, Next
  PROVE  HistoryTyped'
<1> USE Parts, Names DEF Inv, HistoryTyped
<1>1. since' \in [Assumptions -> Nat]
  <2>1. ASSUME NEW a \in Assumptions, MarkInvalid(a) PROVE since' \in [Assumptions -> Nat]
    <3>1. place[a] \in Planned
      BY <2>1 DEF MarkInvalid, StageSound, GoalsTyped, Recorded
    <3>2. Len(versions[place[a]]) \in Nat
      BY <3>1 DEF VersionsTyped
    <3> QED BY <2>1, <3>2 DEF MarkInvalid
  <2> QED BY <2>1, Writers DEF WritesSince
<1>2. lost' \subseteq Assumptions
  <2>1. CASE AnnounceUnheard
    BY <2>1, ParentOfStage DEF AnnounceUnheard, Closing
  <2>2. ASSUME NEW r \in Repairs, EndSilently(r) PROVE lost' \subseteq Assumptions
    BY <2>2 DEF EndSilently
  <2>3. CASE Crash
    <3>1. InHand \subseteq Assumptions
      BY DEF InHand, JobTyped
    <3>2. stage.op = "ended" => stage.of[1] \in Assumptions
      BY ParentOfStage DEF Closing
    <3> QED BY <2>3, <3>1, <3>2 DEF Crash
  <2> QED BY <2>1, <2>2, <2>3, Writers DEF WritesLost
<1>3. missed' \subseteq Repairs
  <2>1. CASE InjectNotice
    BY <2>1, ParentOfStage DEF InjectNotice, Closing, history
  <2>2. CASE Crash
    BY <2>2, ParentOfStage DEF Crash, Closing
  <2> QED BY <2>1, <2>2, Writers DEF WritesMissed
<1> QED BY <1>1, <1>2, <1>3

LEMMA RestKept ==
  ASSUME Inv, Next
  PROVE  heard' \subseteq Events /\ up' \in BOOLEAN /\ blocked' \subseteq Repairs /\ faults' \in Nat
<1> USE Parts, Names DEF Inv
<1>1. heard' \subseteq Events /\ up' \in BOOLEAN
  BY Writers DEF WritesService, Publish, PublishUnheard, StopService, StartService, Crash
<1>2. blocked' \subseteq Repairs
  <2>1. ASSUME NEW e \in Events, Block(e) PROVE blocked' \subseteq Repairs
    BY <2>1, ParentOfJob DEF Block
  <2> QED BY <2>1, Writers DEF WritesBlocked
<1>3. faults' \in Nat
  <2>1. ASSUME NEW r \in Repairs, EndSilently(r) PROVE faults' \in Nat
    BY <2>1 DEF EndSilently
  <2>2. CASE Lapse \/ StopService \/ Crash
    BY <2>2 DEF Lapse, StopService, Crash
  <2> QED BY <2>1, <2>2, Writers DEF WritesFaults
<1> QED BY <1>1, <1>2, <1>3

LEMMA TypesStep ==
  ASSUME Inv, Next
  PROVE  RepairsTypeOK'
<1>1. GoalsTyped'
  BY GoalsGrow, AssumptionsMove DEF GoalsTyped
<1>2. JobTyped' /\ SpawnerTyped' /\ StageTyped' /\ TurnTyped'
  BY JobKept, SpawnerKept, StageKept, TurnKept
<1>3. VersionsTyped' /\ HistoryTyped'
  BY VersionsKept, HistoryKept
<1> QED BY <1>1, <1>2, <1>3, RestKept
  DEF RepairsTypeOK, GoalsTyped, VersionsTyped, TurnTyped, JobTyped, SpawnerTyped, StageTyped, HistoryTyped

-----------------------------------------------------------------------------
(* Goals, stretches and repairs.                                           *)

LEMMA RecordedStep ==
  ASSUME Inv, Next
  PROVE  Recorded'
BY Names, GoalsGrow, AssumptionsMove DEF Inv, Recorded

LEMMA StageStep ==
  ASSUME Inv, Next
  PROVE  StageSound'
<1> USE Parts, Names DEF Inv, StageTyped, StageSound, Closing, Idle, Stage
<1>1. ASSUME NEW a \in Assumptions, MarkInvalid(a) PROVE StageSound'
  BY <1>1 DEF MarkInvalid, GoalsTyped, JobTyped
<1>2. CASE MarkStale
  BY <1>2 DEF MarkStale, Marking
<1>3. ASSUME NEW e \in Events, Publish(e) PROVE StageSound'
  <2> DEFINE hit == {a \in Assumptions : Falls(a)}
  <2>1. stage' = Marking(e, hit) /\ assumption' = assumption
    BY <1>3 DEF Publish, goalVars
  <2>2. \A a \in hit : assumption[a] = "ACTIVE"
    BY DEF Falls
  <2> HIDE DEF hit
  <2> QED BY <2>1, <2>2 DEF Marking
<1>4. ASSUME NEW r \in Repairs, NEW s \in {"SUCCEEDED", "FAILED"}, RepairEnds(r, s) PROVE StageSound'
  BY <1>4 DEF RepairEnds, GoalsTyped
<1>5. CASE AnnounceFailure
  BY <1>5 DEF AnnounceFailure
<1>6. CASE AnnounceSuccess
  BY <1>6 DEF AnnounceSuccess
<1>7. CASE Supersede
  BY <1>7 DEF Supersede
<1>8. CASE InsertRevised
  BY <1>8 DEF InsertRevised
<1>9. CASE InjectNotice
  BY <1>9 DEF InjectNotice
<1>10. CASE AnnounceUnheard
  BY <1>10 DEF AnnounceUnheard
<1>11. CASE Crash
  BY <1>11 DEF Crash
<1>12. CASE stage = Idle /\ UNCHANGED stage
  BY <1>12
<1> QED BY Writers, <1>1, <1>2, <1>3, <1>4, <1>5, <1>6, <1>7, <1>8, <1>9, <1>10, <1>11, <1>12 DEF WritesStage

\* Only an assumption that falls is taken by an event anew.
LEMMA TakenBefore ==
  ASSUME Inv, Next, NEW a \in Assumptions, NEW e \in Events, Taken(a, e)'
  PROVE  Taken(a, e) \/ (MarkInvalid(a) /\ e = stage.of)
<1> USE Parts, Names DEF Inv, GoalsTyped, JobTyped
<1> DEFINE Before == Taken(a, e) \/ (MarkInvalid(a) /\ e = stage.of)
<1>1. goal'[<<a, e>>] # "none" => Taken(a, e)
  <2>1. ASSUME NEW d \in Events, Create(d), goal'[<<a, e>>] # "none" PROVE Taken(a, e)
    BY <2>1 DEF Create, Taken
  <2>2. ASSUME NEW r \in Repairs, NEW s \in {"SUCCEEDED", "FAILED"}, RepairEnds(r, s), goal'[<<a, e>>] # "none"
        PROVE  Taken(a, e)
    BY <2>2 DEF RepairEnds, Taken
  <2>3. ASSUME NEW r \in Repairs, EndSilently(r), goal'[<<a, e>>] # "none" PROVE Taken(a, e)
    BY <2>3 DEF EndSilently, Taken
  <2>4. CASE RootEnds
    BY <2>4 DEF RootEnds, Taken
  <2>5. ASSUME NEW x \in Tokens, SpawnCreate(x), goal'[<<a, e>>] # "none" PROVE Taken(a, e)
    <3>1. Kid(x) # <<a, e>>
      BY RepairsAssumption DEF Kid
    <3> QED BY <2>5, <3>1 DEF SpawnCreate, Taken
  <2>6. CASE UNCHANGED goal
    BY <2>6 DEF Taken
  <2> QED BY <2>1, <2>2, <2>3, <2>4, <2>5, <2>6, Writers DEF WritesGoal
<1>2. a \in job'[e].todo \/ job'[e].at = a => Before
  <2>1. ASSUME NEW b \in Assumptions, MarkInvalid(b), a \in job'[e].todo \/ job'[e].at = a PROVE Before
    <3>1. stage.of \in Events
      BY <2>1 DEF MarkInvalid, StageSound
    <3>2. CASE e = stage.of
      BY <2>1, <3>1, <3>2 DEF MarkInvalid, Taken
    <3>3. CASE e # stage.of
      BY <2>1, <3>1, <3>3 DEF MarkInvalid, Taken
    <3> QED BY <3>2, <3>3
  <2>2. ASSUME NEW d \in Events, NEW b \in Assumptions, TakeUp(d, b), a \in job'[e].todo \/ job'[e].at = a
        PROVE  Before
    BY <2>2 DEF TakeUp, Taken
  <2>3. ASSUME NEW d \in Events, Block(d), a \in job'[e].todo \/ job'[e].at = a PROVE Before
    BY <2>3 DEF Block, Taken
  <2>4. ASSUME NEW d \in Events, AddRepairing(d), a \in job'[e].todo \/ job'[e].at = a PROVE Before
    BY <2>4 DEF AddRepairing, After, Taken
  <2>5. CASE Crash
    BY <2>5 DEF Crash, Resting
  <2>6. CASE UNCHANGED job
    BY <2>6 DEF Taken
  <2> HIDE DEF Before
  <2> QED BY <2>1, <2>2, <2>3, <2>4, <2>5, <2>6, Writers DEF WritesJob
<1>3. goal'[<<a, e>>] # "none" \/ a \in job'[e].todo \/ job'[e].at = a
  BY DEF Taken
<1> QED BY <1>1, <1>2, <1>3

LEMMA TakenStep ==
  ASSUME Inv, Next
  PROVE  TakenOnce'
<1>1. ASSUME NEW a \in Assumptions, NEW e \in Events, Taken(a, e)'
      PROVE  assumption'[a] = "INVALIDATED"
  <2>1. CASE Taken(a, e)
    BY <2>1, AssumptionsMove DEF Inv, TakenOnce
  <2>2. CASE MarkInvalid(a)
    BY <2>2, Parts DEF MarkInvalid, Inv, GoalsTyped
  <2> QED BY <1>1, <2>1, <2>2, TakenBefore
<1>2. ASSUME NEW a \in Assumptions, NEW d \in Events, NEW e \in Events, Taken(a, d)', Taken(a, e)'
      PROVE  d = e
  <2>1. CASE MarkInvalid(a)
    <3>1. assumption[a] = "ACTIVE"
      BY <2>1 DEF MarkInvalid, Inv, StageSound
    <3>2. ~Taken(a, d) /\ ~Taken(a, e)
      BY <3>1 DEF Inv, TakenOnce
    <3> QED BY <1>2, <3>2, TakenBefore
  <2>2. CASE ~MarkInvalid(a)
    BY <1>2, <2>2, TakenBefore DEF Inv, TakenOnce
  <2> QED BY <2>1, <2>2
<1> QED BY <1>1, <1>2 DEF TakenOnce

-----------------------------------------------------------------------------
(* The budget.                                                             *)

LEMMA ChildrenFinite == \A p \in Planned : IsFiniteSet(ChildrenOf(p))
<1>1. IsFiniteSet(Repairs)
  BY RepairsAssumption, FS_Product DEF Repairs
<1>2. IsFiniteSet({"child"}) /\ IsFiniteSet(1..Children)
  <2>1. Children \in Int /\ 1 \in Int
    BY RepairsAssumption
  <2> QED BY <2>1, FS_Singleton, FS_Interval
<1>3. IsFiniteSet(Kids)
  BY <1>2, FS_Product DEF Kids
<1>4. IsFiniteSet(Repairs \cup Kids)
  BY <1>1, <1>3, FS_Union
<1>5. \A p \in Planned : ChildrenOf(p) \subseteq Repairs \cup Kids
  BY DEF ChildrenOf
<1> QED BY <1>4, <1>5, FS_Subset

\* A child is new when it has just been created, under the budget.
LEMMA NewChild ==
  ASSUME Inv, Next, NEW p \in Planned, NEW c \in ChildrenOf(p)', c \notin ChildrenOf(p)
  PROVE  /\ Room(p)
         /\ \A d \in ChildrenOf(p)' \ ChildrenOf(p) : d = c
<1> USE Parts, Names DEF Inv, GoalsTyped
<1>1. /\ c \in Repairs \cup Kids
      /\ \A d \in ChildrenOf(p)' : d \in Repairs \cup Kids /\ goal'[d] # "none" /\ ParentOf(d)' = p
      /\ \A d \in Repairs \cup Kids : goal[d] # "none" /\ ParentOf(d) = p => d \in ChildrenOf(p)
  BY DEF ChildrenOf
<1>2. ASSUME NEW d \in Repairs \cup Kids, goal[d] # "none" PROVE ParentOf(d)' = ParentOf(d)
  <2>1. CASE d \in Repairs
    <3>1. Taken(d[1], d[2])
      BY <1>2, <2>1 DEF Taken
    <3>2. place[d[1]] # None
      BY <2>1, <3>1, ParentThere
    <3> QED BY <2>1, <3>2, AssumptionsMove DEF ParentOf
  <2>2. CASE d \notin Repairs
    BY <2>2 DEF ParentOf
  <2> QED BY <2>1, <2>2
<1>3. \A d \in ChildrenOf(p)' \ ChildrenOf(p) : goal[d] = "none" /\ goal'[d] # "none"
  BY <1>1, <1>2
<1>4. ASSUME NEW e \in Events, Create(e)
      PROVE  Room(p) /\ \A d \in ChildrenOf(p)' \ ChildrenOf(p) : d = c
  <2> DEFINE r == <<job[e].at, e>>
  <2>1. /\ job[e].at # None /\ Room(place[job[e].at])
        /\ goal' = [goal EXCEPT ![r] = "ACTIVE"] /\ place' = place
    BY <1>4 DEF Create
  <2>2. \A d \in ChildrenOf(p)' \ ChildrenOf(p) : d = r
    BY <1>1, <1>3, <2>1
  <2>3. ParentOf(c)' = place[job[e].at]
    BY <2>1, <2>2, ParentOfJob DEF ParentOf
  <2> HIDE DEF r
  <2> QED BY <1>1, <2>1, <2>2, <2>3
<1>5. ASSUME NEW x \in Tokens, SpawnCreate(x)
      PROVE  Room(p) /\ \A d \in ChildrenOf(p)' \ ChildrenOf(p) : d = c
  <2>1. Room(Root) /\ goal' = [goal EXCEPT ![Kid(x)] = IF @ = "none" THEN "ACTIVE" ELSE @]
    BY <1>5 DEF SpawnCreate
  <2>2. \A d \in ChildrenOf(p)' \ ChildrenOf(p) : d = Kid(x)
    BY <1>1, <1>3, <2>1
  <2>3. Kid(x) \notin Repairs
    BY RepairsAssumption DEF Kid
  <2>4. ParentOf(c)' = Root
    BY <2>2, <2>3 DEF ParentOf
  <2> QED BY <1>1, <2>1, <2>2, <2>4
<1>6. CASE UNCHANGED goal
  BY <1>3, <1>6
<1>7. ASSUME NEW r \in Repairs, goal[r] = "ACTIVE", NEW s, goal' = [goal EXCEPT ![r] = s]
      PROVE  FALSE
  BY <1>3, <1>7, <1>1
<1>8. CASE RootEnds
  BY <1>1, <1>3, <1>8 DEF RootEnds
<1>9. (\A r \in Repairs : ~EndSilently(r)) /\ \A r \in Repairs, s \in {"SUCCEEDED", "FAILED"} : ~RepairEnds(r, s)
  BY <1>7 DEF EndSilently, RepairEnds
<1> QED BY <1>4, <1>5, <1>6, <1>8, <1>9, Writers DEF WritesGoal

LEMMA BoundedStep ==
  ASSUME Inv, Next
  PROVE  Bounded'
<1> SUFFICES ASSUME NEW p \in Planned
             PROVE  Cardinality(ChildrenOf(p)') <= FanOut(p)
  BY DEF Bounded, FanOut
<1>1. IsFiniteSet(ChildrenOf(p)) /\ Cardinality(ChildrenOf(p)) \in Nat
  BY ChildrenFinite, FS_CardinalityType
<1>2. Cardinality(ChildrenOf(p)) <= FanOut(p) /\ FanOut(p) \in Nat
  BY RepairsAssumption DEF Inv, Bounded, FanOut
<1>3. CASE ChildrenOf(p)' \subseteq ChildrenOf(p)
  BY <1>1, <1>2, <1>3, FS_Subset, FS_CardinalityType
<1>4. ASSUME NEW c \in ChildrenOf(p)', c \notin ChildrenOf(p)
      PROVE  Cardinality(ChildrenOf(p)') <= FanOut(p)
  <2>1. Room(p) /\ ChildrenOf(p)' \subseteq ChildrenOf(p) \cup {c}
    BY <1>4, NewChild
  <2>2. /\ IsFiniteSet(ChildrenOf(p) \cup {c})
        /\ Cardinality(ChildrenOf(p) \cup {c}) = Cardinality(ChildrenOf(p)) + 1
    BY <1>1, <1>4, FS_AddElement
  <2>3. /\ Cardinality(ChildrenOf(p)') \in Nat
        /\ Cardinality(ChildrenOf(p)') <= Cardinality(ChildrenOf(p)) + 1
    BY <2>1, <2>2, FS_Subset, FS_CardinalityType
  <2> QED BY <1>1, <1>2, <2>1, <2>3 DEF Room
<1> QED BY <1>3, <1>4

-----------------------------------------------------------------------------
(* The theorems on types and the budget.                                   *)

LEMMA InitInv == ASSUME Init PROVE Inv
<1>1. Recorded /\ StageSound /\ TakenOnce
  BY Names DEF Init, Recorded, StageSound, TakenOnce, Taken, Resting, Idle, Stage, Closing
<1>2. Bounded
  <2>1. ASSUME NEW p \in Planned PROVE ChildrenOf(p) = {}
    BY Names DEF Init, ChildrenOf
  <2> QED BY <2>1, FS_EmptySet, RepairsAssumption DEF Bounded, FanOut
<1> QED BY InitTyped, <1>1, <1>2 DEF Inv

LEMMA InvStep == ASSUME Inv, [Next]_vars PROVE Inv'
<1>1. CASE Next
  BY <1>1, TypesStep, RecordedStep, StageStep, TakenStep, BoundedStep DEF Inv
<1>2. CASE UNCHANGED vars
  BY <1>2 DEF vars, goalVars, taskVars, memory, history, Inv, RepairsTypeOK, Recorded, StageSound,
    TakenOnce, Taken, Bounded, ChildrenOf, ParentOf, FanOut
<1> QED BY <1>1, <1>2

\* Every variable keeps its type, for any assumptions, events and bounds; in
\* particular a stretch always has the goal and the assumption it works on.
THEOREM RepairsTypes == Spec => []RepairsTypeOK
<1>1. Inv => RepairsTypeOK
  BY DEF Inv
<1> QED BY InitInv, InvStep, <1>1, PTL DEF Spec

\* No goal has more children than its budget allows, and no assumption more
\* than one repair, for any number of assumptions, events and children.
THEOREM FanOutIsKept == Spec => []FanOutHolds
<1>1. Inv => FanOutHolds
  BY DEF Inv, Bounded, TakenOnce, Taken, FanOutHolds
<1> QED BY InitInv, InvStep, <1>1, PTL DEF Spec

-----------------------------------------------------------------------------
(* What a step does to the versions of a plan.                             *)

LEMMA StretchEnds ==
  ASSUME Inv, Next
  PROVE  /\ stage.op = "stale" => MarkStale \/ Crash
         /\ stage.op = "revised" => InjectNotice \/ Crash
         /\ stage'.op = "superseded" => Supersede
<1>1. ASSUME NEW a \in Assumptions, MarkInvalid(a)
      PROVE  stage.op = "marking" /\ stage'.op = "stale"
  BY <1>1 DEF MarkInvalid
<1>2. ASSUME NEW e \in Events, Publish(e)
      PROVE  stage.op = "idle" /\ stage'.op \in {"idle", "marking"}
  BY <1>2 DEF Publish, LoopFree, Marking, Idle, Stage
<1>3. ASSUME NEW r \in Repairs, NEW s \in {"SUCCEEDED", "FAILED"}, RepairEnds(r, s)
      PROVE  stage.op = "idle" /\ stage'.op = "ended"
  BY <1>3 DEF RepairEnds, LoopFree, Idle, Stage
<1>4. CASE AnnounceFailure \/ AnnounceSuccess \/ AnnounceUnheard
  BY <1>4 DEF AnnounceFailure, AnnounceSuccess, AnnounceUnheard, Idle, Stage
<1>5. CASE InsertRevised
  BY <1>5 DEF InsertRevised, Idle, Stage
<1>6. CASE InjectNotice \/ Crash
  BY <1>6 DEF InjectNotice, Crash, Idle, Stage
<1>7. MarkStale => stage.op = "stale" /\ stage'.op \in {"idle", "marking"}
  BY DEF MarkStale, Marking, Idle, Stage
<1>8. Supersede => stage.op = "repaired"
  BY DEF Supersede
<1>9. CASE stage = Idle /\ UNCHANGED stage
  BY <1>9 DEF Idle, Stage
<1> QED BY <1>1, <1>2, <1>3, <1>4, <1>5, <1>6, <1>7, <1>8, <1>9, Writers DEF WritesStage

\* What has been written keeps its kind and its repair, and does not become
\* CURRENT again; what is new is at the end.
Kept(p) ==
  /\ Len(versions[p]) <= Len(versions'[p])
  /\ \A i \in 1..Len(versions[p]) :
       /\ versions'[p][i].kind = versions[p][i].kind
       /\ versions'[p][i].of = versions[p][i].of
       /\ versions'[p][i].status = "CURRENT" => versions[p][i].status = "CURRENT"
  /\ \A i \in 1..Len(versions'[p]) : i > Len(versions[p]) =>
       /\ i = Len(versions[p]) + 1
       /\ \/ /\ InsertRevised /\ p = ParentOf(stage.of)
             /\ versions'[p][i].of = stage.of
          \/ versions'[p][i].kind = "invalidated" /\ versions'[p][i].status = "REPAIRING"

LEMMA RestatedKept ==
  ASSUME VersionsTyped, NEW g, NEW some, NEW s \in Statuses, s # "CURRENT",
         versions' = Restate(g, some, s), NEW p \in Planned
  PROVE  Kept(p)
<1>1. Len(versions[p]) \in Nat
  BY DEF VersionsTyped
<1> QED BY <1>1, Restated DEF Kept

Moved(p) == IF goal[p] = "none" THEN versions'[p] = versions[p] \/ versions'[p] = <<Made>> ELSE Kept(p)

LEMMA RestatedMoved ==
  ASSUME VersionsTyped, NEW g \in Planned, goal[g] # "none", NEW some, NEW s \in Statuses \ {"CURRENT"},
         versions' = Restate(g, some, s), NEW p \in Planned
  PROVE  Moved(p)
<1>1. Kept(p)
  BY RestatedKept
<1>2. p # g => versions'[p] = versions[p]
  BY DEF Restate, VersionsTyped
<1> QED BY <1>1, <1>2 DEF Moved

LEMMA AppendedMoved ==
  ASSUME VersionsTyped, NEW g \in Planned, goal[g] # "none", NEW v \in Version,
         versions' = [versions EXCEPT ![g] = Append(@, v)],
         \/ InsertRevised /\ g = ParentOf(stage.of) /\ v.of = stage.of
         \/ v.kind = "invalidated" /\ v.status = "REPAIRING",
         NEW p \in Planned
  PROVE  Moved(p)
<1>1. versions[p] \in Seq(Version) /\ Len(versions[p]) \in Nat
  BY DEF VersionsTyped
<1>2. CASE p = g
  BY <1>1, <1>2, Appended DEF Kept, Moved
<1>3. CASE p # g
  BY <1>1, <1>3, Appended DEF Kept, Moved
<1> QED BY <1>2, <1>3

LEMMA VersionsMove ==
  ASSUME Inv, Next, NEW p \in Planned
  PROVE  Moved(p)
<1> USE Parts, Names DEF Inv
<1>1. /\ versions[p] \in Seq(Version) /\ Len(versions[p]) \in Nat /\ VersionsTyped
      /\ \A a \in Assumptions : place[a] # None => goal[place[a]] # "none"
  BY DEF VersionsTyped, Recorded
<1>4. CASE UNCHANGED versions
  BY <1>1, <1>4 DEF Kept, Moved
<1>5. CASE MarkStale
  <2>1. /\ versions' = Restate(place[stage.at], InDoubt, "STALE") /\ stage.at \in Assumptions
        /\ assumption[stage.at] # "none"
    BY <1>5 DEF MarkStale, StageSound
  <2>2. place[stage.at] # None /\ place[stage.at] \in Planned
    BY <2>1 DEF Recorded, GoalsTyped
  <2> QED BY <1>1, <2>1, <2>2, RestatedMoved DEF Statuses
<1>6. ASSUME stage.op \in Closing
      PROVE  ParentOf(stage.of) \in Planned /\ goal[ParentOf(stage.of)] # "none"
  BY <1>1, <1>6, ParentOfStage DEF ParentOf
<1>7. CASE AnnounceFailure
  <2>1. stage.op \in Closing /\ versions' = Restate(ParentOf(stage.of), Open(stage.of), "REPAIR_FAILED")
    BY <1>7 DEF AnnounceFailure, Closing
  <2> QED BY <1>1, <1>6, <2>1, RestatedMoved DEF Statuses
<1>8. CASE AnnounceSuccess
  <2>1. stage.op \in Closing /\ versions' = Restate(ParentOf(stage.of), Open(stage.of), "REPAIRED")
    BY <1>8 DEF AnnounceSuccess, Closing
  <2> QED BY <1>1, <1>6, <2>1, RestatedMoved DEF Statuses
<1>9. CASE Supersede
  <2>1. stage.op \in Closing /\ versions' = Restate(ParentOf(stage.of), Current, "SUPERSEDED")
    BY <1>9 DEF Supersede, Closing
  <2> QED BY <1>1, <1>6, <2>1, RestatedMoved DEF Statuses
<1>10. CASE InsertRevised
  <2>1. Revised(stage.of) \in Version /\ Revised(stage.of).of = stage.of
    BY <1>10, ParentOfStage DEF InsertRevised, Closing, Revised, Version
  <2>2. versions' = [versions EXCEPT ![ParentOf(stage.of)] = Append(@, Revised(stage.of))] /\ stage.op \in Closing
    BY <1>10 DEF InsertRevised, Closing
  <2> QED BY <1>1, <1>6, <1>10, <2>1, <2>2, AppendedMoved
<1>11. ASSUME NEW e \in Events, AddRepairing(e) PROVE Moved(p)
  <2> DEFINE v == Repairing(<<job[e].at, e>>)
  <2>1. job[e].at # None /\ versions' = [versions EXCEPT ![place[job[e].at]] = Append(@, v)]
    BY <1>11 DEF AddRepairing
  <2>2. v \in Version /\ v.kind = "invalidated" /\ v.status = "REPAIRING"
    BY <2>1, ParentOfJob DEF Repairing, Version
  <2> HIDE DEF v
  <2>3. place[job[e].at] \in Planned /\ goal[place[job[e].at]] # "none"
    BY <1>1, <2>1, ParentOfJob
  <2> QED BY <1>1, <2>1, <2>2, <2>3, AppendedMoved
<1>12. ASSUME NEW e \in Events, Create(e) PROVE Moved(p)
  <2> DEFINE r == <<job[e].at, e>>
  <2>1. versions' = [versions EXCEPT ![r] = <<Made>>] /\ goal[r] = "none"
    BY <1>12 DEF Create
  <2> HIDE DEF r
  <2>2. CASE p = r
    BY <2>1, <2>2 DEF Moved, VersionsTyped
  <2>3. CASE p # r
    BY <1>1, <2>1, <2>3 DEF Moved, Kept, VersionsTyped
  <2> QED BY <2>2, <2>3
<1> QED BY <1>4, <1>5, <1>7, <1>8, <1>9, <1>10, <1>11, <1>12, Writers DEF WritesVersions, Moved

-----------------------------------------------------------------------------
(* Notices.                                                                *)

LEMMA SnapshotsStep ==
  ASSUME Inv, Snapshots, Next
  PROVE  Snapshots'
<1> USE Parts DEF Inv, TurnTyped, Snapshots
<1>1. CASE InjectNotice
  <2>1. execs' = execs
    BY <1>1 DEF InjectNotice
  <2>2. CASE task.status = "resumable"
    BY <1>1, <2>1, <2>2 DEF InjectNotice
  <2>3. CASE task.status # "resumable"
    BY <1>1, <2>1, <2>3 DEF InjectNotice
  <2> QED BY <2>2, <2>3
<1>2. CASE RootEnds
  BY <1>2 DEF RootEnds
<1>3. CASE Claim
  <2> DEFINE new == [token |-> task.token + 1, notices |-> task.notices]
  <2>1. /\ task' = [status |-> "RUNNING", token |-> task.token + 1, notices |-> task.notices]
        /\ execs' = execs \cup {new}
    BY <1>3 DEF Claim
  <2>2. new.token = task'.token /\ new.notices = task'.notices /\ task'.token = task.token + 1
    BY <2>1
  <2>3. \A x \in execs : x.token \in Nat /\ x.token < task'.token
    BY <2>2
  <2>4. \A x \in execs' : x \in execs \/ x = new
    BY <2>1
  <2> HIDE DEF new
  <2> QED BY <2>2, <2>3, <2>4
<1>4. CASE Lapse
  BY <1>4 DEF Lapse
<1>5. ASSUME NEW x \in execs, Suspend(x) PROVE Snapshots'
  BY <1>5 DEF Suspend
<1>6. ASSUME NEW x \in execs, GiveUp(x) PROVE Snapshots'
  BY <1>6 DEF GiveUp
<1>7. CASE Crash
  BY <1>7 DEF Crash
<1>8. CASE UNCHANGED taskVars
  BY <1>8 DEF taskVars
<1> QED BY <1>1, <1>2, <1>3, <1>4, <1>5, <1>6, <1>7, <1>8, Writers DEF WritesTurn

\* No write takes a notice out of the snapshot of the turn.
LEMMA NoticesGrow ==
  ASSUME Inv, Snapshots, Next
  PROVE  task.notices \subseteq task'.notices
<1> USE Parts DEF Inv, TurnTyped
<1>1. CASE InjectNotice
  BY <1>1 DEF InjectNotice
<1>2. CASE RootEnds \/ Lapse
  BY <1>2 DEF RootEnds, Lapse
<1>3. CASE Claim
  BY <1>3 DEF Claim
<1>4. ASSUME NEW x \in execs, Suspend(x) PROVE task.notices \subseteq task'.notices
  BY <1>4 DEF Suspend, MayWrite, Snapshots
<1>5. ASSUME NEW x \in execs, GiveUp(x) PROVE task.notices \subseteq task'.notices
  BY <1>5 DEF GiveUp
<1>6. CASE Crash
  BY <1>6 DEF Crash
<1>7. CASE UNCHANGED taskVars
  BY <1>7 DEF taskVars
<1> QED BY <1>1, <1>2, <1>3, <1>4, <1>5, <1>6, <1>7, Writers DEF WritesTurn

LEMMA NoticeStep ==
  ASSUME Inv, Snapshots, NoticeIsKept, Next
  PROVE  NoticeIsKept'
<1>1. missed \subseteq missed'
  BY Writers DEF WritesMissed, InjectNotice, Crash
<1>2. /\ versions[Root] \in Seq(Version) /\ versions'[Root] \in Seq(Version)
      /\ Len(versions[Root]) \in Nat /\ DOMAIN versions[Root] = 1..Len(versions[Root])
      /\ Len(versions'[Root]) \in Nat /\ DOMAIN versions'[Root] = 1..Len(versions'[Root])
      /\ \A i \in 1..Len(versions'[Root]) : versions'[Root][i] \in Version
  BY Parts, Names, VersionsKept DEF Inv, VersionsTyped
<1>3. Kept(Root)
  BY Names, VersionsMove DEF Moved, Inv, Recorded
<1>4. ASSUME NEW i \in DOMAIN versions'[Root], versions'[Root][i].kind = "completed",
             versions'[Root][i].of \notin missed', stage' # Stage("revised", versions'[Root][i].of)
      PROVE  versions'[Root][i].of \in task'.notices
  <2> DEFINE r == versions'[Root][i].of
  <2>1. ~(i > Len(versions[Root]))
    <3>1. InsertRevised => stage' = Stage("revised", stage.of)
      BY DEF InsertRevised
    <3> QED BY <1>2, <1>3, <1>4, <3>1 DEF Kept
  <2>2. /\ i \in DOMAIN versions[Root]
        /\ versions[Root][i].kind = "completed" /\ versions[Root][i].of = r
    BY <1>2, <1>3, <1>4, <2>1 DEF Kept
  <2>3. CASE stage = Stage("revised", versions[Root][i].of)
    <3>1. stage.op = "revised" /\ stage.of = r
      BY <2>2, <2>3 DEF Stage
    <3>2. CASE InjectNotice
      <4>1. task \in [status : {"resumable", "RUNNING", "ended"}, token : Nat, notices : SUBSET Repairs]
        BY Parts DEF Inv, TurnTyped
      <4> QED BY <1>4, <3>1, <3>2, <4>1 DEF InjectNotice
    <3>3. CASE Crash
      BY <1>4, <3>1, <3>3 DEF Crash
    <3> QED BY <3>1, <3>2, <3>3, StretchEnds
  <2>4. CASE stage # Stage("revised", versions[Root][i].of)
    BY <1>1, <1>4, <2>2, <2>4, NoticesGrow DEF NoticeIsKept
  <2> QED BY <2>3, <2>4
<1> QED BY <1>4 DEF NoticeIsKept

\* Once the plan has been revised and the turn was not running, the notice is
\* in the snapshot for good, for any number of executions and repairs.
THEOREM NoticesStay == Spec => []NoticeIsKept
<1> DEFINE I == Inv /\ Snapshots /\ NoticeIsKept
<1>1. Init => I
  <2> SUFFICES ASSUME Init PROVE Snapshots /\ NoticeIsKept
    BY InitInv
  <2>1. versions[Root] = <<Made>> /\ execs = {} /\ task.status = "resumable"
    BY Names DEF Init
  <2> QED BY <2>1 DEF Snapshots, NoticeIsKept, Made
<1>2. I /\ [Next]_vars => I'
  <2> SUFFICES ASSUME I, [Next]_vars PROVE I'
    OBVIOUS
  <2>1. CASE Next
    BY <2>1, InvStep, SnapshotsStep, NoticeStep
  <2>2. CASE UNCHANGED vars
    <3>1. (Snapshots /\ NoticeIsKept)'
      BY <2>2 DEF vars, goalVars, taskVars, memory, history, Snapshots, NoticeIsKept
    <3> QED BY <3>1, InvStep
  <2> QED BY <2>1, <2>2
<1>3. I => NoticeIsKept
  OBVIOUS
<1> QED BY <1>1, <1>2, <1>3, PTL DEF Spec

-----------------------------------------------------------------------------
(* Plans in doubt.                                                         *)

LEMMA OneCurrentStep ==
  ASSUME Inv, OneCurrent, Next
  PROVE  OneCurrent'
<1>1. \A p \in Planned :
        /\ Len(versions[p]) \in Nat /\ DOMAIN versions[p] = 1..Len(versions[p])
        /\ Len(versions'[p]) \in Nat /\ DOMAIN versions'[p] = 1..Len(versions'[p])
  BY Parts, VersionsKept DEF Inv, VersionsTyped
<1>2. ASSUME NEW p \in Planned, NEW i \in DOMAIN versions'[p], NEW j \in DOMAIN versions'[p],
             versions'[p][i].status = "CURRENT", versions'[p][j].status = "CURRENT"
      PROVE  i = j
  <2>1. CASE goal[p] = "none"
    <3>1. CASE versions'[p] = <<Made>>
      BY <1>2, <3>1
    <3>2. CASE versions'[p] = versions[p]
      BY <1>2, <3>2 DEF OneCurrent
    <3> QED BY <2>1, <3>1, <3>2, VersionsMove DEF Moved
  <2>2. CASE Kept(p) /\ \E k \in {i, j} : k > Len(versions[p])
    <3>1. InsertRevised /\ p = ParentOf(stage.of)
      BY <1>1, <1>2, <2>2 DEF Kept
    <3>2. \A k \in 1..Len(versions[p]) : versions[p][k].status # "CURRENT"
      BY <1>1, <3>1 DEF OneCurrent, InsertRevised
    <3>3. ASSUME NEW k \in 1..Len(versions'[p]), versions'[p][k].status = "CURRENT"
          PROVE  k = Len(versions[p]) + 1
      <4>1. ~(k \in 1..Len(versions[p]))
        BY <2>2, <3>2, <3>3 DEF Kept
      <4>2. k > Len(versions[p])
        BY <1>1, <4>1
      <4> QED BY <2>2, <4>2 DEF Kept
    <3> QED BY <1>1, <1>2, <3>3
  <2>3. CASE Kept(p) /\ ~\E k \in {i, j} : k > Len(versions[p])
    <3>1. i \in 1..Len(versions[p]) /\ j \in 1..Len(versions[p])
      BY <1>1, <1>2, <2>3
    <3>2. versions[p][i].status = "CURRENT" /\ versions[p][j].status = "CURRENT"
      BY <1>2, <2>3, <3>1 DEF Kept
    <3> QED BY <1>1, <3>1, <3>2 DEF OneCurrent
  <2> QED BY <2>1, <2>2, <2>3, VersionsMove DEF Moved
<1>3. ASSUME stage'.op = "superseded"
      PROVE  \A i \in DOMAIN versions'[ParentOf(stage.of)'] : versions'[ParentOf(stage.of)'][i].status # "CURRENT"
  <2>1. Supersede
    BY <1>3, StretchEnds
  <2> DEFINE p == ParentOf(stage.of)
  <2>2. /\ versions' = Restate(p, Current, "SUPERSEDED") /\ p \in Planned
        /\ stage'.of = stage.of /\ place' = place /\ ParentOf(stage.of)' = p
    BY <2>1, ParentOfStage DEF Supersede, Closing, Stage, goalVars, ParentOf
  <2> HIDE DEF p
  <2>3. VersionsTyped
    BY Parts DEF Inv
  <2>4. \A i \in 1..Len(versions[p]) : versions[p][i] \in Version
    BY <2>2, <2>3 DEF VersionsTyped
  <2>5. /\ Len(versions'[p]) = Len(versions[p])
        /\ \A i \in 1..Len(versions[p]) :
             versions'[p][i].status = IF versions[p][i] \in Current THEN "SUPERSEDED" ELSE versions[p][i].status
    BY <2>2, <2>3, Restated DEF Statuses
  <2>6. \A i \in 1..Len(versions[p]) : versions'[p][i].status # "CURRENT"
    BY <2>4, <2>5 DEF Current
  <2> QED BY <1>1, <2>2, <2>5, <2>6
<1> QED BY <1>2, <1>3 DEF OneCurrent

\* An assumption that does not fall in this step had fallen before.
LEMMA FellBefore ==
  ASSUME Inv, Next, NEW a \in Assumptions, assumption'[a] = "INVALIDATED", ~MarkInvalid(a)
  PROVE  /\ assumption[a] = "INVALIDATED" /\ since'[a] = since[a]
         /\ place[a] \in Planned /\ place'[a] = place[a] /\ Kept(place[a])
         /\ Len(versions[place[a]]) \in Nat /\ Len(versions'[place[a]]) \in Nat /\ since[a] \in Nat
<1>1. ASSUME NEW b \in Assumptions, MarkInvalid(b)
      PROVE  assumption'[a] = assumption[a] /\ since'[a] = since[a]
  BY <1>1, Parts DEF MarkInvalid, Inv, HistoryTyped, GoalsTyped
<1>2. ASSUME NEW b \in Assumptions, NEW g \in Planned, Assume(b, g)
      PROVE  assumption[a] = "INVALIDATED"
  BY <1>2, Parts DEF Assume, Inv, GoalsTyped
<1>3. assumption[a] = "INVALIDATED"
  BY <1>1, <1>2, Writers DEF WritesAssumption
<1>4. since'[a] = since[a]
  BY <1>1, Writers DEF WritesSince
<1>5. place[a] \in Planned /\ place[a] # None
  BY <1>3, Parts DEF Inv, GoalsTyped, Recorded
<1>6. place'[a] = place[a] /\ goal[place[a]] # "none"
  BY <1>5, AssumptionsMove DEF Inv, Recorded
<1>7. Kept(place[a])
  BY <1>5, <1>6, VersionsMove DEF Moved
<1>8. Len(versions[place[a]]) \in Nat /\ Len(versions'[place[a]]) \in Nat /\ since[a] \in Nat
  BY <1>5, Parts, VersionsKept DEF Inv, VersionsTyped, HistoryTyped
<1> QED BY <1>3, <1>4, <1>5, <1>6, <1>7, <1>8

LEMMA CountedStep ==
  ASSUME Inv, Counted, Next
  PROVE  Counted'
<1>1. ASSUME NEW a \in Assumptions, assumption'[a] = "INVALIDATED"
      PROVE  since'[a] <= Len(versions'[place'[a]])
  <2>1. CASE MarkInvalid(a)
    <3>1. place[a] \in Planned
      BY <2>1, Parts, Names DEF MarkInvalid, Inv, StageSound, GoalsTyped, Recorded
    <3>2. Len(versions[place[a]]) \in Nat
      BY <3>1, Parts DEF Inv, VersionsTyped
    <3>3. since'[a] = Len(versions[place[a]]) /\ versions' = versions /\ place' = place
      BY <2>1, Parts DEF MarkInvalid, Inv, HistoryTyped
    <3> QED BY <3>2, <3>3
  <2>2. CASE ~MarkInvalid(a)
    BY <1>1, <2>2, FellBefore DEF Kept, Counted
  <2> QED BY <2>1, <2>2
<1> QED BY <1>1 DEF Counted

LEMMA FallenStep ==
  ASSUME Inv, Counted, FallenIsShown, Next
  PROVE  FallenIsShown'
<1>1. ASSUME NEW a \in Assumptions, assumption'[a] = "INVALIDATED", a \notin lost', a # stage'.at,
             NEW i \in 1..since'[a]
      PROVE  versions'[place'[a]][i].status # "CURRENT"
  <2>1. ~MarkInvalid(a)
    BY <1>1 DEF MarkInvalid
  <2>2. /\ assumption[a] = "INVALIDATED" /\ since'[a] = since[a]
        /\ place[a] \in Planned /\ place'[a] = place[a] /\ Kept(place[a])
        /\ i \in 1..Len(versions[place[a]])
    BY <1>1, <2>1, FellBefore DEF Counted
  <2>3. a \notin lost
    BY <1>1, Writers DEF WritesLost, AnnounceUnheard, EndSilently, Crash
  <2>4. CASE a # stage.at
    BY <1>1, <2>2, <2>3, <2>4 DEF FallenIsShown, Kept
  <2>5. CASE a = stage.at
    <3>1. stage.op = "stale" /\ a \in job[stage.of].todo /\ stage.of \in Events
      BY <2>5, Names, Parts DEF Inv, StageTyped, StageSound, Closing, Idle, Stage
    <3>2. ~Crash
      BY <1>1, <3>1 DEF Crash, InHand
    <3>3. versions' = Restate(place[a], Current, "STALE")
      BY <2>5, <3>1, <3>2, StretchEnds DEF MarkStale, InDoubt
    <3>4. VersionsTyped /\ versions[place[a]][i] \in Version
      BY <2>2, Parts DEF Inv, VersionsTyped
    <3>5. versions'[place[a]][i].status =
            IF versions[place[a]][i] \in Current THEN "STALE" ELSE versions[place[a]][i].status
      BY <2>2, <3>3, <3>4, Restated DEF Statuses
    <3> QED BY <2>2, <3>4, <3>5 DEF Current
  <2> QED BY <2>4, <2>5
<1> QED BY <1>1 DEF FallenIsShown

\* A plan that was there when one of its assumptions fell is not CURRENT again,
\* unless a crash came between, and no goal has two CURRENT plans, for any
\* number of assumptions, events and repairs.
THEOREM StaleIsNotCurrent == Spec => []StaleIsShown
<1> DEFINE I == Inv /\ OneCurrent /\ Counted /\ FallenIsShown
<1>1. Init => I
  <2> SUFFICES ASSUME Init PROVE OneCurrent /\ Counted /\ FallenIsShown
    BY InitInv
  <2>1. \A p \in Planned : versions[p] \in {<<Made>>, << >>}
    BY Names DEF Init
  <2>2. OneCurrent
    BY <2>1 DEF OneCurrent, Init, Idle, Stage
  <2> QED BY <2>2 DEF Init, Counted, FallenIsShown
<1>2. I /\ [Next]_vars => I'
  <2> SUFFICES ASSUME I, [Next]_vars PROVE I'
    OBVIOUS
  <2>1. CASE Next
    BY <2>1, InvStep, OneCurrentStep, CountedStep, FallenStep
  <2>2. CASE UNCHANGED vars
    <3>1. (OneCurrent /\ Counted /\ FallenIsShown)'
      BY <2>2 DEF vars, goalVars, taskVars, memory, history, OneCurrent, Counted, FallenIsShown, ParentOf
    <3> QED BY <3>1, InvStep
  <2> QED BY <2>1, <2>2
<1>3. I => StaleIsShown
  <2> SUFFICES ASSUME I, NEW g \in Planned
               PROVE  Cardinality({i \in DOMAIN versions[g] : versions[g][i].status = "CURRENT"}) <= 1
    BY DEF StaleIsShown, FallenIsShown
  <2> DEFINE S == {i \in DOMAIN versions[g] : versions[g][i].status = "CURRENT"}
  <2>1. CASE S = {}
    BY <2>1, FS_EmptySet
  <2>2. ASSUME NEW i \in S PROVE Cardinality(S) <= 1
    <3>1. S = {i}
      BY <2>2 DEF OneCurrent
    <3>2. Cardinality({i}) = 1
      BY FS_Singleton
    <3> HIDE DEF S
    <3> QED BY <3>1, <3>2
  <2> QED BY <2>1, <2>2
<1> QED BY <1>1, <1>2, <1>3, PTL DEF Spec

=============================================================================
