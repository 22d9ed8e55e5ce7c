-------------------------- MODULE OperationManager --------------------------
(***************************************************************************)
(* src/src/kernel/operation-manager.js over the operations table of        *)
(* src/src/infra/store.js: the state machine that stands between a         *)
(* side-effecting tool and the outside world.                              *)
(*                                                                         *)
(* Three parties act on one row: the execution of the task that made the   *)
(* call (executeOnce), the I/O reactor (reconcileDue, the first awaited    *)
(* part of a housekeeping round), and the operator (the API's reconcile    *)
(* and compensate).  Each of them awaits a handler of the tool between two *)
(* transitions, and the process may crash at any of these points.          *)
(*                                                                         *)
(* The handlers are external and taken to be truthful: one may fail or say *)
(* nothing, but what it says about the outside is so and stays so; above   *)
(* all, an invocation that was given up does not land after its operation  *)
(* was found absent.                                                       *)
(***************************************************************************)
EXTENDS Naturals, FiniteSets

CONSTANTS
  Operations,            \* idempotency keys
  Mode,                  \* [Operations -> Modes]: tool.sideEffect.mode
  HasConfirm, HasReconcile, HasCompensate,   \* the operations whose tool has the handler
  MaxReconcileAttempts,  \* config.operations.maxReconcileAttempts
  MaxReconciles,         \* bound: the operator stops asking about a row after so many
  MaxCalls,              \* bound: how often the task calls with one key
  MaxCrashes             \* bound: how often the process crashes

Modes == {"idempotent", "local-idempotent", "reconcilable", "non-idempotent"}

ASSUME OperationsAssumption ==
  /\ Mode \in [Operations -> Modes]
  /\ HasConfirm \subseteq Operations /\ HasReconcile \subseteq Operations
  /\ HasCompensate \subseteq Operations
  /\ \A o \in Operations : Mode[o] = "reconcilable" => o \in HasReconcile
  /\ MaxReconcileAttempts \in Nat \ {0} /\ MaxReconciles \in Nat /\ MaxCalls \in Nat /\ MaxCrashes \in Nat

States == {"PREPARED", "EXECUTING", "UNCERTAIN", "RECONCILING", "CONFIRMED", "ABSENT",
           "FAILED", "COMPENSATING", "COMPENSATED", "COMPENSATION_UNCERTAIN"}

VARIABLES
  state,      \* operations.state, "NONE" before the row exists
  reconciles, \* operations.reconcile_attempt
  exec,       \* what the call that is in flight for the key is awaiting
  manual,     \* what the operator's request is awaiting
  reactor,    \* where the housekeeping round is, the rest of its batch, the row it awaits
  effect,     \* outside: how often the side effect has taken place
  undone,     \* outside: how often it has been compensated
  calls, crashes

vars == <<state, reconciles, exec, manual, reactor, effect, undone, calls, crashes>>
world == <<effect, undone>>

AtRest == [phase |-> "rest", todo |-> {}, on |-> {}]

TypeOK ==
  /\ state \in [Operations -> States \cup {"NONE"}]
  /\ reconciles \in [Operations -> Nat]
  /\ exec \in [Operations -> {"idle", "prepare", "start", "reconcile", "invoke", "confirm"}]
  /\ manual \in [Operations -> {"idle", "reconcile", "compensate"}]
  /\ reactor \in [phase : {"rest", "loop", "failed", "served"},
                  todo : SUBSET Operations, on : SUBSET Operations]
  /\ effect \in [Operations -> Nat] /\ undone \in [Operations -> Nat]
  /\ calls \in [Operations -> 0..MaxCalls] /\ crashes \in 0..MaxCrashes

Init ==
  /\ state = [o \in Operations |-> "NONE"]
  /\ reconciles = [o \in Operations |-> 0]
  /\ exec = [o \in Operations |-> "idle"]
  /\ manual = [o \in Operations |-> "idle"]
  /\ reactor = AtRest
  /\ effect = [o \in Operations |-> 0] /\ undone = [o \in Operations |-> 0]
  /\ calls = [o \in Operations |-> 0] /\ crashes = 0

-----------------------------------------------------------------------------

Transitions == [s \in States |->
  CASE s = "PREPARED" -> {"EXECUTING"}
    [] s = "EXECUTING" -> {"EXECUTING", "CONFIRMED", "UNCERTAIN", "FAILED"}
    [] s = "UNCERTAIN" -> {"RECONCILING", "EXECUTING"}
    [] s = "RECONCILING" -> {"CONFIRMED", "ABSENT", "UNCERTAIN"}
    [] s \in {"ABSENT", "FAILED"} -> {"EXECUTING"}
    [] s = "CONFIRMED" -> {"COMPENSATING"}
    [] s = "COMPENSATING" -> {"COMPENSATED", "COMPENSATION_UNCERTAIN"}
    [] s = "COMPENSATION_UNCERTAIN" -> {"COMPENSATING"}
    [] s = "COMPENSATED" -> {}]

\* Faulty: an uncertain compensation may be executed over.
BadLegal(from, to) ==
  /\ from \in States
  /\ \/ to \in Transitions[from]
     \/ from = "COMPENSATION_UNCERTAIN" /\ to = "EXECUTING"
Legal(from, to) == from \in States /\ to \in Transitions[from]

\* transitionOperation: an illegal transition throws and changes nothing, so
\* an action of the model that depends on one has it as its guard.
Transition(o, to) ==
  /\ Legal(state[o], to)
  /\ state' = [state EXCEPT ![o] = to]
  /\ reconciles' = IF to = "RECONCILING" THEN [reconciles EXCEPT ![o] = @ + 1] ELSE reconciles

Repeatable(o) == Mode[o] \in {"idempotent", "local-idempotent"}

\* What the outside has seen after one more invocation: a tool that honours
\* the idempotency key makes nothing of a repetition.
Landed(o) == IF Repeatable(o) THEN 1 ELSE effect[o] + 1

Awaits(o, what) == exec' = [exec EXCEPT ![o] = what]

-----------------------------------------------------------------------------
(* executeOnce.  The in-flight map lets one call per key run at a time.    *)

Call(o) ==
  /\ exec[o] = "idle"
  /\ calls[o] < MaxCalls
  /\ calls' = [calls EXCEPT ![o] = @ + 1]
  /\ UNCHANGED <<manual, reactor, world, crashes>>

CallPrepares(o) ==
  /\ state[o] = "NONE"
  /\ Call(o)
  /\ Awaits(o, "prepare")
  /\ UNCHANGED <<state, reconciles>>

\* A row that may be executed at once: prepared, found absent, failed
\* locally, or repeatable and left in the middle.  A compensation that has
\* started gets as far as the transition, which throws.
CallRepeats(o) ==
  /\ \/ state[o] \notin {"NONE", "CONFIRMED", "COMPENSATED", "EXECUTING", "UNCERTAIN", "RECONCILING"}
     \/ state[o] = "EXECUTING" /\ Repeatable(o)
     \/ state[o] = "UNCERTAIN" /\ o \notin HasReconcile /\ Mode[o] = "idempotent"
  /\ Call(o)
  /\ Transition(o, "EXECUTING")
  /\ Awaits(o, "invoke")

\* A call found EXECUTING whose executor is gone: the outcome is unknown.
\* Without a handler to ask, the call ends there.
CallFindsLost(o) ==
  /\ state[o] = "EXECUTING" /\ ~Repeatable(o) /\ o \notin HasReconcile
  /\ Call(o)
  /\ Transition(o, "UNCERTAIN")
  /\ UNCHANGED exec

\* EXECUTING to UNCERTAIN to RECONCILING is one synchronous stretch.
CallReconciles(o) ==
  /\ o \in HasReconcile
  /\ \/ state[o] = "UNCERTAIN"
     \/ state[o] = "EXECUTING" /\ ~Repeatable(o)
  /\ Call(o)
  /\ state' = [state EXCEPT ![o] = "RECONCILING"]
  /\ reconciles' = [reconciles EXCEPT ![o] = @ + 1]
  /\ Awaits(o, "reconcile")

\* prepare may throw before the row exists.
PrepareSettles(o, ok) ==
  /\ exec[o] = "prepare"
  /\ IF ok THEN state' = [state EXCEPT ![o] = "PREPARED"] ELSE UNCHANGED state
  /\ Awaits(o, IF ok THEN "start" ELSE "idle")
  /\ UNCHANGED <<reconciles, manual, reactor, world, calls, crashes>>

Starts(o) ==
  /\ exec[o] = "start"
  /\ Transition(o, "EXECUTING")
  /\ Awaits(o, "invoke")
  /\ UNCHANGED <<manual, reactor, world, calls, crashes>>

InvokeReturns(o) ==
  /\ exec[o] = "invoke"
  /\ effect' = [effect EXCEPT ![o] = Landed(o)]
  /\ IF o \in HasConfirm
     THEN Awaits(o, "confirm") /\ UNCHANGED <<state, reconciles>>
     ELSE Awaits(o, "idle") /\ Transition(o, "CONFIRMED")
  /\ UNCHANGED <<manual, reactor, undone, calls, crashes>>

\* Faulty: a failed invocation is taken for one that did nothing.
BadFailed(o) == Transition(o, "FAILED")
\* The catch of executeOnce.
Failed(o) == Transition(o, IF Mode[o] = "local-idempotent" THEN "FAILED" ELSE "UNCERTAIN")

\* A timeout, an abort or an error says nothing about what happened outside.
InvokeThrows(o) ==
  /\ exec[o] = "invoke"
  /\ \/ effect' = [effect EXCEPT ![o] = Landed(o)]
     \/ UNCHANGED effect
  /\ Failed(o)
  /\ Awaits(o, "idle")
  /\ UNCHANGED <<manual, reactor, undone, calls, crashes>>

ConfirmSettles(o, answer) ==
  /\ exec[o] = "confirm"
  /\ \/ answer = "confirmed" /\ effect[o] > 0 /\ Transition(o, "CONFIRMED")
     \/ answer = "unclear" /\ Transition(o, "UNCERTAIN")
     \/ answer = "throws" /\ Failed(o)
  /\ Awaits(o, "idle")
  /\ UNCHANGED <<manual, reactor, world, calls, crashes>>

-----------------------------------------------------------------------------
(* reconcile(): by the call, the reactor or the operator.                  *)

\* Faulty: no answer is taken for absence.
BadReconciled(o, answer) ==
  \/ answer = "confirmed" /\ effect[o] > 0 /\ Transition(o, "CONFIRMED")
  \/ answer = "absent" /\ effect[o] = 0 /\ Transition(o, "ABSENT")
  \/ answer = "unclear" /\ Transition(o, "ABSENT")
  \/ answer = "throws" /\ Transition(o, "UNCERTAIN")
\* Faulty: an error of the handler is not caught.
BadReconcileThrows(o, answer) ==
  \/ answer = "confirmed" /\ effect[o] > 0 /\ Transition(o, "CONFIRMED")
  \/ answer = "absent" /\ effect[o] = 0 /\ Transition(o, "ABSENT")
  \/ answer = "unclear" /\ Transition(o, "UNCERTAIN")
  \/ answer = "throws" /\ UNCHANGED <<state, reconciles>>
Reconciled(o, answer) ==
  \/ answer = "confirmed" /\ effect[o] > 0 /\ Transition(o, "CONFIRMED")
  \/ answer = "absent" /\ effect[o] = 0 /\ Transition(o, "ABSENT")
  \/ answer \in {"unclear", "throws"} /\ Transition(o, "UNCERTAIN")

\* An operation found ABSENT is executed by the call that asked.
CallReconciled(o, answer) ==
  /\ exec[o] = "reconcile"
  /\ IF answer = "absent"
     THEN /\ effect[o] = 0
          /\ Legal(state[o], "ABSENT")
          /\ state' = [state EXCEPT ![o] = "EXECUTING"]
          /\ UNCHANGED reconciles
          /\ Awaits(o, "invoke")
     ELSE Reconciled(o, answer) /\ Awaits(o, "idle")
  /\ UNCHANGED <<manual, reactor, world, calls, crashes>>

\* A RECONCILING row has no next_reconcile_at and so is due at once; an
\* UNCERTAIN one is due in its time.
Due == {o \in Operations : state[o] \in {"UNCERTAIN", "RECONCILING"}}
Attended(o) == o \in HasReconcile /\ reconciles[o] < MaxReconcileAttempts

ReactorReadsDue ==
  /\ reactor.phase = "rest"
  /\ \E D \in SUBSET Due :
       /\ \A o \in Due : state[o] = "RECONCILING" => o \in D
       /\ reactor' = [phase |-> "loop", todo |-> {o \in D : Attended(o)}, on |-> {}]
  /\ UNCHANGED <<state, reconciles, exec, manual, world, calls, crashes>>

UpNext(o) == reactor.phase = "loop" /\ reactor.on = {} /\ o \in reactor.todo

ReactorReconciles(o) ==
  /\ UpNext(o)
  /\ Transition(o, "RECONCILING")
  /\ reactor' = [reactor EXCEPT !.todo = @ \ {o}, !.on = {o}]
  /\ UNCHANGED <<exec, manual, world, calls, crashes>>

\* The transition throws outside the try: the round ends there, with whatever
\* was to come after it, and so does the service.
ReactorThrows(o) ==
  /\ UpNext(o)
  /\ ~Legal(state[o], "RECONCILING")
  /\ reactor' = [phase |-> "failed", todo |-> {}, on |-> {}]
  /\ UNCHANGED <<state, reconciles, exec, manual, world, calls, crashes>>

ReactorReconciled(o, answer) ==
  /\ o \in reactor.on
  /\ Reconciled(o, answer)
  /\ reactor' = [reactor EXCEPT !.on = {}]
  /\ UNCHANGED <<exec, manual, world, calls, crashes>>

\* The outbox and the schedules get their turn.
ReactorServes ==
  /\ reactor.phase = "loop" /\ reactor.todo = {} /\ reactor.on = {}
  /\ reactor' = [reactor EXCEPT !.phase = "served"]
  /\ UNCHANGED <<state, reconciles, exec, manual, world, calls, crashes>>

\* The next round, or the next launch of the service by its supervisor.
ReactorRests ==
  /\ reactor.phase \in {"served", "failed"}
  /\ reactor' = AtRest
  /\ UNCHANGED <<state, reconciles, exec, manual, world, calls, crashes>>

-----------------------------------------------------------------------------
(* The operator.                                                           *)

OperatorReconciles(o) ==
  /\ manual[o] = "idle"
  /\ o \in HasReconcile
  /\ reconciles[o] < MaxReconciles
  /\ Transition(o, "RECONCILING")
  /\ manual' = [manual EXCEPT ![o] = "reconcile"]
  /\ UNCHANGED <<exec, reactor, world, calls, crashes>>

OperatorReconciled(o, answer) ==
  /\ manual[o] = "reconcile"
  /\ Reconciled(o, answer)
  /\ manual' = [manual EXCEPT ![o] = "idle"]
  /\ UNCHANGED <<exec, reactor, world, calls, crashes>>

OperatorCompensates(o) ==
  /\ manual[o] = "idle"
  /\ o \in HasCompensate
  /\ state[o] = "CONFIRMED"
  /\ Transition(o, "COMPENSATING")
  /\ manual' = [manual EXCEPT ![o] = "compensate"]
  /\ UNCHANGED <<exec, reactor, world, calls, crashes>>

CompensateReturns(o) ==
  /\ manual[o] = "compensate"
  /\ undone' = [undone EXCEPT ![o] = @ + 1]
  /\ Transition(o, "COMPENSATED")
  /\ manual' = [manual EXCEPT ![o] = "idle"]
  /\ UNCHANGED <<exec, reactor, effect, calls, crashes>>

\* Faulty: the error leaves the row as it is.
BadCompensateThrows(o) ==
  /\ manual[o] = "compensate"
  /\ manual' = [manual EXCEPT ![o] = "idle"]
  /\ UNCHANGED <<state, reconciles, exec, reactor, world, calls, crashes>>
CompensateThrows(o) ==
  /\ manual[o] = "compensate"
  /\ \E n \in {0, 1} : undone' = [undone EXCEPT ![o] = @ + n]
  /\ Transition(o, "COMPENSATION_UNCERTAIN")
  /\ manual' = [manual EXCEPT ![o] = "idle"]
  /\ UNCHANGED <<exec, reactor, effect, calls, crashes>>

-----------------------------------------------------------------------------

\* What was on its way outside may still arrive; the rows stay as they are.
Crash ==
  /\ crashes < MaxCrashes
  /\ crashes' = crashes + 1
  /\ \E S \in SUBSET {o \in Operations : exec[o] = "invoke"} :
       effect' = [o \in Operations |-> IF o \in S THEN Landed(o) ELSE effect[o]]
  /\ \E S \in SUBSET {o \in Operations : manual[o] = "compensate"} :
       undone' = [o \in Operations |-> IF o \in S THEN undone[o] + 1 ELSE undone[o]]
  /\ exec' = [o \in Operations |-> "idle"]
  /\ manual' = [o \in Operations |-> "idle"]
  /\ reactor' = AtRest
  /\ UNCHANGED <<state, reconciles, calls>>

ByCall(o) ==
  \/ CallPrepares(o) \/ CallRepeats(o) \/ CallFindsLost(o) \/ CallReconciles(o)

CallProceeds(o) ==
  \/ \E ok \in BOOLEAN : PrepareSettles(o, ok)
  \/ Starts(o)
  \/ InvokeReturns(o) \/ InvokeThrows(o)
  \/ \E answer \in {"confirmed", "unclear", "throws"} : ConfirmSettles(o, answer)
  \/ \E answer \in {"confirmed", "absent", "unclear", "throws"} : CallReconciled(o, answer)

ReactorProceeds ==
  \/ ReactorReadsDue \/ ReactorServes \/ ReactorRests
  \/ \E o \in Operations :
       \/ ReactorReconciles(o) \/ ReactorThrows(o)
       \/ \E answer \in {"confirmed", "absent", "unclear", "throws"} : ReactorReconciled(o, answer)

OperatorStarts(o) == OperatorReconciles(o) \/ OperatorCompensates(o)

OperatorProceeds(o) ==
  \/ \E answer \in {"confirmed", "absent", "unclear", "throws"} : OperatorReconciled(o, answer)
  \/ CompensateReturns(o) \/ CompensateThrows(o)

Next ==
  \/ \E o \in Operations : ByCall(o) \/ CallProceeds(o) \/ OperatorStarts(o) \/ OperatorProceeds(o)
  \/ ReactorProceeds
  \/ Crash

Spec == Init /\ [][Next]_vars

\* Handlers settle and the reactor runs; nobody has to call or to operate.
Fairness ==
  /\ \A o \in Operations : WF_vars(CallProceeds(o)) /\ WF_vars(OperatorProceeds(o))
  /\ WF_vars(ReactorProceeds)

FairSpec == Spec /\ Fairness

-----------------------------------------------------------------------------
(* Properties.                                                             *)

\* The side effect of one key takes place at most once, however often the
\* call is replayed after crashes, timeouts and inconclusive answers, and
\* whoever reconciles it meanwhile.
NeverTwice == \A o \in Operations : effect[o] <= 1

\* The row never claims more than is so: confirmed means that the effect
\* took place, absent that it did not, compensated that it was undone.
RowTellsTruth ==
  \A o \in Operations :
    /\ state[o] \in {"CONFIRMED", "COMPENSATING", "COMPENSATED", "COMPENSATION_UNCERTAIN"} =>
         effect[o] > 0
    /\ state[o] \in {"NONE", "PREPARED", "ABSENT"} => effect[o] = 0
    /\ state[o] = "COMPENSATED" => undone[o] > 0

\* A compensation is never replayed, and after it started the effect does
\* not take place again.
CompensatedOnce == \A o \in Operations : undone[o] <= 1 /\ undone[o] <= effect[o]
NothingAfterCompensation ==
  [][\A o \in Operations :
       state[o] \in {"COMPENSATING", "COMPENSATED", "COMPENSATION_UNCERTAIN"} =>
         effect'[o] = effect[o] /\ state'[o] # "EXECUTING"]_vars

\* The housekeeping rounds go on past the operations that are due: what
\* stands behind them, the outbox and the schedules, is served again and again.
HousekeepingGoesOn == []<>(reactor.phase = "served")

\* The same, and that no compensation is left in the middle, for a process
\* that lives on: a failing handler, a repeated call or an operator who asks
\* about the row the reactor is at does not stop the housekeeping.
Lives(P) == P \/ crashes > 0
HousekeepingSurvivesErrors == []<>Lives(reactor.phase = "served")
CompensationShown ==
  \A o \in Operations : state[o] = "COMPENSATING" ~>
    Lives(state[o] \in {"COMPENSATED", "COMPENSATION_UNCERTAIN"})
=============================================================================
