----------------------- MODULE OperationManager_proofs -----------------------
(* Theorems about OperationManager, for every set of operations, every     *)
(* mode and handler of their tools, and every bound.                       *)
EXTENDS OperationManager, TLAPS

-----------------------------------------------------------------------------
(* The inductive invariant.                                                *)

\* What a party that awaits a handler may rely on when the handler settles:
\* nobody has moved the row meanwhile, and at most one party is asking.
Attendance(o) ==
  /\ exec[o] = "prepare" => state[o] = "NONE"
  /\ exec[o] = "start" => state[o] = "PREPARED"
  /\ exec[o] \in {"invoke", "confirm"} => state[o] = "EXECUTING"
  /\ exec[o] = "reconcile" =>
       state[o] = "RECONCILING" /\ manual[o] # "reconcile" /\ o \notin reactor.on
  /\ manual[o] = "reconcile" => state[o] = "RECONCILING" /\ o \notin reactor.on
  /\ o \in reactor.on => state[o] = "RECONCILING"
  /\ manual[o] = "compensate" => state[o] = "COMPENSATING" /\ undone[o] = 0

Compensating == {"COMPENSATING", "COMPENSATED", "COMPENSATION_UNCERTAIN"}

\* What the row and the call in flight say about the outside world.
Truth(o) ==
  /\ effect[o] <= 1
  /\ exec[o] = "invoke" => Repeatable(o) \/ effect[o] = 0
  /\ state[o] = "FAILED" => Repeatable(o)
  /\ state[o] \in {"CONFIRMED"} \cup Compensating => effect[o] > 0
  /\ state[o] \in {"NONE", "PREPARED", "ABSENT"} => effect[o] = 0
  /\ state[o] = "COMPENSATED" => undone[o] > 0
  /\ undone[o] <= 1
  /\ undone[o] > 0 => state[o] \in Compensating

Inv ==
  /\ TypeOK
  /\ \A o \in Operations : Attendance(o) /\ Truth(o)

\* The transition table, read backwards: where a row can come from.
LEMMA Moves ==
  ASSUME NEW s, NEW t, Legal(s, t)
  PROVE  /\ s \in States
         /\ t = "EXECUTING" => s \in {"PREPARED", "EXECUTING", "UNCERTAIN", "ABSENT", "FAILED"}
         /\ t = "RECONCILING" => s = "UNCERTAIN"
         /\ t = "CONFIRMED" => s \in {"EXECUTING", "RECONCILING"}
         /\ t = "UNCERTAIN" => s \in {"EXECUTING", "RECONCILING"}
         /\ t = "ABSENT" => s = "RECONCILING"
         /\ t = "FAILED" => s = "EXECUTING"
         /\ t = "COMPENSATING" => s \in {"CONFIRMED", "COMPENSATION_UNCERTAIN"}
         /\ t \in {"COMPENSATED", "COMPENSATION_UNCERTAIN"} => s = "COMPENSATING"
BY DEF Legal, Transitions, States

\* Every transition leaves the row and the parties well-typed.
LEMMA TypeStep == Inv /\ [Next]_vars => TypeOK'
<1> SUFFICES ASSUME Inv, [Next]_vars PROVE TypeOK'
  OBVIOUS
<1> USE OperationsAssumption, Moves
<1> USE DEF Inv, TypeOK, vars, world, States
<1>1. ASSUME NEW o \in Operations, ByCall(o) PROVE TypeOK'
  <2>1. ASSUME CallPrepares(o) PROVE TypeOK'
    BY <2>1 DEF CallPrepares, Call, Awaits
  <2>2. ASSUME CallRepeats(o) PROVE TypeOK'
    BY <2>2 DEF CallRepeats, Call, Awaits, Transition
  <2>3. ASSUME CallFindsLost(o) PROVE TypeOK'
    BY <2>3 DEF CallFindsLost, Call, Transition
  <2>4. ASSUME CallReconciles(o) PROVE TypeOK'
    BY <2>4 DEF CallReconciles, Call, Awaits
  <2> QED
    BY <2>1, <2>2, <2>3, <2>4, <1>1 DEF ByCall
<1>2. ASSUME NEW o \in Operations, CallProceeds(o) PROVE TypeOK'
  <2>1. ASSUME NEW ok \in BOOLEAN, PrepareSettles(o, ok) PROVE TypeOK'
    BY <2>1 DEF PrepareSettles, Awaits
  <2>2. ASSUME Starts(o) PROVE TypeOK'
    BY <2>2 DEF Starts, Awaits, Transition
  <2>3. ASSUME InvokeReturns(o) PROVE TypeOK'
    BY <2>3 DEF InvokeReturns, Awaits, Transition, Landed, world
  <2>4. ASSUME InvokeThrows(o) PROVE TypeOK'
    BY <2>4 DEF InvokeThrows, Awaits, Transition, Failed, Landed
  <2>5. ASSUME NEW answer \in {"confirmed", "unclear", "throws"}, ConfirmSettles(o, answer) PROVE TypeOK'
    BY <2>5 DEF ConfirmSettles, Awaits, Transition, Failed
  <2>6. ASSUME NEW answer \in {"confirmed", "absent", "unclear", "throws"}, CallReconciled(o, answer) PROVE TypeOK'
    BY <2>6 DEF CallReconciled, Reconciled, Awaits, Transition
  <2> QED
    BY <2>1, <2>2, <2>3, <2>4, <2>5, <2>6, <1>2 DEF CallProceeds
<1>3. ASSUME NEW o \in Operations, OperatorStarts(o) PROVE TypeOK'
  <2>1. ASSUME OperatorReconciles(o) PROVE TypeOK'
    BY <2>1 DEF OperatorReconciles, Transition
  <2>2. ASSUME OperatorCompensates(o) PROVE TypeOK'
    BY <2>2 DEF OperatorCompensates, Transition
  <2> QED
    BY <2>1, <2>2, <1>3 DEF OperatorStarts
<1>4. ASSUME NEW o \in Operations, OperatorProceeds(o) PROVE TypeOK'
  <2>1. ASSUME NEW answer \in {"confirmed", "absent", "unclear", "throws"}, OperatorReconciled(o, answer) PROVE TypeOK'
    BY <2>1 DEF OperatorReconciled, Reconciled, Transition
  <2>2. ASSUME CompensateReturns(o) PROVE TypeOK'
    BY <2>2 DEF CompensateReturns, Transition
  <2>3. ASSUME CompensateThrows(o) PROVE TypeOK'
    BY <2>3 DEF CompensateThrows, Transition
  <2> QED
    BY <2>1, <2>2, <2>3, <1>4 DEF OperatorProceeds
<1>5. ASSUME ReactorProceeds PROVE TypeOK'
  <2>1. ASSUME ReactorReadsDue PROVE TypeOK'
    <3>1. PICK D \in SUBSET Due :
             reactor' = [phase |-> "loop", todo |-> {o \in D : Attended(o)}, on |-> {}]
      BY <2>1 DEF ReactorReadsDue
    <3>2. {o \in D : Attended(o)} \in SUBSET Operations
      BY DEF Due
    <3> QED
      BY <2>1, <3>1, <3>2 DEF ReactorReadsDue
  <2>2. ASSUME ReactorServes PROVE TypeOK'
    BY <2>2 DEF ReactorServes
  <2>3. ASSUME ReactorRests PROVE TypeOK'
    BY <2>3 DEF ReactorRests, AtRest
  <2>4. ASSUME NEW o \in Operations, ReactorReconciles(o) PROVE TypeOK'
    <3>1. reactor' = [reactor EXCEPT !.todo = reactor.todo \ {o}, !.on = {o}]
      BY <2>4 DEF ReactorReconciles
    <3>2. reactor' \in [phase : {"rest", "loop", "failed", "served"},
                        todo : SUBSET Operations, on : SUBSET Operations]
      BY <3>1
    <3> QED
      BY <2>4, <3>2 DEF ReactorReconciles, Transition
  <2>5. ASSUME NEW o \in Operations, ReactorThrows(o) PROVE TypeOK'
    BY <2>5 DEF ReactorThrows, UpNext
  <2>6. ASSUME NEW o \in Operations, NEW answer \in {"confirmed", "absent", "unclear", "throws"}, ReactorReconciled(o, answer) PROVE TypeOK'
    BY <2>6 DEF ReactorReconciled, Reconciled, Transition
  <2> QED
    BY <2>1, <2>2, <2>3, <2>4, <2>5, <2>6, <1>5 DEF ReactorProceeds
<1>6. ASSUME Crash PROVE TypeOK'
  BY <1>6 DEF Crash, Landed, AtRest
<1>7. ASSUME UNCHANGED vars PROVE TypeOK'
  BY <1>7
<1> HIDE DEF Inv, TypeOK, vars
<1> QED
  BY <1>1, <1>2, <1>3, <1>4, <1>5, <1>6, <1>7 DEF Next

\* No party moves a row that another one is working on.
LEMMA AttendanceStep == Inv /\ [Next]_vars => \A x \in Operations : Attendance(x)'
<1> SUFFICES ASSUME Inv, [Next]_vars PROVE \A x \in Operations : Attendance(x)'
  OBVIOUS
<1> USE OperationsAssumption, Moves
<1> USE DEF Inv, TypeOK, vars, world, States, Attendance, Truth
<1>1. ASSUME NEW o \in Operations, ByCall(o) PROVE \A x \in Operations : Attendance(x)'
  <2>1. ASSUME CallPrepares(o) PROVE \A x \in Operations : Attendance(x)'
    BY <2>1 DEF CallPrepares, Call, Awaits
  <2>2. ASSUME CallRepeats(o) PROVE \A x \in Operations : Attendance(x)'
    BY <2>2 DEF CallRepeats, Call, Awaits, Transition
  <2>3. ASSUME CallFindsLost(o) PROVE \A x \in Operations : Attendance(x)'
    BY <2>3 DEF CallFindsLost, Call, Transition
  <2>4. ASSUME CallReconciles(o) PROVE \A x \in Operations : Attendance(x)'
    BY <2>4 DEF CallReconciles, Call, Awaits
  <2> QED
    BY <2>1, <2>2, <2>3, <2>4, <1>1 DEF ByCall
<1>2. ASSUME NEW o \in Operations, CallProceeds(o) PROVE \A x \in Operations : Attendance(x)'
  <2>1. ASSUME NEW ok \in BOOLEAN, PrepareSettles(o, ok) PROVE \A x \in Operations : Attendance(x)'
    BY <2>1 DEF PrepareSettles, Awaits
  <2>2. ASSUME Starts(o) PROVE \A x \in Operations : Attendance(x)'
    BY <2>2 DEF Starts, Awaits, Transition
  <2>3. ASSUME InvokeReturns(o) PROVE \A x \in Operations : Attendance(x)'
    BY <2>3 DEF InvokeReturns, Awaits, Transition, Landed, world
  <2>4. ASSUME InvokeThrows(o) PROVE \A x \in Operations : Attendance(x)'
    BY <2>4 DEF InvokeThrows, Awaits, Transition, Failed, Landed
  <2>5. ASSUME NEW answer \in {"confirmed", "unclear", "throws"}, ConfirmSettles(o, answer) PROVE \A x \in Operations : Attendance(x)'
    BY <2>5 DEF ConfirmSettles, Awaits, Transition, Failed
  <2>6. ASSUME NEW answer \in {"confirmed", "absent", "unclear", "throws"}, CallReconciled(o, answer) PROVE \A x \in Operations : Attendance(x)'
    BY <2>6 DEF CallReconciled, Reconciled, Awaits, Transition
  <2> QED
    BY <2>1, <2>2, <2>3, <2>4, <2>5, <2>6, <1>2 DEF CallProceeds
<1>3. ASSUME NEW o \in Operations, OperatorStarts(o) PROVE \A x \in Operations : Attendance(x)'
  <2>1. ASSUME OperatorReconciles(o) PROVE \A x \in Operations : Attendance(x)'
    BY <2>1 DEF OperatorReconciles, Transition
  <2>2. ASSUME OperatorCompensates(o) PROVE \A x \in Operations : Attendance(x)'
    BY <2>2 DEF OperatorCompensates, Transition, Compensating
  <2> QED
    BY <2>1, <2>2, <1>3 DEF OperatorStarts
<1>4. ASSUME NEW o \in Operations, OperatorProceeds(o) PROVE \A x \in Operations : Attendance(x)'
  <2>1. ASSUME NEW answer \in {"confirmed", "absent", "unclear", "throws"}, OperatorReconciled(o, answer) PROVE \A x \in Operations : Attendance(x)'
    BY <2>1 DEF OperatorReconciled, Reconciled, Transition
  <2>2. ASSUME CompensateReturns(o) PROVE \A x \in Operations : Attendance(x)'
    BY <2>2 DEF CompensateReturns, Transition
  <2>3. ASSUME CompensateThrows(o) PROVE \A x \in Operations : Attendance(x)'
    BY <2>3 DEF CompensateThrows, Transition
  <2> QED
    BY <2>1, <2>2, <2>3, <1>4 DEF OperatorProceeds
<1>5. ASSUME ReactorProceeds PROVE \A x \in Operations : Attendance(x)'
  <2>1. ASSUME ReactorReadsDue PROVE \A x \in Operations : Attendance(x)'
    BY <2>1 DEF ReactorReadsDue, Due, Attended
  <2>2. ASSUME ReactorServes PROVE \A x \in Operations : Attendance(x)'
    BY <2>2 DEF ReactorServes
  <2>3. ASSUME ReactorRests PROVE \A x \in Operations : Attendance(x)'
    BY <2>3 DEF ReactorRests, AtRest
  <2>4. ASSUME NEW o \in Operations, ReactorReconciles(o) PROVE \A x \in Operations : Attendance(x)'
    BY <2>4 DEF ReactorReconciles, UpNext, Transition
  <2>5. ASSUME NEW o \in Operations, ReactorThrows(o) PROVE \A x \in Operations : Attendance(x)'
    BY <2>5 DEF ReactorThrows, UpNext
  <2>6. ASSUME NEW o \in Operations, NEW answer \in {"confirmed", "absent", "unclear", "throws"}, ReactorReconciled(o, answer) PROVE \A x \in Operations : Attendance(x)'
    BY <2>6 DEF ReactorReconciled, Reconciled, Transition
  <2> QED
    BY <2>1, <2>2, <2>3, <2>4, <2>5, <2>6, <1>5 DEF ReactorProceeds
<1>6. ASSUME Crash PROVE \A x \in Operations : Attendance(x)'
  BY <1>6 DEF Crash, Landed, AtRest
<1>7. ASSUME UNCHANGED vars PROVE \A x \in Operations : Attendance(x)'
  BY <1>7
<1> HIDE DEF Inv, TypeOK, vars, Attendance, Truth
<1> QED
  BY <1>1, <1>2, <1>3, <1>4, <1>5, <1>6, <1>7 DEF Next

\* The row goes on telling the truth, and the effect takes place once.
LEMMA TruthStep == Inv /\ [Next]_vars => \A x \in Operations : Truth(x)'
<1> SUFFICES ASSUME Inv, [Next]_vars PROVE \A x \in Operations : Truth(x)'
  OBVIOUS
<1> USE OperationsAssumption, Moves
<1> USE DEF Inv, TypeOK, vars, world, States, Attendance, Truth, Compensating, Repeatable
<1>1. ASSUME NEW o \in Operations, ByCall(o) PROVE \A x \in Operations : Truth(x)'
  <2>1. ASSUME CallPrepares(o) PROVE \A x \in Operations : Truth(x)'
    BY <2>1 DEF CallPrepares, Call, Awaits
  <2>2. ASSUME CallRepeats(o) PROVE \A x \in Operations : Truth(x)'
    BY <2>2 DEF CallRepeats, Call, Awaits, Transition
  <2>3. ASSUME CallFindsLost(o) PROVE \A x \in Operations : Truth(x)'
    BY <2>3 DEF CallFindsLost, Call, Transition
  <2>4. ASSUME CallReconciles(o) PROVE \A x \in Operations : Truth(x)'
    BY <2>4 DEF CallReconciles, Call, Awaits
  <2> QED
    BY <2>1, <2>2, <2>3, <2>4, <1>1 DEF ByCall
<1>2. ASSUME NEW o \in Operations, CallProceeds(o) PROVE \A x \in Operations : Truth(x)'
  <2>1. ASSUME NEW ok \in BOOLEAN, PrepareSettles(o, ok) PROVE \A x \in Operations : Truth(x)'
    BY <2>1 DEF PrepareSettles, Awaits
  <2>2. ASSUME Starts(o) PROVE \A x \in Operations : Truth(x)'
    BY <2>2 DEF Starts, Awaits, Transition
  <2>3. ASSUME InvokeReturns(o) PROVE \A x \in Operations : Truth(x)'
    BY <2>3 DEF InvokeReturns, Awaits, Transition, Landed, world
  <2>4. ASSUME InvokeThrows(o) PROVE \A x \in Operations : Truth(x)'
    BY <2>4 DEF InvokeThrows, Awaits, Transition, Failed, Landed
  <2>5. ASSUME NEW answer \in {"confirmed", "unclear", "throws"}, ConfirmSettles(o, answer) PROVE \A x \in Operations : Truth(x)'
    BY <2>5 DEF ConfirmSettles, Awaits, Transition, Failed
  <2>6. ASSUME NEW answer \in {"confirmed", "absent", "unclear", "throws"}, CallReconciled(o, answer) PROVE \A x \in Operations : Truth(x)'
    BY <2>6 DEF CallReconciled, Reconciled, Awaits, Transition
  <2> QED
    BY <2>1, <2>2, <2>3, <2>4, <2>5, <2>6, <1>2 DEF CallProceeds
<1>3. ASSUME NEW o \in Operations, OperatorStarts(o) PROVE \A x \in Operations : Truth(x)'
  <2>1. ASSUME OperatorReconciles(o) PROVE \A x \in Operations : Truth(x)'
    BY <2>1 DEF OperatorReconciles, Transition
  <2>2. ASSUME OperatorCompensates(o) PROVE \A x \in Operations : Truth(x)'
    BY <2>2 DEF OperatorCompensates, Transition
  <2> QED
    BY <2>1, <2>2, <1>3 DEF OperatorStarts
<1>4. ASSUME NEW o \in Operations, OperatorProceeds(o) PROVE \A x \in Operations : Truth(x)'
  <2>1. ASSUME NEW answer \in {"confirmed", "absent", "unclear", "throws"}, OperatorReconciled(o, answer) PROVE \A x \in Operations : Truth(x)'
    BY <2>1 DEF OperatorReconciled, Reconciled, Transition
  <2>2. ASSUME CompensateReturns(o) PROVE \A x \in Operations : Truth(x)'
    BY <2>2 DEF CompensateReturns, Transition
  <2>3. ASSUME CompensateThrows(o) PROVE \A x \in Operations : Truth(x)'
    BY <2>3 DEF CompensateThrows, Transition
  <2> QED
    BY <2>1, <2>2, <2>3, <1>4 DEF OperatorProceeds
<1>5. ASSUME ReactorProceeds PROVE \A x \in Operations : Truth(x)'
  <2>1. ASSUME ReactorReadsDue PROVE \A x \in Operations : Truth(x)'
    BY <2>1 DEF ReactorReadsDue, Due, Attended
  <2>2. ASSUME ReactorServes PROVE \A x \in Operations : Truth(x)'
    BY <2>2 DEF ReactorServes
  <2>3. ASSUME ReactorRests PROVE \A x \in Operations : Truth(x)'
    BY <2>3 DEF ReactorRests, AtRest
  <2>4. ASSUME NEW o \in Operations, ReactorReconciles(o) PROVE \A x \in Operations : Truth(x)'
    BY <2>4 DEF ReactorReconciles, UpNext, Transition
  <2>5. ASSUME NEW o \in Operations, ReactorThrows(o) PROVE \A x \in Operations : Truth(x)'
    BY <2>5 DEF ReactorThrows, UpNext
  <2>6. ASSUME NEW o \in Operations, NEW answer \in {"confirmed", "absent", "unclear", "throws"}, ReactorReconciled(o, answer) PROVE \A x \in Operations : Truth(x)'
    BY <2>6 DEF ReactorReconciled, Reconciled, Transition
  <2> QED
    BY <2>1, <2>2, <2>3, <2>4, <2>5, <2>6, <1>5 DEF ReactorProceeds
<1>6. ASSUME Crash PROVE \A x \in Operations : Truth(x)'
  BY <1>6 DEF Crash, Landed, AtRest
<1>7. ASSUME UNCHANGED vars PROVE \A x \in Operations : Truth(x)'
  BY <1>7
<1> HIDE DEF Inv, TypeOK, vars, Attendance, Truth
<1> QED
  BY <1>1, <1>2, <1>3, <1>4, <1>5, <1>6, <1>7 DEF Next

\* No step executes an operation whose compensation has started.
LastKept ==
  \A x \in Operations : state[x] \in Compensating =>
    effect'[x] = effect[x] /\ state'[x] # "EXECUTING"

LEMMA LastStep == Inv /\ [Next]_vars => LastKept
<1> SUFFICES ASSUME Inv, [Next]_vars PROVE LastKept
  OBVIOUS
<1> USE OperationsAssumption, Moves
<1> USE DEF Inv, TypeOK, vars, world, States, Attendance, Truth, Compensating, LastKept
<1>1. ASSUME NEW o \in Operations, ByCall(o) PROVE LastKept
  <2>1. ASSUME CallPrepares(o) PROVE LastKept
    BY <2>1 DEF CallPrepares, Call, Awaits
  <2>2. ASSUME CallRepeats(o) PROVE LastKept
    BY <2>2 DEF CallRepeats, Call, Awaits, Transition
  <2>3. ASSUME CallFindsLost(o) PROVE LastKept
    BY <2>3 DEF CallFindsLost, Call, Transition
  <2>4. ASSUME CallReconciles(o) PROVE LastKept
    BY <2>4 DEF CallReconciles, Call, Awaits
  <2> QED
    BY <2>1, <2>2, <2>3, <2>4, <1>1 DEF ByCall
<1>2. ASSUME NEW o \in Operations, CallProceeds(o) PROVE LastKept
  <2>1. ASSUME NEW ok \in BOOLEAN, PrepareSettles(o, ok) PROVE LastKept
    BY <2>1 DEF PrepareSettles, Awaits
  <2>2. ASSUME Starts(o) PROVE LastKept
    BY <2>2 DEF Starts, Awaits, Transition
  <2>3. ASSUME InvokeReturns(o) PROVE LastKept
    BY <2>3 DEF InvokeReturns, Awaits, Transition, Landed, world
  <2>4. ASSUME InvokeThrows(o) PROVE LastKept
    BY <2>4 DEF InvokeThrows, Awaits, Transition, Failed, Landed
  <2>5. ASSUME NEW answer \in {"confirmed", "unclear", "throws"}, ConfirmSettles(o, answer) PROVE LastKept
    BY <2>5 DEF ConfirmSettles, Awaits, Transition, Failed
  <2>6. ASSUME NEW answer \in {"confirmed", "absent", "unclear", "throws"}, CallReconciled(o, answer) PROVE LastKept
    BY <2>6 DEF CallReconciled, Reconciled, Awaits, Transition
  <2> QED
    BY <2>1, <2>2, <2>3, <2>4, <2>5, <2>6, <1>2 DEF CallProceeds
<1>3. ASSUME NEW o \in Operations, OperatorStarts(o) PROVE LastKept
  <2>1. ASSUME OperatorReconciles(o) PROVE LastKept
    BY <2>1 DEF OperatorReconciles, Transition
  <2>2. ASSUME OperatorCompensates(o) PROVE LastKept
    BY <2>2 DEF OperatorCompensates, Transition
  <2> QED
    BY <2>1, <2>2, <1>3 DEF OperatorStarts
<1>4. ASSUME NEW o \in Operations, OperatorProceeds(o) PROVE LastKept
  <2>1. ASSUME NEW answer \in {"confirmed", "absent", "unclear", "throws"}, OperatorReconciled(o, answer) PROVE LastKept
    BY <2>1 DEF OperatorReconciled, Reconciled, Transition
  <2>2. ASSUME CompensateReturns(o) PROVE LastKept
    BY <2>2 DEF CompensateReturns, Transition
  <2>3. ASSUME CompensateThrows(o) PROVE LastKept
    BY <2>3 DEF CompensateThrows, Transition
  <2> QED
    BY <2>1, <2>2, <2>3, <1>4 DEF OperatorProceeds
<1>5. ASSUME ReactorProceeds PROVE LastKept
  <2>1. ASSUME ReactorReadsDue PROVE LastKept
    BY <2>1 DEF ReactorReadsDue, Due, Attended
  <2>2. ASSUME ReactorServes PROVE LastKept
    BY <2>2 DEF ReactorServes
  <2>3. ASSUME ReactorRests PROVE LastKept
    BY <2>3 DEF ReactorRests, AtRest
  <2>4. ASSUME NEW o \in Operations, ReactorReconciles(o) PROVE LastKept
    BY <2>4 DEF ReactorReconciles, UpNext, Transition
  <2>5. ASSUME NEW o \in Operations, ReactorThrows(o) PROVE LastKept
    BY <2>5 DEF ReactorThrows, UpNext
  <2>6. ASSUME NEW o \in Operations, NEW answer \in {"confirmed", "absent", "unclear", "throws"}, ReactorReconciled(o, answer) PROVE LastKept
    BY <2>6 DEF ReactorReconciled, Reconciled, Transition
  <2> QED
    BY <2>1, <2>2, <2>3, <2>4, <2>5, <2>6, <1>5 DEF ReactorProceeds
<1>6. ASSUME Crash PROVE LastKept
  BY <1>6 DEF Crash, Landed, AtRest
<1>7. ASSUME UNCHANGED vars PROVE LastKept
  BY <1>7
<1> HIDE DEF Inv, TypeOK, vars, Attendance, Truth, LastKept
<1> QED
  BY <1>1, <1>2, <1>3, <1>4, <1>5, <1>6, <1>7 DEF Next

\* The strengthening is inductive.
LEMMA InvStep == Inv /\ [Next]_vars => Inv'
BY TypeStep, AttendanceStep, TruthStep DEF Inv

\* The invariant holds in every reachable state.
THEOREM Invariance == Spec => []Inv
<1>1. Init => Inv
  BY OperationsAssumption DEF Init, Inv, TypeOK, Attendance, Truth, AtRest, Compensating, States
<1>2. QED
  BY <1>1, InvStep, PTL DEF Spec

\* Every variable keeps its type.
THEOREM Types == Spec => []TypeOK
<1>1. Inv => TypeOK
  BY DEF Inv
<1>2. QED
  BY <1>1, Invariance, PTL

\* Whatever the mode of the tool, however often the call is replayed, and
\* whoever reconciles the row meanwhile, a crash included, the side effect of
\* one key takes place at most once.
THEOREM AtMostOnce == Spec => []NeverTwice
<1>1. Inv => NeverTwice
  BY DEF Inv, Truth, NeverTwice
<1>2. QED
  BY <1>1, Invariance, PTL

\* A row that says confirmed, absent or compensated is right about it.
THEOREM Truthfulness == Spec => []RowTellsTruth
<1>1. Inv => RowTellsTruth
  BY DEF Inv, Truth, RowTellsTruth, Compensating
<1>2. QED
  BY <1>1, Invariance, PTL

\* An effect is compensated at most once, and only one that took place.
THEOREM CompensationOnce == Spec => []CompensatedOnce
<1>1. Inv => CompensatedOnce
  BY DEF Inv, TypeOK, Truth, CompensatedOnce, Compensating
<1>2. QED
  BY <1>1, Invariance, PTL

\* Once a compensation has started, no replay executes the operation again.
THEOREM CompensationIsLast == Spec => NothingAfterCompensation
<1>1. Inv /\ [Next]_vars =>
        [\A o \in Operations : state[o] \in {"COMPENSATING", "COMPENSATED", "COMPENSATION_UNCERTAIN"} =>
           effect'[o] = effect[o] /\ state'[o] # "EXECUTING"]_vars
  BY LastStep DEF LastKept, Compensating
<1>2. QED
  BY <1>1, Invariance, PTL DEF Spec, NothingAfterCompensation
=============================================================================
