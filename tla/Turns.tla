------------------------------- MODULE Turns -------------------------------
(***************************************************************************)
(* The agent's turns: src/src/agent/agent-turn.js, the execute() of        *)
(* tool-registry.js, the checks of resource-kernel.js and                  *)
(* capability-kernel.js, the approvals and the usage ledger of the store.  *)
(*                                                                         *)
(* A turn is a task whose one step calls the model, runs the tools it asks *)
(* for, and calls it again.  A tool may need an approval or wait for an    *)
(* event or a timer: then the turn suspends with that call pending, and a  *)
(* later execution takes it up, to end the call or to wait once more.      *)
(* What happened since the last suspension is lost with the execution; the *)
(* model is asked again and its calls have new ids.  The rows and          *)
(* executions of a task are those of TaskStore and Scheduler, reduced to   *)
(* what a turn can tell apart; the attempt number stands for the lease     *)
(* token.                                                                  *)
(***************************************************************************)
EXTENDS ResourcePools

CONSTANTS
  Turns,        \* tasks that call agent.turn, each of a goal of its own
  Tool,         \* [Turns -> Seq(Tools)]: which tool the n-th call of the model names
  Revocable,    \* turns whose capabilities the operator may revoke
  Forbidden,    \* turns whose calls may be refused: by a hook or the policy,
                \* because there is no such tool, or for their arguments
  ToolLimit,    \* budget.maxToolCalls of every goal
  DayLimit,     \* model calls a day that the daily token quota allows
  MaxRounds,    \* model calls in one run (8)
  MaxFailures,  \* tasks.max_attempts
  MaxWaits,     \* bound: how often one call of a tool that waits does so, as
                \* spawn_goals for its children (sleep: once)
  MaxAttempts,  \* bound: how often a row is claimed
  Disturbed,    \* bound: turns that lose a lease, are signalled or paused
  MaxFaults     \* bound: crashes, lapsed leases, signals, pauses, revocations together

\* "gated" is at or above the approval risk; "event" and "timer" suspend.
Tools == {"plain", "gated", "event", "timer"}

ASSUME TurnsAssumption ==
  /\ Tool \in [Turns -> Seq(Tools)]
  /\ Revocable \subseteq Turns /\ Forbidden \subseteq Turns /\ Disturbed \subseteq Turns
  /\ Users = Turns \X (1..MaxAttempts)
  /\ ToolLimit \in Nat /\ DayLimit \in Nat /\ MaxRounds \in Nat \ {0}
  /\ MaxWaits \in [{"event", "timer"} -> Nat \ {0}]
  /\ MaxFailures \in Nat \ {0} /\ MaxAttempts \in Nat \ {0} /\ MaxFaults \in Nat

VARIABLES
  row,          \* tasks: status, attempt, failures; of the snapshot, the pending
                \* call, at which of its waits it is, which one the row waits
                \* for, and the event it was given
  capability,   \* goal_contracts.capability_status
  approval,     \* approvals.status by call
  posted,       \* the events each call may wait for: not yet, "posted", "taken"
  asked,        \* how many calls the model has asked for in each turn
  charged,      \* ledger: the calls with an entry toolCalls
  billed,       \* ledger: the keys with entries for a model call
  spent,        \* goal_contracts.usage.toolCalls
  today,        \* entries for model calls since midnight
  run,          \* the executions alive
  faults,
  ran,          \* history: the calls whose handler has been started
  inPlace,      \* history: executions that took an event without suspending
  unbilled      \* history: executions a model call of which made no entry

rows == <<row, approval, posted>>
ledger == <<charged, billed, spent, today>>
history == <<ran, inPlace, unbilled>>
vars == <<poolVars, rows, capability, asked, ledger, run, faults, history>>

Calls == UNION {{t} \X DOMAIN Tool[t] : t \in Turns}
\* The n-th wait of a call has a key of its own.
Keys == Calls \X (1..MaxWaits["event"])
ToolOf(c) == Tool[c[1]][c[2]]
Exec == [phase : {"none", "begin", "before", "model", "calls", "hook", "slot", "tool"},
         round : 0..MaxRounds,   \* iteration
         call : Nat,             \* the call in hand, or the last one looked at
         last : Nat,             \* the last call of the response
         resumed : BOOLEAN]      \* the call in hand is the pending one
Row == [status : {"READY", "RUNNING", "WAITING", "PAUSED", "SUCCEEDED", "FAILED"},
        attempt : 0..MaxAttempts, failures : 0..MaxFailures,
        pending : Nat, how : {"none", "approval", "event", "timer"},
        step : Nat, wait : Nat,
        mail : {"none", "approve", "deny", "reply"}]

TurnsTypeOK ==
  /\ PoolTypeOK
  /\ row \in [Turns -> Row]
  /\ capability \in [Turns -> {"ACTIVE", "REVOKED"}]
  /\ approval \in [Calls -> {"none", "PENDING", "APPROVED", "DENIED"}]
  /\ posted \in [Keys -> {"no", "posted", "taken"}]
  /\ asked \in [Turns -> Nat]
  /\ charged \subseteq Calls /\ billed \subseteq Users \X Nat
  /\ spent \in [Turns -> Nat] /\ today \in Nat
  /\ run \in [Users -> Exec]
  /\ faults \in Nat
  /\ ran \subseteq Calls /\ inPlace \subseteq Users /\ unbilled \subseteq Users

Gone == [phase |-> "none", round |-> 0, call |-> 0, last |-> 0, resumed |-> FALSE]
Anew == [phase |-> "begin", round |-> 0, call |-> 0, last |-> 0, resumed |-> FALSE]

Init ==
  /\ PoolInit
  /\ row = [t \in Turns |-> [status |-> "READY", attempt |-> 0, failures |-> 0,
                             pending |-> 0, how |-> "none", step |-> 0, wait |-> 0,
                             mail |-> "none"]]
  /\ capability = [t \in Turns |-> "ACTIVE"]
  /\ approval = [c \in Calls |-> "none"]
  /\ posted = [k \in Keys |-> "no"]
  /\ asked = [t \in Turns |-> 0]
  /\ charged = {} /\ billed = {} /\ today = 0
  /\ spent = [t \in Turns |-> 0]
  /\ run = [e \in Users |-> Gone]
  /\ faults = 0
  /\ ran = {} /\ inPlace = {} /\ unbilled = {}

-----------------------------------------------------------------------------

\* What is bounded by MaxFaults.
Troubles == faults + Cardinality({t \in Turns : capability[t] = "REVOKED"})
Alive == {e \in Users : run[e].phase # "none"}
\* No execution is between two awaits.
LoopFree == \A e \in Alive : run[e].phase \notin {"begin", "calls"}

At(e, phase) == run[e].phase = phase
Go(e, phase) == run' = [run EXCEPT ![e].phase = phase]
End(e) == run' = [run EXCEPT ![e] = Gone]

\* The lease is still this execution's.
Fresh(e) == row[e[1]].status = "RUNNING" /\ row[e[1]].attempt = e[2]
InHand(e) == <<e[1], run[e].call>>
WriteRow(e, r) == row' = IF Fresh(e) THEN [row EXCEPT ![e[1]] = r] ELSE row

\* An error leaves run(): what executeTurn and runTask make of it.  A row whose
\* signal has fired goes back to the queue, be it by way of a pause.
Throw(e, limit) ==
  LET r == row[e[1]]
      final == limit \/ r.failures + 1 >= MaxFailures
  IN  /\ End(e)
      /\ WriteRow(e, IF e \in aborted THEN [r EXCEPT !.status = "READY"]
                     ELSE [r EXCEPT !.failures = @ + 1,
                                    !.status = IF final THEN "FAILED" ELSE "READY"])

\* Faulty: only a call that suspends for the first time looks into the queue.
BadQueued(e, k, how) ==
  Fresh(e) /\ how # "timer" /\ posted[k] = "posted" /\ row[e[1]].pending # k[1][2]
Queued(e, k, how) == Fresh(e) /\ how # "timer" /\ posted[k] = "posted"

\* The event in the queue.
MailOf(c, how) ==
  IF how = "event" THEN "reply" ELSE IF approval[c] = "APPROVED" THEN "approve" ELSE "deny"

\* ActionControl.wait for the n-th event of a call that is at its s-th wait, and
\* what executeTurn does with it: an event that is in the queue already is saved
\* with the snapshot, and run() starts over in the same attempt.  The calls left
\* over of the response are not looked at again.
Suspend(e, c, how, s, n) ==
  LET r == [row[e[1]] EXCEPT !.pending = c[2], !.how = how, !.step = s, !.wait = n]
  IN  IF Queued(e, <<c, n>>, how)
      THEN /\ row' = [row EXCEPT ![e[1]] = [r EXCEPT !.mail = MailOf(c, how)]]
           /\ posted' = [posted EXCEPT ![<<c, n>>] = "taken"]
           /\ run' = [run EXCEPT ![e] = Anew]
           /\ inPlace' = inPlace \cup {e}
      ELSE /\ WriteRow(e, [r EXCEPT !.status = "WAITING", !.mail = "none"])
           /\ End(e)
           /\ UNCHANGED <<posted, inPlace>>

-----------------------------------------------------------------------------
(* Admission, and the beginning of run().                                  *)

Refused(t) == capability[t] # "ACTIVE" \/ spent[t] >= ToolLimit

Refuse(t) ==
  /\ LoopFree
  /\ row[t].status = "READY" /\ Refused(t)
  /\ row' = [row EXCEPT ![t].status = "FAILED"]
  /\ UNCHANGED <<poolVars, approval, posted, capability, asked, ledger, run, faults, history>>

\* A goal whose daily quota is used up is deferred to the next day.
Claim(t) ==
  /\ LoopFree
  /\ row[t].status = "READY" /\ ~Refused(t) /\ today < DayLimit
  /\ row[t].attempt < MaxAttempts
  /\ row' = [row EXCEPT ![t].status = "RUNNING", ![t].attempt = @ + 1]
  /\ run' = [run EXCEPT ![<<t, row[t].attempt + 1>>].phase = "begin"]
  /\ UNCHANGED <<poolVars, approval, posted, capability, asked, ledger, faults, history>>

\* The top of executeTurn's loop: the lease is lost, or a control is pending.
BeginGivesUp(e) ==
  /\ At(e, "begin")
  /\ ~Fresh(e) \/ e \in aborted
  /\ WriteRow(e, [row[e[1]] EXCEPT !.status = "READY"])
  /\ End(e)
  /\ UNCHANGED <<poolVars, approval, posted, capability, asked, ledger, faults, history>>

Begin(e) == At(e, "begin") /\ Fresh(e) /\ e \notin aborted

\* Faulty: any answer to a pending approval lets the tool run.
BadResumes(r) == r.pending # 0 /\ (r.mail # "none" \/ r.how = "timer")
\* resumePendingTool runs the tool: its approval or its event has come, or the
\* row was woken by its timer.
Resumes(r) == r.pending # 0 /\ (r.mail \in {"approve", "reply"} \/ r.how = "timer")

BeginResumes(e) ==
  LET r == row[e[1]]
  IN  /\ Begin(e) /\ Resumes(r)
      /\ run' = [run EXCEPT ![e] = [phase |-> "hook", round |-> 0, call |-> r.pending,
                                    last |-> r.pending, resumed |-> TRUE]]
      /\ UNCHANGED <<poolVars, rows, capability, asked, ledger, faults, history>>

\* Woken without its event, by a resume of the operator: it waits again, with
\* the topic and key that the snapshot has, which are those of the first wait.
BeginWaitsOn(e) ==
  LET r == row[e[1]]
  IN  /\ Begin(e) /\ r.pending # 0 /\ r.mail = "none" /\ r.how # "timer"
      /\ Suspend(e, <<e[1], r.pending>>, r.how, r.step, 1)
      /\ UNCHANGED <<poolVars, approval, capability, asked, ledger, faults, ran, unbilled>>

\* No call is pending, or the pending one was denied.
BeginAsks(e) ==
  LET r == row[e[1]]
  IN  /\ Begin(e) /\ ~Resumes(r) /\ (r.pending = 0 \/ r.mail # "none")
      /\ Go(e, "before")
      /\ UNCHANGED <<poolVars, rows, capability, asked, ledger, faults, history>>

-----------------------------------------------------------------------------
(* The model.                                                              *)

Asking(e) == At(e, "before") /\ LoopFree

\* Faulty: off by one.
BadWithinQuota == today <= DayLimit
WithinQuota == today < DayLimit

\* assertModelCall, behind the hook.
AskModel(e) ==
  /\ Asking(e) /\ WithinQuota
  /\ Go(e, "model")
  /\ UNCHANGED <<poolVars, rows, capability, asked, ledger, faults, history>>

AskOverQuota(e) ==
  /\ Asking(e) /\ ~WithinQuota
  /\ Throw(e, TRUE)
  /\ UNCHANGED <<poolVars, approval, posted, capability, asked, ledger, faults, history>>

\* Faulty: the key of the entries leaves the attempt out.
BadBill(e) == <<<<e[1], 1>>, run[e].round>>
Bill(e) == <<e, run[e].round>>

\* The answer asks for the next n calls.  recordModelUsage skips a key that
\* the ledger has.
ModelAnswers(e, n) ==
  LET b == Bill(e)
  IN  /\ At(e, "model") /\ LoopFree /\ e \notin aborted
      /\ asked[e[1]] + n <= Len(Tool[e[1]])
      /\ asked' = [asked EXCEPT ![e[1]] = @ + n]
      /\ billed' = billed \cup {b}
      /\ today' = IF b \in billed THEN today ELSE today + 1
      /\ unbilled' = IF b \in billed THEN unbilled \cup {e} ELSE unbilled
      /\ IF n = 0
         THEN WriteRow(e, [row[e[1]] EXCEPT !.status = "SUCCEEDED"]) /\ End(e)
         ELSE /\ run' = [run EXCEPT ![e] = [phase |-> "calls", round |-> @.round + 1,
                                            call |-> asked[e[1]], last |-> asked[e[1]] + n,
                                            resumed |-> FALSE]]
              /\ UNCHANGED row
      /\ UNCHANGED <<poolVars, approval, posted, capability, charged, spent, faults, ran, inPlace>>

\* A hook cancels, or the provider fails or is aborted.
ModelFails(e) ==
  /\ At(e, "before") \/ At(e, "model")
  /\ LoopFree
  /\ Throw(e, FALSE)
  /\ UNCHANGED <<poolVars, approval, posted, capability, asked, ledger, faults, history>>

-----------------------------------------------------------------------------
(* The calls of a response, one after the other.                           *)

CallsDone(e) ==
  /\ At(e, "calls") /\ run[e].call = run[e].last
  /\ IF run[e].round = MaxRounds THEN Throw(e, FALSE) ELSE Go(e, "before") /\ UNCHANGED row
  /\ UNCHANGED <<poolVars, approval, posted, capability, asked, ledger, faults, history>>

NextCall(e) == <<e[1], run[e].call + 1>>
Looks(e, kinds) ==
  At(e, "calls") /\ run[e].call < run[e].last /\ ToolOf(NextCall(e)) \in kinds

CallNeedsApproval(e) ==
  LET c == NextCall(e)
  IN  /\ Looks(e, {"gated"})
      /\ approval' = [approval EXCEPT ![c] = IF @ = "none" THEN "PENDING" ELSE @]
      /\ Suspend(e, c, "approval", 1, 1)
      /\ UNCHANGED <<poolVars, capability, asked, ledger, faults, ran, unbilled>>

CallExecutes(e) ==
  /\ Looks(e, {"plain", "event", "timer"})
  /\ run' = [run EXCEPT ![e] = [run[e] EXCEPT !.call = @ + 1, !.phase = "hook"]]
  /\ UNCHANGED <<poolVars, rows, capability, asked, ledger, faults, history>>

-----------------------------------------------------------------------------
(* ToolRegistry.execute.                                                   *)

Hooked(e) == At(e, "hook") /\ LoopFree

\* The first look at the arguments is outside the try: a violation of the
\* tool's schema leaves execute() and run() as an error.
ArgumentsRefused(e) ==
  /\ e[1] \in Forbidden
  /\ \/ Looks(e, {"plain", "event", "timer"})
     \/ Begin(e) /\ Resumes(row[e[1]])
  /\ Throw(e, FALSE)
  /\ UNCHANGED <<poolVars, approval, posted, capability, asked, ledger, faults, history>>

\* A result {ok: false}, which the model is told: a hook or the policy forbids
\* the call, there is no such tool, the arguments cannot be parsed or violate
\* the schema once a hook has changed them, the capabilities forbid it, or the
\* budget is used up.
ToolRefused(e) ==
  /\ Hooked(e)
  /\ e[1] \in Forbidden \/ Refused(e[1])
  /\ IF e \in aborted THEN Throw(e, FALSE) ELSE Go(e, "calls") /\ UNCHANGED row
  /\ UNCHANGED <<poolVars, approval, posted, capability, asked, ledger, faults, history>>

\* Faulty: a call that is made again is charged again.
BadCharges(c) ==
  /\ spent[c[1]] < ToolLimit
  /\ charged' = charged \cup {c}
  /\ spent' = [spent EXCEPT ![c[1]] = @ + 1]

\* recordToolCall compares with the limits first and then finds the key.
Charges(c) ==
  /\ spent[c[1]] < ToolLimit
  /\ charged' = charged \cup {c}
  /\ spent' = IF c \in charged THEN spent ELSE [spent EXCEPT ![c[1]] = @ + 1]

\* Authorised and charged, then to the pool.
ToolAcquires(e) ==
  /\ Hooked(e)
  /\ capability[e[1]] = "ACTIVE"
  /\ Charges(InHand(e))
  /\ Acquire(e)
  /\ Go(e, "slot")
  /\ UNCHANGED <<rows, capability, asked, billed, today, faults, history>>

ToolStarts(e) ==
  /\ At(e, "slot") /\ LoopFree
  /\ Enter(e)
  /\ Go(e, "tool")
  /\ ran' = ran \cup {InHand(e)}
  /\ UNCHANGED <<rows, capability, asked, ledger, faults, inPlace, unbilled>>

\* Rejected by the pool, at once, in the queue or at the grant: execute()
\* throws the reason of the signal.
ToolRejected(e) ==
  /\ At(e, "slot") /\ LoopFree
  /\ \/ slot[e] = "none" /\ UNCHANGED poolVars
     \/ EnterAborted(e)
  /\ Throw(e, FALSE)
  /\ UNCHANGED <<approval, posted, capability, asked, ledger, faults, history>>

\* How often the call in hand has waited, as the snapshot says that its
\* execution was given; one that has lost its lease writes nothing any more.
Waited(e) == IF run[e].resumed THEN row[e[1]].step ELSE 0

\* The tool returns a value, or throws without a signal and makes {ok: false}.
ToolReturns(e) ==
  /\ At(e, "tool") /\ LoopFree
  /\ ToolOf(InHand(e)) \in {"plain", "gated"} \/ run[e].resumed
  /\ Leave(e)
  /\ Go(e, "calls")
  /\ UNCHANGED <<rows, capability, asked, ledger, faults, history>>

\* The tool waits: for the first time, or taken up, as spawn_goals for the next
\* child that has not ended.
ToolSuspends(e) ==
  LET c == InHand(e)
      n == Waited(e) + 1
  IN  /\ At(e, "tool") /\ LoopFree
      /\ ToolOf(c) \in {"event", "timer"} /\ n <= MaxWaits[ToolOf(c)]
      /\ Leave(e)
      /\ Suspend(e, c, ToolOf(c), n, n)
      /\ UNCHANGED <<approval, capability, asked, ledger, faults, ran, unbilled>>

\* It throws after its signal has fired.
ToolThrows(e) ==
  /\ At(e, "tool") /\ LoopFree /\ e \in aborted
  /\ Leave(e)
  /\ Throw(e, FALSE)
  /\ UNCHANGED <<approval, posted, capability, asked, ledger, faults, history>>

-----------------------------------------------------------------------------
(* What comes from outside.                                                *)

Awaits(c, how, n) ==
  /\ row[c[1]].status = "WAITING" /\ row[c[1]].pending = c[2] /\ row[c[1]].how = how
  /\ row[c[1]].wait = n

\* publishEvent: the row that waits for the event is woken with it.
Publish(c, how, n, mail) ==
  IF Awaits(c, how, n)
  THEN /\ row' = [row EXCEPT ![c[1]].status = "READY", ![c[1]].mail = mail]
       /\ posted' = [posted EXCEPT ![<<c, n>>] = "taken"]
  ELSE posted' = [posted EXCEPT ![<<c, n>>] = "posted"] /\ UNCHANGED row

\* resolveApprovalAndPublishEvent: one transaction.  The same decision again
\* changes nothing, the opposite one is refused.
Resolve(c, decision) ==
  /\ LoopFree
  /\ approval[c] = "PENDING"
  /\ approval' = [approval EXCEPT ![c] = IF decision = "approve" THEN "APPROVED" ELSE "DENIED"]
  /\ Publish(c, "approval", 1, decision)
  /\ UNCHANGED <<poolVars, capability, asked, ledger, run, faults, history>>

\* A reply or another event may come before anybody waits for it; a later wait
\* of a call is for a child that its first execution has submitted.
Reply(c, n) ==
  /\ LoopFree
  /\ ToolOf(c) = "event" /\ posted[<<c, n>>] = "no"
  /\ n = 1 \/ c \in ran
  /\ Publish(c, "event", n, "reply")
  /\ UNCHANGED <<poolVars, approval, capability, asked, ledger, run, faults, history>>

Suspended(t, hows) == LoopFree /\ row[t].status = "WAITING" /\ row[t].how \in hows

TimerFires(t) ==
  /\ Suspended(t, {"timer"})
  /\ row' = [row EXCEPT ![t].status = "READY"]
  /\ UNCHANGED <<poolVars, approval, posted, capability, asked, ledger, run, faults, history>>

WaitExpires(t) ==
  /\ Suspended(t, {"event"})
  /\ row' = [row EXCEPT ![t].status = "FAILED"]
  /\ UNCHANGED <<poolVars, approval, posted, capability, asked, ledger, run, faults, history>>

\* setCapabilityStatus; other operators and the expiry end in the same refusals.
Revoke(t) ==
  /\ LoopFree
  /\ t \in Revocable /\ capability[t] = "ACTIVE" /\ Troubles < MaxFaults
  /\ capability' = [capability EXCEPT ![t] = "REVOKED"]
  /\ UNCHANGED <<poolVars, rows, asked, ledger, run, faults, history>>

\* Only a day whose quota is used up is worth the end of the day.
NextDay ==
  /\ LoopFree
  /\ today >= DayLimit
  /\ today' = 0
  /\ UNCHANGED <<poolVars, rows, capability, asked, charged, billed, spent, run, faults, history>>

Fault == LoopFree /\ Troubles < MaxFaults /\ faults' = faults + 1

\* A row that waits is paused, and while it is, no event wakes it.
Pause(t) ==
  /\ Suspended(t, {"approval", "event"}) /\ Fault /\ t \in Disturbed
  /\ row' = [row EXCEPT ![t].status = "PAUSED"]
  /\ UNCHANGED <<poolVars, approval, posted, capability, asked, ledger, run, history>>

ResumePaused(t) ==
  /\ LoopFree
  /\ row[t].status = "PAUSED"
  /\ row' = [row EXCEPT ![t].status = "READY"]
  /\ UNCHANGED <<poolVars, approval, posted, capability, asked, ledger, run, faults, history>>

\* A control of the operator or an interrupt fires the signal.
Signal(e) ==
  /\ Fault /\ e[1] \in Disturbed
  /\ Fresh(e)
  /\ Abort(e)
  /\ UNCHANGED <<rows, capability, asked, ledger, run, history>>

\* The lease of a row expires under an execution that lives on.
Lapse(t) ==
  /\ Fault /\ t \in Disturbed
  /\ row[t].status = "RUNNING"
  /\ row' = [row EXCEPT ![t].status = "READY"]
  /\ UNCHANGED <<poolVars, approval, posted, capability, asked, ledger, run, history>>

\* The process dies between any two commits and is started again.
Crash ==
  /\ Troubles < MaxFaults /\ faults' = faults + 1
  /\ PoolCrash
  /\ run' = [e \in Users |-> Gone]
  /\ row' = [t \in Turns |-> IF row[t].status = "RUNNING" THEN [row[t] EXCEPT !.status = "READY"]
                              ELSE row[t]]
  /\ UNCHANGED <<approval, posted, capability, asked, ledger, history>>

-----------------------------------------------------------------------------

Step(e) ==
  \/ BeginGivesUp(e) \/ BeginResumes(e) \/ BeginWaitsOn(e) \/ BeginAsks(e)
  \/ AskModel(e) \/ AskOverQuota(e) \/ ModelFails(e)
  \/ \E n \in 0..2 : ModelAnswers(e, n)
  \/ CallsDone(e) \/ CallNeedsApproval(e) \/ CallExecutes(e)
  \/ ArgumentsRefused(e) \/ ToolRefused(e) \/ ToolAcquires(e) \/ ToolStarts(e) \/ ToolRejected(e)
  \/ ToolReturns(e) \/ ToolSuspends(e) \/ ToolThrows(e)

Next ==
  \/ \E e \in Alive : Step(e) \/ Signal(e)
  \/ \E t \in Turns : Refuse(t) \/ Claim(t) \/ TimerFires(t) \/ WaitExpires(t) \/ Revoke(t)
                       \/ Pause(t) \/ ResumePaused(t) \/ Lapse(t)
  \/ \E c \in Calls : Resolve(c, "approve") \/ Resolve(c, "deny") \/ \E n \in 1..MaxWaits["event"] : Reply(c, n)
  \/ NextDay \/ Crash

Spec == Init /\ [][Next]_vars

\* Something goes on as long as something can: an execution that is not
\* waiting, a provider or a tool that answers in the end, a timer that fires, a
\* day that ends.  Nothing is assumed of the operator, of events and of faults.
Progress ==
  \/ \E e \in Alive : Step(e)
  \/ \E t \in Turns : Claim(t) \/ Refuse(t) \/ TimerFires(t)
  \/ NextDay

Fairness == WF_vars(Progress)

FairSpec == Spec /\ Fairness

-----------------------------------------------------------------------------
(* Properties.                                                             *)

\* A tool that needs an approval is started only for a call that the operator
\* has approved, whichever execution takes the answer up and however often
\* (agent-turn.js:156-175 and 210-243, store.js:1653-1666).
ApprovedOnly == \A c \in ran : ToolOf(c) = "gated" => approval[c] = "APPROVED"

\* Whatever is suspended, replayed or taken up by two executions at once, a
\* goal has been charged once for each call that came to a handler, and never
\* for more calls than its budget allows (resource-kernel.js:191-207,
\* store.js:1245-1277).
ChargedOnce ==
  /\ ran \subseteq charged
  /\ \A t \in Turns : spent[t] = Cardinality({c \in charged : c[1] = t}) /\ spent[t] <= ToolLimit

\* A model call that is answered makes its entries in the ledger unless the same
\* attempt, having found its event in the queue, has started its iterations
\* over: the key of a retry or of a second execution is never one the ledger
\* has.  A call whose answer no process sees has no entries
\* (agent-turn.js:120-127, workflow-engine.js:115-128).
BilledByAttempt == unbilled \subseteq inPlace

\* The daily quota is compared before the model is called and grows after it:
\* it is overdrawn by no more calls than executions can be in between
\* (resource-kernel.js:129-189).
OverdrawnByOverlap == today <= DayLimit - 1 + Cardinality(Turns) + faults

Settled(t) ==
  \/ row[t].status \in {"SUCCEEDED", "FAILED", "PAUSED"}
  \/ row[t].status = "WAITING" /\ LET c == <<t, row[t].pending>>
                                  IN  \/ row[t].how = "approval" /\ approval[c] = "PENDING"
                                      \/ row[t].how = "event" /\ posted[<<c, row[t].wait>>] = "no"

\* What the code does not prevent: a call that has come to a later wait, paused
\* there and resumed, waits for the first event again, which it was given long
\* ago (agent-turn.js:91 and 222-227).
Astray(t) == row[t].status = "WAITING" /\ row[t].how = "event" /\ row[t].wait < row[t].step

\* No turn hangs but in that case: it ends, or it waits for somebody who has not
\* answered yet.  An answer is not lost between a suspension, the first or a
\* later one of its call, and the wake-up, nor a call in the queue of a pool.
TurnsMove == \A t \in Turns : []<>(Settled(t) \/ Astray(t))
=============================================================================
