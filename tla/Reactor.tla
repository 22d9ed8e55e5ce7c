------------------------------- MODULE Reactor -------------------------------
(***************************************************************************)
(* The I/O reactor: housekeeping of src/src/system.js, which ticks the     *)
(* monitors, repeats the deliveries of inbound messages, reconciles the    *)
(* operations, drains the outbox and runs the due schedules, one after the *)
(* other.  An error of an earlier stage ends the round before the later    *)
(* ones; the service is started again and the next round begins at the     *)
(* front.                                                                  *)
(*                                                                         *)
(* Monitoring and Channels are the stages' own modules; operations are     *)
(* OperationManager's and only take time or throw here.  The listeners,    *)
(* the gateway and the polls go on during every await of a round.          *)
(***************************************************************************)
EXTENDS Monitoring, Channels

CONSTANTS
  Schedules, Recurring,   \* rows of schedules, and those of kind INTERVAL
  MaxArrivals,  \* bound: changes outside, new messages, deliveries and due slots
  MaxTroubles   \* bound: errors, lapsed leases, what the operator does, crashes

ASSUME ReactorAssumption ==
  /\ Recurring \subseteq Schedules
  /\ MaxArrivals \in Nat /\ MaxTroubles \in Nat

VARIABLES
  round,        \* the stage the round is at
  schedule,     \* rows: [enabled, due, slot], a slot being a value of next_run_at
  agenda,       \* the due rows a round has read and not come to yet
  submitting,   \* the schedule whose submit() is awaited, if any
  messages,     \* the slots whose message, and with it the goal, is in the store
  goals,        \* how many goals each schedule has brought about
  arrivals, troubles, crashes

scheduleVars == <<schedule, agenda, submitting, messages, goals>>
bounds == <<arrivals, troubles, crashes>>
vars == <<monitoringVars, channelsVars, round, scheduleVars, bounds>>

ReactorTypeOK ==
  /\ MonitoringTypeOK /\ ChannelsTypeOK
  /\ round \in {"rest", "operations", "outbox", "schedules", "failed"}
  /\ schedule \in [Schedules -> [enabled : BOOLEAN, due : BOOLEAN, slot : Nat]]
  /\ agenda \subseteq Schedules /\ submitting \subseteq Schedules
  /\ messages \in [Schedules -> SUBSET Nat]
  /\ goals \in [Schedules -> Nat]
  /\ arrivals \in Nat /\ troubles \in Nat /\ crashes \in Nat

Init ==
  /\ MonitoringInit /\ ChannelsInit
  /\ round = "rest"
  /\ schedule = [s \in Schedules |-> [enabled |-> TRUE, due |-> FALSE, slot |-> 0]]
  /\ agenda = {} /\ submitting = {}
  /\ messages = [s \in Schedules |-> {}]
  /\ goals = [s \in Schedules |-> 0]
  /\ arrivals = 0 /\ troubles = 0 /\ crashes = 0

Arrival == arrivals < MaxArrivals /\ arrivals' = arrivals + 1 /\ UNCHANGED <<troubles, crashes>>
Trouble == troubles + crashes < MaxTroubles /\ troubles' = troubles + 1 /\ UNCHANGED <<arrivals, crashes>>

-----------------------------------------------------------------------------
(* The round.                                                              *)

\* Monitors and inbound messages are one stretch without an await.
RoundBegins ==
  /\ round = "rest"
  /\ Tick /\ ReconcileInbound
  /\ round' = IF Refused THEN "failed" ELSE "operations"
  /\ UNCHANGED <<outboxVars, scheduleVars, bounds>>

OperationsEnd ==
  /\ round = "operations"
  /\ round' = "outbox"
  /\ DrainBegins
  /\ UNCHANGED <<monitoringVars, inboundVars, outbox, sending, landed, sends, scheduleVars, bounds>>

OperationsThrow ==
  /\ round = "operations" /\ Trouble
  /\ round' = "failed"
  /\ UNCHANGED <<monitoringVars, channelsVars, scheduleVars>>

InOutbox == round = "outbox" /\ UNCHANGED <<monitoringVars, scheduleVars>>

OutboxSends(r) ==
  InOutbox /\ (SendBegins(r) \/ SendLands(r) \/ SendReturns(r)) /\ UNCHANGED <<round, bounds>>

OutboxFails(r) == InOutbox /\ SendFails(r) /\ Trouble /\ UNCHANGED round

OutboxThrows(r) == InOutbox /\ SendFailsUnknown(r) /\ Trouble /\ round' = "failed"

\* getDueSchedules.
OutboxEnds ==
  /\ round = "outbox" /\ DrainIdle
  /\ round' = "schedules"
  /\ agenda' = {s \in Schedules : schedule[s].enabled /\ schedule[s].due}
  /\ UNCHANGED <<monitoringVars, channelsVars, schedule, submitting, messages, goals, bounds>>

\* submit() of the next row, as it was read, with the slot in the message id.
ScheduleBegins(s) ==
  /\ round = "schedules" /\ submitting = {} /\ s \in agenda
  /\ agenda' = agenda \ {s} /\ submitting' = {s}
  /\ UNCHANGED <<monitoringVars, channelsVars, round, schedule, messages, goals, bounds>>

\* Faulty: every submission is a message of its own.
BadAccepted(s) == FALSE
\* The message of this slot is there already.
Accepted(s) == schedule[s].slot \in messages[s]

\* appendMessageAndCreateGoal.
SubmitCommits(s) ==
  /\ messages' = [messages EXCEPT ![s] = @ \cup {schedule[s].slot}]
  /\ goals' = IF Accepted(s) THEN goals ELSE [goals EXCEPT ![s] = @ + 1]

\* markScheduleRun: a recurring schedule is enabled again, whatever the
\* operator has said meanwhile.
MarkedRun(s) ==
  [schedule EXCEPT ![s] = IF s \in Recurring
                          THEN [enabled |-> TRUE, due |-> FALSE, slot |-> @.slot + 1]
                          ELSE [@ EXCEPT !.enabled = FALSE]]

ScheduleRuns(s) ==
  /\ submitting = {s}
  /\ SubmitCommits(s)
  /\ schedule' = MarkedRun(s)
  /\ submitting' = {}
  /\ UNCHANGED <<monitoringVars, channelsVars, round, agenda, bounds>>

\* The policy, the contract or the model refuses: SCHEDULE_FAILED.
ScheduleFails(s) ==
  /\ submitting = {s} /\ Trouble
  /\ submitting' = {}
  /\ UNCHANGED <<monitoringVars, channelsVars, round, schedule, agenda, messages, goals>>

RoundEnds ==
  /\ round = "schedules" /\ submitting = {} /\ agenda = {}
  /\ round' = "rest"
  /\ UNCHANGED <<monitoringVars, channelsVars, scheduleVars, bounds>>

\* The supervisor starts the service again.
Relaunch ==
  /\ round = "failed"
  /\ round' = "rest"
  /\ UNCHANGED <<monitoringVars, channelsVars, scheduleVars, bounds>>

-----------------------------------------------------------------------------
(* Everything that goes on during the awaits of a round.                   *)

Elsewhere == UNCHANGED <<round, scheduleVars>>
InMonitors == Elsewhere /\ UNCHANGED channelsVars
InChannels == Elsewhere /\ UNCHANGED monitoringVars

MonitorChanges(m) == InMonitors /\ OutsideChanges(m) /\ Arrival
MonitorComesDue(m) == InMonitors /\ ComesDue(m) /\ UNCHANGED bounds
MonitorOperated(m) == InMonitors /\ (RunNow(m) \/ \E on \in BOOLEAN : SetEnabled(m, on)) /\ Trouble
LeaseLapses(m) == InMonitors /\ ~Abandoned(m) /\ LeaseExpires(m) /\ Trouble
LeaseRunsOut(m) == InMonitors /\ Abandoned(m) /\ LeaseExpires(m) /\ UNCHANGED bounds

PollGoesOn(p) ==
  /\ InMonitors
  /\ PollReads(p) \/ PollRefused(p) \/ PollFindsNothing(p) \/ PollFindsChange(p) \/ SubmitEnds(p)
  /\ UNCHANGED bounds

PollBreaks(p) == InMonitors /\ PollFails(p) /\ Trouble

MessageArrives(x) == InChannels /\ inbound[x] = "none" /\ Ingest(x) /\ Arrival
MessageRepeats(x) == InChannels /\ inbound[x] # "none" /\ Ingest(x) /\ UNCHANGED bounds
AnswerIsRecorded(r) == InChannels /\ Enqueue(r) /\ Arrival
SessionIsPurged(r) == InChannels /\ Purge(r) /\ Trouble
DeliveryComesDue(r) == InChannels /\ RetryComesDue(r) /\ UNCHANGED bounds

SlotComesDue(s) ==
  /\ ~schedule[s].due /\ Arrival
  /\ schedule' = [schedule EXCEPT ![s].due = TRUE]
  /\ UNCHANGED <<monitoringVars, channelsVars, round, agenda, submitting, messages, goals>>

\* setScheduleEnabled.
ScheduleOperated(s, on) ==
  /\ schedule[s].enabled # on /\ Trouble
  /\ schedule' = [schedule EXCEPT ![s].enabled = on]
  /\ UNCHANGED <<monitoringVars, channelsVars, round, agenda, submitting, messages, goals>>

-----------------------------------------------------------------------------
(* The end of the process, also between two commits of one stretch.        *)

Dies ==
  /\ troubles + crashes < MaxTroubles /\ crashes' = crashes + 1 /\ UNCHANGED <<arrivals, troubles>>
  /\ round' = "rest"
  /\ agenda' = {} /\ submitting' = {}

Crash ==
  /\ Dies /\ MonitorsCrash /\ ChannelsCrash
  /\ UNCHANGED <<schedule, messages, goals>>

CrashInPoll(p) ==
  /\ Dies /\ PollIsCut(p) /\ ChannelsCrash
  /\ UNCHANGED <<schedule, messages, goals>>

CrashInIngest(x) ==
  /\ Dies /\ MonitorsCrash /\ IngestIsCut(x)
  /\ UNCHANGED <<schedule, messages, goals>>

\* After the goal, before the mark.
CrashInSchedule(s) ==
  /\ submitting = {s} /\ Dies /\ MonitorsCrash /\ ChannelsCrash
  /\ SubmitCommits(s)
  /\ UNCHANGED schedule

-----------------------------------------------------------------------------

Round ==
  \/ RoundBegins \/ OperationsEnd \/ OperationsThrow
  \/ \E r \in Deliveries : OutboxSends(r) \/ OutboxFails(r) \/ OutboxThrows(r)
  \/ OutboxEnds
  \/ \E s \in Schedules : ScheduleBegins(s) \/ ScheduleRuns(s) \/ ScheduleFails(s)
  \/ RoundEnds \/ Relaunch

Meanwhile ==
  \/ \E m \in Monitors : \/ MonitorChanges(m) \/ MonitorComesDue(m) \/ MonitorOperated(m)
                         \/ LeaseLapses(m) \/ LeaseRunsOut(m)
  \/ \E p \in polls : PollGoesOn(p) \/ PollBreaks(p)
  \/ \E x \in Messages : MessageArrives(x) \/ MessageRepeats(x)
  \/ \E r \in Deliveries : AnswerIsRecorded(r) \/ SessionIsPurged(r) \/ DeliveryComesDue(r)
  \/ \E s \in Schedules : SlotComesDue(s) \/ \E on \in BOOLEAN : ScheduleOperated(s, on)

Crashes ==
  \/ Crash
  \/ \E p \in polls : CrashInPoll(p)
  \/ \E x \in Messages : CrashInIngest(x)
  \/ \E s \in Schedules : CrashInSchedule(s)

Next == Round \/ Meanwhile \/ Crashes

Spec == Init /\ [][Next]_vars

\* The round goes on: adapters and submissions settle, the service comes back.
\* Sensors settle, intervals and leases run out.
RoundGoesOn ==
  \/ RoundBegins \/ OperationsEnd \/ OutboxEnds \/ RoundEnds \/ Relaunch
  \/ \E r \in Deliveries : OutboxSends(r)
  \/ \E s \in Schedules : ScheduleBegins(s) \/ ScheduleRuns(s)

Fairness ==
  /\ WF_vars(RoundGoesOn)
  /\ \A r \in Deliveries : WF_vars(DeliveryComesDue(r))
  /\ \A m \in Monitors :
       /\ WF_vars(MonitorComesDue(m)) /\ WF_vars(LeaseRunsOut(m))
       /\ WF_vars(\E p \in polls : p.of = m /\ PollGoesOn(p))

FairSpec == Spec /\ Fairness

-----------------------------------------------------------------------------
(* Properties.                                                             *)

\* Every change a monitor has taken into its row is told as an event, but for
\* one that a crash may cut off.
ChangesAreTold ==
  /\ told \subseteq changes
  /\ Cardinality(changes \ told) <= crashes

\* A slot of a schedule brings about one goal, whatever fails and wherever the
\* process dies, and the schedule does not move on before it has.
OneGoalPerSlot ==
  \A s \in Schedules :
    /\ goals[s] = Cardinality(messages[s])
    /\ s \in Recurring => 0..schedule[s].slot - 1 \subseteq messages[s]

\* With no message pending whose key is refused, a round gets to every stage:
\* messages become events, deliveries come to an end and schedules run.
ReactorServes ==
  []<>(\/ Refused
       \/ /\ Pending = {}
          /\ \A r \in Deliveries : ~Open(r)
          /\ \A s \in Schedules : ~(schedule[s].enabled /\ schedule[s].due))
=============================================================================
