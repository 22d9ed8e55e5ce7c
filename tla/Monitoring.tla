----------------------------- MODULE Monitoring -----------------------------
(***************************************************************************)
(* src/src/runtime/monitoring.js over the table monitors: what is outside  *)
(* is polled under a lease, compared with the state that was seen last,    *)
(* and a change becomes an event.                                          *)
(*                                                                         *)
(* A state of what is outside is a number that grows, so that an older     *)
(* state can be told from a newer one; the first observation, which only   *)
(* sets the state to compare with, has been made.  A poll awaits its       *)
(* sensor and, after a change, the goal it submits; everything else is     *)
(* synchronous.                                                            *)
(***************************************************************************)
EXTENDS Naturals, FiniteSets

CONSTANTS
  Monitors,
  AutoGoals,     \* monitors whose config.autoGoal is set
  Concurrency    \* config.sensing.monitorConcurrency

ASSUME MonitorsAssumption ==
  AutoGoals \subseteq Monitors /\ Concurrency \in Nat

VARIABLES
  outside,   \* the state each sensor would find now
  monitor,   \* the rows: [status, token, expired, enabled, due, seen, revision]
  issued,    \* how many lease tokens each row has had
  polls,     \* the calls of run() that are alive
  active,    \* the map of executions: the token of the entry, or 0
  changes,   \* history: the changes that were taken into a row
  told       \* the events monitor.changed

monitoringVars == <<outside, monitor, issued, polls, active, changes, told>>

Row == [status : {"IDLE", "RUNNING"}, token : Nat, expired : BOOLEAN, enabled : BOOLEAN,
        due : BOOLEAN, seen : Nat, revision : Nat]
\* A poll holds the row as it was claimed (base is its lastState) and, once
\* the sensor has looked, what it found.
Poll == [of : Monitors, token : Nat, base : Nat, at : {"claimed", "read", "submit"}, found : Nat]
Change == [of : Monitors, revision : Nat, state : Nat]

MonitoringTypeOK ==
  /\ outside \in [Monitors -> Nat]
  /\ monitor \in [Monitors -> Row]
  /\ issued \in [Monitors -> Nat]
  /\ polls \subseteq Poll
  /\ active \in [Monitors -> Nat]
  /\ changes \subseteq Change /\ told \subseteq Change

NewRow == [status |-> "IDLE", token |-> 0, expired |-> FALSE, enabled |-> TRUE,
           due |-> TRUE, seen |-> 0, revision |-> 0]

MonitoringInit ==
  /\ outside = [m \in Monitors |-> 0]
  /\ monitor = [m \in Monitors |-> NewRow]
  /\ issued = [m \in Monitors |-> 0]
  /\ polls = {}
  /\ active = [m \in Monitors |-> 0]
  /\ changes = {} /\ told = {}

-----------------------------------------------------------------------------
(* The tick.                                                               *)

Released(row) == [row EXCEPT !.status = "IDLE", !.token = 0, !.expired = FALSE]

\* Faulty: a lease that has expired is left to its holder.
BadRecovered(rows) == rows
\* recoverExpiredMonitorLeases.
Recovered(rows) ==
  [m \in Monitors |->
     IF rows[m].status = "RUNNING" /\ rows[m].expired
     THEN [Released(rows[m]) EXCEPT !.due = TRUE] ELSE rows[m]]

Capacity ==
  LET held == Cardinality({m \in Monitors : active[m] # 0})
  IN  IF held < Concurrency THEN Concurrency - held ELSE 0

Candidates(rows) == {m \in Monitors : rows[m].enabled /\ rows[m].status = "IDLE" /\ rows[m].due}

\* As many of the due monitors as there is capacity, whichever are due longest,
\* are claimed, and their sensors called.
TickOn(rows) ==
  \E picked \in SUBSET Candidates(Recovered(rows)) :
    LET next(m) == issued[m] + 1
        row(m) == Recovered(rows)[m]
    IN  /\ Cardinality(picked) <= Capacity
        /\ picked # Candidates(Recovered(rows)) => Cardinality(picked) = Capacity
        /\ monitor' = [m \in Monitors |->
             IF m \in picked THEN [row(m) EXCEPT !.status = "RUNNING", !.token = next(m)] ELSE row(m)]
        /\ issued' = [m \in Monitors |-> IF m \in picked THEN next(m) ELSE issued[m]]
        /\ polls' = polls \cup
             {[of |-> m, token |-> next(m), base |-> row(m).seen, at |-> "claimed", found |-> 0] : m \in picked}
        /\ active' = [m \in Monitors |-> IF m \in picked THEN next(m) ELSE active[m]]
        /\ UNCHANGED <<outside, changes, told>>

Tick == TickOn(monitor)

\* triggerMonitor, and the tick that follows it.
Triggered(m) ==
  IF monitor[m].status = "RUNNING" THEN monitor
  ELSE [monitor EXCEPT ![m] = [Released(@) EXCEPT !.enabled = TRUE, !.due = TRUE]]

RunNow(m) == TickOn(Triggered(m))

SetEnabled(m, on) ==
  /\ monitor' = [monitor EXCEPT ![m] =
       IF @.status = "RUNNING" THEN [@ EXCEPT !.enabled = on]
       ELSE [Released(@) EXCEPT !.enabled = on, !.due = TRUE]]
  /\ UNCHANGED <<outside, issued, polls, active, changes, told>>

-----------------------------------------------------------------------------
(* A poll.                                                                 *)

Holds(p) == monitor[p.of].token = p.token /\ monitor[p.of].status = "RUNNING"

\* Faulty: an observation does not raise the revision.
BadNextRevision(row) == row.revision
NextRevision(row) == row.revision + 1

\* The finally goes by the id of the monitor, whoever's entry it is.
Forgets(p) == [active EXCEPT ![p.of] = 0]

RunEnds(p) ==
  /\ polls' = polls \ {p}
  /\ active' = Forgets(p)

PollReads(p) ==
  /\ p.at = "claimed"
  /\ polls' = (polls \ {p}) \cup {[p EXCEPT !.at = "read", !.found = outside[p.of]]}
  /\ UNCHANGED <<outside, monitor, issued, active, changes, told>>

\* completeMonitor, for the holder of the lease.
Observed(p) ==
  [monitor EXCEPT ![p.of] =
     [Released(@) EXCEPT !.seen = p.found, !.due = FALSE, !.revision = NextRevision(monitor[p.of])]]

TheChange(p) == [of |-> p.of, revision |-> NextRevision(monitor[p.of]), state |-> p.found]
Changed(p) == p.found # p.base

\* The key of the event is the monitor and its revision: an event that is
\* already there must be the same, or publishEvent throws.
KeyTaken(e) == \E x \in told : x.of = e.of /\ x.revision = e.revision /\ x # e

\* A poll whose lease was taken away has no effect.
PollRefused(p) ==
  /\ p.at = "read" /\ ~Holds(p)
  /\ RunEnds(p)
  /\ UNCHANGED <<outside, monitor, issued, changes, told>>

PollFindsNothing(p) ==
  /\ p.at = "read" /\ Holds(p) /\ ~Changed(p)
  /\ monitor' = Observed(p)
  /\ RunEnds(p)
  /\ UNCHANGED <<outside, issued, changes, told>>

\* The row is committed, then the event; nothing is left to retry from when
\* the event is refused.
PollFindsChange(p) ==
  /\ p.at = "read" /\ Holds(p) /\ Changed(p)
  /\ monitor' = Observed(p)
  /\ changes' = changes \cup {TheChange(p)}
  /\ told' = IF KeyTaken(TheChange(p)) THEN told ELSE told \cup {TheChange(p)}
  /\ IF p.of \in AutoGoals /\ ~KeyTaken(TheChange(p))
     THEN polls' = (polls \ {p}) \cup {[p EXCEPT !.at = "submit"]} /\ UNCHANGED active
     ELSE RunEnds(p)
  /\ UNCHANGED <<outside, issued>>

\* The sensor throws: failMonitor.
PollFails(p) ==
  /\ p.at \in {"claimed", "read"}
  /\ monitor' = IF Holds(p)
                THEN [monitor EXCEPT ![p.of] =
                        [Released(@) EXCEPT !.due = FALSE, !.revision = NextRevision(monitor[p.of])]]
                ELSE monitor
  /\ RunEnds(p)
  /\ UNCHANGED <<outside, issued, changes, told>>

\* submit() is over.  When it throws, failMonitor finds that the lease was
\* given back with the observation.
SubmitEnds(p) ==
  /\ p.at = "submit"
  /\ RunEnds(p)
  /\ UNCHANGED <<outside, monitor, issued, changes, told>>

-----------------------------------------------------------------------------
(* The environment: what is outside, time, and the end of the process.     *)

OutsideChanges(m) ==
  /\ outside' = [outside EXCEPT ![m] = @ + 1]
  /\ UNCHANGED <<monitor, issued, polls, active, changes, told>>

\* Bound: a poll that could find nothing new is started by a trigger only.
ComesDue(m) ==
  /\ ~monitor[m].due /\ monitor[m].seen # outside[m]
  /\ monitor' = [monitor EXCEPT ![m].due = TRUE]
  /\ UNCHANGED <<outside, issued, polls, active, changes, told>>

LeaseExpires(m) ==
  /\ monitor[m].status = "RUNNING" /\ ~monitor[m].expired
  /\ monitor' = [monitor EXCEPT ![m].expired = TRUE]
  /\ UNCHANGED <<outside, issued, polls, active, changes, told>>

\* A lease whose poll died with its process.
Abandoned(m) ==
  monitor[m].status = "RUNNING" /\ ~\E p \in polls : p.of = m /\ p.token = monitor[m].token

MonitorsCrash ==
  /\ polls' = {} /\ active' = [m \in Monitors |-> 0]
  /\ UNCHANGED <<outside, monitor, issued, changes, told>>

\* The process dies between the two commits of PollFindsChange.
PollIsCut(p) ==
  /\ p.at = "read" /\ Holds(p) /\ Changed(p)
  /\ monitor' = Observed(p)
  /\ changes' = changes \cup {TheChange(p)}
  /\ polls' = {} /\ active' = [m \in Monitors |-> 0]
  /\ UNCHANGED <<outside, issued, told>>

PollStep(p) ==
  \/ PollReads(p) \/ PollRefused(p) \/ PollFindsNothing(p) \/ PollFindsChange(p)
  \/ PollFails(p) \/ SubmitEnds(p) \/ PollIsCut(p)

MonitorStep(m) ==
  \/ RunNow(m) \/ (\E on \in BOOLEAN : SetEnabled(m, on))
  \/ OutsideChanges(m) \/ ComesDue(m) \/ LeaseExpires(m)

MonitoringNext ==
  \/ Tick \/ MonitorsCrash
  \/ \E m \in Monitors : MonitorStep(m)
  \/ \E p \in polls : PollStep(p)

MonitoringSpec == MonitoringInit /\ [][MonitoringNext]_monitoringVars

-----------------------------------------------------------------------------
(* Properties.                                                             *)

\* What a monitor has seen never goes back: a poll that was overtaken, because
\* its lease expired while its sensor was slow, does not write what it found.
SeenMovesForward ==
  [][\A m \in Monitors : monitor'[m].seen >= monitor[m].seen]_monitoringVars

\* What happens outside is noticed in the end, through failing sensors, lapsed
\* leases, triggers and crashes, unless the operator has switched it off.
PerceptionCatchesUp ==
  \A m \in Monitors : []<>(~monitor[m].enabled \/ monitor[m].seen = outside[m])
=============================================================================
