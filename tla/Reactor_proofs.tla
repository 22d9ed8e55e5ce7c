---------------------------- MODULE Reactor_proofs ----------------------------
(* Proofs about the stages of the reactor, each by itself: Monitoring, for    *)
(* any monitors, sensors and lapses, and Channels, for any messages,          *)
(* deliveries and attempts.  Then the reactor: it runs its stages as their    *)
(* own modules say, so that what is proved of the stages holds in it; and a   *)
(* slot of a schedule is one goal.                                            *)
EXTENDS Reactor, TLAPS, FiniteSetTheorems

\* A poll has a token that was issued, it found nothing that was not there,
\* and what the holder of the lease has found is not older than the row.
PollsAreTrue ==
  \A p \in polls :
    /\ p.token <= issued[p.of]
    /\ p.found <= outside[p.of]
    /\ p.at = "read" /\ Holds(p) => monitor[p.of].seen <= p.found

SeenIsPast == \A m \in Monitors : monitor[m].seen <= outside[m]

MonitoringInv == MonitoringTypeOK /\ PollsAreTrue /\ SeenIsPast

\* The rows a tick starts from: as they are, or with one of them triggered.
Tickable(rows) ==
  /\ rows \in [Monitors -> Row]
  /\ \A m \in Monitors :
       /\ rows[m].seen = monitor[m].seen
       /\ rows[m].status = "RUNNING" => rows[m].token = monitor[m].token /\ monitor[m].status = "RUNNING"

USE MonitorsAssumption

-----------------------------------------------------------------------------

\* What the updates of a row leave alone.
LEMMA RowUpdates ==
  ASSUME NEW row \in Row
  PROVE  /\ Released(row) \in Row /\ Released(row).seen = row.seen /\ Released(row).status = "IDLE"
         /\ NextRevision(row) \in Nat
<1> DEFINE a == [row EXCEPT !.status = "IDLE"]
           b == [a EXCEPT !.token = 0]
           c == [b EXCEPT !.expired = FALSE]
<1>1. a \in Row /\ a.seen = row.seen /\ a.status = "IDLE"
  BY DEF Row
<1>2. b \in Row /\ b.seen = a.seen /\ b.status = a.status
  BY <1>1 DEF Row
<1>3. c \in Row /\ c.seen = b.seen /\ c.status = b.status
  BY <1>2 DEF Row
<1>4. c = Released(row)
  BY DEF Released
<1>5. NextRevision(row) \in Nat
  BY DEF Row, NextRevision
<1> QED
  BY <1>1, <1>2, <1>3, <1>4, <1>5

\* A trigger changes neither what was seen nor who holds a lease.
LEMMA TriggeredIsTickable ==
  ASSUME MonitoringTypeOK, NEW m \in Monitors
  PROVE  Tickable(Triggered(m)) /\ Tickable(monitor)
<1>1. Tickable(monitor)
  BY DEF MonitoringTypeOK, Tickable
<1>2. CASE monitor[m].status = "RUNNING"
  BY <1>1, <1>2 DEF Triggered
<1>3. CASE monitor[m].status # "RUNNING"
  <2> DEFINE row == [Released(monitor[m]) EXCEPT !.enabled = TRUE, !.due = TRUE]
  <2>1. monitor[m] \in Row
    BY DEF MonitoringTypeOK
  <2>2. row \in Row /\ row.seen = monitor[m].seen /\ row.status = "IDLE"
    BY <2>1 DEF Released, Row
  <2>3. Triggered(m) = [monitor EXCEPT ![m] = row]
    BY <1>3 DEF Triggered
  <2> HIDE DEF row
  <2> QED
    BY <1>1, <2>2, <2>3 DEF MonitoringTypeOK, Tickable
<1> QED
  BY <1>1, <1>2, <1>3

\* A claim of a row.
ClaimedAs(row, t) == [row EXCEPT !.status = "RUNNING", !.token = t]

\* A claim changes the lease only.
LEMMA ClaimedRow ==
  ASSUME NEW row \in Row, NEW t \in Nat
  PROVE  /\ ClaimedAs(row, t) \in Row
         /\ ClaimedAs(row, t).seen = row.seen
         /\ ClaimedAs(row, t).token = t
<1> DEFINE a == [row EXCEPT !.status = "RUNNING"]
           b == [a EXCEPT !.token = t]
<1>1. a \in Row /\ a.seen = row.seen
  BY DEF Row
<1>2. b \in Row /\ b.seen = a.seen /\ b.token = t
  BY <1>1 DEF Row
<1> QED
  BY <1>1, <1>2 DEF ClaimedAs

\* The recovery of leases leaves rows a tick may start from.
LEMMA RecoveredIsTickable ==
  ASSUME NEW rows, Tickable(rows)
  PROVE  Tickable(Recovered(rows))
<1> SUFFICES ASSUME NEW m \in Monitors
             PROVE  /\ Recovered(rows)[m] \in Row
                    /\ Recovered(rows)[m].seen = rows[m].seen
                    /\ Recovered(rows)[m].status = "RUNNING" => Recovered(rows)[m] = rows[m]
  BY DEF Tickable, Recovered
<1>1. rows[m] \in Row
  BY DEF Tickable
<1>2. CASE rows[m].status = "RUNNING" /\ rows[m].expired
  <2> DEFINE a == Released(rows[m])
             b == [a EXCEPT !.due = TRUE]
  <2>1. a \in Row /\ a.seen = rows[m].seen /\ a.status = "IDLE"
    BY <1>1, RowUpdates
  <2> HIDE DEF a
  <2>2. b \in Row /\ b.seen = a.seen /\ b.status = a.status
    BY <2>1 DEF Row
  <2>3. Recovered(rows)[m] = b
    BY <1>2 DEF Recovered, a
  <2> QED
    BY <2>1, <2>2, <2>3
<1>3. CASE ~(rows[m].status = "RUNNING" /\ rows[m].expired)
  BY <1>1, <1>3 DEF Recovered
<1> QED
  BY <1>2, <1>3

\* A tick only claims and releases: it keeps the invariant and what was seen.
LEMMA TickStep ==
  ASSUME MonitoringInv, NEW rows, Tickable(rows), TickOn(rows)
  PROVE  MonitoringInv' /\ \A m \in Monitors : monitor'[m].seen = monitor[m].seen
<1> DEFINE rec == Recovered(rows)
<1>1. Tickable(rec)
  BY RecoveredIsTickable
<1>2. PICK picked \in SUBSET Candidates(rec) :
        /\ monitor' = [m \in Monitors |->
             IF m \in picked THEN ClaimedAs(rec[m], issued[m] + 1) ELSE rec[m]]
        /\ issued' = [m \in Monitors |-> IF m \in picked THEN issued[m] + 1 ELSE issued[m]]
        /\ polls' = polls \cup
             {[of |-> m, token |-> issued[m] + 1, base |-> rec[m].seen, at |-> "claimed", found |-> 0] : m \in picked}
        /\ active' = [m \in Monitors |-> IF m \in picked THEN issued[m] + 1 ELSE active[m]]
        /\ UNCHANGED <<outside, changes, told>>
  BY DEF TickOn, ClaimedAs
<1> HIDE DEF rec
<1>3. picked \subseteq Monitors
  BY DEF Candidates
<1>4. \A m \in Monitors : rec[m] \in Row /\ issued[m] \in Nat /\ issued[m] + 1 \in Nat /\ rec[m].seen \in Nat
  BY <1>1 DEF Tickable, MonitoringInv, MonitoringTypeOK, Row
<1>5. \A m \in Monitors :
        /\ monitor'[m] \in Row
        /\ monitor'[m].seen = rec[m].seen
        /\ IF m \in picked THEN monitor'[m].token = issued[m] + 1 ELSE monitor'[m] = rec[m]
  <2> SUFFICES ASSUME NEW m \in Monitors
               PROVE  /\ monitor'[m] \in Row
                      /\ monitor'[m].seen = rec[m].seen
                      /\ IF m \in picked THEN monitor'[m].token = issued[m] + 1 ELSE monitor'[m] = rec[m]
    OBVIOUS
  <2>1. CASE m \in picked
    <3>1. monitor'[m] = ClaimedAs(rec[m], issued[m] + 1)
      BY <1>2, <2>1
    <3>2. rec[m] \in Row /\ issued[m] + 1 \in Nat
      BY <1>4
    <3>3. /\ ClaimedAs(rec[m], issued[m] + 1) \in Row
          /\ ClaimedAs(rec[m], issued[m] + 1).seen = rec[m].seen
          /\ ClaimedAs(rec[m], issued[m] + 1).token = issued[m] + 1
      BY <3>2, ClaimedRow
    <3> QED
      BY <2>1, <3>1, <3>3
  <2>2. CASE m \notin picked
    BY <1>2, <1>4, <2>2
  <2> QED
    BY <2>1, <2>2
<1>6. \A m \in Monitors : monitor'[m].seen = monitor[m].seen
  BY <1>1, <1>5 DEF Tickable
<1>7. \A m \in Monitors : issued'[m] \in Nat /\ issued[m] <= issued'[m]
  BY <1>2, <1>4
<1>8. MonitoringTypeOK'
  <2>1. monitor' \in [Monitors -> Row]
    BY <1>2, <1>5
  <2>2. issued' \in [Monitors -> Nat] /\ active' \in [Monitors -> Nat]
    BY <1>2, <1>4 DEF MonitoringInv, MonitoringTypeOK
  <2>3. polls' \subseteq Poll
    <3>1. \A m \in picked :
            [of |-> m, token |-> issued[m] + 1, base |-> rec[m].seen, at |-> "claimed", found |-> 0] \in Poll
      BY <1>3, <1>4 DEF Poll
    <3> QED
      BY <1>2, <3>1 DEF MonitoringInv, MonitoringTypeOK
  <2> QED
    BY <1>2, <2>1, <2>2, <2>3 DEF MonitoringInv, MonitoringTypeOK
<1>9. PollsAreTrue'
  <2> SUFFICES ASSUME NEW p \in polls'
               PROVE  /\ p.token <= issued'[p.of] /\ p.found <= outside'[p.of]
                      /\ p.at = "read" /\ Holds(p)' => monitor'[p.of].seen <= p.found
    BY DEF PollsAreTrue
  <2>1. CASE p \in polls
    <3>1. p.of \in Monitors /\ p.token \in Nat
      BY <2>1 DEF MonitoringInv, MonitoringTypeOK, Poll
    <3>2. /\ p.token <= issued[p.of] /\ p.found <= outside[p.of]
          /\ p.at = "read" /\ Holds(p) => monitor[p.of].seen <= p.found
      BY <2>1 DEF MonitoringInv, PollsAreTrue
    <3>3. Holds(p)' => p.of \notin picked
      <4> SUFFICES ASSUME p.of \in picked, monitor'[p.of].token = p.token PROVE FALSE
        BY DEF Holds
      <4>1. p.token = issued[p.of] + 1 /\ issued[p.of] \in Nat
        BY <1>4, <1>5, <3>1
      <4> QED
        BY <3>2, <4>1
    <3>4. Holds(p)' => Holds(p)
      BY <1>1, <1>5, <3>1, <3>3 DEF Holds, Tickable
    <3>5. p.token <= issued'[p.of]
      <4>1. issued[p.of] \in Nat /\ issued'[p.of] \in Nat /\ issued[p.of] <= issued'[p.of]
        BY <1>4, <1>7, <3>1
      <4> QED
        BY <3>1, <3>2, <4>1
    <3> QED
      BY <1>2, <1>6, <3>1, <3>2, <3>4, <3>5
  <2>2. CASE p \notin polls
    <3>1. PICK m \in picked : p = [of |-> m, token |-> issued[m] + 1, base |-> rec[m].seen,
                                   at |-> "claimed", found |-> 0]
      BY <1>2, <2>2
    <3>2. p.of = m /\ p.token = issued[m] + 1 /\ p.at = "claimed" /\ p.found = 0 /\ m \in Monitors
      BY <1>3, <3>1
    <3>3. issued'[m] = issued[m] + 1 /\ outside'[m] \in Nat
      BY <1>2, <3>1, <3>2 DEF MonitoringInv, MonitoringTypeOK
    <3>4. issued[m] + 1 <= issued[m] + 1
      BY <1>4, <3>2
    <3> QED
      BY <3>2, <3>3, <3>4
  <2> QED
    BY <2>1, <2>2
<1>10. SeenIsPast'
  BY <1>2, <1>6 DEF MonitoringInv, SeenIsPast
<1> QED
  BY <1>6, <1>8, <1>9, <1>10 DEF MonitoringInv

\* An action that leaves the rows' leases and what was seen alone, and lets
\* only time pass outside.
LEMMA QuietStep ==
  ASSUME MonitoringInv, MonitoringTypeOK', UNCHANGED <<issued, polls>>,
         \A m \in Monitors : /\ monitor'[m].seen = monitor[m].seen
                             /\ monitor'[m].status = "RUNNING" =>
                                  monitor[m].status = "RUNNING" /\ monitor'[m].token = monitor[m].token
                             /\ outside[m] <= outside'[m]
  PROVE  MonitoringInv' /\ \A m \in Monitors : monitor'[m].seen = monitor[m].seen
<1>1. PollsAreTrue'
  <2> SUFFICES ASSUME NEW p \in polls
               PROVE  /\ p.token <= issued[p.of] /\ p.found <= outside'[p.of]
                      /\ p.at = "read" /\ Holds(p)' => monitor'[p.of].seen <= p.found
    BY DEF PollsAreTrue
  <2>1. p.of \in Monitors /\ p.found \in Nat /\ outside[p.of] \in Nat /\ outside'[p.of] \in Nat
    BY DEF MonitoringInv, MonitoringTypeOK, Poll
  <2>2. /\ p.token <= issued[p.of] /\ p.found <= outside[p.of]
        /\ p.at = "read" /\ Holds(p) => monitor[p.of].seen <= p.found
    BY DEF MonitoringInv, PollsAreTrue
  <2>3. Holds(p)' => Holds(p)
    BY <2>1 DEF Holds
  <2> QED
    BY <2>1, <2>2, <2>3
<1>2. SeenIsPast'
  <2> SUFFICES ASSUME NEW m \in Monitors PROVE monitor'[m].seen <= outside'[m]
    BY DEF SeenIsPast
  <2>1. monitor[m].seen <= outside[m] /\ monitor[m].seen \in Nat /\ outside[m] \in Nat /\ outside'[m] \in Nat
    BY DEF MonitoringInv, SeenIsPast, MonitoringTypeOK, Row
  <2> QED
    BY <2>1
<1> QED
  BY <1>1, <1>2 DEF MonitoringInv

\* An action that ends a poll of m, or lets it go on after its observation,
\* and may give back its lease with a newer state.
LEMMA EndingStep ==
  ASSUME MonitoringInv, MonitoringTypeOK', UNCHANGED <<outside, issued>>,
         \A q \in polls' : q \in polls \/ \E p \in polls : q = [p EXCEPT !.at = "submit"],
         \A m \in Monitors : /\ monitor[m].seen <= monitor'[m].seen
                             /\ monitor'[m].seen <= outside[m]
                             /\ monitor'[m].status = "RUNNING" => monitor'[m] = monitor[m]
  PROVE  MonitoringInv' /\ \A m \in Monitors : monitor[m].seen <= monitor'[m].seen
<1>1. PollsAreTrue'
  <2> SUFFICES ASSUME NEW q \in polls'
               PROVE  /\ q.token <= issued[q.of] /\ q.found <= outside[q.of]
                      /\ q.at = "read" /\ Holds(q)' => monitor'[q.of].seen <= q.found
    BY DEF PollsAreTrue
  <2>1. CASE q \in polls
    <3>1. /\ q.token <= issued[q.of] /\ q.found <= outside[q.of]
          /\ q.at = "read" /\ Holds(q) => monitor[q.of].seen <= q.found
      BY <2>1 DEF MonitoringInv, PollsAreTrue
    <3>2. q.of \in Monitors
      BY <2>1 DEF MonitoringInv, MonitoringTypeOK, Poll
    <3> QED
      BY <3>1, <3>2 DEF Holds
  <2>2. CASE \E p \in polls : q = [p EXCEPT !.at = "submit"]
    <3>1. PICK p \in polls : q = [p EXCEPT !.at = "submit"]
      BY <2>2
    <3>2. p \in Poll /\ p.token <= issued[p.of] /\ p.found <= outside[p.of]
      BY <3>1 DEF MonitoringInv, MonitoringTypeOK, PollsAreTrue
    <3>3. q.at = "submit" /\ q.of = p.of /\ q.token = p.token /\ q.found = p.found
      BY <3>1, <3>2 DEF Poll
    <3> QED
      BY <3>2, <3>3
  <2> QED
    BY <2>1, <2>2
<1>2. SeenIsPast'
  BY DEF SeenIsPast
<1> QED
  BY <1>1, <1>2 DEF MonitoringInv

\* What was seen does not go back.
SeenGrows == \A m \in Monitors : monitor[m].seen <= monitor'[m].seen

\* A step of the tick alone, or after a trigger.
LEMMA TicksKeep ==
  ASSUME MonitoringInv, Tick \/ \E m \in Monitors : RunNow(m)
  PROVE  MonitoringInv' /\ SeenGrows
<1>1. CASE Tick
  <2>1. Tickable(monitor)
    BY DEF MonitoringInv, MonitoringTypeOK, Tickable
  <2>2. TickOn(monitor)
    BY <1>1 DEF Tick
  <2> QED
    BY <2>1, <2>2, TickStep DEF SeenGrows, MonitoringInv, MonitoringTypeOK, Row
<1>2. CASE \E m \in Monitors : RunNow(m)
  <2>1. PICK m \in Monitors : RunNow(m)
    BY <1>2
  <2>2. Tickable(Triggered(m))
    BY TriggeredIsTickable DEF MonitoringInv
  <2>3. TickOn(Triggered(m))
    BY <2>1 DEF RunNow
  <2> QED
    BY <2>2, <2>3, TickStep DEF SeenGrows, MonitoringInv, MonitoringTypeOK, Row
<1> QED
  BY <1>1, <1>2

\* What completeMonitor and failMonitor write.
LEMMA ReleasedRows ==
  ASSUME NEW row \in Row, NEW n \in Nat, NEW r \in Nat
  PROVE  LET done == [Released(row) EXCEPT !.seen = n, !.due = FALSE, !.revision = r]
             tried == [Released(row) EXCEPT !.due = FALSE, !.revision = r]
         IN  /\ done \in Row /\ done.seen = n /\ done.status = "IDLE"
             /\ tried \in Row /\ tried.seen = row.seen /\ tried.status = "IDLE"
<1> DEFINE a == Released(row)
           b == [a EXCEPT !.seen = n]
           c == [b EXCEPT !.due = FALSE]
           d == [c EXCEPT !.revision = r]
           e == [a EXCEPT !.due = FALSE]
           f == [e EXCEPT !.revision = r]
<1>1. a \in Row /\ a.seen = row.seen /\ a.status = "IDLE"
  BY RowUpdates
<1> HIDE DEF a
<1>2. b \in Row /\ b.seen = n /\ b.status = a.status
  BY <1>1 DEF Row
<1>3. c \in Row /\ c.seen = b.seen /\ c.status = b.status
  BY <1>2 DEF Row
<1>4. d \in Row /\ d.seen = c.seen /\ d.status = c.status
  BY <1>3 DEF Row
<1>5. e \in Row /\ e.seen = a.seen /\ e.status = a.status
  BY <1>1 DEF Row
<1>6. f \in Row /\ f.seen = e.seen /\ f.status = e.status
  BY <1>5 DEF Row
<1> USE DEF a
<1> QED
  BY <1>1, <1>2, <1>3, <1>4, <1>5, <1>6

\* A poll whose sensor has looked.
LEMMA ReadStep ==
  ASSUME MonitoringInv, NEW p \in polls, PollReads(p)
  PROVE  MonitoringInv' /\ SeenGrows
<1> DEFINE q == [p EXCEPT !.at = "read", !.found = outside[p.of]]
<1>1. p \in Poll /\ p.of \in Monitors /\ outside[p.of] \in Nat /\ monitor[p.of].seen <= outside[p.of]
  BY DEF MonitoringInv, MonitoringTypeOK, SeenIsPast, Poll
<1>2. q \in Poll /\ q.of = p.of /\ q.token = p.token /\ q.found = outside[p.of]
  <2> DEFINE a == [p EXCEPT !.at = "read"]
             b == [a EXCEPT !.found = outside[p.of]]
  <2>1. a \in Poll /\ a.of = p.of /\ a.token = p.token
    BY <1>1 DEF Poll
  <2>2. b \in Poll /\ b.of = a.of /\ b.token = a.token /\ b.found = outside[p.of]
    BY <1>1, <2>1 DEF Poll
  <2> QED
    BY <2>1, <2>2
<1> HIDE DEF q
<1>3. polls' = (polls \ {p}) \cup {q} /\ UNCHANGED <<outside, monitor, issued, active, changes, told>>
  BY DEF PollReads, q
<1>4. MonitoringTypeOK'
  BY <1>2, <1>3 DEF MonitoringInv, MonitoringTypeOK
<1>5. PollsAreTrue'
  <2> SUFFICES ASSUME NEW x \in polls'
               PROVE  /\ x.token <= issued[x.of] /\ x.found <= outside[x.of]
                      /\ x.at = "read" /\ Holds(x)' => monitor[x.of].seen <= x.found
    BY <1>3 DEF PollsAreTrue
  <2>1. CASE x \in polls
    BY <1>3, <2>1 DEF MonitoringInv, PollsAreTrue, Holds
  <2>2. CASE x = q
    <3>1. p.token <= issued[p.of]
      BY DEF MonitoringInv, PollsAreTrue
    <3>2. outside[p.of] <= outside[p.of]
      BY <1>1
    <3> QED
      BY <1>1, <1>2, <2>2, <3>1, <3>2
  <2> QED
    BY <1>3, <2>1, <2>2
<1>6. SeenIsPast' /\ SeenGrows
  BY <1>3 DEF MonitoringInv, MonitoringTypeOK, SeenIsPast, SeenGrows, Row
<1> QED
  BY <1>4, <1>5, <1>6 DEF MonitoringInv

\* The operator and the environment.
LEMMA OutsideSteps ==
  ASSUME MonitoringInv, NEW m \in Monitors,
         \/ \E on \in BOOLEAN : SetEnabled(m, on)
         \/ OutsideChanges(m) \/ ComesDue(m) \/ LeaseExpires(m)
  PROVE  MonitoringInv' /\ SeenGrows
<1> DEFINE OneRow(row) ==
      /\ monitor' = [monitor EXCEPT ![m] = row]
      /\ UNCHANGED <<outside, issued, polls, active, changes, told>>
<1>1. monitor[m] \in Row
  BY DEF MonitoringInv, MonitoringTypeOK
<1>2. ASSUME NEW row \in Row, OneRow(row), row.seen = monitor[m].seen,
             row.status = "RUNNING" => monitor[m].status = "RUNNING" /\ row.token = monitor[m].token
      PROVE  MonitoringInv' /\ SeenGrows
  <2>1. MonitoringTypeOK'
    BY <1>2 DEF MonitoringInv, MonitoringTypeOK
  <2>2. \A x \in Monitors : monitor[x].seen <= monitor[x].seen /\ outside[x] <= outside[x]
    BY DEF MonitoringInv, MonitoringTypeOK, Row
  <2>3. \A x \in Monitors : monitor'[x] = IF x = m THEN row ELSE monitor[x]
    BY <1>2 DEF MonitoringInv, MonitoringTypeOK
  <2>4. \A x \in Monitors : /\ monitor'[x].seen = monitor[x].seen
                            /\ monitor'[x].status = "RUNNING" =>
                                 monitor[x].status = "RUNNING" /\ monitor'[x].token = monitor[x].token
                            /\ outside[x] <= outside'[x]
    BY <1>2, <2>2, <2>3
  <2> QED
    BY <1>2, <2>1, <2>2, <2>4, QuietStep DEF SeenGrows
<1>3. CASE \E on \in BOOLEAN : SetEnabled(m, on)
  <2>1. PICK on \in BOOLEAN : SetEnabled(m, on)
    BY <1>3
  <2>2. CASE monitor[m].status = "RUNNING"
    <3> DEFINE row == [monitor[m] EXCEPT !.enabled = on]
    <3>1. row \in Row /\ row.seen = monitor[m].seen /\ row.token = monitor[m].token
      BY <1>1 DEF Row
    <3>2. OneRow(row)
      BY <2>1, <2>2 DEF SetEnabled
    <3> HIDE DEF row, OneRow
    <3> QED
      BY <1>2, <2>2, <3>1, <3>2
  <2>3. CASE monitor[m].status # "RUNNING"
    <3> DEFINE a == Released(monitor[m])
               b == [a EXCEPT !.enabled = on]
               c == [b EXCEPT !.due = TRUE]
    <3>1. a \in Row /\ a.seen = monitor[m].seen /\ a.status = "IDLE"
      BY <1>1, RowUpdates
    <3>2. OneRow(c)
      BY <2>1, <2>3 DEF SetEnabled
    <3> HIDE DEF a, OneRow
    <3>3. b \in Row /\ b.seen = a.seen /\ b.status = a.status
      BY <3>1 DEF Row
    <3>4. c \in Row /\ c.seen = b.seen /\ c.status = b.status
      BY <3>3 DEF Row
    <3> HIDE DEF b, c
    <3> QED
      BY <1>2, <3>1, <3>2, <3>3, <3>4
  <2> QED
    BY <2>2, <2>3
<1>4. CASE ComesDue(m)
  <2> DEFINE row == [monitor[m] EXCEPT !.due = TRUE]
  <2>1. row \in Row /\ row.seen = monitor[m].seen /\ row.token = monitor[m].token /\ row.status = monitor[m].status
    BY <1>1 DEF Row
  <2>2. OneRow(row)
    BY <1>4 DEF ComesDue
  <2> HIDE DEF row, OneRow
  <2> QED
    BY <1>2, <2>1, <2>2
<1>5. CASE LeaseExpires(m)
  <2> DEFINE row == [monitor[m] EXCEPT !.expired = TRUE]
  <2>1. row \in Row /\ row.seen = monitor[m].seen /\ row.token = monitor[m].token /\ row.status = monitor[m].status
    BY <1>1 DEF Row
  <2>2. OneRow(row)
    BY <1>5 DEF LeaseExpires
  <2> HIDE DEF row, OneRow
  <2> QED
    BY <1>2, <2>1, <2>2
<1>6. CASE OutsideChanges(m)
  <2>1. MonitoringTypeOK'
    BY <1>6 DEF OutsideChanges, MonitoringInv, MonitoringTypeOK
  <2>2. \A x \in Monitors : monitor[x].seen <= monitor[x].seen /\ outside[x] <= outside'[x]
    BY <1>6 DEF OutsideChanges, MonitoringInv, MonitoringTypeOK, Row
  <2> QED
    BY <1>6, <2>1, <2>2, QuietStep DEF OutsideChanges, SeenGrows
<1> QED
  BY <1>3, <1>4, <1>5, <1>6

\* The end of a poll, whoever ends it.
LEMMA PollSteps ==
  ASSUME MonitoringInv, NEW p \in polls,
         \/ PollRefused(p) \/ PollFindsNothing(p) \/ PollFindsChange(p)
         \/ PollFails(p) \/ SubmitEnds(p) \/ PollIsCut(p)
  PROVE  MonitoringInv' /\ SeenGrows
<1> DEFINE own == p.of
           r == NextRevision(monitor[own])
           done == [Released(monitor[own]) EXCEPT !.seen = p.found, !.due = FALSE, !.revision = r]
           tried == [Released(monitor[own]) EXCEPT !.due = FALSE, !.revision = r]
           next == [p EXCEPT !.at = "submit"]
<1>1. p \in Poll /\ own \in Monitors /\ p.found \in Nat /\ monitor[own] \in Row /\ r \in Nat
  BY RowUpdates DEF MonitoringInv, MonitoringTypeOK, Poll
<1>2. /\ done \in Row /\ done.seen = p.found /\ done.status = "IDLE"
      /\ tried \in Row /\ tried.seen = monitor[own].seen /\ tried.status = "IDLE"
  BY <1>1, ReleasedRows
<1>3. next \in Poll
  BY <1>1 DEF Poll
<1>4. TheChange(p) \in Change
  BY <1>1 DEF TheChange, Change
<1>5. p.at = "read" /\ Holds(p) => monitor[own].seen <= p.found /\ p.found <= outside[own]
  BY DEF MonitoringInv, PollsAreTrue
<1>6. p.at = "read" /\ Holds(p) /\ monitor' = Observed(p) => monitor' = [monitor EXCEPT ![own] = done]
  BY DEF Observed
<1> HIDE DEF own, r, done, tried, next
<1>7. /\ UNCHANGED <<outside, issued>>
      /\ polls' \subseteq polls \cup {next}
      /\ changes' \subseteq changes \cup {TheChange(p)} /\ told' \subseteq told \cup {TheChange(p)}
      /\ active' = [active EXCEPT ![own] = 0] \/ active' = active \/ active' = [x \in Monitors |-> 0]
      /\ \/ monitor' = monitor
         \/ monitor' = [monitor EXCEPT ![own] = tried]
         \/ p.at = "read" /\ Holds(p) /\ monitor' = [monitor EXCEPT ![own] = done]
  <2>1. CASE PollRefused(p)
    BY <2>1 DEF PollRefused, RunEnds, Forgets, own
  <2>2. CASE PollFindsNothing(p)
    BY <1>6, <2>2 DEF PollFindsNothing, RunEnds, Forgets, own
  <2>3. CASE PollFindsChange(p)
    BY <1>6, <2>3 DEF PollFindsChange, RunEnds, Forgets, own, next
  <2>4. CASE PollFails(p)
    <3>1. monitor' = monitor \/ monitor' = [monitor EXCEPT ![own] = tried]
      BY <2>4 DEF PollFails, own, tried, r
    <3> QED
      BY <2>4, <3>1 DEF PollFails, RunEnds, Forgets, own
  <2>5. CASE SubmitEnds(p)
    BY <2>5 DEF SubmitEnds, RunEnds, Forgets, own
  <2>6. CASE PollIsCut(p)
    BY <1>6, <2>6 DEF PollIsCut
  <2> QED
    BY <2>1, <2>2, <2>3, <2>4, <2>5, <2>6
<1>8. MonitoringTypeOK'
  <2>1. monitor' \in [Monitors -> Row]
    BY <1>2, <1>7 DEF MonitoringInv, MonitoringTypeOK
  <2>2. active' \in [Monitors -> Nat]
    BY <1>7 DEF MonitoringInv, MonitoringTypeOK
  <2> QED
    BY <1>3, <1>4, <1>7, <2>1, <2>2 DEF MonitoringInv, MonitoringTypeOK
<1>9. \A x \in Monitors : /\ monitor[x].seen <= monitor'[x].seen
                          /\ monitor'[x].seen <= outside[x]
                          /\ monitor'[x].status = "RUNNING" => monitor'[x] = monitor[x]
  <2> SUFFICES ASSUME NEW x \in Monitors
               PROVE  /\ monitor[x].seen <= monitor'[x].seen
                      /\ monitor'[x].seen <= outside[x]
                      /\ monitor'[x].status = "RUNNING" => monitor'[x] = monitor[x]
    OBVIOUS
  <2>1. monitor[x].seen <= monitor[x].seen /\ monitor[x].seen <= outside[x]
    BY DEF MonitoringInv, MonitoringTypeOK, SeenIsPast, Row
  <2>2. monitor'[x] = monitor[x] \/ x = own
    BY <1>7 DEF MonitoringInv, MonitoringTypeOK
  <2>3. CASE x = own
    <3>1. \/ monitor'[x] = monitor[x] \/ monitor'[x] = tried
          \/ p.at = "read" /\ Holds(p) /\ monitor'[x] = done
      BY <1>7, <2>3 DEF MonitoringInv, MonitoringTypeOK
    <3> QED
      BY <1>2, <1>5, <2>1, <2>3, <3>1
  <2> QED
    BY <2>1, <2>2, <2>3
<1>10. \A q \in polls' : q \in polls \/ \E y \in polls : q = [y EXCEPT !.at = "submit"]
  BY <1>7 DEF next
<1>11. UNCHANGED <<outside, issued>>
  BY <1>7
<1>12. MonitoringInv'
  BY <1>8, <1>9, <1>10, <1>11, EndingStep
<1>13. SeenGrows
  BY <1>9 DEF SeenGrows
<1> QED
  BY <1>12, <1>13

\* The end of the process.
LEMMA CrashStep ==
  ASSUME MonitoringInv, MonitorsCrash
  PROVE  MonitoringInv' /\ SeenGrows
<1>1. MonitoringTypeOK'
  BY DEF MonitorsCrash, MonitoringInv, MonitoringTypeOK
<1>2. \A x \in Monitors : /\ monitor[x].seen <= monitor'[x].seen
                          /\ monitor'[x].seen <= outside[x]
                          /\ monitor'[x] = monitor[x]
  BY DEF MonitorsCrash, MonitoringInv, MonitoringTypeOK, SeenIsPast, Row
<1> QED
  BY <1>1, <1>2, EndingStep DEF MonitorsCrash, SeenGrows
-----------------------------------------------------------------------------

\* Every step keeps the invariant, and what was seen does not go back.
LEMMA EveryStep ==
  ASSUME MonitoringInv, [MonitoringNext]_monitoringVars
  PROVE  MonitoringInv' /\ SeenGrows
<1>1. CASE UNCHANGED monitoringVars
  <2>1. MonitoringTypeOK'
    BY <1>1 DEF monitoringVars, MonitoringInv, MonitoringTypeOK
  <2>2. \A x \in Monitors : outside[x] <= outside'[x] /\ monitor[x].seen <= monitor'[x].seen
    BY <1>1 DEF monitoringVars, MonitoringInv, MonitoringTypeOK, Row
  <2> QED
    BY <1>1, <2>1, <2>2, QuietStep DEF monitoringVars, SeenGrows
<1>2. CASE Tick
  BY <1>2, TicksKeep
<1>3. CASE MonitorsCrash
  BY <1>3, CrashStep
<1>4. ASSUME NEW m \in Monitors, MonitorStep(m) PROVE MonitoringInv' /\ SeenGrows
  BY <1>4, TicksKeep, OutsideSteps DEF MonitorStep
<1>5. ASSUME NEW p \in polls, PollStep(p) PROVE MonitoringInv' /\ SeenGrows
  BY <1>5, ReadStep, PollSteps DEF PollStep
<1> QED
  BY <1>1, <1>2, <1>3, <1>4, <1>5 DEF MonitoringNext

\* The rows, the polls and the events have their types; who holds a lease has
\* found nothing older than what its row has seen; nothing is seen that has not
\* been there.
THEOREM MonitoringInvariant == MonitoringSpec => []MonitoringInv
<1>1. MonitoringInit => MonitoringInv
  BY DEF MonitoringInit, NewRow, MonitoringInv, MonitoringTypeOK, PollsAreTrue, SeenIsPast, Row
<1>2. MonitoringInv /\ [MonitoringNext]_monitoringVars => MonitoringInv'
  BY EveryStep
<1> QED
  BY <1>1, <1>2, PTL DEF MonitoringSpec

\* What a monitor has seen never goes back, for any number of monitors and
\* polls, and wherever leases lapse and the process dies.
THEOREM SeenNeverGoesBack == MonitoringSpec => SeenMovesForward
<1>1. MonitoringInv /\ [MonitoringNext]_monitoringVars
        => [\A m \in Monitors : monitor'[m].seen >= monitor[m].seen]_monitoringVars
  <2> SUFFICES ASSUME MonitoringInv, [MonitoringNext]_monitoringVars
               PROVE  \A m \in Monitors : monitor'[m].seen >= monitor[m].seen
    OBVIOUS
  <2>1. MonitoringInv' /\ SeenGrows
    BY EveryStep
  <2>2. \A m \in Monitors : monitor'[m].seen \in Nat /\ monitor[m].seen \in Nat
    BY <2>1 DEF MonitoringInv, MonitoringTypeOK, Row
  <2> QED
    BY <2>1, <2>2 DEF SeenGrows
<1> QED
  BY <1>1, MonitoringInvariant, PTL DEF MonitoringSpec, SeenMovesForward

-----------------------------------------------------------------------------
(* The channels.                                                           *)

\* What a drain holds: one row at a time, rows it may still send or that are
\* gone, and a landed message that has been counted.
DrainIsSound ==
  /\ \A r \in batch \cup sending : Open(r) \/ outbox[r].status = "purged"
  /\ \A r \in sending : landed => sends[r] > 0
  /\ \A r \in sending : sending = {r} /\ r \notin batch

\* A row that may be sent has an attempt left.
AttemptsLeft == \A r \in Deliveries : Open(r) => outbox[r].attempt < Attempts

ChannelsInv ==
  /\ ChannelsTypeOK /\ OneEventPerMessage
  /\ OutboxTellsTruth /\ DrainIsSound /\ AttemptsLeft

\* What SettledStaysSettled says of a step.
Settled(r) ==
  outbox[r].status \in {"DELIVERED", "FAILED"} =>
    /\ outbox'[r].status \in {outbox[r].status, "purged"}
    /\ sends'[r] = sends[r]

SettledKept == \A r \in Deliveries : Settled(r)

USE ChannelsAssumption

-----------------------------------------------------------------------------

InboundInv ==
  /\ inbound \in [Messages -> {"none", "PENDING", "DELIVERED"}]
  /\ announced \in [Messages -> Nat]
  /\ OneEventPerMessage

OutboxTypeOK ==
  /\ outbox \in [Deliveries -> OutboxRow]
  /\ batch \subseteq Deliveries /\ sending \subseteq Deliveries /\ landed \in BOOLEAN
  /\ sends \in [Deliveries -> Nat]

OutboxInv == OutboxTypeOK /\ OutboxTellsTruth /\ DrainIsSound /\ AttemptsLeft

\* The invariant has a half for either direction.
LEMMA Halves == ChannelsInv <=> InboundInv /\ OutboxInv
BY DEF ChannelsInv, InboundInv, OutboxInv, OutboxTypeOK, ChannelsTypeOK

\* A message whose delivery is published and marked.
LEMMA InboundStep ==
  ASSUME InboundInv, NEW xs \in SUBSET Messages, announced' = Published(xs),
         \A x \in Messages : inbound'[x] \in {inbound[x], "PENDING"} \/ (x \in xs /\ inbound'[x] = "DELIVERED"),
         inbound' \in [Messages -> {"none", "PENDING", "DELIVERED"}]
  PROVE  InboundInv'
<1>1. announced' \in [Messages -> Nat]
  BY DEF Published, InboundInv
<1>2. \A x \in Messages : announced'[x] <= 1 /\ (inbound'[x] = "DELIVERED" => announced'[x] = 1)
  <2> SUFFICES ASSUME NEW x \in Messages
               PROVE  announced'[x] <= 1 /\ (inbound'[x] = "DELIVERED" => announced'[x] = 1)
    OBVIOUS
  <2>1. announced[x] \in Nat /\ announced[x] <= 1 /\ (inbound[x] = "DELIVERED" => announced[x] = 1)
    BY DEF InboundInv, OneEventPerMessage
  <2>2. announced'[x] = IF x \in xs /\ ~(announced[x] > 0) THEN announced[x] + 1 ELSE announced[x]
    BY DEF Published, Replayed
  <2> QED
    BY <2>1, <2>2
<1> QED
  BY <1>1, <1>2 DEF InboundInv, OneEventPerMessage

\* A delivery of inbound messages, complete or cut, keeps the inbound half.
LEMMA InboundSteps ==
  ASSUME InboundInv,
         \/ \E x \in Messages : Ingest(x) \/ IngestIsCut(x)
         \/ ReconcileInbound
         \/ UNCHANGED inboundVars
  PROVE  InboundInv'
<1>1. ASSUME NEW x \in Messages, Ingest(x) PROVE InboundInv'
  <2>1. CASE inbound[x] = "DELIVERED"
    BY <1>1, <2>1 DEF Ingest, inboundVars, InboundInv, OneEventPerMessage
  <2>2. CASE inbound[x] # "DELIVERED" /\ x \in TooLong
    BY <1>1, <2>2 DEF Ingest, InboundInv, OneEventPerMessage
  <2>3. CASE inbound[x] # "DELIVERED" /\ x \notin TooLong
    <3>1. announced' = Published({x}) /\ inbound' = Marked({x})
      BY <1>1, <2>3 DEF Ingest
    <3>2. \A y \in Messages : inbound'[y] = inbound[y] \/ (y \in {x} /\ inbound'[y] = "DELIVERED")
      BY <3>1 DEF Marked
    <3>3. inbound' \in [Messages -> {"none", "PENDING", "DELIVERED"}]
      BY <3>1 DEF Marked, InboundInv
    <3> QED
      BY <3>1, <3>2, <3>3, InboundStep
  <2> QED
    BY <2>1, <2>2, <2>3
<1>2. ASSUME NEW x \in Messages, IngestIsCut(x) PROVE InboundInv'
  <2>1. inbound' = [inbound EXCEPT ![x] = "PENDING"] /\ inbound[x] # "DELIVERED"
    BY <1>2 DEF IngestIsCut
  <2>2. CASE UNCHANGED announced
    BY <2>1, <2>2 DEF InboundInv, OneEventPerMessage
  <2>3. CASE announced' = Published({x})
    <3>1. \A y \in Messages : inbound'[y] \in {inbound[y], "PENDING"}
      BY <2>1 DEF InboundInv
    <3>2. inbound' \in [Messages -> {"none", "PENDING", "DELIVERED"}]
      BY <2>1 DEF InboundInv
    <3> QED
      BY <2>3, <3>1, <3>2, InboundStep
  <2> QED
    BY <1>2, <2>2, <2>3 DEF IngestIsCut
<1>3. CASE ReconcileInbound
  <2>1. PICK xs \in SUBSET (Pending \ TooLong) : inbound' = Marked(xs) /\ announced' = Published(xs)
    BY <1>3 DEF ReconcileInbound
  <2>2. xs \in SUBSET Messages
    BY DEF Pending
  <2>3. \A y \in Messages : inbound'[y] = inbound[y] \/ (y \in xs /\ inbound'[y] = "DELIVERED")
    BY <2>1 DEF Marked
  <2>4. inbound' \in [Messages -> {"none", "PENDING", "DELIVERED"}]
    BY <2>1 DEF Marked, InboundInv
  <2> QED
    BY <2>1, <2>2, <2>3, <2>4, InboundStep
<1>4. CASE UNCHANGED inboundVars
  BY <1>4 DEF inboundVars, InboundInv, OneEventPerMessage
<1> QED
  BY <1>1, <1>2, <1>3, <1>4

-----------------------------------------------------------------------------

\* A step that writes one row, while the drain goes on or stops.
LEMMA RowStep ==
  ASSUME OutboxInv, NEW r \in Deliveries, NEW row \in OutboxRow,
         outbox' = [outbox EXCEPT ![r] = row], UNCHANGED sends,
         batch' \subseteq batch, sending' \subseteq sending,
         sending' = {} \/ UNCHANGED landed, landed' \in BOOLEAN,
         row.status = "DELIVERED" => sends[r] > 0,
         row.status = "FAILED" => row.attempt = Attempts,
         row.status \in {"PENDING", "RETRY"} => row.attempt < Attempts,
         r \in batch' \cup sending' => row.status \in {"PENDING", "RETRY", "purged"},
         outbox[r].status \in {"DELIVERED", "FAILED"} => row.status \in {outbox[r].status, "purged"}
  PROVE  OutboxInv' /\ SettledKept
<1>1. \A x \in Deliveries : outbox'[x] = IF x = r THEN row ELSE outbox[x]
  BY DEF OutboxInv, OutboxTypeOK
<1>2. OutboxTypeOK'
  BY DEF OutboxInv, OutboxTypeOK
<1>3. OutboxTellsTruth'
  BY <1>1 DEF OutboxInv, OutboxTellsTruth
<1>4. DrainIsSound'
  BY <1>1 DEF OutboxInv, OutboxTypeOK, DrainIsSound, Open
<1>5. AttemptsLeft'
  BY <1>1 DEF OutboxInv, AttemptsLeft, Open
<1>6. SettledKept
  BY <1>1 DEF SettledKept, Settled
<1> QED
  BY <1>2, <1>3, <1>4, <1>5, <1>6 DEF OutboxInv

\* A step that writes no row.
LEMMA NoRowStep ==
  ASSUME OutboxInv, UNCHANGED outbox, sends' \in [Deliveries -> Nat],
         \A x \in Deliveries : sends'[x] = sends[x] \/ (x \in sending /\ sends'[x] > 0),
         batch' \subseteq Deliveries, sending' \subseteq Deliveries, landed' \in BOOLEAN,
         DrainIsSound'
  PROVE  OutboxInv' /\ SettledKept
<1>1. OutboxTypeOK'
  BY DEF OutboxInv, OutboxTypeOK
<1>2. OutboxTellsTruth'
  BY DEF OutboxInv, OutboxTypeOK, OutboxTellsTruth
<1>3. AttemptsLeft'
  BY DEF OutboxInv, AttemptsLeft, Open
<1>4. SettledKept
  BY DEF OutboxInv, OutboxTypeOK, DrainIsSound, Open, SettledKept, Settled
<1> QED
  BY <1>1, <1>2, <1>3, <1>4 DEF OutboxInv

\* The steps of a drain and those that write to the outbox meanwhile.
LEMMA OutboxRowSteps ==
  ASSUME OutboxInv, NEW r \in Deliveries,
         Enqueue(r) \/ Purge(r) \/ RetryComesDue(r) \/ SendReturns(r) \/ SendFails(r)
  PROVE  OutboxInv' /\ SettledKept
<1> DEFINE row == outbox[r]
<1>1. row \in OutboxRow /\ sends[r] \in Nat /\ landed \in BOOLEAN
  BY DEF OutboxInv, OutboxTypeOK
<1>2. /\ row.status = "DELIVERED" => sends[r] > 0
      /\ row.status = "FAILED" => row.attempt = Attempts
      /\ row.status \in {"PENDING", "RETRY"} => row.attempt < Attempts
      /\ r \in batch \cup sending => row.status \in {"PENDING", "RETRY", "purged"}
      /\ r \in sending => (landed => sends[r] > 0) /\ r \notin batch
  BY DEF OutboxInv, OutboxTellsTruth, AttemptsLeft, DrainIsSound, Open
<1>3. CASE Enqueue(r)
  <2> DEFINE new == [status |-> "PENDING", attempt |-> 0, due |-> TRUE]
  <2>1. new \in OutboxRow /\ new.status = "PENDING" /\ new.attempt = 0 /\ 0 < Attempts
    BY DEF OutboxRow
  <2>2. /\ row.status = "none" /\ outbox' = [outbox EXCEPT ![r] = new]
        /\ UNCHANGED <<batch, sending, landed, sends>>
    BY <1>3 DEF Enqueue
  <2> HIDE DEF new
  <2> QED
    BY <1>1, <2>1, <2>2, RowStep
<1>4. CASE Purge(r)
  <2> DEFINE new == [row EXCEPT !.status = "purged"]
  <2>1. new \in OutboxRow /\ new.status = "purged"
    BY <1>1 DEF OutboxRow
  <2>2. outbox' = [outbox EXCEPT ![r] = new] /\ UNCHANGED <<batch, sending, landed, sends>>
    BY <1>4 DEF Purge
  <2> HIDE DEF new
  <2> QED
    BY <1>1, <2>1, <2>2, RowStep
<1>5. CASE RetryComesDue(r)
  <2> DEFINE new == [row EXCEPT !.due = TRUE]
  <2>1. new \in OutboxRow /\ new.status = row.status /\ new.attempt = row.attempt
    BY <1>1 DEF OutboxRow
  <2>2. outbox' = [outbox EXCEPT ![r] = new] /\ UNCHANGED <<batch, sending, landed, sends>>
    BY <1>5 DEF RetryComesDue
  <2> HIDE DEF new
  <2> QED
    BY <1>1, <1>2, <2>1, <2>2, RowStep
<1>6. CASE SendReturns(r)
  <2>1. /\ sending = {r} /\ landed /\ batch' = batch /\ sending' = {} /\ landed' = FALSE
        /\ UNCHANGED sends
    BY <1>6 DEF SendReturns, HandedOver, EndsSending
  <2>2. CASE Open(r)
    <3> DEFINE a == [row EXCEPT !.status = "DELIVERED"]
               new == [a EXCEPT !.attempt = row.attempt + 1]
    <3>1. a \in OutboxRow /\ a.status = "DELIVERED"
      BY <1>1 DEF OutboxRow
    <3> HIDE DEF a
    <3>2. new \in OutboxRow /\ new.status = "DELIVERED"
      <4>1. row.attempt + 1 \in Nat
        BY <1>1 DEF OutboxRow
      <4> QED
        BY <3>1, <4>1 DEF OutboxRow
    <3> USE DEF a
    <3>3. outbox' = [outbox EXCEPT ![r] = new]
      BY <1>1, <1>6, <2>2 DEF SendReturns, OutboxInv, OutboxTypeOK, OutboxRow
    <3>4. r \notin batch'
      BY <1>2, <2>1
    <3>5. ~(row.status \in {"DELIVERED", "FAILED"})
      BY <2>2 DEF Open
    <3> HIDE DEF new
    <3> QED
      BY <1>1, <1>2, <2>1, <3>2, <3>3, <3>4, <3>5, RowStep
  <2>3. CASE ~Open(r)
    <3>1. outbox' = outbox
      BY <1>6, <2>3 DEF SendReturns
    <3>2. outbox' = [outbox EXCEPT ![r] = row]
      BY <3>1 DEF OutboxInv, OutboxTypeOK
    <3> HIDE DEF row
    <3> QED
      BY <1>1, <1>2, <2>1, <3>2, RowStep DEF row
  <2> QED
    BY <2>2, <2>3
<1>7. CASE SendFails(r)
  <2> DEFINE new == [status |-> IF GivesUp(r) THEN "FAILED" ELSE "RETRY", attempt |-> row.attempt + 1, due |-> FALSE]
  <2>1. /\ sending = {r} /\ row.status # "purged" /\ batch' = batch /\ sending' = {} /\ landed' = FALSE
        /\ UNCHANGED sends
    BY <1>7 DEF SendFails, EndsSending
  <2>2. row.status \in {"PENDING", "RETRY"} /\ row.attempt < Attempts /\ r \notin batch
    BY <1>2, <2>1
  <2>3. row.attempt \in Nat /\ Attempts \in Nat
    BY <1>1 DEF OutboxRow
  <2>4. new \in OutboxRow
    BY <2>3 DEF OutboxRow
  <2>5. /\ new.status = IF row.attempt + 1 >= Attempts THEN "FAILED" ELSE "RETRY"
        /\ new.attempt = row.attempt + 1
    BY DEF GivesUp
  <2>6. /\ new.status = "FAILED" => new.attempt = Attempts
        /\ new.status = "RETRY" => new.attempt < Attempts
        /\ new.status \in {"FAILED", "RETRY"}
    BY <2>2, <2>3, <2>5
  <2>7. outbox' = [outbox EXCEPT ![r] = new]
    BY <1>7 DEF SendFails
  <2> HIDE DEF new
  <2> QED
    BY <1>1, <2>1, <2>2, <2>4, <2>6, <2>7, RowStep
<1> QED
  BY <1>3, <1>4, <1>5, <1>6, <1>7

\* The steps of a drain that write no row, and the end of the process.
LEMMA OutboxOtherSteps ==
  ASSUME OutboxInv,
         \/ \E r \in Deliveries : SendBegins(r) \/ SendLands(r) \/ SendFailsUnknown(r)
         \/ DrainIdle /\ DrainBegins /\ UNCHANGED <<outbox, sending, landed, sends>>
         \/ batch' = {} /\ EndsSending /\ UNCHANGED <<outbox, sends>>
         \/ UNCHANGED outboxVars
  PROVE  OutboxInv' /\ SettledKept
<1>1. ASSUME NEW r \in Deliveries, SendBegins(r) PROVE OutboxInv' /\ SettledKept
  <2>1. DrainIsSound'
    BY <1>1 DEF SendBegins, OutboxInv, DrainIsSound, Open
  <2> QED
    BY <1>1, <2>1, NoRowStep DEF SendBegins, OutboxInv, OutboxTypeOK
<1>2. ASSUME NEW r \in Deliveries, SendLands(r) PROVE OutboxInv' /\ SettledKept
  <2>1. /\ sending = {r} /\ landed' = TRUE /\ UNCHANGED <<outbox, batch, sending>>
        /\ sends' = [sends EXCEPT ![r] = @ + 1]
    BY <1>2 DEF SendLands
  <2>2. sends' \in [Deliveries -> Nat] /\ sends'[r] > 0
    BY <2>1 DEF OutboxInv, OutboxTypeOK
  <2>3. \A x \in Deliveries : sends'[x] = sends[x] \/ (x \in sending /\ sends'[x] > 0)
    BY <2>1, <2>2 DEF OutboxInv, OutboxTypeOK
  <2>4. DrainIsSound'
    BY <2>1, <2>2 DEF OutboxInv, DrainIsSound, Open
  <2> QED
    BY <2>1, <2>2, <2>3, <2>4, NoRowStep DEF OutboxInv, OutboxTypeOK
<1>3. ASSUME batch' = {}, EndsSending, UNCHANGED <<outbox, sends>> PROVE OutboxInv' /\ SettledKept
  <2>1. DrainIsSound'
    BY <1>3 DEF EndsSending, DrainIsSound
  <2> QED
    BY <1>3, <2>1, NoRowStep DEF EndsSending, OutboxInv, OutboxTypeOK
<1>4. ASSUME NEW r \in Deliveries, SendFailsUnknown(r) PROVE OutboxInv' /\ SettledKept
  BY <1>3, <1>4 DEF SendFailsUnknown
<1>5. CASE DrainIdle /\ DrainBegins /\ UNCHANGED <<outbox, sending, landed, sends>>
  <2>1. DrainIsSound' /\ batch' \subseteq Deliveries
    BY <1>5 DEF DrainIdle, DrainBegins, Due, DrainIsSound, Open
  <2> QED
    BY <1>5, <2>1, NoRowStep DEF OutboxInv, OutboxTypeOK
<1>6. CASE UNCHANGED outboxVars
  <2>1. DrainIsSound'
    BY <1>6 DEF outboxVars, OutboxInv, DrainIsSound, Open
  <2> QED
    BY <1>6, <2>1, NoRowStep DEF outboxVars, OutboxInv, OutboxTypeOK
<1> QED
  BY <1>1, <1>2, <1>3, <1>4, <1>5, <1>6
-----------------------------------------------------------------------------

\* Every step keeps the invariant and what is settled.
LEMMA ChannelsStep ==
  ASSUME ChannelsInv, [ChannelsNext]_channelsVars
  PROVE  ChannelsInv' /\ SettledKept
<1>1. InboundInv /\ OutboxInv
  BY Halves
<1>2. \/ UNCHANGED inboundVars
      \/ \E x \in Messages : Ingest(x) \/ IngestIsCut(x)
      \/ ReconcileInbound
  BY DEF ChannelsNext, channelsVars, inboundVars, Enqueue, Purge, RetryComesDue, SendBegins,
         SendLands, SendReturns, SendFails, SendFailsUnknown, ChannelsCrash
<1>3. InboundInv'
  BY <1>1, <1>2, InboundSteps
<1>4. \/ \E r \in Deliveries :
           \/ Enqueue(r) \/ Purge(r) \/ RetryComesDue(r) \/ SendReturns(r) \/ SendFails(r)
           \/ SendBegins(r) \/ SendLands(r) \/ SendFailsUnknown(r)
      \/ DrainIdle /\ DrainBegins /\ UNCHANGED <<outbox, sending, landed, sends>>
      \/ batch' = {} /\ EndsSending /\ UNCHANGED <<outbox, sends>>
      \/ UNCHANGED outboxVars
  BY DEF ChannelsNext, channelsVars, outboxVars, Ingest, IngestIsCut, ChannelsCrash
<1>5. OutboxInv' /\ SettledKept
  BY <1>1, <1>4, OutboxRowSteps, OutboxOtherSteps
<1>6. ChannelsInv'
  BY <1>3, <1>5, Halves DEF ChannelsInv, InboundInv, OutboxInv, OutboxTypeOK, ChannelsTypeOK
<1> QED
  BY <1>5, <1>6

\* The invariant of the channels: their types, the three state properties and
\* what the drain holds.
THEOREM ChannelsInvariant == ChannelsSpec => []ChannelsInv
<1>1. ChannelsInit => ChannelsInv
  <2> SUFFICES ASSUME ChannelsInit PROVE ChannelsInv
    OBVIOUS
  <2>1. \A r \in Deliveries : outbox[r].status = "none"
    BY DEF ChannelsInit
  <2>2. ChannelsTypeOK
    BY DEF ChannelsInit, ChannelsTypeOK, OutboxRow
  <2>3. OneEventPerMessage
    <3> SUFFICES ASSUME NEW x \in Messages
                 PROVE  announced[x] <= 1 /\ (inbound[x] = "DELIVERED" => announced[x] = 1)
      BY DEF OneEventPerMessage
    <3>1. announced[x] = 0 /\ inbound[x] = "none" /\ 0 <= 1
      BY DEF ChannelsInit
    <3> QED
      BY <3>1
  <2>4. OutboxTellsTruth /\ AttemptsLeft
    BY <2>1 DEF OutboxTellsTruth, AttemptsLeft, Open
  <2>5. DrainIsSound
    BY DEF ChannelsInit, DrainIsSound
  <2> QED
    BY <2>2, <2>3, <2>4, <2>5 DEF ChannelsInv
<1>2. ChannelsInv /\ [ChannelsNext]_channelsVars => ChannelsInv'
  BY ChannelsStep
<1> QED
  BY <1>1, <1>2, PTL DEF ChannelsSpec

\* A message becomes at most one event, and exactly one once its row says so.
THEOREM MessagesBecomeOneEvent == ChannelsSpec => []OneEventPerMessage
<1>1. ChannelsInv => OneEventPerMessage
  BY DEF ChannelsInv
<1> QED
  BY <1>1, ChannelsInvariant, PTL

\* DELIVERED and FAILED rows say what has happened.
THEOREM OutboxIsTruthful == ChannelsSpec => []OutboxTellsTruth
<1>1. ChannelsInv => OutboxTellsTruth
  BY DEF ChannelsInv
<1> QED
  BY <1>1, ChannelsInvariant, PTL

\* What was delivered or given up stays so, and is not sent again.
THEOREM SettledIsFinal == ChannelsSpec => SettledStaysSettled
<1>1. ChannelsInv /\ [ChannelsNext]_channelsVars
        => [\A r \in Deliveries : outbox[r].status \in {"DELIVERED", "FAILED"} =>
              /\ outbox'[r].status \in {outbox[r].status, "purged"}
              /\ sends'[r] = sends[r]]_channelsVars
  BY ChannelsStep DEF SettledKept, Settled
<1> QED
  BY <1>1, ChannelsInvariant, PTL DEF ChannelsSpec, SettledStaysSettled

-----------------------------------------------------------------------------
(* The reactor.                                                            *)

USE ReactorAssumption

\* Only the stage that drains holds rows of the outbox.
DrainsInTurn == round # "outbox" => DrainIdle

-----------------------------------------------------------------------------

\* A step of the reactor is a step of the monitors, or leaves them alone.
LEMMA MonitorsStep == [Next]_vars => [MonitoringNext]_monitoringVars
<1> SUFFICES ASSUME [Next]_vars PROVE MonitoringNext \/ UNCHANGED monitoringVars
  OBVIOUS
<1>1. CASE UNCHANGED vars
  BY <1>1 DEF vars
<1>2. CASE Round
  BY <1>2 DEF Round, RoundBegins, OperationsEnd, OperationsThrow, OutboxSends, OutboxFails,
       OutboxThrows, InOutbox, OutboxEnds, ScheduleBegins, ScheduleRuns, ScheduleFails,
       RoundEnds, Relaunch, MonitoringNext
<1>3. CASE Meanwhile
  <2>1. ASSUME NEW m \in Monitors,
               MonitorChanges(m) \/ MonitorComesDue(m) \/ MonitorOperated(m) \/ LeaseLapses(m) \/ LeaseRunsOut(m)
        PROVE  MonitoringNext
    BY <2>1 DEF MonitorChanges, MonitorComesDue, MonitorOperated, LeaseLapses, LeaseRunsOut,
         MonitorStep, MonitoringNext
  <2>2. ASSUME NEW p \in polls, PollGoesOn(p) \/ PollBreaks(p) PROVE MonitoringNext
    BY <2>2 DEF PollGoesOn, PollBreaks, PollStep, MonitoringNext
  <2>3. ASSUME \/ \E x \in Messages : MessageArrives(x) \/ MessageRepeats(x)
               \/ \E r \in Deliveries : AnswerIsRecorded(r) \/ SessionIsPurged(r) \/ DeliveryComesDue(r)
               \/ \E s \in Schedules : SlotComesDue(s) \/ \E on \in BOOLEAN : ScheduleOperated(s, on)
        PROVE  UNCHANGED monitoringVars
    BY <2>3 DEF MessageArrives, MessageRepeats, AnswerIsRecorded, SessionIsPurged, DeliveryComesDue,
         InChannels, SlotComesDue, ScheduleOperated
  <2> QED
    BY <1>3, <2>1, <2>2, <2>3 DEF Meanwhile
<1>4. CASE Crashes
  BY <1>4 DEF Crashes, Crash, CrashInPoll, CrashInIngest, CrashInSchedule, PollStep, MonitoringNext
<1> QED
  BY <1>1, <1>2, <1>3, <1>4 DEF Next

\* A step of the reactor is a step of the channels, or leaves them alone.
LEMMA ChannelsStepOrNot == DrainsInTurn /\ [Next]_vars => [ChannelsNext]_channelsVars
<1> SUFFICES ASSUME DrainsInTurn, [Next]_vars PROVE ChannelsNext \/ UNCHANGED channelsVars
  OBVIOUS
<1>1. CASE UNCHANGED vars
  BY <1>1 DEF vars
<1>2. CASE RoundBegins
  BY <1>2 DEF RoundBegins, ChannelsNext
<1>3. CASE OperationsEnd
  BY <1>3 DEF OperationsEnd, DrainsInTurn, ChannelsNext
<1>4. ASSUME NEW r \in Deliveries, OutboxSends(r) \/ OutboxFails(r) \/ OutboxThrows(r) PROVE ChannelsNext
  BY <1>4 DEF OutboxSends, OutboxFails, OutboxThrows, ChannelsNext
<1>5. ASSUME \/ OperationsThrow \/ OutboxEnds \/ RoundEnds \/ Relaunch
             \/ \E s \in Schedules : ScheduleBegins(s) \/ ScheduleRuns(s) \/ ScheduleFails(s)
      PROVE  UNCHANGED channelsVars
  BY <1>5 DEF OperationsThrow, OutboxEnds, RoundEnds, Relaunch, ScheduleBegins, ScheduleRuns, ScheduleFails
<1>6. CASE Meanwhile
  <2>1. ASSUME \/ \E m \in Monitors : \/ MonitorChanges(m) \/ MonitorComesDue(m) \/ MonitorOperated(m)
                                      \/ LeaseLapses(m) \/ LeaseRunsOut(m)
               \/ \E p \in polls : PollGoesOn(p) \/ PollBreaks(p)
               \/ \E s \in Schedules : SlotComesDue(s) \/ \E on \in BOOLEAN : ScheduleOperated(s, on)
        PROVE  UNCHANGED channelsVars
    BY <2>1 DEF MonitorChanges, MonitorComesDue, MonitorOperated, LeaseLapses, LeaseRunsOut,
         PollGoesOn, PollBreaks, InMonitors, SlotComesDue, ScheduleOperated
  <2>2. ASSUME NEW x \in Messages, MessageArrives(x) \/ MessageRepeats(x) PROVE ChannelsNext
    BY <2>2 DEF MessageArrives, MessageRepeats, ChannelsNext
  <2>3. ASSUME NEW r \in Deliveries, AnswerIsRecorded(r) \/ SessionIsPurged(r) \/ DeliveryComesDue(r)
        PROVE  ChannelsNext
    BY <2>3 DEF AnswerIsRecorded, SessionIsPurged, DeliveryComesDue, ChannelsNext
  <2> QED
    BY <1>6, <2>1, <2>2, <2>3 DEF Meanwhile
<1>7. CASE Crashes
  BY <1>7 DEF Crashes, Crash, CrashInPoll, CrashInIngest, CrashInSchedule, ChannelsNext
<1> QED
  BY <1>1, <1>2, <1>3, <1>4, <1>5, <1>6, <1>7 DEF Next, Round

\* The drain is over when its stage is.
LEMMA DrainsKeepTurn == DrainsInTurn /\ [Next]_vars => DrainsInTurn'
<1> SUFFICES ASSUME DrainsInTurn, [Next]_vars PROVE DrainsInTurn'
  OBVIOUS
<1>1. CASE UNCHANGED vars
  BY <1>1 DEF vars, channelsVars, DrainsInTurn, DrainIdle
<1>2. CASE RoundBegins \/ OperationsThrow \/ RoundEnds \/ Relaunch
  BY <1>2 DEF RoundBegins, OperationsThrow, RoundEnds, Relaunch, outboxVars, channelsVars, DrainsInTurn, DrainIdle
<1>3. CASE OperationsEnd
  BY <1>3 DEF OperationsEnd, DrainsInTurn
<1>4. CASE OutboxEnds
  BY <1>4 DEF OutboxEnds, channelsVars, DrainIdle, DrainsInTurn
<1>5. ASSUME NEW r \in Deliveries, OutboxSends(r) \/ OutboxFails(r) \/ OutboxThrows(r) PROVE DrainsInTurn'
  BY <1>5 DEF OutboxSends, OutboxFails, OutboxThrows, InOutbox, SendFailsUnknown, EndsSending, DrainIdle, DrainsInTurn
<1>6. ASSUME NEW s \in Schedules, ScheduleBegins(s) \/ ScheduleRuns(s) \/ ScheduleFails(s) PROVE DrainsInTurn'
  BY <1>6 DEF ScheduleBegins, ScheduleRuns, ScheduleFails, channelsVars, DrainIdle, DrainsInTurn
<1>7. CASE Meanwhile
  <2>1. UNCHANGED <<round, batch, sending>>
    <3>1. ASSUME NEW m \in Monitors,
                 MonitorChanges(m) \/ MonitorComesDue(m) \/ MonitorOperated(m) \/ LeaseLapses(m) \/ LeaseRunsOut(m)
          PROVE  UNCHANGED <<round, batch, sending>>
      BY <3>1 DEF MonitorChanges, MonitorComesDue, MonitorOperated, LeaseLapses, LeaseRunsOut,
           InMonitors, Elsewhere, channelsVars
    <3>2. ASSUME NEW p \in polls, PollGoesOn(p) \/ PollBreaks(p) PROVE UNCHANGED <<round, batch, sending>>
      BY <3>2 DEF PollGoesOn, PollBreaks, InMonitors, Elsewhere, channelsVars
    <3>3. ASSUME NEW x \in Messages, MessageArrives(x) \/ MessageRepeats(x)
          PROVE  UNCHANGED <<round, batch, sending>>
      BY <3>3 DEF MessageArrives, MessageRepeats, Ingest, InChannels, Elsewhere, outboxVars
    <3>4. ASSUME NEW r \in Deliveries, AnswerIsRecorded(r) \/ SessionIsPurged(r) \/ DeliveryComesDue(r)
          PROVE  UNCHANGED <<round, batch, sending>>
      BY <3>4 DEF AnswerIsRecorded, SessionIsPurged, DeliveryComesDue, Enqueue, Purge, RetryComesDue,
           InChannels, Elsewhere
    <3>5. ASSUME NEW s \in Schedules, SlotComesDue(s) \/ \E on \in BOOLEAN : ScheduleOperated(s, on)
          PROVE  UNCHANGED <<round, batch, sending>>
      BY <3>5 DEF SlotComesDue, ScheduleOperated, channelsVars
    <3> QED
      BY <1>7, <3>1, <3>2, <3>3, <3>4, <3>5 DEF Meanwhile
  <2> QED
    BY <2>1 DEF DrainsInTurn, DrainIdle
<1>8. CASE Crashes
  BY <1>8 DEF Crashes, Crash, CrashInPoll, CrashInIngest, CrashInSchedule, ChannelsCrash, IngestIsCut,
       EndsSending, DrainIdle, DrainsInTurn
<1> QED
  BY <1>1, <1>2, <1>3, <1>4, <1>5, <1>6, <1>7, <1>8 DEF Next, Round
-----------------------------------------------------------------------------

\* Whatever the round and its failures do, the monitors behave as Monitoring says.
THEOREM ReactorRunsMonitors == Spec => MonitoringSpec
<1>1. Init => MonitoringInit
  BY DEF Init
<1> QED
  BY <1>1, MonitorsStep, PTL DEF Spec, MonitoringSpec

\* The channels behave as Channels says: in particular no drain begins before
\* the one before it is over.
THEOREM ReactorRunsChannels == Spec => ChannelsSpec
<1>1. Init => ChannelsInit /\ DrainsInTurn
  BY DEF Init, ChannelsInit, DrainsInTurn, DrainIdle
<1> QED
  BY <1>1, ChannelsStepOrNot, DrainsKeepTurn, PTL DEF Spec, ChannelsSpec

\* What a monitor has seen never goes back in the whole reactor.
THEOREM ReactorSeesForward == Spec => SeenMovesForward
BY ReactorRunsMonitors, SeenNeverGoesBack, PTL

\* Messages become one event, the outbox tells the truth and what is settled
\* stays settled in the whole reactor.
THEOREM ReactorDelivers == Spec => []OneEventPerMessage /\ []OutboxTellsTruth /\ SettledStaysSettled
BY ReactorRunsChannels, MessagesBecomeOneEvent, OutboxIsTruthful, SettledIsFinal, PTL

-----------------------------------------------------------------------------
(* The schedules.                                                          *)

SchedulesTypeOK ==
  /\ schedule \in [Schedules -> [enabled : BOOLEAN, due : BOOLEAN, slot : Nat]]
  /\ submitting \subseteq Schedules
  /\ messages \in [Schedules -> SUBSET Nat]
  /\ goals \in [Schedules -> Nat]

SlotsAreFinite == \A s \in Schedules : IsFiniteSet(messages[s])

SchedulesInv == SchedulesTypeOK /\ SlotsAreFinite /\ OneGoalPerSlot

\* A submission adds its slot, and a goal if the slot is new.
LEMMA SubmissionKeeps ==
  ASSUME SchedulesInv, NEW s \in Schedules, SubmitCommits(s)
  PROVE  /\ messages' \in [Schedules -> SUBSET Nat] /\ goals' \in [Schedules -> Nat]
         /\ \A x \in Schedules : /\ IsFiniteSet(messages'[x])
                                 /\ goals'[x] = Cardinality(messages'[x])
                                 /\ messages[x] \subseteq messages'[x]
         /\ schedule[s].slot \in messages'[s]
<1> DEFINE slot == schedule[s].slot
<1>1. slot \in Nat /\ messages[s] \in SUBSET Nat /\ goals[s] \in Nat
  BY DEF SchedulesInv, SchedulesTypeOK
<1>2. IsFiniteSet(messages[s]) /\ goals[s] = Cardinality(messages[s])
  BY DEF SchedulesInv, SlotsAreFinite, OneGoalPerSlot
<1>3. /\ messages' = [messages EXCEPT ![s] = messages[s] \cup {slot}]
      /\ goals' = IF slot \in messages[s] THEN goals ELSE [goals EXCEPT ![s] = goals[s] + 1]
  BY DEF SubmitCommits, Accepted, SchedulesInv, SchedulesTypeOK
<1> HIDE DEF slot
<1>4. messages' \in [Schedules -> SUBSET Nat] /\ goals' \in [Schedules -> Nat]
  BY <1>1, <1>3 DEF SchedulesInv, SchedulesTypeOK
<1>5. /\ messages'[s] = messages[s] \cup {slot}
      /\ goals'[s] = IF slot \in messages[s] THEN goals[s] ELSE goals[s] + 1
      /\ \A x \in Schedules \ {s} : messages'[x] = messages[x] /\ goals'[x] = goals[x]
  BY <1>3 DEF SchedulesInv, SchedulesTypeOK
<1>6. /\ IsFiniteSet(messages[s] \cup {slot})
      /\ Cardinality(messages[s] \cup {slot}) =
           IF slot \in messages[s] THEN Cardinality(messages[s]) ELSE Cardinality(messages[s]) + 1
  BY <1>2, FS_AddElement
<1>7. IsFiniteSet(messages'[s]) /\ goals'[s] = Cardinality(messages'[s])
  BY <1>2, <1>5, <1>6
<1>8. \A x \in Schedules \ {s} : IsFiniteSet(messages'[x]) /\ goals'[x] = Cardinality(messages'[x])
  BY <1>5 DEF SchedulesInv, SlotsAreFinite, OneGoalPerSlot
<1> QED
  BY <1>4, <1>5, <1>7, <1>8 DEF slot

\* Every step of the reactor keeps what is true of the schedules.
LEMMA SchedulesKept == SchedulesInv /\ [Next]_vars => SchedulesInv'
<1> SUFFICES ASSUME SchedulesInv, [Next]_vars PROVE SchedulesInv'
  OBVIOUS
<1>1. ASSUME UNCHANGED <<messages, goals>>, submitting' \subseteq Schedules,
             schedule' \in [Schedules -> [enabled : BOOLEAN, due : BOOLEAN, slot : Nat]],
             \A s \in Schedules : schedule'[s].slot = schedule[s].slot
      PROVE  SchedulesInv'
  BY <1>1 DEF SchedulesInv, SchedulesTypeOK, SlotsAreFinite, OneGoalPerSlot
<1>2. ASSUME UNCHANGED <<schedule, messages, goals>>, submitting' \subseteq Schedules PROVE SchedulesInv'
  BY <1>2 DEF SchedulesInv, SchedulesTypeOK, SlotsAreFinite, OneGoalPerSlot
<1>3. ASSUME NEW s \in Schedules, ScheduleRuns(s) PROVE SchedulesInv'
  <2> DEFINE slot == schedule[s].slot
             after == IF s \in Recurring THEN slot + 1 ELSE slot
  <2>1. slot \in Nat
    BY DEF SchedulesInv, SchedulesTypeOK
  <2>2. /\ schedule' \in [Schedules -> [enabled : BOOLEAN, due : BOOLEAN, slot : Nat]]
        /\ schedule'[s].slot = after
        /\ \A x \in Schedules \ {s} : schedule'[x] = schedule[x]
    <3> DEFINE again == [enabled |-> TRUE, due |-> FALSE, slot |-> slot + 1]
               over == [schedule[s] EXCEPT !.enabled = FALSE]
               row == IF s \in Recurring THEN again ELSE over
    <3>1. schedule[s] \in [enabled : BOOLEAN, due : BOOLEAN, slot : Nat]
      BY DEF SchedulesInv, SchedulesTypeOK
    <3>2. over \in [enabled : BOOLEAN, due : BOOLEAN, slot : Nat] /\ over.slot = slot
      BY <3>1
    <3>3. schedule' = [schedule EXCEPT ![s] = row]
      BY <1>3 DEF ScheduleRuns, MarkedRun
    <3> HIDE DEF over, slot
    <3>4. again \in [enabled : BOOLEAN, due : BOOLEAN, slot : Nat] /\ again.slot = slot + 1
      BY <2>1
    <3> HIDE DEF again
    <3>5. row \in [enabled : BOOLEAN, due : BOOLEAN, slot : Nat] /\ row.slot = after
      BY <3>2, <3>4
    <3> HIDE DEF row, after
    <3> QED
      BY <3>3, <3>5 DEF SchedulesInv, SchedulesTypeOK
  <2>3. /\ messages' \in [Schedules -> SUBSET Nat] /\ goals' \in [Schedules -> Nat]
        /\ \A x \in Schedules : /\ IsFiniteSet(messages'[x])
                                /\ goals'[x] = Cardinality(messages'[x])
                                /\ messages[x] \subseteq messages'[x]
        /\ slot \in messages'[s]
    BY <1>3, SubmissionKeeps DEF ScheduleRuns
  <2>4. \A x \in Schedules : x \in Recurring => 0..schedule'[x].slot - 1 \subseteq messages'[x]
    <3> SUFFICES ASSUME NEW x \in Schedules, x \in Recurring, NEW i \in 0..schedule'[x].slot - 1
                 PROVE  i \in messages'[x]
      OBVIOUS
    <3>1. 0..schedule[x].slot - 1 \subseteq messages[x]
      BY DEF SchedulesInv, OneGoalPerSlot
    <3>2. CASE x = s
      <4>1. i \in 0..slot - 1 \/ i = slot
        BY <2>1, <2>2, <3>2
      <4> QED
        BY <2>3, <3>1, <3>2, <4>1
    <3>3. CASE x # s
      BY <2>2, <2>3, <3>1, <3>3
    <3> QED
      BY <3>2, <3>3
  <2>5. submitting' \subseteq Schedules
    BY <1>3 DEF ScheduleRuns
  <2> QED
    BY <2>2, <2>3, <2>4, <2>5 DEF SchedulesInv, SchedulesTypeOK, SlotsAreFinite, OneGoalPerSlot
<1>4. ASSUME NEW s \in Schedules, CrashInSchedule(s) PROVE SchedulesInv'
  <2>1. /\ messages' \in [Schedules -> SUBSET Nat] /\ goals' \in [Schedules -> Nat]
        /\ \A x \in Schedules : /\ IsFiniteSet(messages'[x])
                                /\ goals'[x] = Cardinality(messages'[x])
                                /\ messages[x] \subseteq messages'[x]
    BY <1>4, SubmissionKeeps DEF CrashInSchedule
  <2>2. UNCHANGED schedule /\ submitting' = {}
    BY <1>4 DEF CrashInSchedule, Dies
  <2>3. \A x \in Schedules : x \in Recurring => 0..schedule[x].slot - 1 \subseteq messages'[x]
    BY <2>1 DEF SchedulesInv, OneGoalPerSlot
  <2> QED
    BY <2>1, <2>2, <2>3 DEF SchedulesInv, SchedulesTypeOK, SlotsAreFinite, OneGoalPerSlot
<1>5. ASSUME NEW s \in Schedules, SlotComesDue(s) \/ \E on \in BOOLEAN : ScheduleOperated(s, on)
      PROVE  SchedulesInv'
  <2>1. /\ UNCHANGED <<messages, goals>> /\ submitting' = submitting
        /\ schedule' \in [Schedules -> [enabled : BOOLEAN, due : BOOLEAN, slot : Nat]]
        /\ \A x \in Schedules : schedule'[x].slot = schedule[x].slot
    <3>1. schedule[s] \in [enabled : BOOLEAN, due : BOOLEAN, slot : Nat]
      BY DEF SchedulesInv, SchedulesTypeOK
    <3>2. ASSUME NEW row \in [enabled : BOOLEAN, due : BOOLEAN, slot : Nat],
                 row.slot = schedule[s].slot, schedule' = [schedule EXCEPT ![s] = row]
          PROVE  /\ schedule' \in [Schedules -> [enabled : BOOLEAN, due : BOOLEAN, slot : Nat]]
                 /\ \A x \in Schedules : schedule'[x].slot = schedule[x].slot
      BY <3>2 DEF SchedulesInv, SchedulesTypeOK
    <3>3. CASE SlotComesDue(s)
      <4> DEFINE row == [schedule[s] EXCEPT !.due = TRUE]
      <4>1. row \in [enabled : BOOLEAN, due : BOOLEAN, slot : Nat] /\ row.slot = schedule[s].slot
        BY <3>1
      <4>2. schedule' = [schedule EXCEPT ![s] = row] /\ UNCHANGED <<submitting, messages, goals>>
        BY <3>3 DEF SlotComesDue
      <4> HIDE DEF row
      <4> QED
        BY <3>2, <4>1, <4>2
    <3>4. ASSUME NEW on \in BOOLEAN, ScheduleOperated(s, on)
          PROVE  /\ UNCHANGED <<messages, goals>> /\ submitting' = submitting
                 /\ schedule' \in [Schedules -> [enabled : BOOLEAN, due : BOOLEAN, slot : Nat]]
                 /\ \A x \in Schedules : schedule'[x].slot = schedule[x].slot
      <4> DEFINE row == [schedule[s] EXCEPT !.enabled = on]
      <4>1. row \in [enabled : BOOLEAN, due : BOOLEAN, slot : Nat] /\ row.slot = schedule[s].slot
        BY <3>1
      <4>2. schedule' = [schedule EXCEPT ![s] = row] /\ UNCHANGED <<submitting, messages, goals>>
        BY <3>4 DEF ScheduleOperated
      <4> HIDE DEF row
      <4> QED
        BY <3>2, <4>1, <4>2
    <3> QED
      BY <1>5, <3>3, <3>4
  <2> QED
    BY <1>1, <2>1 DEF SchedulesInv, SchedulesTypeOK
<1>6. ASSUME \/ RoundBegins \/ OperationsEnd \/ OperationsThrow \/ OutboxEnds \/ RoundEnds \/ Relaunch
             \/ \E r \in Deliveries : OutboxSends(r) \/ OutboxFails(r) \/ OutboxThrows(r)
             \/ \E s \in Schedules : ScheduleBegins(s) \/ ScheduleFails(s)
      PROVE  UNCHANGED <<schedule, messages, goals>> /\ submitting' \subseteq Schedules
  BY <1>6 DEF RoundBegins, OperationsEnd, OperationsThrow, OutboxEnds, RoundEnds, Relaunch, OutboxSends,
       OutboxFails, OutboxThrows, InOutbox, ScheduleBegins, ScheduleFails, scheduleVars, SchedulesInv, SchedulesTypeOK
<1>7. ASSUME \/ \E m \in Monitors : \/ MonitorChanges(m) \/ MonitorComesDue(m) \/ MonitorOperated(m)
                                    \/ LeaseLapses(m) \/ LeaseRunsOut(m)
             \/ \E p \in polls : PollGoesOn(p) \/ PollBreaks(p)
             \/ \E x \in Messages : MessageArrives(x) \/ MessageRepeats(x)
             \/ \E r \in Deliveries : AnswerIsRecorded(r) \/ SessionIsPurged(r) \/ DeliveryComesDue(r)
      PROVE  UNCHANGED <<schedule, messages, goals>> /\ submitting' \subseteq Schedules
  BY <1>7 DEF MonitorChanges, MonitorComesDue, MonitorOperated, LeaseLapses, LeaseRunsOut, PollGoesOn,
       PollBreaks, MessageArrives, MessageRepeats, AnswerIsRecorded, SessionIsPurged, DeliveryComesDue,
       InMonitors, InChannels, Elsewhere, scheduleVars, SchedulesInv, SchedulesTypeOK
<1>8. ASSUME \/ Crash \/ \E p \in polls : CrashInPoll(p)
             \/ \E x \in Messages : CrashInIngest(x)
      PROVE  UNCHANGED <<schedule, messages, goals>> /\ submitting' \subseteq Schedules
  BY <1>8 DEF Crash, CrashInPoll, CrashInIngest, Dies
<1>9. CASE UNCHANGED vars
  BY <1>2, <1>9 DEF vars, scheduleVars, SchedulesInv, SchedulesTypeOK
<1>10. CASE Round
  BY <1>2, <1>3, <1>6, <1>10 DEF Round
<1>11. CASE Meanwhile
  BY <1>2, <1>5, <1>7, <1>11 DEF Meanwhile
<1>12. CASE Crashes
  BY <1>2, <1>4, <1>8, <1>12 DEF Crashes
<1> QED
  BY <1>9, <1>10, <1>11, <1>12 DEF Next

\* A slot of a schedule brings about one goal, for any number of schedules and
\* however often submissions fail, the process dies or the operator interferes.
THEOREM SlotsAreOneGoal == Spec => []OneGoalPerSlot
<1>1. Init => SchedulesInv
  <2> SUFFICES ASSUME Init PROVE SchedulesInv
    OBVIOUS
  <2>1. SchedulesTypeOK
    BY DEF Init, SchedulesTypeOK
  <2>2. \A s \in Schedules : messages[s] = {} /\ goals[s] = 0 /\ schedule[s].slot = 0
    BY DEF Init
  <2>3. SlotsAreFinite
    BY <2>2, FS_EmptySet DEF SlotsAreFinite
  <2>4. OneGoalPerSlot
    <3>1. 0..(0 - 1) = {}
      OBVIOUS
    <3>2. Cardinality({}) = 0
      BY FS_EmptySet
    <3> QED
      BY <2>2, <3>1, <3>2 DEF OneGoalPerSlot
  <2> QED
    BY <2>1, <2>3, <2>4 DEF SchedulesInv
<1>2. SchedulesInv => OneGoalPerSlot
  BY DEF SchedulesInv
<1> QED
  BY <1>1, <1>2, SchedulesKept, PTL DEF Spec

-----------------------------------------------------------------------------
(* The changes a monitor has taken into its row are told.                  *)

\* A change has the revision its row had then, and revisions do not go back:
\* the key of the next event of a monitor is always a new one.
RevisionsArePast == \A x \in changes : x.of \in Monitors /\ x.revision <= monitor[x.of].revision

RevisionsGrow == \A m \in Monitors : monitor[m].revision <= monitor'[m].revision

ToldInv ==
  /\ RevisionsArePast
  /\ IsFiniteSet(changes)
  /\ crashes \in Nat
  /\ ChangesAreTold

LEMMA ReleasedRevision ==
  ASSUME NEW row \in Row
  PROVE  /\ Released(row) \in Row /\ Released(row).revision = row.revision
<1> DEFINE a == [row EXCEPT !.status = "IDLE"]
           b == [a EXCEPT !.token = 0]
           c == [b EXCEPT !.expired = FALSE]
<1>1. a \in Row /\ a.revision = row.revision
  BY DEF Row
<1>2. b \in Row /\ b.revision = a.revision
  BY <1>1 DEF Row
<1>3. c \in Row /\ c.revision = b.revision
  BY <1>2 DEF Row
<1>4. c = Released(row)
  BY DEF Released
<1> QED
  BY <1>1, <1>2, <1>3, <1>4

\* The tick keeps the revisions.
LEMMA TickRevisions ==
  ASSUME MonitoringTypeOK, NEW rows \in [Monitors -> Row], TickOn(rows),
         \A m \in Monitors : rows[m].revision = monitor[m].revision
  PROVE  RevisionsGrow
<1>1. ASSUME NEW m \in Monitors
      PROVE  Recovered(rows)[m] \in Row /\ Recovered(rows)[m].revision = monitor[m].revision
  <2>1. rows[m] \in Row
    OBVIOUS
  <2>2. CASE rows[m].status = "RUNNING" /\ rows[m].expired
    <3> DEFINE r == Released(rows[m])
    <3>1. r \in Row /\ r.revision = rows[m].revision
      BY <2>1, ReleasedRevision
    <3>2. Recovered(rows)[m] = [r EXCEPT !.due = TRUE]
      BY <2>2 DEF Recovered
    <3> HIDE DEF r
    <3> QED
      BY <3>1, <3>2 DEF Row
  <2>3. CASE ~(rows[m].status = "RUNNING" /\ rows[m].expired)
    BY <2>1, <2>3 DEF Recovered
  <2> QED
    BY <2>2, <2>3
<1>2. PICK picked \in SUBSET Monitors :
        monitor' = [m \in Monitors |->
          IF m \in picked
          THEN [Recovered(rows)[m] EXCEPT !.status = "RUNNING", !.token = issued[m] + 1]
          ELSE Recovered(rows)[m]]
  BY DEF TickOn, Candidates
<1> SUFFICES ASSUME NEW m \in Monitors PROVE monitor[m].revision <= monitor'[m].revision
  BY DEF RevisionsGrow
<1>3. PICK row \in Row : row = Recovered(rows)[m] /\ row.revision = monitor[m].revision
  BY <1>1
<1>4. monitor'[m] = row \/ monitor'[m] = [row EXCEPT !.status = "RUNNING", !.token = issued[m] + 1]
  BY <1>2, <1>3
<1>5. monitor'[m].revision = row.revision
  BY <1>4 DEF Row
<1>6. row.revision \in Nat
  BY DEF Row
<1> QED
  BY <1>3, <1>5, <1>6

\* What a step of the reactor does to the changes.
ToldKind ==
  /\ RevisionsGrow
  /\ \/ UNCHANGED <<changes, told>> /\ crashes' \in {crashes, crashes + 1}
     \/ \E p \in polls : PollFindsChange(p) /\ crashes' = crashes
     \/ \E p \in polls : PollIsCut(p) /\ crashes' = crashes + 1

\* A poll that is written back raises the revision.
LEMMA PollRevision ==
  ASSUME MonitoringTypeOK, NEW p \in polls,
         PollReads(p) \/ PollRefused(p) \/ PollFindsNothing(p) \/ PollFindsChange(p)
           \/ PollFails(p) \/ SubmitEnds(p) \/ PollIsCut(p)
  PROVE  /\ RevisionsGrow
         /\ PollFindsChange(p) \/ PollIsCut(p) =>
              monitor'[p.of].revision = NextRevision(monitor[p.of])
<1>0. p.of \in Monitors /\ monitor \in [Monitors -> Row] /\ p.found \in Nat
  BY DEF MonitoringTypeOK, Poll
<1> DEFINE old == monitor[p.of]
           rel == Released(old)
<1>1. old \in Row /\ rel \in Row /\ rel.revision = old.revision /\ NextRevision(old) = old.revision + 1
      /\ old.revision \in Nat
  BY <1>0, ReleasedRevision DEF NextRevision, Row
<1>2. \A m \in Monitors : monitor[m].revision \in Nat
  BY <1>0 DEF Row
<1>3. ASSUME monitor' = Observed(p)
      PROVE  RevisionsGrow /\ monitor'[p.of].revision = NextRevision(old)
  <2>1. monitor' = [monitor EXCEPT ![p.of] =
          [rel EXCEPT !.seen = p.found, !.due = FALSE, !.revision = NextRevision(old)]]
    BY <1>3 DEF Observed
  <2> HIDE DEF rel
  <2>2. PICK row : row = [rel EXCEPT !.seen = p.found, !.due = FALSE, !.revision = NextRevision(old)]
    OBVIOUS
  <2>3. row.revision = NextRevision(old)
    BY <1>1, <2>2 DEF Row
  <2>4. monitor'[p.of] = row /\ \A m \in Monitors \ {p.of} : monitor'[m] = monitor[m]
    BY <1>0, <2>1, <2>2
  <2> QED
    BY <1>1, <1>2, <2>3, <2>4 DEF RevisionsGrow
<1>4. ASSUME monitor' = [monitor EXCEPT ![p.of] =
               [Released(@) EXCEPT !.due = FALSE, !.revision = NextRevision(monitor[p.of])]]
      PROVE  RevisionsGrow
  <2>1. monitor' = [monitor EXCEPT ![p.of] = [rel EXCEPT !.due = FALSE, !.revision = NextRevision(old)]]
    BY <1>4
  <2> HIDE DEF rel
  <2>2. PICK row : row = [rel EXCEPT !.due = FALSE, !.revision = NextRevision(old)]
    OBVIOUS
  <2>3. row.revision = NextRevision(old)
    BY <1>1, <2>2 DEF Row
  <2>4. monitor'[p.of] = row /\ \A m \in Monitors \ {p.of} : monitor'[m] = monitor[m]
    BY <1>0, <2>1, <2>2
  <2> QED
    BY <1>1, <1>2, <2>3, <2>4 DEF RevisionsGrow
<1>5. ASSUME monitor' = monitor PROVE RevisionsGrow
  BY <1>2, <1>5 DEF RevisionsGrow
<1>6. CASE PollReads(p) \/ PollRefused(p) \/ SubmitEnds(p) \/ (PollFails(p) /\ ~Holds(p))
  <2>1. monitor' = monitor
    BY <1>6 DEF PollReads, PollRefused, SubmitEnds, PollFails
  <2>2. ~PollFindsChange(p) /\ ~PollIsCut(p)
    BY <1>6 DEF PollReads, PollRefused, SubmitEnds, PollFails, PollFindsChange, PollIsCut
  <2> QED
    BY <1>5, <2>1, <2>2
<1>7. CASE PollFindsNothing(p)
  BY <1>3, <1>7 DEF PollFindsNothing
<1>8. CASE PollFindsChange(p) \/ PollIsCut(p)
  BY <1>3, <1>8 DEF PollFindsChange, PollIsCut
<1>9. CASE PollFails(p) /\ Holds(p)
  <2>1. RevisionsGrow
    BY <1>4, <1>9 DEF PollFails
  <2>2. changes' = changes /\ monitor'[p.of].revision = NextRevision(old)
    <3>1. monitor' = [monitor EXCEPT ![p.of] = [rel EXCEPT !.due = FALSE, !.revision = NextRevision(old)]]
      BY <1>9 DEF PollFails
    <3> HIDE DEF rel
    <3>2. PICK row : row = [rel EXCEPT !.due = FALSE, !.revision = NextRevision(old)]
      OBVIOUS
    <3>3. row.revision = NextRevision(old)
      BY <1>1, <3>2 DEF Row
    <3> QED
      BY <1>0, <1>9, <3>1, <3>2, <3>3 DEF PollFails
  <2> QED
    BY <2>1, <2>2
<1> QED
  BY <1>6, <1>7, <1>8, <1>9

LEMMA MonitorRevision ==
  ASSUME MonitoringTypeOK, NEW m \in Monitors,
         RunNow(m) \/ (\E on \in BOOLEAN : SetEnabled(m, on))
           \/ OutsideChanges(m) \/ ComesDue(m) \/ LeaseExpires(m)
  PROVE  RevisionsGrow /\ UNCHANGED <<changes, told>>
<1>0. monitor \in [Monitors -> Row] /\ \A u \in Monitors : monitor[u].revision \in Nat
  BY DEF MonitoringTypeOK, Row
<1> DEFINE old == monitor[m]
           rel == Released(old)
<1>1. old \in Row /\ rel \in Row /\ rel.revision = old.revision
  BY <1>0, ReleasedRevision
<1>2. CASE RunNow(m)
  <2>1. Triggered(m) \in [Monitors -> Row]
    BY TriggeredIsTickable DEF Tickable
  <2>2. ASSUME NEW u \in Monitors PROVE Triggered(m)[u].revision = monitor[u].revision
    <3>1. CASE Triggered(m) = monitor
      BY <3>1
    <3>2. CASE Triggered(m) = [monitor EXCEPT ![m] = [rel EXCEPT !.enabled = TRUE, !.due = TRUE]]
      <4> HIDE DEF rel
      <4>1. PICK row : row = [rel EXCEPT !.enabled = TRUE, !.due = TRUE]
        OBVIOUS
      <4>2. row.revision = old.revision
        BY <1>1, <4>1 DEF Row
      <4>3. Triggered(m) = [monitor EXCEPT ![m] = row]
        BY <3>2, <4>1
      <4> QED
        BY <1>0, <4>2, <4>3
    <3> QED
      BY <3>1, <3>2 DEF Triggered
  <2>3. TickOn(Triggered(m))
    BY <1>2 DEF RunNow
  <2>4. PICK rows \in [Monitors -> Row] : rows = Triggered(m)
    BY <2>1
  <2>5. RevisionsGrow
    BY <2>2, <2>3, <2>4, TickRevisions
  <2> QED
    BY <2>3, <2>5 DEF TickOn
<1>3. ASSUME NEW row, monitor' = [monitor EXCEPT ![m] = row], row.revision = old.revision
      PROVE  RevisionsGrow
  BY <1>0, <1>3 DEF RevisionsGrow
<1>4. ASSUME NEW on \in BOOLEAN, SetEnabled(m, on) PROVE RevisionsGrow /\ UNCHANGED <<changes, told>>
  <2>1. monitor' = [monitor EXCEPT ![m] = IF old.status = "RUNNING" THEN [old EXCEPT !.enabled = on]
                                          ELSE [rel EXCEPT !.enabled = on, !.due = TRUE]]
    BY <1>4 DEF SetEnabled
  <2> HIDE DEF rel, old
  <2>2. PICK row : row = IF old.status = "RUNNING" THEN [old EXCEPT !.enabled = on]
                         ELSE [rel EXCEPT !.enabled = on, !.due = TRUE]
    OBVIOUS
  <2>3. row.revision = old.revision
    BY <1>1, <2>2 DEF Row
  <2>4. monitor' = [monitor EXCEPT ![m] = row]
    BY <2>1, <2>2
  <2> QED
    BY <1>3, <1>4, <2>3, <2>4 DEF SetEnabled, old
<1>5. CASE ComesDue(m)
  <2>1. PICK row : row = [old EXCEPT !.due = TRUE]
    OBVIOUS
  <2>2. row.revision = old.revision
    BY <1>1, <2>1 DEF Row
  <2>3. monitor' = [monitor EXCEPT ![m] = row] /\ UNCHANGED <<changes, told>>
    BY <1>5, <2>1 DEF ComesDue
  <2> QED
    BY <1>3, <2>2, <2>3
<1>6. CASE LeaseExpires(m)
  <2>1. PICK row : row = [old EXCEPT !.expired = TRUE]
    OBVIOUS
  <2>2. row.revision = old.revision
    BY <1>1, <2>1 DEF Row
  <2>3. monitor' = [monitor EXCEPT ![m] = row] /\ UNCHANGED <<changes, told>>
    BY <1>6, <2>1 DEF LeaseExpires
  <2> QED
    BY <1>3, <2>2, <2>3
<1>7. CASE OutsideChanges(m)
  BY <1>0, <1>7 DEF OutsideChanges, RevisionsGrow
<1> QED
  BY <1>2, <1>4, <1>5, <1>6, <1>7

LEMMA ToldKinds ==
  ASSUME MonitoringTypeOK, [Next]_vars
  PROVE  ToldKind
<1>1. ASSUME UNCHANGED monitoringVars, crashes' \in {crashes, crashes + 1} PROVE ToldKind
  <2>1. \A m \in Monitors : monitor[m].revision \in Nat
    BY DEF MonitoringTypeOK, Row
  <2> QED
    BY <1>1, <2>1 DEF ToldKind, RevisionsGrow, monitoringVars
<1>2. CASE UNCHANGED vars
  BY <1>1, <1>2 DEF vars, bounds
<1>3. CASE RoundBegins
  <2>1. TickOn(monitor) /\ crashes' = crashes
    BY <1>3 DEF RoundBegins, Tick, bounds
  <2>2. PICK rows \in [Monitors -> Row] : rows = monitor
    BY DEF MonitoringTypeOK
  <2>3. RevisionsGrow
    BY <2>1, <2>2, TickRevisions
  <2> QED
    BY <2>1, <2>3 DEF ToldKind, TickOn
<1>4. CASE Round /\ ~RoundBegins
  <2>1. UNCHANGED monitoringVars /\ crashes' = crashes
    BY <1>4 DEF Round, OperationsEnd, OperationsThrow, OutboxSends, OutboxFails,
       OutboxThrows, InOutbox, OutboxEnds, ScheduleBegins, ScheduleRuns, ScheduleFails,
       RoundEnds, Relaunch, Trouble, bounds
  <2> QED
    BY <1>1, <2>1
<1>5. CASE Meanwhile
  <2>1. ASSUME NEW m \in Monitors,
               MonitorChanges(m) \/ MonitorComesDue(m) \/ MonitorOperated(m) \/ LeaseLapses(m) \/ LeaseRunsOut(m)
        PROVE  ToldKind
    <3>1. /\ \/ RunNow(m) \/ (\E on \in BOOLEAN : SetEnabled(m, on))
             \/ OutsideChanges(m) \/ ComesDue(m) \/ LeaseExpires(m)
          /\ crashes' = crashes
      BY <2>1 DEF MonitorChanges, MonitorComesDue, MonitorOperated, LeaseLapses, LeaseRunsOut,
           Arrival, Trouble, bounds
    <3>2. RevisionsGrow /\ UNCHANGED <<changes, told>>
      BY <3>1, MonitorRevision
    <3> QED
      BY <3>1, <3>2 DEF ToldKind
  <2>2. ASSUME NEW p \in polls, PollGoesOn(p) \/ PollBreaks(p) PROVE ToldKind
    <3>1. /\ \/ PollReads(p) \/ PollRefused(p) \/ PollFindsNothing(p) \/ PollFindsChange(p)
             \/ SubmitEnds(p) \/ PollFails(p)
          /\ crashes' = crashes
      BY <2>2 DEF PollGoesOn, PollBreaks, Trouble, bounds
    <3>2. RevisionsGrow
      BY <3>1, PollRevision
    <3>3. PollFindsChange(p) \/ UNCHANGED <<changes, told>>
      BY <3>1 DEF PollReads, PollRefused, PollFindsNothing, SubmitEnds, PollFails
    <3> QED
      BY <3>1, <3>2, <3>3 DEF ToldKind
  <2>3. ASSUME \/ \E x \in Messages : MessageArrives(x) \/ MessageRepeats(x)
               \/ \E r \in Deliveries : AnswerIsRecorded(r) \/ SessionIsPurged(r) \/ DeliveryComesDue(r)
               \/ \E s \in Schedules : SlotComesDue(s) \/ \E on \in BOOLEAN : ScheduleOperated(s, on)
        PROVE  UNCHANGED monitoringVars /\ crashes' = crashes
    BY <2>3 DEF MessageArrives, MessageRepeats, AnswerIsRecorded, SessionIsPurged, DeliveryComesDue,
         InChannels, SlotComesDue, ScheduleOperated, Arrival, Trouble, bounds
  <2> QED
    BY <1>1, <1>5, <2>1, <2>2, <2>3 DEF Meanwhile
<1>6. CASE Crashes
  <2>1. crashes' = crashes + 1
    BY <1>6 DEF Crashes, Crash, CrashInPoll, CrashInIngest, CrashInSchedule, Dies
  <2>2. ASSUME NEW p \in polls, CrashInPoll(p) PROVE ToldKind
    BY <2>1, <2>2, PollRevision DEF CrashInPoll, ToldKind
  <2>3. CASE Crash \/ (\E x \in Messages : CrashInIngest(x)) \/ \E s \in Schedules : CrashInSchedule(s)
    <3>1. UNCHANGED <<monitor, changes, told>>
      BY <2>3 DEF Crash, CrashInIngest, CrashInSchedule, MonitorsCrash
    <3>2. \A m \in Monitors : monitor[m].revision \in Nat
      BY DEF MonitoringTypeOK, Row
    <3> QED
      BY <2>1, <3>1, <3>2 DEF ToldKind, RevisionsGrow
  <2> QED
    BY <1>6, <2>2, <2>3 DEF Crashes
<1> QED
  BY <1>2, <1>3, <1>4, <1>5, <1>6 DEF Next

LEMMA ToldStep ==
  ASSUME MonitoringTypeOK, MonitoringTypeOK', ToldInv, [Next]_vars
  PROVE  ToldInv'
<1>1. ToldKind
  BY ToldKinds
<1>2. /\ \A m \in Monitors : monitor[m].revision \in Nat /\ monitor'[m].revision \in Nat
      /\ polls \subseteq Poll /\ changes \subseteq Change
  BY DEF MonitoringTypeOK, Row
<1>3. /\ \A x \in changes : x.of \in Monitors /\ x.revision \in Nat /\ x.revision <= monitor[x.of].revision
      /\ IsFiniteSet(changes) /\ crashes \in Nat /\ told \subseteq changes
      /\ Cardinality(changes \ told) <= crashes
  BY <1>2 DEF ToldInv, ChangesAreTold, RevisionsArePast, Change
<1>4. IsFiniteSet(changes \ told) /\ Cardinality(changes \ told) \in Nat
  BY <1>3, FS_Difference, FS_CardinalityType
<1>5. \A x \in changes : x.revision <= monitor'[x.of].revision
  BY <1>1, <1>2, <1>3 DEF ToldKind, RevisionsGrow
<1>6. CASE UNCHANGED <<changes, told>> /\ crashes' \in {crashes, crashes + 1}
  <2>1. RevisionsArePast'
    BY <1>3, <1>5, <1>6 DEF RevisionsArePast
  <2> QED
    BY <1>3, <1>4, <1>6, <2>1 DEF ToldInv, ChangesAreTold
\* The change that a poll takes into the row.
<1>7. ASSUME NEW p \in polls, PollFindsChange(p) \/ PollIsCut(p), changes' = changes \cup {TheChange(p)}
      PROVE  /\ ~KeyTaken(TheChange(p))
             /\ RevisionsArePast' /\ IsFiniteSet(changes')
  <2>1. p.of \in Monitors
    BY <1>2 DEF Poll
  <2>2. PICK c : c = TheChange(p)
    OBVIOUS
  <2>3. c.of = p.of /\ c.revision = NextRevision(monitor[p.of])
    BY <2>2 DEF TheChange
  <2>4. NextRevision(monitor[p.of]) = monitor[p.of].revision + 1
    BY DEF NextRevision
  <2>5. ~KeyTaken(c)
    BY <1>2, <1>3, <2>1, <2>3, <2>4 DEF KeyTaken
  <2>6. monitor'[p.of].revision = NextRevision(monitor[p.of])
    BY <1>7, PollRevision
  <2>7. c.revision <= monitor'[p.of].revision
    BY <1>2, <2>1, <2>3, <2>6
  <2>8. RevisionsArePast'
    BY <1>3, <1>5, <1>7, <2>1, <2>2, <2>3, <2>7 DEF RevisionsArePast
  <2>9. IsFiniteSet(changes')
    BY <1>3, <1>7, FS_AddElement
  <2> QED
    BY <2>2, <2>5, <2>8, <2>9
<1>8. ASSUME NEW p \in polls, PollFindsChange(p), crashes' = crashes PROVE ToldInv'
  <2>1. changes' = changes \cup {TheChange(p)}
    BY <1>8 DEF PollFindsChange
  <2>2. told' = told \cup {TheChange(p)}
    BY <1>7, <1>8, <2>1 DEF PollFindsChange
  <2>3. changes' \ told' \subseteq changes \ told /\ told' \subseteq changes'
    BY <1>3, <2>1, <2>2
  <2>4. Cardinality(changes' \ told') <= Cardinality(changes \ told) /\ Cardinality(changes' \ told') \in Nat
    BY <1>4, <2>3, FS_Subset, FS_CardinalityType
  <2> QED
    BY <1>3, <1>4, <1>7, <1>8, <2>1, <2>3, <2>4 DEF ToldInv, ChangesAreTold
<1>9. ASSUME NEW p \in polls, PollIsCut(p), crashes' = crashes + 1 PROVE ToldInv'
  <2>1. changes' = changes \cup {TheChange(p)} /\ told' = told
    BY <1>9 DEF PollIsCut
  <2> DEFINE S == (changes \ told) \cup {TheChange(p)}
  <2>2. changes' \ told' \subseteq S /\ told' \subseteq changes'
    BY <1>3, <2>1
  <2>3. IsFiniteSet(S) /\ Cardinality(S) \in Nat /\ Cardinality(S) <= Cardinality(changes \ told) + 1
    BY <1>4, FS_AddElement, FS_CardinalityType
  <2> HIDE DEF S
  <2>4. Cardinality(changes' \ told') <= Cardinality(S) /\ Cardinality(changes' \ told') \in Nat
    BY <2>2, <2>3, FS_Subset, FS_CardinalityType
  <2>5. Cardinality(changes' \ told') <= crashes'
    BY <1>3, <1>4, <1>9, <2>3, <2>4
  <2> QED
    BY <1>3, <1>7, <1>9, <2>1, <2>2, <2>5 DEF ToldInv, ChangesAreTold
<1> QED
  BY <1>1, <1>6, <1>8, <1>9 DEF ToldKind

\* Every change that was taken into the row of a monitor is told, but for those
\* a crash has cut off: the key of the event is never one that is taken.
THEOREM ChangesAreAnnounced == Spec => []ChangesAreTold
<1>1. Init => ToldInv
  <2> SUFFICES ASSUME Init PROVE ToldInv
    OBVIOUS
  <2>1. changes = {} /\ told = {} /\ crashes = 0
    BY DEF Init, MonitoringInit
  <2>2. changes \ told = {}
    BY <2>1
  <2> QED
    BY <2>1, <2>2, FS_EmptySet DEF ToldInv, RevisionsArePast, ChangesAreTold
<1>2. Spec => []MonitoringTypeOK
  <2>1. MonitoringInv => MonitoringTypeOK
    BY DEF MonitoringInv
  <2> QED
    BY <2>1, ReactorRunsMonitors, MonitoringInvariant, PTL
<1>3. MonitoringTypeOK /\ MonitoringTypeOK' /\ ToldInv /\ [Next]_vars => ToldInv'
  BY ToldStep
<1>4. ToldInv => ChangesAreTold
  BY DEF ToldInv
<1> QED
  BY <1>1, <1>2, <1>3, <1>4, PTL DEF Spec
=============================================================================
