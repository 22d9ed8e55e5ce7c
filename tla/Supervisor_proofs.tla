-------------------------- MODULE Supervisor_proofs --------------------------
(* Proofs of the safety properties of Supervisor, for any number of          *)
(* processes, services and faults.                                           *)
EXTENDS Supervisor, TLAPS

Working(k) == kernel[k] \in {"alive", "stopping"}

\* A run is of the generation its supervisor holds, in a process that is at
\* work, and no relaunch of its service is due.
Succession ==
  \A i \in live : /\ i[3] = entry[i[1]][i[2]].gen
                  /\ i[2] \notin timer[i[1]]
                  /\ Working(i[1])

\* A process that was not told to end has not begun to.
Beginning ==
  \A k \in Kernels :
    /\ kernel[k] \in {"new", "alive"} => shut[k] = "no"
    /\ kernel[k] = "new" => timer[k] = {}

\* While no lease expires under its owner: whoever is at work holds it, and
\* a process is on its way out in the order of system.stop().
Ownership ==
  lapses = 0 =>
    \A k \in Kernels :
      /\ Working(k) => lease.owner = k /\ lease.live
      /\ kernel[k] = "stopping" => shut[k] = "awaits"
      /\ shut[k] \in {"closing", "closed"} => ~Working(k)

Inv == SupervisorTypeOK /\ Succession /\ Beginning /\ Ownership /\ RowsShowTheLiving

USE SupervisorAssumption

-----------------------------------------------------------------------------

LEMMA EntryTyped ==
  ASSUME NEW e \in Entry
  PROVE  /\ [e EXCEPT !.status = "stopping"] \in Entry
         /\ [e EXCEPT !.status = "failed"] \in Entry
         /\ [e EXCEPT !.status = "stopped"] \in Entry
         /\ [gen |-> e.gen + 1, status |-> "running"] \in Entry
         /\ e.gen \in Nat /\ e.gen + 1 \in Nat
<1>1. e.gen \in Nat /\ e.gen + 1 \in Nat
  BY DEF Entry
<1>2. [gen |-> e.gen + 1, status |-> "running"] \in Entry
  BY <1>1 DEF Entry
<1>3. /\ [e EXCEPT !.status = "stopping"] \in Entry
      /\ [e EXCEPT !.status = "failed"] \in Entry
      /\ [e EXCEPT !.status = "stopped"] \in Entry
  BY DEF Entry
<1> QED
  BY <1>1, <1>2, <1>3

LEMMA TypeStep == SupervisorTypeOK /\ [Next]_vars => SupervisorTypeOK'
<1> SUFFICES ASSUME SupervisorTypeOK, [Next]_vars PROVE SupervisorTypeOK'
  OBVIOUS
<1> USE DEF SupervisorTypeOK, NoLease, faultVars
<1>0. \A k \in Kernels, s \in Services, g \in Nat :
        Id(k, s, g) \in Ids /\ Id(k, s, g) \in Kernels \X (Services \cup {Root}) \X Nat
  BY DEF Id, Ids
<1>7. ASSUME NEW k \in Kernels, BeginStop(k)
      PROVE /\ kernel' \in [Kernels -> {"new", "alive", "stopping", "stopped", "gone"}]
            /\ entry' \in [Kernels -> [Services -> Entry]]
            /\ aborted' \subseteq live
  <2>1. entry' \in [Kernels -> [Services -> Entry]]
    BY EntryTyped, <1>7 DEF BeginStop
  <2> QED
    BY <1>7, <2>1 DEF BeginStop
<1>1. CASE LeaseLapses
  <2>0. lease \in [owner : Kernels, live : BOOLEAN]
    BY <1>1 DEF LeaseLapses
  <2>1. lease' \in [owner : Kernels, live : BOOLEAN]
    BY <1>1, <2>0 DEF LeaseLapses
  <2>2. lapses' \in Nat
    BY <1>1 DEF LeaseLapses
  <2> QED
    BY <1>1, <2>1, <2>2 DEF LeaseLapses, memoryVars
<1>2. ASSUME NEW k \in Kernels, KernelStep(k) PROVE SupervisorTypeOK'
  <2>1. CASE StartRefused(k)
    BY <2>1 DEF StartRefused
  <2>2. CASE Start(k)
    <3>1. rows' \subseteq Kernels \X (Services \cup {Root}) \X Nat
      BY <1>0, <2>2 DEF Start, NotOrphaned, RootId, Id
    <3>2. live' \subseteq Ids
      BY <2>2 DEF Start, Id, Ids
    <3>3. entry' \in [Kernels -> [Services -> Entry]]
      BY <2>2 DEF Start, Entry
    <3> QED
      BY <2>2, <3>1, <3>2, <3>3 DEF Start
  <2>3. CASE Pulse(k)
    <3>1. aborted' \subseteq live'
      BY <2>3 DEF Pulse, Overdue
    <3>2. entry' \in [Kernels -> [Services -> Entry]]
      BY <2>3, EntryTyped DEF Pulse
    <3>3. lease' \in [owner : Kernels, live : BOOLEAN]
      BY <2>3 DEF Pulse
    <3> QED
      BY <2>3, <3>1, <3>2, <3>3 DEF Pulse, Timers
  <2>4. CASE PulseFindsLeaseLost(k)
    BY <1>7, <2>4 DEF PulseFindsLeaseLost
  <2>5. CASE StopFinishes(k)
    BY <2>5 DEF StopFinishes
  <2>6. CASE Shutdown(k)
    BY <1>7, <2>6 DEF Shutdown
  <2>7. CASE ShutdownFindsStopping(k)
    BY <2>7 DEF ShutdownFindsStopping
  <2>8. CASE ShutdownGoesOn(k)
    BY <2>8 DEF ShutdownGoesOn
  <2>9. CASE StoreCloses(k)
    BY <2>9 DEF StoreCloses
  <2>10. CASE Crash(k)
    BY <2>10 DEF Crash, Dies
  <2>11. CASE Exits(k)
    BY <2>11 DEF Exits, Dies
  <2> QED
    BY <1>2, <2>1, <2>2, <2>3, <2>4, <2>5, <2>6, <2>7, <2>8, <2>9, <2>10, <2>11 DEF KernelStep
<1>4. ASSUME NEW k \in Kernels, NEW s \in Services, NEW g, Settles(k, s, g), troubles' \in Nat
      PROVE SupervisorTypeOK'
  <2>1. entry' \in [Kernels -> [Services -> Entry]]
    <3> DEFINE st == IF kernel[k] = "alive" THEN "failed" ELSE "stopped"
    <3>0. entry[k][s] \in Entry
      OBVIOUS
    <3>1. [entry[k][s] EXCEPT !.status = st] \in Entry
      <4>1. CASE kernel[k] = "alive"
        BY <3>0, <4>1, EntryTyped
      <4>2. CASE kernel[k] # "alive"
        BY <3>0, <4>2, EntryTyped
      <4> QED
        BY <4>1, <4>2
    <3>2. entry' = [entry EXCEPT ![k] = [entry[k] EXCEPT ![s] = [entry[k][s] EXCEPT !.status = st]]]
      BY <1>4 DEF Settles
    <3>3. [entry[k] EXCEPT ![s] = [entry[k][s] EXCEPT !.status = st]] \in [Services -> Entry]
      BY <3>1
    <3> HIDE DEF st
    <3> QED
      BY <3>2, <3>3
  <2>2. timer' \in [Kernels -> SUBSET Services]
    BY <1>4 DEF Settles
  <2>3. live' \subseteq Ids /\ aborted' \subseteq live' /\ silent' \subseteq live' /\ rows' \subseteq rows
    BY <1>4 DEF Settles
  <2> QED
    BY <1>4, <2>1, <2>2, <2>3 DEF Settles
<1>3. ASSUME NEW k \in Kernels, NEW s \in Services, ServiceStep(k, s) PROVE SupervisorTypeOK'
  <2>1. CASE Relaunch(k, s)
    <3>0. entry[k][s] \in Entry
      OBVIOUS
    <3>1. entry[k][s].gen + 1 \in Nat
      BY <3>0, EntryTyped
    <3>2. live' \subseteq Ids /\ rows' \subseteq Kernels \X (Services \cup {Root}) \X Nat
      <4>1. CASE MayLaunch(k)
        <5>1. /\ Id(k, s, entry[k][s].gen + 1) \in Ids
              /\ Id(k, s, entry[k][s].gen + 1) \in Kernels \X (Services \cup {Root}) \X Nat
          BY <1>0, <3>1
        <5>2. /\ live' = live \cup {Id(k, s, entry[k][s].gen + 1)}
              /\ rows' = rows \cup {Id(k, s, entry[k][s].gen + 1)}
          BY <2>1, <4>1 DEF Relaunch
        <5> QED
          BY <5>1, <5>2
      <4>2. CASE ~MayLaunch(k)
        BY <2>1, <4>2 DEF Relaunch
      <4> QED
        BY <4>1, <4>2
    <3>3. entry' \in [Kernels -> [Services -> Entry]]
      <4>1. [gen |-> entry[k][s].gen + 1, status |-> "running"] \in Entry
        BY <3>0, EntryTyped
      <4>2. [entry[k] EXCEPT ![s] = [gen |-> entry[k][s].gen + 1, status |-> "running"]] \in [Services -> Entry]
        BY <4>1
      <4>3. CASE MayLaunch(k)
        BY <2>1, <4>2, <4>3 DEF Relaunch
      <4>4. CASE ~MayLaunch(k)
        BY <2>1, <4>4 DEF Relaunch
      <4> QED
        BY <4>3, <4>4
    <3> QED
      BY <2>1, <3>2, <3>3 DEF Relaunch
  <2>2. ASSUME NEW g \in Generations(k, s), ServiceStops(k, s, g) PROVE SupervisorTypeOK'
    BY <1>4, <2>2 DEF ServiceStops
  <2>3. ASSUME NEW g \in Generations(k, s), ServiceFails(k, s, g) PROVE SupervisorTypeOK'
    BY <1>4, <2>3 DEF ServiceFails
  <2>4. ASSUME NEW g \in Generations(k, s), FallsSilent(k, s, g) PROVE SupervisorTypeOK'
    BY <2>4 DEF FallsSilent
  <2>5. ASSUME NEW g \in Generations(k, s), Heartbeat(k, s, g) PROVE SupervisorTypeOK'
    BY <2>5 DEF Heartbeat
  <2> QED
    BY <1>3, <2>1, <2>2, <2>3, <2>4, <2>5 DEF ServiceStep
<1>5. CASE UNCHANGED vars
  BY <1>5 DEF vars, memoryVars
<1> QED
  BY <1>1, <1>2, <1>3, <1>5 DEF Next

\* What the coordinates of a run are.
LEMMA Coordinates ==
  /\ \A k, s, g : Id(k, s, g)[1] = k /\ Id(k, s, g)[2] = s /\ Id(k, s, g)[3] = g
  /\ \A i \in Ids : /\ i[1] \in Kernels /\ i[2] \in Services /\ i[3] \in Nat
                    /\ i = Id(i[1], i[2], i[3])
BY DEF Id, Ids

LEMMA SuccessionStep == Inv /\ [Next]_vars => Succession'
<1> SUFFICES ASSUME Inv, [Next]_vars PROVE Succession'
  OBVIOUS
<1> USE Coordinates DEF Inv, SupervisorTypeOK, Succession, Working
<1>1. CASE LeaseLapses
  BY <1>1 DEF LeaseLapses, memoryVars
<1>2. ASSUME NEW k \in Kernels, KernelStep(k) PROVE Succession'
  <2>1. CASE StartRefused(k)
    BY <2>1 DEF StartRefused
  <2>2. CASE Start(k)
    BY <2>2 DEF Start, Beginning
  <2>3. CASE Pulse(k)
    BY <2>3 DEF Pulse, Timers
  <2>4. CASE PulseFindsLeaseLost(k)
    BY <2>4 DEF PulseFindsLeaseLost, BeginStop
  <2>5. CASE StopFinishes(k)
    BY <2>5 DEF StopFinishes, AllSettled, Current
  <2>6. CASE Shutdown(k)
    BY <2>6 DEF Shutdown, BeginStop
  <2>7. CASE ShutdownFindsStopping(k)
    BY <2>7 DEF ShutdownFindsStopping
  <2>8. CASE ShutdownGoesOn(k)
    BY <2>8 DEF ShutdownGoesOn
  <2>9. CASE StoreCloses(k)
    BY <2>9 DEF StoreCloses
  <2>10. CASE Crash(k)
    BY <2>10 DEF Crash, Dies, Of
  <2>11. CASE Exits(k)
    BY <2>11 DEF Exits, Dies, Of
  <2> QED
    BY <1>2, <2>1, <2>2, <2>3, <2>4, <2>5, <2>6, <2>7, <2>8, <2>9, <2>10, <2>11 DEF KernelStep
<1>3. ASSUME NEW k \in Kernels, NEW s \in Services, ServiceStep(k, s) PROVE Succession'
  <2>1. CASE Relaunch(k, s)
    <3> DEFINE n == entry[k][s].gen + 1
    <3>1. kernel' = kernel /\ timer' = [timer EXCEPT ![k] = @ \ {s}]
      BY <2>1 DEF Relaunch
    <3>2. CASE MayLaunch(k)
      <4>1. /\ entry' = [entry EXCEPT ![k] = [entry[k] EXCEPT ![s] = [gen |-> n, status |-> "running"]]]
            /\ live' = live \cup {Id(k, s, n)}
            /\ kernel[k] = "alive" /\ s \in timer[k]
        BY <2>1, <3>2 DEF Relaunch, MayLaunch, Entry
      <4>2. \A i \in live : i[1] = k => i[2] # s
        BY <4>1
      <4>3. /\ entry'[k][s].gen = n
            /\ \A j \in Kernels, x \in Services : j # k \/ x # s => entry'[j][x] = entry[j][x]
        BY <4>1
      <4> HIDE DEF n
      <4>4. ASSUME NEW i \in live
            PROVE i[3] = entry'[i[1]][i[2]].gen /\ i[2] \notin timer'[i[1]] /\ kernel'[i[1]] \in {"alive", "stopping"}
        BY <3>1, <4>2, <4>3
      <4> QED
        BY <3>1, <4>1, <4>3, <4>4
    <3>3. CASE ~MayLaunch(k)
      <4>1. entry' = entry /\ live' = live
        BY <2>1, <3>3 DEF Relaunch
      <4> QED
        BY <3>1, <4>1
    <3> QED
      BY <3>2, <3>3
  <2>2. ASSUME NEW g \in Generations(k, s), Settles(k, s, g) PROVE Succession'
    BY <2>2 DEF Settles, Up
  <2>3. ASSUME NEW g \in Generations(k, s), FallsSilent(k, s, g) \/ Heartbeat(k, s, g) PROVE Succession'
    BY <2>3 DEF FallsSilent, Heartbeat
  <2> QED
    BY <1>3, <2>1, <2>2, <2>3 DEF ServiceStep, ServiceStops, ServiceFails
<1>4. CASE UNCHANGED vars
  BY <1>4 DEF vars, memoryVars
<1> QED
  BY <1>1, <1>2, <1>3, <1>4 DEF Next

LEMMA BeginningStep == Inv /\ [Next]_vars => Beginning'
<1> SUFFICES ASSUME Inv, [Next]_vars PROVE Beginning'
  OBVIOUS
<1> USE DEF Inv, SupervisorTypeOK, Beginning
<1>1. CASE LeaseLapses
  BY <1>1 DEF LeaseLapses, memoryVars
<1>2. ASSUME NEW k \in Kernels, KernelStep(k) PROVE Beginning'
  <2>1. CASE StartRefused(k)
    BY <2>1 DEF StartRefused
  <2>2. CASE Start(k)
    BY <2>2 DEF Start
  <2>3. CASE Pulse(k)
    BY <2>3 DEF Pulse, Timers
  <2>4. CASE PulseFindsLeaseLost(k)
    BY <2>4 DEF PulseFindsLeaseLost, BeginStop
  <2>5. CASE StopFinishes(k)
    BY <2>5 DEF StopFinishes
  <2>6. CASE Shutdown(k)
    BY <2>6 DEF Shutdown, BeginStop
  <2>7. CASE ShutdownFindsStopping(k)
    BY <2>7 DEF ShutdownFindsStopping
  <2>8. CASE ShutdownGoesOn(k)
    BY <2>8 DEF ShutdownGoesOn
  <2>9. CASE StoreCloses(k)
    BY <2>9 DEF StoreCloses
  <2>10. CASE Crash(k)
    BY <2>10 DEF Crash, Dies, Of
  <2>11. CASE Exits(k)
    BY <2>11 DEF Exits, Dies, Of
  <2> QED
    BY <1>2, <2>1, <2>2, <2>3, <2>4, <2>5, <2>6, <2>7, <2>8, <2>9, <2>10, <2>11 DEF KernelStep
<1>3. ASSUME NEW k \in Kernels, NEW s \in Services, ServiceStep(k, s) PROVE Beginning'
  <2>1. CASE Relaunch(k, s)
    BY <2>1 DEF Relaunch, Up
  <2>2. ASSUME NEW g \in Generations(k, s), Settles(k, s, g) PROVE Beginning'
    BY <2>2 DEF Settles, Up
  <2>3. ASSUME NEW g \in Generations(k, s), FallsSilent(k, s, g) \/ Heartbeat(k, s, g) PROVE Beginning'
    BY <2>3 DEF FallsSilent, Heartbeat
  <2> QED
    BY <1>3, <2>1, <2>2, <2>3 DEF ServiceStep, ServiceStops, ServiceFails
<1>4. CASE UNCHANGED vars
  BY <1>4 DEF vars, memoryVars
<1> QED
  BY <1>1, <1>2, <1>3, <1>4 DEF Next

LEMMA OwnershipStep == Inv /\ [Next]_vars => Ownership'
<1> SUFFICES ASSUME Inv, [Next]_vars PROVE Ownership'
  OBVIOUS
<1> USE DEF Inv, SupervisorTypeOK, Ownership, Working
<1>1. CASE LeaseLapses
  BY <1>1 DEF LeaseLapses, memoryVars, Up, NoLease, faultVars
<1>2. ASSUME NEW k \in Kernels, KernelStep(k) PROVE Ownership'
  <2>1. CASE StartRefused(k)
    BY <2>1 DEF StartRefused, faultVars
  <2>2. CASE Start(k)
    BY <2>2 DEF Start, Beginning, faultVars
  <2>3. CASE Pulse(k)
    BY <2>3 DEF Pulse, faultVars
  <2>4. CASE PulseFindsLeaseLost(k)
    BY <2>4 DEF PulseFindsLeaseLost, BeginStop, Beginning, faultVars
  <2>5. CASE StopFinishes(k)
    BY <2>5 DEF StopFinishes, NoLease, faultVars
  <2>6. CASE Shutdown(k)
    BY <2>6 DEF Shutdown, BeginStop, Beginning, faultVars
  <2>7. CASE ShutdownFindsStopping(k)
    BY <2>7 DEF ShutdownFindsStopping, faultVars
  <2>8. CASE ShutdownGoesOn(k)
    BY <2>8 DEF ShutdownGoesOn, StopAwaited, faultVars
  <2>9. CASE StoreCloses(k)
    BY <2>9 DEF StoreCloses, faultVars
  <2>10. CASE Crash(k)
    BY <2>10 DEF Crash, Dies, Of, faultVars
  <2>11. CASE Exits(k)
    BY <2>11 DEF Exits, Dies, Of, faultVars
  <2> QED
    BY <1>2, <2>1, <2>2, <2>3, <2>4, <2>5, <2>6, <2>7, <2>8, <2>9, <2>10, <2>11 DEF KernelStep
<1>3. ASSUME NEW k \in Kernels, NEW s \in Services, ServiceStep(k, s) PROVE Ownership'
  <2>1. CASE Relaunch(k, s)
    BY <2>1 DEF Relaunch, faultVars
  <2>2. ASSUME NEW g \in Generations(k, s), Settles(k, s, g) PROVE Ownership'
    BY <2>2 DEF Settles, ServiceStops, ServiceFails, faultVars
  <2>3. ASSUME NEW g \in Generations(k, s), FallsSilent(k, s, g) \/ Heartbeat(k, s, g) PROVE Ownership'
    BY <2>3 DEF FallsSilent, Heartbeat, faultVars
  <2> QED
    BY <1>3, <2>1, <2>2, <2>3 DEF ServiceStep, ServiceStops, ServiceFails
<1>4. CASE UNCHANGED vars
  BY <1>4 DEF vars, memoryVars, faultVars
<1> QED
  BY <1>1, <1>2, <1>3, <1>4 DEF Next

LEMMA TableStep == Inv /\ [Next]_vars => RowsShowTheLiving'
<1> SUFFICES ASSUME Inv, [Next]_vars PROVE RowsShowTheLiving'
  OBVIOUS
<1> USE Coordinates DEF Inv, SupervisorTypeOK, RowsShowTheLiving, faultVars
<1>1. CASE LeaseLapses
  BY <1>1 DEF LeaseLapses, memoryVars
<1>2. ASSUME NEW k \in Kernels, KernelStep(k) PROVE RowsShowTheLiving'
  <2>1. CASE StartRefused(k)
    BY <2>1 DEF StartRefused
  <2>2. CASE Start(k)
    BY <2>2 DEF Start, Ownership, Succession, Working, NotOrphaned, RootId, Id
  <2>3. CASE Pulse(k)
    BY <2>3 DEF Pulse
  <2>4. CASE PulseFindsLeaseLost(k)
    BY <2>4 DEF PulseFindsLeaseLost, BeginStop
  <2>5. CASE StopFinishes(k)
    BY <2>5 DEF StopFinishes, RootId, Id, Succession
  <2>6. CASE Shutdown(k)
    BY <2>6 DEF Shutdown, BeginStop
  <2>7. CASE ShutdownFindsStopping(k)
    BY <2>7 DEF ShutdownFindsStopping
  <2>8. CASE ShutdownGoesOn(k)
    BY <2>8 DEF ShutdownGoesOn
  <2>9. CASE StoreCloses(k)
    BY <2>9 DEF StoreCloses
  <2>10. CASE Crash(k)
    BY <2>10 DEF Crash, Dies, Of
  <2>11. CASE Exits(k)
    BY <2>11 DEF Exits, Dies, Of
  <2> QED
    BY <1>2, <2>1, <2>2, <2>3, <2>4, <2>5, <2>6, <2>7, <2>8, <2>9, <2>10, <2>11 DEF KernelStep
<1>3. ASSUME NEW k \in Kernels, NEW s \in Services, ServiceStep(k, s) PROVE RowsShowTheLiving'
  <2>1. CASE Relaunch(k, s)
    BY <2>1 DEF Relaunch, MayLaunch, Ownership, Working
  <2>2. ASSUME NEW g \in Generations(k, s), Settles(k, s, g) PROVE RowsShowTheLiving'
    BY <2>2 DEF Settles, Beginning
  <2>3. ASSUME NEW g \in Generations(k, s), FallsSilent(k, s, g) \/ Heartbeat(k, s, g) PROVE RowsShowTheLiving'
    BY <2>3 DEF FallsSilent, Heartbeat
  <2> QED
    BY <1>3, <2>1, <2>2, <2>3 DEF ServiceStep, ServiceStops, ServiceFails
<1>4. CASE UNCHANGED vars
  BY <1>4 DEF vars, memoryVars
<1> QED
  BY <1>1, <1>2, <1>3, <1>4 DEF Next

LEMMA InvStep == Inv /\ [Next]_vars => Inv'
BY TypeStep, SuccessionStep, BeginningStep, OwnershipStep, TableStep DEF Inv

\* The invariant holds in every state of every behaviour.
THEOREM Invariance == Spec => []Inv
<1>1. Init => Inv
  BY DEF Init, Inv, SupervisorTypeOK, NoLease, Entry, Succession, Beginning, Ownership, Working, RowsShowTheLiving
<1> QED
  BY <1>1, InvStep, PTL DEF Spec

-----------------------------------------------------------------------------

\* A service has at most one run at a time in its process: the relaunch after a
\* failure, a return or an abort waits for the promise to settle.
THEOREM OneRunPerService == Spec => []OneGeneration
<1>1. Inv => OneGeneration
  BY Coordinates DEF Inv, Succession, OneGeneration, SupervisorTypeOK
<1> QED
  BY <1>1, Invariance, PTL

\* Services run in one process of a database, as long as no lease expires
\* under a process that is up.
THEOREM OneKernelAtATime == Spec => []OneKernel
<1>1. Inv => OneKernel
  BY Coordinates DEF Inv, Succession, Ownership, Working, OneKernel, SupervisorTypeOK
<1> QED
  BY <1>1, Invariance, PTL

\* A stopped supervisor has no service left and gets none.
THEOREM StopIsFinal == Spec => []NothingAfterStop
<1>1. Inv => NothingAfterStop
  BY Coordinates DEF Inv, Succession, Working, NothingAfterStop, Of, SupervisorTypeOK
<1> QED
  BY <1>1, Invariance, PTL

\* The process table tells the living from the dead.
THEOREM TableIsTrue == Spec => []RowsShowTheLiving
BY Invariance, PTL DEF Inv

\* The database is not closed under running services, but for a shutdown that
\* meets a stop for a lost lease.
THEOREM StoreIsClosedLast == Spec => []StoreClosesLast
<1>1. Inv => StoreClosesLast
  BY Coordinates DEF Inv, Succession, Ownership, Working, StoreClosesLast, Of, SupervisorTypeOK
<1> QED
  BY <1>1, Invariance, PTL
=============================================================================
