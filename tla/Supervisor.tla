----------------------------- MODULE Supervisor -----------------------------
(***************************************************************************)
(* src/src/kernel/service-supervisor.js and kernel-daemon.js over the      *)
(* tables kernel_leases and kernel_processes, with the shutdown of         *)
(* src/src/server.js: who may run on a database, and how the resident      *)
(* services of a kernel are started, watched, replaced and stopped.        *)
(*                                                                         *)
(* A member of Kernels is one host process; a restart is another member.   *)
(* Several may be up at a time.  Each is single threaded, and a step of    *)
(* the model is a stretch of one of them without an await.                 *)
(***************************************************************************)
EXTENDS Naturals, FiniteSets

CONSTANTS
  Kernels, Nobody,  \* host processes; the owner of a lease that does not exist
  Services, Root,   \* names of the resident services; the name in the kernel's own row
  MaxTroubles,      \* bound: services that fail or fall silent
  MaxLapses,        \* bound: leases that expire while their owner is up
  MaxCrashes        \* bound: processes that die at an arbitrary point

ASSUME SupervisorAssumption ==
  /\ Nobody \notin Kernels /\ Root \notin Services
  /\ MaxTroubles \in Nat /\ MaxLapses \in Nat /\ MaxCrashes \in Nat

VARIABLES
  lease,     \* the row of kernel_leases: its owner, and whether expires_at is to come
  kernel,    \* life of the ServiceSupervisor of a process
  shut,      \* how far system.stop() is in a process that was told to end
  entry,     \* [generation, status] of each service in the map of its supervisor
  live,      \* the runs of services whose promise has not settled
  aborted,   \* those of them whose signal has fired
  silent,    \* those of them whose last heartbeat is older than the timeout
  timer,     \* services whose relaunch is due, per process
  rows,      \* kernel_processes: the ids whose row is RUNNING
  troubles, lapses, crashes

memoryVars == <<kernel, shut, entry, live, aborted, silent, timer>>
faultVars == <<troubles, lapses, crashes>>
vars == <<lease, memoryVars, rows, faultVars>>

Id(k, s, g) == <<k, s, g>>
Ids == Kernels \X Services \X Nat
RootId(k) == Id(k, Root, 0)
NoLease == [owner |-> Nobody, live |-> FALSE]

Entry == [gen : Nat, status : {"none", "running", "stopping", "failed", "stopped"}]

SupervisorTypeOK ==
  /\ lease \in [owner : Kernels, live : BOOLEAN] \cup {NoLease}
  /\ kernel \in [Kernels -> {"new", "alive", "stopping", "stopped", "gone"}]
  /\ shut \in [Kernels -> {"no", "awaits", "closing", "closed"}]
  /\ entry \in [Kernels -> [Services -> Entry]]
  /\ live \subseteq Ids /\ aborted \subseteq live /\ silent \subseteq live
  /\ timer \in [Kernels -> SUBSET Services]
  /\ rows \subseteq Kernels \X (Services \cup {Root}) \X Nat
  /\ troubles \in Nat /\ lapses \in Nat /\ crashes \in Nat

Init ==
  /\ lease = NoLease
  /\ kernel = [k \in Kernels |-> "new"]
  /\ shut = [k \in Kernels |-> "no"]
  /\ entry = [k \in Kernels |-> [s \in Services |-> [gen |-> 0, status |-> "none"]]]
  /\ live = {} /\ aborted = {} /\ silent = {} /\ rows = {}
  /\ timer = [k \in Kernels |-> {}]
  /\ troubles = 0 /\ lapses = 0 /\ crashes = 0

-----------------------------------------------------------------------------

Up(k) == kernel[k] \in {"alive", "stopping", "stopped"}
Current(k) == {Id(k, s, entry[k][s].gen) : s \in Services}
Of(k) == {i \in live : i[1] = k}

\* acquireKernelLease fails, start() throws, and the process ends.
StartRefused(k) ==
  /\ kernel[k] = "new" /\ lease.live
  /\ kernel' = [kernel EXCEPT ![k] = "gone"]
  /\ UNCHANGED <<lease, shut, entry, live, aborted, silent, timer, rows, faultVars>>

\* What recoverKernelProcesses leaves RUNNING: it asks for no owner.
NotOrphaned == {}

Start(k) ==
  /\ kernel[k] = "new" /\ ~lease.live
  /\ lease' = [owner |-> k, live |-> TRUE]
  /\ kernel' = [kernel EXCEPT ![k] = "alive"]
  /\ entry' = [entry EXCEPT ![k] = [s \in Services |-> [gen |-> 1, status |-> "running"]]]
  /\ live' = live \cup {Id(k, s, 1) : s \in Services}
  /\ rows' = NotOrphaned \cup {RootId(k)} \cup {Id(k, s, 1) : s \in Services}
  /\ UNCHANGED <<shut, aborted, silent, timer, faultVars>>

-----------------------------------------------------------------------------
(* A resident service.                                                     *)

\* Faulty: a service that returns after its signal fired is taken to have
\* finished its work.
BadRetried(k, i) == kernel[k] = "alive" /\ i \notin aborted
Retried(k, i) == kernel[k] = "alive"

\* The run function returns or throws.  Unless the kernel is stopping, both
\* are failures, the return of an aborted one too, and lead to a relaunch.
\* A process whose database is closed cannot write the row any more.
Settles(k, s, g) ==
  LET i == Id(k, s, g)
  IN  /\ i \in live /\ Up(k)
      /\ live' = live \ {i} /\ aborted' = aborted \ {i} /\ silent' = silent \ {i}
      /\ rows' = IF shut[k] = "closed" THEN rows ELSE rows \ {i}
      /\ entry' = [entry EXCEPT ![k][s].status = IF kernel[k] = "alive" THEN "failed" ELSE "stopped"]
      /\ timer' = IF Retried(k, i) THEN [timer EXCEPT ![k] = @ \cup {s}] ELSE timer
      /\ UNCHANGED <<lease, kernel, shut, lapses, crashes>>

ServiceStops(k, s, g) ==
  /\ Id(k, s, g) \in aborted
  /\ Settles(k, s, g)
  /\ UNCHANGED troubles

ServiceFails(k, s, g) ==
  /\ Id(k, s, g) \notin aborted
  /\ troubles < MaxTroubles
  /\ Settles(k, s, g)
  /\ troubles' = troubles + 1

\* Faulty: the relaunch does not look whether the kernel stops.
BadMayLaunch(k) == Up(k)
MayLaunch(k) == kernel[k] = "alive"

\* The timer of the catch fires.
Relaunch(k, s) ==
  LET i == Id(k, s, entry[k][s].gen + 1)
  IN  /\ Up(k) /\ s \in timer[k]
      /\ timer' = [timer EXCEPT ![k] = @ \ {s}]
      /\ IF MayLaunch(k)
         THEN /\ entry' = [entry EXCEPT ![k][s] = [gen |-> @.gen + 1, status |-> "running"]]
              /\ live' = live \cup {i}
              /\ rows' = rows \cup {i}
         ELSE UNCHANGED <<entry, live, rows>>
      /\ UNCHANGED <<lease, kernel, shut, aborted, silent, faultVars>>

FallsSilent(k, s, g) ==
  /\ Up(k)
  /\ Id(k, s, g) \in live \ (silent \cup aborted)
  /\ troubles < MaxTroubles
  /\ silent' = silent \cup {Id(k, s, g)}
  /\ troubles' = troubles + 1
  /\ UNCHANGED <<lease, kernel, shut, entry, live, aborted, timer, rows, lapses, crashes>>

\* A heartbeat after the abort is ignored.
Heartbeat(k, s, g) ==
  /\ Up(k)
  /\ Id(k, s, g) \in (live \cap silent) \ aborted
  /\ silent' = silent \ {Id(k, s, g)}
  /\ UNCHANGED <<lease, kernel, shut, entry, live, aborted, timer, rows, faultVars>>

-----------------------------------------------------------------------------
(* The supervisor.                                                         *)

\* Every entry is aborted, the settled ones to no effect, and the watchdog
\* ends: from here on nobody renews the lease.
BeginStop(k) ==
  /\ kernel' = [kernel EXCEPT ![k] = "stopping"]
  /\ entry' = [entry EXCEPT ![k] = [s \in Services |-> [@[s] EXCEPT !.status = "stopping"]]]
  /\ aborted' = aborted \cup (Current(k) \cap live)

Overdue(k) ==
  {s \in Services : /\ entry[k][s].status = "running"
                    /\ Id(k, s, entry[k][s].gen) \in silent \ aborted}

\* Faulty: the successor of a silent service does not wait for its end.
BadTimers(k) == [timer EXCEPT ![k] = @ \cup Overdue(k)]
Timers(k) == timer

\* A lease that has expired and was not taken is as good as new.
Pulse(k) ==
  /\ kernel[k] = "alive" /\ lease.owner = k
  /\ lease' = [lease EXCEPT !.live = TRUE]
  /\ entry' = [entry EXCEPT ![k] = [s \in Services |->
                 IF s \in Overdue(k) THEN [@[s] EXCEPT !.status = "stopping"] ELSE @[s]]]
  /\ aborted' = aborted \cup {Id(k, s, entry[k][s].gen) : s \in Overdue(k)}
  /\ timer' = Timers(k)
  /\ UNCHANGED <<kernel, shut, live, silent, rows, faultVars>>

PulseFindsLeaseLost(k) ==
  /\ kernel[k] = "alive" /\ lease.owner # k
  /\ BeginStop(k)
  /\ UNCHANGED <<lease, shut, live, silent, timer, rows, faultVars>>

\* Faulty: stop() does not wait for the services.
BadAllSettled(k) == TRUE
AllSettled(k) == Current(k) \cap live = {}

\* With the database closed the next line of stop() throws.
StopFinishes(k) ==
  /\ kernel[k] = "stopping"
  /\ AllSettled(k)
  /\ kernel' = [kernel EXCEPT ![k] = "stopped"]
  /\ IF shut[k] = "closed"
     THEN UNCHANGED <<lease, rows>>
     ELSE /\ rows' = rows \ {RootId(k)}
          /\ lease' = IF lease.owner = k THEN NoLease ELSE lease
  /\ UNCHANGED <<shut, entry, live, aborted, silent, timer, faultVars>>

-----------------------------------------------------------------------------
(* The shutdown of the process: a signal, or an error nobody caught.       *)

Shutdown(k) ==
  /\ kernel[k] = "alive" /\ shut[k] = "no"
  /\ shut' = [shut EXCEPT ![k] = "awaits"]
  /\ BeginStop(k)
  /\ UNCHANGED <<lease, live, silent, timer, rows, faultVars>>

\* kernel.stop() returns at once when a stop has begun already.
ShutdownFindsStopping(k) ==
  /\ kernel[k] \in {"stopping", "stopped"} /\ shut[k] = "no"
  /\ shut' = [shut EXCEPT ![k] = "closing"]
  /\ UNCHANGED <<lease, kernel, entry, live, aborted, silent, timer, rows, faultVars>>

StopAwaited(k) == kernel[k] = "stopped"

ShutdownGoesOn(k) ==
  /\ shut[k] = "awaits" /\ StopAwaited(k)
  /\ shut' = [shut EXCEPT ![k] = "closing"]
  /\ UNCHANGED <<lease, kernel, entry, live, aborted, silent, timer, rows, faultVars>>

\* The housekeeping round and the polls in flight have come to their end.
StoreCloses(k) ==
  /\ shut[k] = "closing" /\ Up(k)
  /\ shut' = [shut EXCEPT ![k] = "closed"]
  /\ UNCHANGED <<lease, kernel, entry, live, aborted, silent, timer, rows, faultVars>>

Dies(k) ==
  /\ kernel' = [kernel EXCEPT ![k] = "gone"]
  /\ live' = live \ Of(k) /\ aborted' = aborted \ Of(k) /\ silent' = silent \ Of(k)
  /\ timer' = [timer EXCEPT ![k] = {}]
  /\ UNCHANGED <<lease, shut, entry, rows, troubles, lapses>>

Crash(k) ==
  /\ Up(k) /\ crashes < MaxCrashes
  /\ crashes' = crashes + 1
  /\ Dies(k)

\* Ten seconds after the signal the process ends in any case; it ends by
\* itself when nothing is left to do.
Exits(k) ==
  /\ Up(k) /\ shut[k] # "no"
  /\ Dies(k)
  /\ UNCHANGED crashes

\* The lease of a process that has ended expires; that of one that is up when
\* its event loop was blocked, the host slept, or a stop took too long.
LeaseLapses ==
  /\ lease.live
  /\ lease' = [lease EXCEPT !.live = FALSE]
  /\ IF Up(lease.owner) THEN lapses < MaxLapses /\ lapses' = lapses + 1
     ELSE UNCHANGED lapses
  /\ UNCHANGED <<memoryVars, rows, troubles, crashes>>

-----------------------------------------------------------------------------

Generations(k, s) == 1..entry[k][s].gen

ServiceStep(k, s) ==
  \/ Relaunch(k, s)
  \/ \E g \in Generations(k, s) :
       ServiceStops(k, s, g) \/ ServiceFails(k, s, g) \/ FallsSilent(k, s, g) \/ Heartbeat(k, s, g)

KernelStep(k) ==
  \/ StartRefused(k) \/ Start(k)
  \/ Pulse(k) \/ PulseFindsLeaseLost(k) \/ StopFinishes(k)
  \/ Shutdown(k) \/ ShutdownFindsStopping(k) \/ ShutdownGoesOn(k) \/ StoreCloses(k)
  \/ Crash(k) \/ Exits(k)

Next ==
  \/ LeaseLapses
  \/ \E k \in Kernels : KernelStep(k) \/ \E s \in Services : ServiceStep(k, s)

Spec == Init /\ [][Next]_vars

\* The watchdog beats, timers fire, and a service whose signal has fired
\* comes to its end; nobody has to start, to fail or to send a signal.
Fairness ==
  \A k \in Kernels :
    /\ WF_vars(Pulse(k) \/ PulseFindsLeaseLost(k))
    /\ WF_vars(StopFinishes(k))
    /\ \A s \in Services :
         /\ WF_vars(Relaunch(k, s))
         /\ WF_vars(\E g \in Generations(k, s) : ServiceStops(k, s, g))

FairSpec == Spec /\ Fairness

-----------------------------------------------------------------------------
(* Properties.                                                             *)

\* A service has one run at a time in its process: whatever made the earlier
\* one end or hang, its successor comes after it.
OneGeneration ==
  \A i, j \in live : i[1] = j[1] /\ i[2] = j[2] => i = j

\* As long as no lease expires under a process that is up, services run in one
\* process only: a successor starts when the last of them has settled.
OneKernel ==
  lapses = 0 => \A i, j \in live : i[1] = j[1]

\* A supervisor that has stopped has no service left, and no late timer of an
\* earlier failure brings one back.
NothingAfterStop ==
  \A k \in Kernels : kernel[k] = "stopped" => Of(k) = {}

\* The process table does not show the dead as RUNNING once a kernel has
\* started after them, and it shows every service that runs.
RowsShowTheLiving ==
  lapses = 0 =>
    /\ live \subseteq rows
    /\ \A k \in Kernels : kernel[k] = "alive" => \A i \in rows : i[1] = k

\* The database is closed under running services only where a stop for a lost
\* lease was under way when the signal came.
StoreClosesLast ==
  \A k \in Kernels : shut[k] = "closed" /\ Of(k) # {} => lapses > 0

\* In a kernel that stays alive a service that failed, returned or fell silent
\* is back in the end.
ServicesComeBack ==
  \A k \in Kernels, s \in Services :
    []<>(\/ kernel[k] # "alive"
         \/ Id(k, s, entry[k][s].gen) \in live \ (aborted \cup silent))
=============================================================================
