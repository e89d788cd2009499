------------------------------- MODULE GcePool -------------------------------
(***************************************************************************)
(* The GCE shell backend: envs/shell_env/_pool.py hands worker VMs to the   *)
(* environments of envs/shell_env/gce.py, each in a thread with an event    *)
(* loop of its own, and the daemon of gce_worker/ runs one container per    *)
(* start() on its VM.  An environment leases a VM from claim() to           *)
(* release(); the coordinator refreshes its queue from the managed instance *)
(* group only when a claim finds it empty.                                  *)
(*                                                                          *)
(* The steps of claim() are cut where it gives up one of its two locks, the *)
(* steps of start() and stop() at their remote calls and where an interrupt *)
(* between two of them would leave another mess.  A call is executed by the *)
(* daemon even when its caller has given up on it.                          *)
(***************************************************************************)
EXTENDS Naturals, Sequences, FiniteSets

CONSTANTS
    Envs,           \* GCEEnvironment instances that share the coordinator
    Vms,            \* instances the managed instance group may list
    MaxStarts,      \* bound: StartContainer calls of a behaviour
    Faults          \* which of the failures below may happen

Nobody == "nobody"
NoVm == "no vm"
FaultKinds == {"start", "stop", "interrupt"}

ASSUME GceAssumption ==
    /\ IsFiniteSet(Envs) /\ Nobody \notin Envs
    /\ IsFiniteSet(Vms) /\ NoVm \notin Vms
    /\ MaxStarts \in Nat
    /\ Faults \subseteq FaultKinds

VARIABLES
    free,           \* _free_vms
    active,         \* the keys of _active
    refresher,      \* the environment whose claim() holds _refresh_lock
    candidates,     \* listed VMs its refresh has still to probe
    env,            \* where each environment is
    vm,             \* its VM: self._vm, or the local of _stop_async
    start,          \* the StartContainer call of its lease, 0 before it
    lost,           \* VMs an interrupt left claimed for good, a history
    stray,          \* calls whose container nobody will stop, a history
    calls,          \* the VM each StartContainer call went to, in order
    container       \* what the daemon did about each call

poolVars == <<free, active, refresher, candidates>>
envVars == <<env, vm, start, lost, stray>>
workerVars == <<calls, container>>
vars == <<poolVars, envVars, workerVars>>

-----------------------------------------------------------------------------

Calls == 1 .. MaxStarts
EnvStates ==
    {"idle", "blocked", "refreshing", "claimed", "starting", "failing", "interrupted",
     "started", "stopping", "closing"}

TypeOK ==
    /\ free \in Seq(Vms)
    /\ active \subseteq Vms
    /\ refresher \in Envs \cup {Nobody}
    /\ candidates \subseteq Vms
    /\ env \in [Envs -> EnvStates]
    /\ vm \in [Envs -> Vms \cup {NoVm}]
    /\ start \in [Envs -> Calls \cup {0}]
    /\ lost \subseteq Vms
    /\ stray \subseteq Calls
    /\ calls \in Seq(Vms) /\ Len(calls) <= MaxStarts
    /\ container \in [Calls -> {"none", "asked", "up", "refused", "gone"}]

Init ==
    /\ free = <<>>
    /\ active = {}
    /\ refresher = Nobody
    /\ candidates = {}
    /\ env = [e \in Envs |-> "idle"]
    /\ vm = [e \in Envs |-> NoVm]
    /\ start = [e \in Envs |-> 0]
    /\ lost = {}
    /\ stray = {}
    /\ calls = <<>>
    /\ container = [n \in Calls |-> "none"]

Queued == {free[i] : i \in 1 .. Len(free)}
Enrolled == active \cup Queued

-----------------------------------------------------------------------------
(* claim(), and start() up to its remote call                               *)

(* Seeded fault: the VM is handed out and stays in the queue.               *)
TakePeeking(e) ==
    /\ free # <<>>
    /\ active' = active \cup {Head(free)}
    /\ vm' = [vm EXCEPT ![e] = Head(free)]
    /\ env' = [env EXCEPT ![e] = "claimed"]
    /\ UNCHANGED <<free, start, lost, stray, workerVars>>

(* popleft under _lock, and the VM is stored on its way to start().         *)
Take(e) ==
    /\ free # <<>>
    /\ free' = Tail(free)
    /\ active' = active \cup {Head(free)}
    /\ vm' = [vm EXCEPT ![e] = Head(free)]
    /\ env' = [env EXCEPT ![e] = "claimed"]
    /\ UNCHANGED <<start, lost, stray, workerVars>>

ClaimFast(e) ==
    /\ env[e] = "idle"
    /\ Take(e)
    /\ UNCHANGED <<refresher, candidates>>

ClaimSlow(e) ==
    /\ env[e] = "idle"
    /\ free = <<>>
    /\ env' = [env EXCEPT ![e] = "blocked"]
    /\ UNCHANGED <<poolVars, vm, start, lost, stray, workerVars>>

(* With _refresh_lock in hand, the queue is looked at again.                *)
ClaimSecondLook(e) ==
    /\ env[e] = "blocked"
    /\ refresher = Nobody
    /\ Take(e)
    /\ UNCHANGED <<refresher, candidates>>

(* The group is listed, then the members that are enrolled are noted; they  *)
(* and those not RUNNING are skipped.  Nobody else refreshes, and what      *)
(* counts is who is enrolled when it is noted, hence one step.              *)
RefreshBegins(e) ==
    /\ env[e] = "blocked"
    /\ refresher = Nobody
    /\ free = <<>>
    /\ refresher' = e
    /\ candidates' \in SUBSET (Vms \ Enrolled)
    /\ env' = [env EXCEPT ![e] = "refreshing"]
    /\ UNCHANGED <<free, active, vm, start, lost, stray, workerVars>>

Probe(e, v) ==
    /\ refresher = e
    /\ v \in candidates
    /\ candidates' = candidates \ {v}

ProbeHealthy(e, v) ==
    /\ Probe(e, v)
    /\ v \notin Enrolled
    /\ free' = Append(free, v)
    /\ UNCHANGED <<active, refresher, envVars, workerVars>>

(* instances.get or the health check failed, or the look under the lock     *)
(* finds the VM enrolled by now.                                            *)
ProbeUnhealthy(e, v) ==
    /\ Probe(e, v)
    /\ UNCHANGED <<free, active, refresher, envVars, workerVars>>

(* Another claim's fast path may have emptied the queue again by now.       *)
RefreshTakes(e) ==
    /\ refresher = e
    /\ candidates = {}
    /\ Take(e)
    /\ refresher' = Nobody
    /\ UNCHANGED candidates

(* PoolExhausted.  A listing that raises ends the claim in the same way: it *)
(* is a refresh without candidates.                                         *)
RefreshFails(e) ==
    /\ refresher = e
    /\ candidates = {}
    /\ free = <<>>
    /\ refresher' = Nobody
    /\ env' = [env EXCEPT ![e] = "idle"]
    /\ UNCHANGED <<free, active, candidates, vm, start, lost, stray, workerVars>>

-----------------------------------------------------------------------------
(* The rest of start(), release() and stop()                                *)

(* The environment is rid of its VM, in whatever state that is left.        *)
Leave(e) ==
    /\ vm' = [vm EXCEPT ![e] = NoVm]
    /\ env' = [env EXCEPT ![e] = "idle"]
    /\ start' = [start EXCEPT ![e] = 0]

(* Seeded fault: a VM is queued again and stays in _active.                 *)
ReturnKept(e) ==
    /\ free' = Append(free, vm[e])
    /\ Leave(e)
    /\ UNCHANGED <<active, refresher, candidates>>

(* Seeded fault: the environment keeps its place and releases again.        *)
ReturnRepeated(e) ==
    /\ active' = active \ {vm[e]}
    /\ free' = Append(free, vm[e])
    /\ vm' = [vm EXCEPT ![e] = NoVm]
    /\ UNCHANGED <<env, start, refresher, candidates>>

(* release(): the VM leaves _active and joins the queue under one lock.     *)
Return(e) ==
    /\ active' = active \ {vm[e]}
    /\ free' = Append(free, vm[e])
    /\ Leave(e)
    /\ UNCHANGED <<refresher, candidates>>

(* The channel is opened and StartContainer sent.                           *)
Call(e) ==
    /\ env[e] = "claimed"
    /\ Len(calls) < MaxStarts
    /\ env' = [env EXCEPT ![e] = "starting"]
    /\ calls' = Append(calls, vm[e])
    /\ start' = [start EXCEPT ![e] = Len(calls')]
    /\ container' = [container EXCEPT ![Len(calls')] = "asked"]
    /\ UNCHANGED <<poolVars, vm, lost, stray>>

StartAnswered(e) ==
    /\ env[e] = "starting"
    /\ container[start[e]] = "up"
    /\ env' = [env EXCEPT ![e] = "started"]
    /\ UNCHANGED <<poolVars, vm, start, lost, stray, workerVars>>

CallOf(e) == {start[e]} \ {0}

(* The call raised: because the daemon could not start a container, or      *)
(* because the connection failed, whatever the daemon did or is doing.      *)
StartRaises(e) ==
    /\ env[e] = "starting"
    /\ container[start[e]] = "refused" \/ "start" \in Faults
    /\ stray' = IF container[start[e]] = "refused" THEN stray ELSE stray \cup CallOf(e)
    /\ env' = [env EXCEPT ![e] = "failing"]
    /\ UNCHANGED <<poolVars, vm, start, lost, workerVars>>

(* start() closes and forgets its channel, releases and raises again.       *)
StartCleansUp(e) ==
    /\ env[e] = "failing"
    /\ Return(e)
    /\ UNCHANGED <<lost, stray, workerVars>>

(* stop() forgets container, stub and channel first.                        *)
Stop(e) ==
    /\ env[e] = "started"
    /\ env' = [env EXCEPT ![e] = "stopping"]
    /\ UNCHANGED <<poolVars, vm, start, lost, stray, workerVars>>

(* After an interrupt there is no container to name: stop() only closes the *)
(* channel and releases.                                                    *)
StopInterrupted(e) ==
    /\ env[e] = "interrupted"
    /\ env' = [env EXCEPT ![e] = "closing"]
    /\ stray' = stray \cup CallOf(e)
    /\ UNCHANGED <<poolVars, vm, start, lost, workerVars>>

(* Seeded fault: the stub is forgotten before it is used.                   *)
StopForgotten(e) ==
    /\ env[e] = "stopping"
    /\ env' = [env EXCEPT ![e] = "closing"]
    /\ UNCHANGED <<poolVars, vm, start, lost, stray, workerVars>>

StopAnswered(e) ==
    /\ env[e] = "stopping"
    /\ container' = [container EXCEPT ![start[e]] = "gone"]
    /\ env' = [env EXCEPT ![e] = "closing"]
    /\ UNCHANGED <<poolVars, vm, start, lost, stray, calls>>

(* StopContainer failed, or the daemon could not remove the container: a    *)
(* warning is logged.                                                       *)
StopFails(e) ==
    /\ "stop" \in Faults
    /\ env[e] = "stopping"
    /\ env' = [env EXCEPT ![e] = "closing"]
    /\ stray' = stray \cup CallOf(e)
    /\ UNCHANGED <<poolVars, vm, start, lost, workerVars>>

StopReleases(e) ==
    /\ env[e] = "closing"
    /\ Return(e)
    /\ UNCHANGED <<lost, stray, workerVars>>

-----------------------------------------------------------------------------
(* KeyboardInterrupt, which is how a soft cancel of Ray arrives.  No except *)
(* branch of start() or stop() catches it.                                  *)

(* While claim() waits or probes; its locks are given up on the way out.    *)
InterruptClaim(e) ==
    /\ "interrupt" \in Faults
    /\ env[e] \in {"blocked", "refreshing"}
    /\ env' = [env EXCEPT ![e] = "idle"]
    /\ refresher' = IF refresher = e THEN Nobody ELSE refresher
    /\ candidates' = IF refresher = e THEN {} ELSE candidates
    /\ UNCHANGED <<free, active, vm, start, lost, stray, workerVars>>

(* Between popleft and the entry in _active: the coordinator has forgotten  *)
(* the VM, until a refresh lists it again.                                  *)
InterruptPop(e) ==
    /\ "interrupt" \in Faults
    /\ \/ env[e] = "idle"
       \/ env[e] = "blocked" /\ refresher = Nobody
       \/ refresher = e /\ candidates = {}
    /\ free # <<>>
    /\ free' = Tail(free)
    /\ env' = [env EXCEPT ![e] = "idle"]
    /\ refresher' = IF refresher = e THEN Nobody ELSE refresher
    /\ UNCHANGED <<active, candidates, vm, start, lost, stray, workerVars>>

(* With the channel open and no container to name, not yet or, in the first *)
(* lines of stop(), no more: a stop() that follows can still release.       *)
InterruptOpen(e) ==
    /\ "interrupt" \in Faults
    /\ env[e] \in {"claimed", "starting", "failing", "started"}
    /\ env' = [env EXCEPT ![e] = "interrupted"]
    /\ UNCHANGED <<poolVars, vm, start, lost, stray, workerVars>>

(* With neither channel nor container, before the channel is set or after   *)
(* it was forgotten: a stop() that follows returns early, and nobody        *)
(* releases the VM.                                                         *)
InterruptLease(e) ==
    /\ "interrupt" \in Faults
    /\ env[e] \in {"claimed", "failing", "stopping", "closing"}
    /\ lost' = lost \cup {vm[e]}
    /\ stray' = stray \cup CallOf(e)
    /\ Leave(e)
    /\ UNCHANGED <<poolVars, workerVars>>

(* Inside release(), between the two halves of its critical section.        *)
InterruptRelease(e) ==
    /\ "interrupt" \in Faults
    /\ env[e] \in {"failing", "closing"}
    /\ active' = active \ {vm[e]}
    /\ Leave(e)
    /\ UNCHANGED <<free, refresher, candidates, lost, stray, workerVars>>

-----------------------------------------------------------------------------
(* The daemon: StartContainer                                               *)

WorkerStarts(n) ==
    /\ container[n] = "asked"
    /\ container' = [container EXCEPT ![n] = "up"]
    /\ UNCHANGED <<poolVars, envVars, calls>>

WorkerRefuses(n) ==
    /\ container[n] = "asked"
    /\ container' = [container EXCEPT ![n] = "refused"]
    /\ UNCHANGED <<poolVars, envVars, calls>>

-----------------------------------------------------------------------------

Claim(e) ==
    \/ ClaimFast(e) \/ ClaimSlow(e) \/ ClaimSecondLook(e)
    \/ RefreshBegins(e) \/ RefreshTakes(e) \/ RefreshFails(e)
    \/ \E v \in Vms : ProbeHealthy(e, v) \/ ProbeUnhealthy(e, v)

Lease(e) ==
    \/ Call(e) \/ StartAnswered(e) \/ StartRaises(e) \/ StartCleansUp(e)
    \/ Stop(e) \/ StopInterrupted(e) \/ StopAnswered(e) \/ StopFails(e)
    \/ StopReleases(e)

Interrupt(e) ==
    \/ InterruptClaim(e) \/ InterruptPop(e) \/ InterruptOpen(e)
    \/ InterruptLease(e) \/ InterruptRelease(e)

Next ==
    \/ \E e \in Envs : Claim(e) \/ Lease(e) \/ Interrupt(e)
    \/ \E n \in Calls : WorkerStarts(n) \/ WorkerRefuses(n)

Spec == Init /\ [][Next]_vars

-----------------------------------------------------------------------------
(* Safety, whatever fails                                                   *)

Leasing(e) ==
    env[e] \in {"claimed", "starting", "failing", "interrupted", "started", "stopping", "closing"}

(* Two environments never share a worker, and a worker on lease is not in   *)
(* the queue, where the next claim would find it.                           *)
ExclusiveLease ==
    /\ \A e \in Envs : Leasing(e) => vm[e] \in active
    /\ \A e \in Envs : Leasing(e) <=> vm[e] # NoVm
    /\ \A e, f \in Envs : vm[e] = vm[f] /\ vm[e] # NoVm => e = f
    /\ Queued \cap active = {}
    /\ \A i, j \in 1 .. Len(free) : free[i] = free[j] => i = j

(* Unless it is interrupted between the two halves of a critical section,   *)
(* the coordinator forgets no worker: a VM that was enrolled once is queued *)
(* or counted as claimed ever after.                                        *)
WorkersStayEnrolled == [][Enrolled \subseteq Enrolled']_vars

(* Only the claim that holds _refresh_lock refreshes, and what it has still *)
(* to probe is not enrolled: no worker is queued twice.                     *)
OneRefresh ==
    /\ \A e \in Envs : env[e] = "refreshing" <=> refresher = e
    /\ candidates \cap Enrolled = {}
    /\ refresher = Nobody => candidates = {}

(* An interrupt that leaves an environment without channel is all that      *)
(* leaks a worker: every VM counted as claimed is that of an environment or *)
(* was left so, and one that was left so is never leased again, since the   *)
(* coordinator will not free it.                                            *)
ClaimedAreLeased ==
    /\ \A v \in active : v \in lost \/ \E e \in Envs : vm[e] = v
    /\ \A e \in Envs : vm[e] \notin lost
    /\ lost \subseteq active

-----------------------------------------------------------------------------
(* Safety of the daemons                                                    *)

Containers(v) == {n \in 1 .. Len(calls) : calls[n] = v /\ container[n] \in {"asked", "up"}}

(* A worker that waits in the queue runs no container but those whose start *)
(* was not answered, whose stop failed, or which an interrupt hit: nothing  *)
(* else in the life of a lease leaves one behind.                           *)
QueuedAreClean == \A v \in Queued : Containers(v) \subseteq stray

(* Of those that somebody will stop, a worker has one at most.              *)
OneContainerTended == \A v \in Vms : Cardinality(Containers(v) \ stray) <= 1

(* "One daemon per VM, one active container per worker" (worker.proto), "At *)
(* most one active container per worker" (DockerRuntime).                   *)
OneContainerPerWorker == \A v \in Vms : Cardinality(Containers(v)) <= 1

-----------------------------------------------------------------------------
(* Refinement                                                               *)

StageOf(v) ==
    CASE v \in lost -> "lost"
      [] v \in active \ lost -> "leased"
      [] v \in Queued \ active -> "free"
      [] OTHER -> "unknown"

Leases == INSTANCE WorkerLeases WITH
    stage <- [v \in Vms |-> StageOf(v)],
    lease <- vm,
    tended <- [v \in Vms |-> Containers(v) \ stray # {}]

(* The pool, its environments and the daemons implement exclusive leases:   *)
(* a VM is leased from the queue only and to one environment, with no       *)
(* container there that anybody tends, and is given back or lost but never  *)
(* forgotten.                                                               *)
RefinesLeases == Leases!Spec
=============================================================================
