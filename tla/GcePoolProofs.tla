---------------------------- MODULE GcePoolProofs ----------------------------
(***************************************************************************)
(* Proofs about the pool of worker VMs, for every set of environments and   *)
(* VMs and whichever calls fail.  Inv is inductive: that a refresh is alone *)
(* and probes only VMs the pool does not know keeps the queue free of       *)
(* duplicates, and that is what makes a lease exclusive.  The last section  *)
(* shows that the pool implements WorkerLeases.                             *)
(***************************************************************************)
EXTENDS GcePool, FiniteSetTheorems, TLAPS

Inv == TypeOK /\ ExclusiveLease /\ OneRefresh

-----------------------------------------------------------------------------
(* The queue of free VMs                                                    *)

(* What is left of a queue without its first element, and without duplicates. *)
LEMMA ElementsOfTail ==
  ASSUME NEW S, NEW s \in Seq(S), s # <<>>,
         \A i, j \in 1 .. Len(s) : s[i] = s[j] => i = j
  PROVE  /\ Head(s) \in S /\ Head(s) \in {s[i] : i \in 1 .. Len(s)}
         /\ {Tail(s)[i] : i \in 1 .. Len(Tail(s))} = {s[i] : i \in 1 .. Len(s)} \ {Head(s)}
         /\ \A i, j \in 1 .. Len(Tail(s)) : Tail(s)[i] = Tail(s)[j] => i = j
<1> DEFINE t == Tail(s)
<1>1. /\ Len(s) \in Nat \ {0} /\ Head(s) = s[1] /\ Head(s) \in S
      /\ Len(t) = Len(s) - 1
      /\ \A i \in 1 .. Len(t) : t[i] = s[i + 1]
  OBVIOUS
<1> HIDE DEF t
<1>2. \A i \in 1 .. Len(t) : i + 1 \in 1 .. Len(s) /\ i + 1 # 1
  BY <1>1
<1>3. \A k \in 1 .. Len(s) : k = 1 \/ (k - 1 \in 1 .. Len(t) /\ t[k - 1] = s[k])
  <2>1. ASSUME NEW k \in 1 .. Len(s), k # 1 PROVE k - 1 \in 1 .. Len(t) /\ (k - 1) + 1 = k
    BY <1>1, <2>1
  <2>2. QED
    BY <1>1, <2>1
<1>4. 1 \in 1 .. Len(s)
  BY <1>1
<1>5. {t[i] : i \in 1 .. Len(t)} = {s[i] : i \in 1 .. Len(s)} \ {Head(s)}
  BY <1>1, <1>2, <1>3, <1>4
<1>6. ASSUME NEW i \in 1 .. Len(t), NEW j \in 1 .. Len(t), t[i] = t[j]
      PROVE  i = j
  BY <1>1, <1>2, <1>6
<1>7. QED
  BY <1>1, <1>4, <1>5, <1>6 DEF t

(* The elements of a queue with a new one at its end.                       *)
LEMMA ElementsOfAppend ==
  ASSUME NEW S, NEW s \in Seq(S), NEW x \in S
  PROVE  /\ {Append(s, x)[i] : i \in 1 .. Len(Append(s, x))} = {s[i] : i \in 1 .. Len(s)} \cup {x}
         /\ (\A i, j \in 1 .. Len(s) : s[i] = s[j] => i = j) /\ (\A i \in 1 .. Len(s) : s[i] # x)
            => \A i, j \in 1 .. Len(Append(s, x)) :
                   Append(s, x)[i] = Append(s, x)[j] => i = j
<1> DEFINE t == Append(s, x)
<1>1. /\ Len(s) \in Nat /\ Len(t) = Len(s) + 1 /\ t[Len(s) + 1] = x
      /\ \A i \in 1 .. Len(s) : t[i] = s[i]
  OBVIOUS
<1> HIDE DEF t
<1>2. \A i \in 1 .. Len(t) : i \in 1 .. Len(s) \/ i = Len(s) + 1
  BY <1>1
<1>3. Len(s) + 1 \in 1 .. Len(t) /\ \A i \in 1 .. Len(s) : i \in 1 .. Len(t)
  BY <1>1
<1>4. {t[i] : i \in 1 .. Len(t)} = {s[i] : i \in 1 .. Len(s)} \cup {x}
  BY <1>1, <1>2, <1>3, Zenon
<1>5. ASSUME \A i, j \in 1 .. Len(s) : s[i] = s[j] => i = j, \A i \in 1 .. Len(s) : s[i] # x,
             NEW i \in 1 .. Len(t), NEW j \in 1 .. Len(t), t[i] = t[j]
      PROVE  i = j
  BY <1>1, <1>2, <1>5, Zenon
<1>6. QED
  BY <1>4, <1>5 DEF t

-----------------------------------------------------------------------------
(* Types                                                                    *)

LEMMA InvInit == Init => Inv
<1> SUFFICES ASSUME Init PROVE Inv
  OBVIOUS
<1> USE GceAssumption DEF Init
<1>1. TypeOK
  BY DEF TypeOK, EnvStates, Calls
<1>2. ExclusiveLease
  BY DEF ExclusiveLease, Leasing, Queued
<1>3. OneRefresh
  BY DEF OneRefresh, Enrolled, Queued
<1>4. QED
  BY <1>1, <1>2, <1>3 DEF Inv

LEMMA HeadAndTail ==
  ASSUME NEW S, NEW s \in Seq(S), s # <<>>
  PROVE  Head(s) \in S /\ Tail(s) \in Seq(S)
  OBVIOUS

(* Every variable stays within its type.                                    *)
LEMMA TypeStep ==
  ASSUME Inv, [Next]_vars
  PROVE  TypeOK'
<1> USE GceAssumption DEF Inv, TypeOK, EnvStates, Calls, poolVars, envVars, workerVars
<1>1. ASSUME NEW e \in Envs, Take(e)
      PROVE  /\ free' \in Seq(Vms) /\ active' \subseteq Vms
             /\ env' \in [Envs -> EnvStates] /\ vm' \in [Envs -> Vms \cup {NoVm}]
             /\ UNCHANGED <<start, lost, stray, calls, container>>
  BY <1>1, HeadAndTail DEF Take
<1>2. ASSUME NEW e \in Envs, Leasing(e)
      PROVE  vm[e] \in Vms
  BY <1>2 DEF ExclusiveLease
<1> USE DEF Leave
<1>3. ASSUME NEW e \in Envs, Claim(e) PROVE TypeOK'
  <2>1. CASE ClaimFast(e)
    BY <1>1, <2>1 DEF ClaimFast
  <2>2. CASE ClaimSlow(e)
    BY <2>2 DEF ClaimSlow
  <2>3. CASE ClaimSecondLook(e)
    BY <1>1, <2>3 DEF ClaimSecondLook
  <2>4. CASE RefreshBegins(e)
    BY <2>4 DEF RefreshBegins
  <2>5. CASE RefreshTakes(e)
    BY <1>1, <2>5 DEF RefreshTakes
  <2>6. CASE RefreshFails(e)
    BY <2>6 DEF RefreshFails
  <2>7. ASSUME NEW v \in Vms, ProbeHealthy(e, v) PROVE TypeOK'
    BY <2>7 DEF ProbeHealthy, Probe
  <2>8. ASSUME NEW v \in Vms, ProbeUnhealthy(e, v) PROVE TypeOK'
    BY <2>8 DEF ProbeUnhealthy, Probe
  <2>9. QED
    BY <1>3, <2>1, <2>2, <2>3, <2>4, <2>5, <2>6, <2>7, <2>8 DEF Claim
<1>4. ASSUME NEW e \in Envs, Lease(e) PROVE TypeOK'
  <2>1. CASE StartAnswered(e)
    BY <2>1 DEF StartAnswered
  <2>2. CASE StartRaises(e)
    BY <2>2 DEF StartRaises, CallOf
  <2>3. CASE Call(e)
    <3>1. vm[e] \in Vms
      BY <1>2, <2>3 DEF Call, Leasing
    <3>2. /\ calls' \in Seq(Vms)
          /\ Len(calls') = Len(calls) + 1
          /\ Len(calls') \in 1 .. MaxStarts
      BY <2>3, <3>1 DEF Call
    <3>3. QED
      BY <2>3, <3>2 DEF Call
  <2>4. CASE Stop(e)
    BY <2>4 DEF Stop
  <2>5. CASE StopInterrupted(e)
    BY <2>5 DEF StopInterrupted, CallOf
  <2>6. CASE StopAnswered(e)
    BY <2>6 DEF StopAnswered
  <2>7. CASE StopFails(e)
    BY <2>7 DEF StopFails, CallOf
  <2>8. CASE StartCleansUp(e) \/ StopReleases(e)
    <3>1. vm[e] \in Vms
      BY <1>2, <2>8 DEF StartCleansUp, StopReleases, Leasing
    <3>2. Return(e) /\ UNCHANGED <<lost, stray, workerVars>>
      BY <2>8 DEF StartCleansUp, StopReleases
    <3>3. free' \in Seq(Vms)
      BY <3>1, <3>2 DEF Return
    <3>4. QED
      BY <3>1, <3>2, <3>3 DEF Return
  <2>9. QED
    BY <1>4, <2>1, <2>2, <2>3, <2>4, <2>5, <2>6, <2>7, <2>8 DEF Lease
<1>8. ASSUME NEW e \in Envs, Interrupt(e) PROVE TypeOK'
  <2>1. CASE InterruptClaim(e)
    BY <2>1 DEF InterruptClaim
  <2>2. CASE InterruptPop(e)
    BY <2>2, HeadAndTail DEF InterruptPop
  <2>3. CASE InterruptOpen(e)
    BY <2>3 DEF InterruptOpen
  <2>4. CASE InterruptLease(e)
    BY <1>2, <2>4 DEF InterruptLease, Leasing, CallOf
  <2>5. CASE InterruptRelease(e)
    BY <2>5 DEF InterruptRelease
  <2>6. QED
    BY <1>8, <2>1, <2>2, <2>3, <2>4, <2>5 DEF Interrupt
<1>5. ASSUME NEW n \in Calls, WorkerStarts(n) \/ WorkerRefuses(n) PROVE TypeOK'
  BY <1>5 DEF WorkerStarts, WorkerRefuses
<1>6. CASE UNCHANGED vars
  BY <1>6 DEF vars
<1>7. QED
  BY <1>3, <1>4, <1>5, <1>6, <1>8 DEF Next

-----------------------------------------------------------------------------
(* Leases                                                                   *)

(* A pop takes the first VM out of the queue.                               *)
LEMMA PopTakesHead ==
  ASSUME Inv, free # <<>>, free' = Tail(free)
  PROVE  /\ Queued' = Queued \ {Head(free)} /\ Head(free) \in Queued /\ Head(free) \in Vms
         /\ \A i, j \in 1 .. Len(free') : free'[i] = free'[j] => i = j
<1>1. /\ free \in Seq(Vms)
      /\ \A i, j \in 1 .. Len(free) : free[i] = free[j] => i = j
  BY DEF Inv, TypeOK, ExclusiveLease
<1>2. /\ {Tail(free)[i] : i \in 1 .. Len(Tail(free))} = {free[i] : i \in 1 .. Len(free)} \ {Head(free)}
      /\ Head(free) \in {free[i] : i \in 1 .. Len(free)} /\ Head(free) \in Vms
      /\ \A i, j \in 1 .. Len(Tail(free)) : Tail(free)[i] = Tail(free)[j] => i = j
  BY <1>1, ElementsOfTail, Zenon
<1>3. QED
  BY <1>2 DEF Queued

(* A claim that pops the queue leases a VM nobody had.                      *)
LEMMA TakeLeases ==
  ASSUME Inv, NEW e \in Envs, ~Leasing(e), Take(e)
  PROVE  ExclusiveLease' /\ Enrolled' = Enrolled
<1>1. /\ Queued' = Queued \ {Head(free)} /\ Head(free) \in Queued /\ Head(free) \in Vms
      /\ \A i, j \in 1 .. Len(free') : free'[i] = free'[j] => i = j
  BY PopTakesHead DEF Take
<1> USE DEF Inv, TypeOK
<1>3. Head(free) \notin active
  BY <1>1 DEF ExclusiveLease
<1>4. Enrolled' = Enrolled
  BY <1>1 DEF Take, Enrolled
<1>5. Queued' \cap active' = {}
  BY <1>1 DEF Take, ExclusiveLease
<1>6. /\ vm'[e] = Head(free) /\ Leasing(e)'
      /\ \A f \in Envs \ {e} : vm'[f] = vm[f] /\ (Leasing(f)' <=> Leasing(f))
  BY DEF Take, Leasing
<1>7. \A f \in Envs : Leasing(f)' => vm'[f] \in active'
  BY <1>6 DEF ExclusiveLease, Take
<1>8. \A f \in Envs : Leasing(f)' <=> vm'[f] # NoVm
  BY <1>1, <1>6, GceAssumption DEF ExclusiveLease
<1>9. \A f \in Envs \ {e} : vm[f] # NoVm => vm[f] # Head(free)
  BY <1>3 DEF ExclusiveLease
<1>10. \A f, g \in Envs : vm'[f] = vm'[g] /\ vm'[f] # NoVm => f = g
  BY <1>6, <1>9 DEF ExclusiveLease
<1>11. QED
  BY <1>1, <1>4, <1>5, <1>7, <1>8, <1>10 DEF ExclusiveLease

(* A release puts the VM of one lease back, and of that lease only.         *)
LEMMA ReturnEndsLease ==
  ASSUME Inv, NEW e \in Envs, Leasing(e), Return(e)
  PROVE  ExclusiveLease' /\ Enrolled' = Enrolled
<1> USE DEF Inv, TypeOK
<1>1. vm[e] \in Vms /\ vm[e] \in active /\ vm[e] # NoVm
  BY DEF ExclusiveLease
<1>2. \A i \in 1 .. Len(free) : free[i] # vm[e]
  BY <1>1 DEF ExclusiveLease, Queued
<1>3. /\ Queued' = Queued \cup {vm[e]}
      /\ \A i, j \in 1 .. Len(free') : free'[i] = free'[j] => i = j
  BY <1>1, <1>2, ElementsOfAppend DEF Return, Queued, ExclusiveLease
<1>4. Enrolled' = Enrolled
  BY <1>1, <1>3 DEF Return, Enrolled
<1>5. Queued' \cap active' = {}
  BY <1>3 DEF Return, ExclusiveLease
<1>6. /\ vm'[e] = NoVm /\ ~Leasing(e)'
      /\ \A f \in Envs \ {e} : vm'[f] = vm[f] /\ (Leasing(f)' <=> Leasing(f))
  BY DEF Return, Leave, Leasing
<1>7. \A f \in Envs \ {e} : Leasing(f) => vm[f] # vm[e]
  BY <1>1 DEF ExclusiveLease
<1>8. \A f \in Envs : Leasing(f)' => vm'[f] \in active'
  BY <1>6, <1>7 DEF ExclusiveLease, Return
<1>9. /\ \A f \in Envs : Leasing(f)' <=> vm'[f] # NoVm
      /\ \A f, g \in Envs : vm'[f] = vm'[g] /\ vm'[f] # NoVm => f = g
  BY <1>6 DEF ExclusiveLease
<1>10. QED
  BY <1>3, <1>4, <1>5, <1>8, <1>9 DEF ExclusiveLease

(* A probed VM joins the queue as one the pool did not know.                *)
LEMMA ProbeEnrols ==
  ASSUME Inv, NEW e \in Envs, NEW v \in Vms, ProbeHealthy(e, v)
  PROVE  ExclusiveLease' /\ Enrolled' = Enrolled \cup {v}
<1> USE DEF Inv, TypeOK, ProbeHealthy, envVars
<1>1. \A i \in 1 .. Len(free) : free[i] # v
  BY DEF Enrolled, Queued
<1>2. /\ Queued' = Queued \cup {v}
      /\ \A i, j \in 1 .. Len(free') : free'[i] = free'[j] => i = j
  BY <1>1, ElementsOfAppend DEF Queued, ExclusiveLease
<1>3. Queued' \cap active' = {}
  BY <1>2 DEF Enrolled, ExclusiveLease
<1>4. QED
  BY <1>2, <1>3 DEF ExclusiveLease, Enrolled, Leasing

(* The other steps change neither the queue nor _active, and of the leases  *)
(* at most their stage.                                                     *)
LEMMA OthersKeepLeases ==
  ASSUME Inv, free' = free, active' = active, vm' = vm,
         \A e \in Envs : Leasing(e)' <=> Leasing(e)
  PROVE  ExclusiveLease' /\ Enrolled' = Enrolled
  BY DEF Inv, ExclusiveLease, Enrolled, Queued

(* An interrupt that ends a lease frees nothing.                            *)
LEMMA InterruptEndsLease ==
  ASSUME Inv, NEW e \in Envs, InterruptLease(e) \/ InterruptRelease(e)
  PROVE  ExclusiveLease' /\ Enrolled' \subseteq Enrolled
<1> USE DEF Inv, TypeOK, poolVars
<1>1. Leasing(e) /\ vm[e] # NoVm
  BY DEF InterruptLease, InterruptRelease, Leasing, ExclusiveLease
<1>2. /\ vm'[e] = NoVm /\ ~Leasing(e)'
      /\ \A f \in Envs \ {e} : vm'[f] = vm[f] /\ (Leasing(f)' <=> Leasing(f))
  BY DEF InterruptLease, InterruptRelease, Leave, Leasing
<1>3. Queued' = Queued /\ free' = free
  BY DEF InterruptLease, InterruptRelease, Queued
<1>4. active' \in {active, active \ {vm[e]}}
  BY DEF InterruptLease, InterruptRelease
<1>5. \A f \in Envs \ {e} : vm[f] # vm[e]
  BY <1>1 DEF ExclusiveLease
<1>6. \A f \in Envs : Leasing(f)' => vm'[f] \in active'
  BY <1>2, <1>4, <1>5 DEF ExclusiveLease
<1>7. QED
  BY <1>2, <1>3, <1>4, <1>6 DEF ExclusiveLease, Enrolled

(* Nor does one between popleft and the entry in _active.                   *)
LEMMA InterruptForgets ==
  ASSUME Inv, NEW e \in Envs, InterruptPop(e)
  PROVE  ExclusiveLease' /\ Enrolled' \subseteq Enrolled
<1>1. /\ Queued' \subseteq Queued
      /\ \A i, j \in 1 .. Len(free') : free'[i] = free'[j] => i = j
  BY PopTakesHead DEF InterruptPop
<1>2. \A f \in Envs : Leasing(f)' <=> Leasing(f)
  BY DEF InterruptPop, Leasing, Inv, TypeOK, OneRefresh
<1>3. UNCHANGED <<active, vm>>
  BY DEF InterruptPop
<1>4. QED
  BY <1>1, <1>2, <1>3 DEF ExclusiveLease, Enrolled, Inv

(* No step shares a VM, and only an interrupt forgets one.                  *)
LEMMA LeaseStep ==
  ASSUME Inv, [Next]_vars
  PROVE  ExclusiveLease' /\ ("interrupt" \notin Faults => Enrolled \subseteq Enrolled')
<1> DEFINE Goal == ExclusiveLease' /\ ("interrupt" \notin Faults => Enrolled \subseteq Enrolled')
<1> USE DEF poolVars, envVars, workerVars
<1>1. ASSUME NEW e \in Envs, Claim(e) PROVE Goal
  <2>1. CASE ClaimFast(e)
    BY <2>1, TakeLeases DEF ClaimFast, Leasing
  <2>2. CASE ClaimSlow(e)
    <3>1. \A f \in Envs : Leasing(f)' <=> Leasing(f)
      BY <2>2 DEF ClaimSlow, Leasing, Inv, TypeOK
    <3>2. QED
      BY <2>2, <3>1, OthersKeepLeases DEF ClaimSlow
  <2>3. CASE ClaimSecondLook(e)
    BY <2>3, TakeLeases DEF ClaimSecondLook, Leasing
  <2>4. CASE RefreshBegins(e)
    <3>1. \A f \in Envs : Leasing(f)' <=> Leasing(f)
      BY <2>4 DEF RefreshBegins, Leasing, Inv, TypeOK
    <3>2. QED
      BY <2>4, <3>1, OthersKeepLeases DEF RefreshBegins
  <2>5. CASE RefreshTakes(e)
    <3>1. ~Leasing(e)
      BY <1>1, <2>5 DEF RefreshTakes, Leasing, Inv, OneRefresh
    <3>2. QED
      BY <2>5, <3>1, TakeLeases DEF RefreshTakes
  <2>6. CASE RefreshFails(e)
    <3>1. env[e] = "refreshing"
      BY <2>6 DEF RefreshFails, Inv, OneRefresh
    <3>2. \A f \in Envs : Leasing(f)' <=> Leasing(f)
      BY <2>6, <3>1 DEF RefreshFails, Leasing, Inv, TypeOK
    <3>3. QED
      BY <2>6, <3>2, OthersKeepLeases DEF RefreshFails
  <2>7. ASSUME NEW v \in Vms, ProbeHealthy(e, v) PROVE Goal
    BY <2>7, ProbeEnrols
  <2>8. ASSUME NEW v \in Vms, ProbeUnhealthy(e, v) PROVE Goal
    BY <2>8, OthersKeepLeases DEF ProbeUnhealthy, Leasing
  <2>9. QED
    BY <1>1, <2>1, <2>2, <2>3, <2>4, <2>5, <2>6, <2>7, <2>8 DEF Claim
<1>2. ASSUME NEW e \in Envs, Lease(e) PROVE Goal
  <2>1. CASE StartCleansUp(e)
    BY <2>1, ReturnEndsLease DEF StartCleansUp, Leasing
  <2>2. CASE StopReleases(e)
    BY <2>2, ReturnEndsLease DEF StopReleases, Leasing
  <2>3. CASE Call(e) \/ StartAnswered(e) \/ StartRaises(e) \/ Stop(e) \/ StopInterrupted(e)
             \/ StopAnswered(e) \/ StopFails(e)
    <3>1. free' = free /\ active' = active /\ vm' = vm
      BY <2>3 DEF Call, StartAnswered, StartRaises, Stop, StopInterrupted, StopAnswered, StopFails
    <3>2. \A f \in Envs : Leasing(f)' <=> Leasing(f)
      BY <2>3 DEF Call, StartAnswered, StartRaises, Stop, StopInterrupted, StopAnswered, StopFails,
         Leasing, Inv, TypeOK
    <3>3. QED
      BY <3>1, <3>2, OthersKeepLeases
  <2>4. QED
    BY <1>2, <2>1, <2>2, <2>3 DEF Lease
<1>5. ASSUME NEW e \in Envs, Interrupt(e) PROVE Goal
  <2>1. "interrupt" \in Faults
    BY <1>5 DEF Interrupt, InterruptClaim, InterruptPop, InterruptOpen, InterruptLease, InterruptRelease
  <2>2. CASE InterruptClaim(e) \/ InterruptOpen(e)
    <3>1. free' = free /\ active' = active /\ vm' = vm
      BY <2>2 DEF InterruptClaim, InterruptOpen
    <3>2. \A f \in Envs : Leasing(f)' <=> Leasing(f)
      BY <2>2 DEF InterruptClaim, InterruptOpen, Leasing, Inv, TypeOK
    <3>3. QED
      BY <3>1, <3>2, OthersKeepLeases
  <2>3. QED
    BY <1>5, <2>1, <2>2, InterruptForgets, InterruptEndsLease DEF Interrupt
<1>3. CASE UNCHANGED vars \/ \E n \in Calls : WorkerStarts(n) \/ WorkerRefuses(n)
  <2>1. free' = free /\ active' = active /\ vm' = vm /\ env' = env
    BY <1>3 DEF vars, WorkerStarts, WorkerRefuses
  <2>2. QED
    BY <2>1, OthersKeepLeases DEF Leasing
<1>4. QED
  BY <1>1, <1>2, <1>3, <1>5 DEF Next

-----------------------------------------------------------------------------
(* Refreshing                                                               *)

LEMMA RefreshStep ==
  ASSUME Inv, [Next]_vars
  PROVE  OneRefresh'
<1> USE GceAssumption DEF Inv, TypeOK, OneRefresh, poolVars, envVars, workerVars
<1>1. ASSUME NEW e \in Envs, Claim(e) PROVE OneRefresh'
  <2>1. CASE ClaimFast(e)
    <3>1. Enrolled' = Enrolled
      BY <2>1, TakeLeases DEF ClaimFast, Leasing
    <3>2. QED
      BY <2>1, <3>1 DEF ClaimFast, Take
  <2>2. CASE ClaimSlow(e)
    BY <2>2 DEF ClaimSlow, Enrolled, Queued
  <2>3. CASE ClaimSecondLook(e)
    <3>1. Enrolled' = Enrolled
      BY <2>3, TakeLeases DEF ClaimSecondLook, Leasing
    <3>2. QED
      BY <2>3, <3>1 DEF ClaimSecondLook, Take
  <2>4. CASE RefreshBegins(e)
    BY <2>4 DEF RefreshBegins, Enrolled, Queued
  <2>5. CASE RefreshTakes(e)
    BY <1>1, <2>5 DEF RefreshTakes, Take
  <2>6. CASE RefreshFails(e)
    BY <2>6 DEF RefreshFails
  <2>7. ASSUME NEW v \in Vms, ProbeHealthy(e, v) PROVE OneRefresh'
    <3>1. Enrolled' = Enrolled \cup {v}
      BY <2>7, ProbeEnrols
    <3>2. QED
      BY <2>7, <3>1 DEF ProbeHealthy, Probe
  <2>8. ASSUME NEW v \in Vms, ProbeUnhealthy(e, v) PROVE OneRefresh'
    BY <2>8 DEF ProbeUnhealthy, Probe, Enrolled, Queued
  <2>9. QED
    BY <1>1, <2>1, <2>2, <2>3, <2>4, <2>5, <2>6, <2>7, <2>8 DEF Claim
<1>2. ASSUME NEW e \in Envs, Lease(e) PROVE OneRefresh'
  <2> USE DEF Call, StartAnswered, StartRaises, Stop, StopInterrupted, StopAnswered, StopFails
  <2>1. Enrolled' = Enrolled
    <3>1. CASE StartCleansUp(e)
      BY <3>1, ReturnEndsLease DEF StartCleansUp, Leasing
    <3>2. CASE StopReleases(e)
      BY <3>2, ReturnEndsLease DEF StopReleases, Leasing
    <3>3. CASE ~StartCleansUp(e) /\ ~StopReleases(e)
      BY <1>2, <3>3 DEF Lease, Enrolled, Queued
    <3>4. QED
      BY <3>1, <3>2, <3>3
  <2>2. refresher' = refresher /\ candidates' = candidates
    BY <1>2 DEF Lease, StartCleansUp, StopReleases, Return
  <2>3. \A f \in Envs : env'[f] = "refreshing" <=> env[f] = "refreshing"
    BY <1>2 DEF Lease, StartCleansUp, StopReleases, Return, Leave
  <2>4. QED
    BY <2>1, <2>2, <2>3
<1>5. ASSUME NEW e \in Envs, Interrupt(e) PROVE OneRefresh'
  <2>1. Enrolled' \subseteq Enrolled
    <3>1. CASE InterruptClaim(e) \/ InterruptOpen(e)
      BY <3>1 DEF InterruptClaim, InterruptOpen, Enrolled, Queued
    <3>2. QED
      BY <1>5, <3>1, InterruptForgets, InterruptEndsLease DEF Interrupt
  <2>2. CASE InterruptClaim(e)
    BY <2>1, <2>2 DEF InterruptClaim
  <2>3. CASE InterruptPop(e)
    BY <2>1, <2>3 DEF InterruptPop
  <2>4. CASE InterruptOpen(e) \/ InterruptLease(e) \/ InterruptRelease(e)
    <3>1. refresher' = refresher /\ candidates' = candidates
      BY <2>4 DEF InterruptOpen, InterruptLease, InterruptRelease
    <3>2. \A f \in Envs : env'[f] = "refreshing" <=> env[f] = "refreshing"
      BY <2>4 DEF InterruptOpen, InterruptLease, InterruptRelease, Leave
    <3>3. QED
      BY <2>1, <3>1, <3>2
  <2>5. QED
    BY <1>5, <2>2, <2>3, <2>4 DEF Interrupt
<1>3. CASE UNCHANGED vars \/ \E n \in Calls : WorkerStarts(n) \/ WorkerRefuses(n)
  BY <1>3 DEF vars, WorkerStarts, WorkerRefuses, Enrolled, Queued
<1>4. QED
  BY <1>1, <1>2, <1>3, <1>5 DEF Next

-----------------------------------------------------------------------------

(* Whatever fails, the pool's invariant holds.                              *)
THEOREM Invariance == Spec => []Inv
<1>1. Inv /\ [Next]_vars => Inv'
  BY TypeStep, LeaseStep, RefreshStep DEF Inv
<1>2. QED
  BY InvInit, <1>1, PTL DEF Spec

(* The variables of the pool, the environments and the daemons keep their   *)
(* types.                                                                   *)
THEOREM TypeCorrect == Spec => []TypeOK
<1>1. Inv => TypeOK
  BY DEF Inv
<1>2. QED
  BY Invariance, <1>1, PTL

(* claim() never hands out a worker that another environment has on lease,  *)
(* and never one that waits in the queue as well.                           *)
THEOREM LeasesExclusive == Spec => []ExclusiveLease
<1>1. Inv => ExclusiveLease
  BY DEF Inv
<1>2. QED
  BY Invariance, <1>1, PTL

(* At most one claim refreshes, and it probes no VM the pool has already.   *)
THEOREM RefreshesAlone == Spec => []OneRefresh
<1>1. Inv => OneRefresh
  BY DEF Inv
<1>2. QED
  BY Invariance, <1>1, PTL

(* When nothing is interrupted, the coordinator forgets no worker it has    *)
(* enrolled.                                                                *)
THEOREM EnrolmentLasts ==
  ASSUME "interrupt" \notin Faults
  PROVE  Spec => WorkersStayEnrolled
<1>1. Inv /\ [Next]_vars => [Enrolled \subseteq Enrolled']_vars
  BY LeaseStep
<1>2. QED
  BY Invariance, <1>1, PTL DEF Spec, WorkersStayEnrolled

-----------------------------------------------------------------------------
(* Leaks                                                                    *)

LEMMA ClaimedStep ==
  ASSUME Inv, ClaimedAreLeased, [Next]_vars
  PROVE  ClaimedAreLeased'
<1> USE DEF ClaimedAreLeased, Inv, TypeOK, poolVars, envVars, workerVars
<1>1. ASSUME NEW e \in Envs, ~Leasing(e), Take(e) PROVE ClaimedAreLeased'
  <2>1. vm[e] = NoVm /\ vm'[e] = Head(free) /\ \A f \in Envs \ {e} : vm'[f] = vm[f]
    BY <1>1 DEF Take, ExclusiveLease
  <2>2. active' = active \cup {Head(free)} /\ lost' = lost
    BY <1>1 DEF Take
  <2>3. \A v \in active : v # NoVm
    BY GceAssumption
  <2>4. Head(free) \notin active
    <3>1. Len(free) \in Nat \ {0} /\ Head(free) = free[1]
      BY <1>1 DEF Take
    <3>2. QED
      BY <3>1 DEF Queued, ExclusiveLease
  <2>5. QED
    BY <2>1, <2>2, <2>3, <2>4
<1>2. ASSUME NEW e \in Envs, Leave(e), active' = active \ {vm[e]}, lost' = lost PROVE ClaimedAreLeased'
  <2>1. vm'[e] = NoVm /\ \A f \in Envs \ {e} : vm'[f] = vm[f]
    BY <1>2 DEF Leave
  <2>2. QED
    BY <1>2, <2>1, GceAssumption
<1>3. ASSUME NEW e \in Envs, Claim(e) PROVE ClaimedAreLeased'
  <2>1. CASE ClaimFast(e) \/ ClaimSecondLook(e) \/ RefreshTakes(e)
    <3>1. ~Leasing(e)
      BY <2>1 DEF ClaimFast, ClaimSecondLook, RefreshTakes, Leasing, OneRefresh
    <3>2. QED
      BY <1>1, <2>1, <3>1 DEF ClaimFast, ClaimSecondLook, RefreshTakes
  <2>2. CASE ~(ClaimFast(e) \/ ClaimSecondLook(e) \/ RefreshTakes(e))
    BY <1>3, <2>2 DEF Claim, ClaimSlow, RefreshBegins, RefreshFails, ProbeHealthy, ProbeUnhealthy, Probe
  <2>3. QED
    BY <2>1, <2>2
<1>4. ASSUME NEW e \in Envs, InterruptLease(e) PROVE ClaimedAreLeased'
  <2>1. vm[e] \in active
    BY <1>4 DEF InterruptLease, ExclusiveLease, Leasing
  <2>2. vm'[e] = NoVm /\ \A f \in Envs \ {e} : vm'[f] = vm[f] /\ vm[f] # vm[e]
    <3>1. vm[e] # NoVm
      BY <2>1, GceAssumption
    <3>2. QED
      BY <1>4, <3>1 DEF InterruptLease, Leave, ExclusiveLease
  <2>3. lost' = lost \cup {vm[e]} /\ active' = active
    BY <1>4 DEF InterruptLease
  <2>4. NoVm \notin lost'
    BY <2>1, <2>3, GceAssumption
  <2>5. QED
    BY <2>1, <2>2, <2>3, <2>4
<1>5. ASSUME NEW e \in Envs, Lease(e) PROVE ClaimedAreLeased'
  <2>1. CASE StartCleansUp(e) \/ StopReleases(e)
    BY <1>2, <2>1 DEF StartCleansUp, StopReleases, Return
  <2>2. CASE ~(StartCleansUp(e) \/ StopReleases(e))
    BY <1>5, <2>2 DEF Lease, Call, StartAnswered, StartRaises, Stop, StopInterrupted, StopAnswered, StopFails
  <2>3. QED
    BY <2>1, <2>2
<1>8. ASSUME NEW e \in Envs, Interrupt(e) PROVE ClaimedAreLeased'
  <2>1. CASE InterruptRelease(e)
    BY <1>2, <2>1 DEF InterruptRelease
  <2>2. CASE InterruptClaim(e) \/ InterruptPop(e) \/ InterruptOpen(e)
    BY <2>2 DEF InterruptClaim, InterruptPop, InterruptOpen
  <2>3. QED
    BY <1>4, <1>8, <2>1, <2>2 DEF Interrupt
<1>6. CASE UNCHANGED vars \/ \E n \in Calls : WorkerStarts(n) \/ WorkerRefuses(n)
  BY <1>6 DEF vars, WorkerStarts, WorkerRefuses
<1>7. QED
  BY <1>3, <1>5, <1>6, <1>8 DEF Next

(* Whatever fails, a VM in _active is that of an environment, or an         *)
(* interrupt has left its environment without a channel, in start(), in its *)
(* clean-up or in stop(); and such a VM is leased to nobody again.          *)
THEOREM ClaimsAreHeld == Spec => []ClaimedAreLeased
<1>1. Init => ClaimedAreLeased
  BY DEF Init, ClaimedAreLeased
<1>2. Inv /\ ClaimedAreLeased /\ [Next]_vars => ClaimedAreLeased'
  BY ClaimedStep
<1>3. QED
  BY Invariance, <1>1, <1>2, PTL DEF Spec

-----------------------------------------------------------------------------
(* Containers                                                               *)

(* The environment's call may stand for a container.                        *)
Holds(e) == start[e] # 0

(* What the daemons and the environments know of each other: a container    *)
(* that runs or may come is that of the call of an environment on lease, or *)
(* nobody will stop it; and a lease about to end has stopped its own, or    *)
(* will not.                                                                *)
ContainersAreTracked ==
    /\ \A n \in Calls : n > Len(calls) => container[n] = "none"
    /\ \A e \in Envs : Holds(e) =>
           Leasing(e) /\ start[e] \in 1 .. Len(calls) /\ calls[start[e]] = vm[e]
    /\ \A e \in Envs : env[e] \in {"starting", "started", "stopping"} => Holds(e)
    /\ \A e \in Envs : env[e] = "claimed" => ~Holds(e)
    /\ \A e \in Envs : env[e] \in {"failing", "closing"} /\ Holds(e) =>
           container[start[e]] \in {"refused", "gone"} \/ start[e] \in stray
    /\ \A n \in (1 .. Len(calls)) \ stray : container[n] \in {"asked", "up"} =>
           \E e \in Envs : start[e] = n

LEMMA TrackedCall ==
  ASSUME Inv, ContainersAreTracked, NEW e \in Envs, Call(e)
  PROVE  ContainersAreTracked'
<1> DEFINE n == Len(calls) + 1
<1> USE DEF Inv, TypeOK, Calls, Holds
<1>1. /\ Len(calls) \in Nat /\ Len(calls') = n /\ n \in Calls /\ n # 0
      /\ calls'[n] = vm[e] /\ vm' = vm
      /\ \A k \in 1 .. Len(calls) : calls'[k] = calls[k]
  <2>1. vm[e] \in Vms
    BY DEF Call, ExclusiveLease, Leasing
  <2>2. QED
    BY <2>1, GceAssumption DEF Call
<1>2. /\ start'[e] = n /\ env'[e] = "starting"
      /\ \A f \in Envs \ {e} : start'[f] = start[f] /\ env'[f] = env[f]
      /\ container'[n] = "asked"
      /\ \A k \in Calls \ {n} : container'[k] = container[k]
  BY <1>1 DEF Call, EnvStates
<1>3. Leasing(e)' /\ \A f \in Envs \ {e} : Leasing(f)' <=> Leasing(f)
  BY <1>2 DEF Leasing
<1>4. 1 .. Len(calls') = (1 .. Len(calls)) \cup {n} /\ 1 .. Len(calls) \subseteq Calls \ {n}
  BY <1>1, GceAssumption
<1> HIDE DEF n, Calls
<1>5. \A k \in Calls : k > Len(calls') => container'[k] = "none"
  BY <1>1, <1>2 DEF ContainersAreTracked, n, Calls
<1>6. \A f \in Envs : Holds(f)' =>
          Leasing(f)' /\ start'[f] \in 1 .. Len(calls') /\ calls'[start'[f]] = vm'[f]
  <2>1. n \in 1 .. Len(calls')
    BY <1>4
  <2>2. ASSUME NEW f \in Envs \ {e}, Holds(f)'
        PROVE  Leasing(f)' /\ start'[f] \in 1 .. Len(calls') /\ calls'[start'[f]] = vm'[f]
    <3>1. Leasing(f) /\ start[f] \in 1 .. Len(calls) /\ calls[start[f]] = vm[f]
      BY <1>2, <2>2 DEF ContainersAreTracked
    <3>2. QED
      BY <1>1, <1>2, <1>3, <1>4, <3>1
  <2>3. QED
    BY <1>1, <1>2, <1>3, <2>1, <2>2
<1>7. stray' = stray
  BY DEF Call
<1>8. ASSUME NEW f \in Envs, env'[f] \in {"failing", "closing"}, Holds(f)'
      PROVE  container'[start'[f]] \in {"refused", "gone"} \/ start'[f] \in stray'
  <2>1. f # e /\ env[f] \in {"failing", "closing"} /\ Holds(f)
    BY <1>2, <1>8
  <2>2. start[f] \in Calls \ {n} /\ (container[start[f]] \in {"refused", "gone"} \/ start[f] \in stray)
    BY <1>4, <2>1 DEF ContainersAreTracked
  <2>3. QED
    BY <1>2, <1>7, <2>1, <2>2
<1>9. ASSUME NEW k \in (1 .. Len(calls')) \ stray', container'[k] \in {"asked", "up"}
      PROVE  \E f \in Envs : start'[f] = k
  <2>1. CASE k = n
    BY <1>2, <2>1
  <2>2. CASE k \in 1 .. Len(calls)
    <3>1. PICK f \in Envs : start[f] = k
      BY <1>2, <1>4, <1>7, <1>9, <2>2 DEF ContainersAreTracked
    <3>2. start[e] # k
      BY <1>1, <2>2 DEF Call, ContainersAreTracked
    <3>3. QED
      BY <1>2, <3>1, <3>2
  <2>3. QED
    BY <1>4, <2>1, <2>2
<1>10. \A f \in Envs : /\ env'[f] \in {"starting", "started", "stopping"} => Holds(f)'
                       /\ env'[f] = "claimed" => ~Holds(f)'
  BY <1>1, <1>2 DEF ContainersAreTracked
<1>11. QED
  BY <1>5, <1>6, <1>8, <1>9, <1>10 DEF ContainersAreTracked

(* A lease ends when its container does not run and will not, or when       *)
(* nobody will stop it.                                                     *)
LEMMA TrackedEnd ==
  ASSUME Inv, ContainersAreTracked, NEW e \in Envs, Leave(e),
         Holds(e) => container[start[e]] \notin {"asked", "up"} \/ start[e] \in stray',
         stray \subseteq stray', UNCHANGED workerVars
  PROVE  ContainersAreTracked'
<1> USE DEF Inv, TypeOK, workerVars, Holds
<1>1. /\ env'[e] = "idle" /\ start'[e] = 0
      /\ \A f \in Envs \ {e} : /\ vm'[f] = vm[f] /\ env'[f] = env[f] /\ start'[f] = start[f]
                               /\ Leasing(f)' <=> Leasing(f)
  BY DEF Leave, Leasing, EnvStates
<1>2. \A k \in (1 .. Len(calls)) \ stray' : container[k] \in {"asked", "up"} =>
          \E f \in Envs \ {e} : start[f] = k
  <2>1. ASSUME NEW k \in (1 .. Len(calls)) \ stray', container[k] \in {"asked", "up"}
        PROVE  \E f \in Envs \ {e} : start[f] = k
    <3>1. PICK f \in Envs : start[f] = k
      BY <2>1 DEF ContainersAreTracked
    <3>2. k # 0
      BY <2>1
    <3>3. QED
      BY <2>1, <3>1, <3>2
  <2>2. QED
    BY <2>1
<1>3. \A f \in Envs : Holds(f)' => f # e /\ Holds(f)
  BY <1>1
<1>4. \A f \in Envs : Holds(f)' =>
          Leasing(f)' /\ start'[f] \in 1 .. Len(calls') /\ calls'[start'[f]] = vm'[f]
  BY <1>1, <1>3 DEF ContainersAreTracked
<1>5. \A f \in Envs : /\ env'[f] \in {"starting", "started", "stopping"} => Holds(f)'
                      /\ env'[f] = "claimed" => ~Holds(f)'
  BY <1>1 DEF ContainersAreTracked
<1>6. \A f \in Envs : env'[f] \in {"failing", "closing"} /\ Holds(f)' =>
          container'[start'[f]] \in {"refused", "gone"} \/ start'[f] \in stray'
  BY <1>1, <1>3 DEF ContainersAreTracked
<1>7. \A k \in (1 .. Len(calls')) \ stray' : container'[k] \in {"asked", "up"} =>
          \E f \in Envs : start'[f] = k
  BY <1>1, <1>2
<1>8. QED
  BY <1>4, <1>5, <1>6, <1>7 DEF ContainersAreTracked

(* A step that leaves the calls alone, gives up none but its own, and keeps *)
(* whether an environment is in its lease.                                  *)
LEMMA TrackedOn ==
  ASSUME Inv, ContainersAreTracked, NEW e \in Envs, UNCHANGED <<vm, start, workerVars>>,
         \A f \in Envs : Leasing(f)' <=> Leasing(f),
         \A f \in Envs \ {e} : env'[f] = env[f], stray \subseteq stray',
         env'[e] \in {"starting", "started", "stopping"} => Holds(e),
         env'[e] # "claimed",
         env'[e] \in {"failing", "closing"} /\ Holds(e) =>
             container[start[e]] \in {"refused", "gone"} \/ start[e] \in stray'
  PROVE  ContainersAreTracked'
<1> USE DEF workerVars, Holds
<1>1. \A f \in Envs : /\ env'[f] \in {"starting", "started", "stopping"} => Holds(f)'
                      /\ env'[f] = "claimed" => ~Holds(f)'
  BY DEF ContainersAreTracked
<1>2. \A f \in Envs : env'[f] \in {"failing", "closing"} /\ Holds(f)' =>
          container'[start'[f]] \in {"refused", "gone"} \/ start'[f] \in stray'
  BY DEF ContainersAreTracked
<1>3. QED
  BY <1>1, <1>2 DEF ContainersAreTracked

LEMMA TrackedStep ==
  ASSUME Inv, ContainersAreTracked, [Next]_vars
  PROVE  ContainersAreTracked'
<1> USE DEF Inv, TypeOK, poolVars, envVars, workerVars
<1>1. ASSUME UNCHANGED <<vm, start, stray, workerVars>>,
             \A f \in Envs : Leasing(f)' <=> Leasing(f),
             \A f \in Envs : env'[f] = env[f] \/ env'[f] \in {"blocked", "refreshing", "idle"}
      PROVE  ContainersAreTracked'
  BY <1>1 DEF ContainersAreTracked, Holds
<1>2. ASSUME NEW e \in Envs, Claim(e) PROVE ContainersAreTracked'
  <2>1. CASE ClaimFast(e) \/ ClaimSecondLook(e) \/ RefreshTakes(e)
    <3>1. ~Leasing(e) /\ ~Holds(e)
      BY <2>1 DEF ClaimFast, ClaimSecondLook, RefreshTakes, Leasing, OneRefresh, ContainersAreTracked
    <3>2. Take(e)
      BY <2>1 DEF ClaimFast, ClaimSecondLook, RefreshTakes
    <3>3. /\ UNCHANGED <<start, stray, calls, container>> /\ env'[e] = "claimed" /\ Leasing(e)'
          /\ \A f \in Envs \ {e} : /\ vm'[f] = vm[f] /\ env'[f] = env[f]
                                   /\ Leasing(f)' <=> Leasing(f)
      BY <3>2 DEF Take, Leasing, EnvStates
    <3>4. QED
      BY <3>1, <3>3 DEF ContainersAreTracked, Holds
  <2>2. CASE ~(ClaimFast(e) \/ ClaimSecondLook(e) \/ RefreshTakes(e))
    <3>1. UNCHANGED <<vm, start, stray, workerVars>>
      BY <1>2, <2>2 DEF Claim, ClaimSlow, RefreshBegins, RefreshFails, ProbeHealthy, ProbeUnhealthy
    <3>2. /\ \A f \in Envs : Leasing(f)' <=> Leasing(f)
          /\ \A f \in Envs : env'[f] = env[f] \/ env'[f] \in {"blocked", "refreshing", "idle"}
      BY <1>2, <2>2 DEF Claim, ClaimSlow, RefreshBegins, RefreshFails, ProbeHealthy, ProbeUnhealthy,
         Leasing, OneRefresh
    <3>3. QED
      BY <1>1, <3>1, <3>2
  <2>3. QED
    BY <2>1, <2>2
<1>3. ASSUME NEW e \in Envs, Lease(e) PROVE ContainersAreTracked'
  <2>1. CASE StartCleansUp(e) \/ StopReleases(e)
    <3>1. Leave(e) /\ UNCHANGED <<stray, workerVars>>
      BY <2>1 DEF StartCleansUp, StopReleases, Return
    <3>2. Holds(e) => container[start[e]] \in {"refused", "gone"} \/ start[e] \in stray
      BY <2>1 DEF StartCleansUp, StopReleases, ContainersAreTracked
    <3>3. QED
      BY <3>1, <3>2, TrackedEnd
  <2>2. CASE StopAnswered(e)
    <3>1. Holds(e) /\ start[e] \in 1 .. Len(calls) /\ start[e] \in Calls
      BY <2>2 DEF StopAnswered, ContainersAreTracked, Calls
    <3>2. /\ container'[start[e]] = "gone"
          /\ \A k \in Calls \ {start[e]} : container'[k] = container[k]
          /\ \A f \in Envs \ {e} : env'[f] = env[f]
          /\ env'[e] = "closing"
      BY <2>2, <3>1 DEF StopAnswered, EnvStates
    <3>3. \A f \in Envs : Leasing(f)' <=> Leasing(f)
      BY <2>2, <3>2 DEF Leasing, StopAnswered
    <3>4. \A f \in Envs : Holds(f) => start[f] \in Calls
      BY DEF ContainersAreTracked, Calls
    <3>5. ASSUME NEW f \in Envs, env'[f] \in {"failing", "closing"}, Holds(f)
          PROVE  container'[start[f]] \in {"refused", "gone"} \/ start[f] \in stray
      <4>1. f = e \/ env[f] \in {"failing", "closing"}
        BY <3>2, <3>5
      <4>2. QED
        BY <3>2, <3>4, <3>5, <4>1 DEF ContainersAreTracked
    <3>6. \A k \in Calls : container'[k] \in {"none", "asked", "up"} => container'[k] = container[k]
      BY <3>2
    <3>7. \A k \in 1 .. Len(calls) : k \in Calls
      BY GceAssumption DEF Calls
    <3>8. \A k \in (1 .. Len(calls)) \ stray : container'[k] \in {"asked", "up"} =>
              \E f \in Envs : start[f] = k
      BY <3>6, <3>7 DEF ContainersAreTracked
    <3>9. \A k \in Calls : k > Len(calls) => container'[k] = "none"
      BY <3>1, <3>2 DEF ContainersAreTracked, Calls
    <3>10. calls' = calls /\ start' = start /\ vm' = vm /\ stray' = stray
      BY <2>2 DEF StopAnswered
    <3>11. \A f \in Envs : /\ env'[f] \in {"starting", "started", "stopping"} => Holds(f)
                           /\ env'[f] = "claimed" => ~Holds(f)
      BY <3>2 DEF ContainersAreTracked
    <3>12. QED
      BY <3>3, <3>5, <3>8, <3>9, <3>10, <3>11 DEF ContainersAreTracked, Holds
  <2>3. CASE StartAnswered(e) \/ Stop(e)
    <3>1. Holds(e)
      BY <2>3 DEF StartAnswered, Stop, ContainersAreTracked
    <3>2. QED
      BY <2>3, <3>1, TrackedOn DEF StartAnswered, Stop, Leasing
  <2>4. CASE StartRaises(e)
    <3>1. env'[e] = "failing" /\ stray \subseteq stray' /\ UNCHANGED <<vm, start, workerVars>>
      BY <2>4 DEF StartRaises, EnvStates
    <3>2. container[start[e]] = "refused" \/ start[e] = 0 \/ start[e] \in stray'
      BY <2>4 DEF StartRaises, CallOf
    <3>3. \A f \in Envs : Leasing(f)' <=> Leasing(f)
      BY <2>4 DEF StartRaises, Leasing
    <3>4. \A f \in Envs \ {e} : env'[f] = env[f]
      BY <2>4 DEF StartRaises
    <3>5. QED
      BY <3>1, <3>2, <3>3, <3>4, TrackedOn DEF Holds
  <2>5. CASE StopInterrupted(e) \/ StopFails(e)
    <3>1. env'[e] = "closing" /\ stray' = stray \cup CallOf(e) /\ UNCHANGED <<vm, start, workerVars>>
      BY <2>5 DEF StopInterrupted, StopFails, EnvStates
    <3>2. Holds(e) => start[e] \in stray'
      BY <3>1 DEF CallOf, Holds
    <3>3. \A f \in Envs : Leasing(f)' <=> Leasing(f)
      BY <2>5 DEF StopInterrupted, StopFails, Leasing
    <3>4. \A f \in Envs \ {e} : env'[f] = env[f]
      BY <2>5 DEF StopInterrupted, StopFails
    <3>5. QED
      BY <3>1, <3>2, <3>3, <3>4, TrackedOn
  <2>6. QED
    BY <1>3, <2>1, <2>2, <2>3, <2>4, <2>5, TrackedCall DEF Lease
<1>4. ASSUME NEW e \in Envs, Interrupt(e) PROVE ContainersAreTracked'
  <2>1. CASE InterruptClaim(e) \/ InterruptPop(e)
    <3>1. /\ \A f \in Envs : Leasing(f)' <=> Leasing(f)
          /\ \A f \in Envs : env'[f] = env[f] \/ env'[f] = "idle"
      BY <2>1 DEF InterruptClaim, InterruptPop, Leasing, OneRefresh
    <3>2. QED
      BY <1>1, <2>1, <3>1 DEF InterruptClaim, InterruptPop
  <2>2. CASE InterruptOpen(e)
    BY <2>2, TrackedOn DEF InterruptOpen, Leasing
  <2>3. CASE InterruptLease(e)
    <3>1. Leave(e) /\ stray' = stray \cup CallOf(e) /\ UNCHANGED workerVars
      BY <2>3 DEF InterruptLease
    <3>2. Holds(e) => start[e] \in stray'
      BY <3>1 DEF CallOf, Holds
    <3>3. QED
      BY <3>1, <3>2, TrackedEnd
  <2>4. CASE InterruptRelease(e)
    <3>1. Leave(e) /\ UNCHANGED <<stray, workerVars>>
      BY <2>4 DEF InterruptRelease
    <3>2. Holds(e) => container[start[e]] \in {"refused", "gone"} \/ start[e] \in stray
      BY <2>4 DEF InterruptRelease, ContainersAreTracked
    <3>3. QED
      BY <3>1, <3>2, TrackedEnd
  <2>5. QED
    BY <1>4, <2>1, <2>2, <2>3, <2>4 DEF Interrupt
<1>5. ASSUME NEW n \in Calls, WorkerStarts(n) \/ WorkerRefuses(n) PROVE ContainersAreTracked'
  <2>1. /\ container[n] = "asked" /\ container'[n] \in {"up", "refused"}
        /\ \A k \in Calls \ {n} : container'[k] = container[k]
        /\ UNCHANGED <<poolVars, envVars, calls>>
    BY <1>5 DEF WorkerStarts, WorkerRefuses
  <2>2. \A f \in Envs : Leasing(f)' <=> Leasing(f)
    BY <2>1 DEF Leasing
  <2>3. \A k \in Calls : /\ container'[k] \in {"asked", "up"} => container[k] \in {"asked", "up"}
                         /\ container[k] \in {"refused", "gone"} => container'[k] = container[k]
                         /\ container[k] = "none" => container'[k] = "none"
    BY <2>1
  <2>4. \A k \in 1 .. Len(calls) : k \in Calls
    BY GceAssumption DEF Calls
  <2>5. \A f \in Envs : Holds(f) => start[f] \in Calls
    BY <2>4 DEF ContainersAreTracked
  <2>6. QED
    BY <2>1, <2>2, <2>3, <2>4, <2>5 DEF ContainersAreTracked, Holds
<1>6. CASE UNCHANGED vars
  BY <1>6 DEF vars, ContainersAreTracked, Leasing, Holds
<1>7. QED
  BY <1>2, <1>3, <1>4, <1>5, <1>6 DEF Next

LEMMA TrackedAlways == Spec => []ContainersAreTracked
<1>1. Init => ContainersAreTracked
  BY DEF Init, ContainersAreTracked, Holds
<1>2. Inv /\ ContainersAreTracked /\ [Next]_vars => ContainersAreTracked'
  BY TrackedStep
<1>3. QED
  BY Invariance, <1>1, <1>2, PTL DEF Spec

(* Whatever fails, a worker handed out again runs no container but those    *)
(* that a failed call or an interrupt has left there.                       *)
THEOREM QueueIsClean == Spec => []QueuedAreClean
<1>1. ASSUME Inv, ContainersAreTracked PROVE QueuedAreClean
  <2>1. SUFFICES ASSUME NEW v \in Queued, NEW n \in Containers(v) \ stray PROVE FALSE
    BY DEF QueuedAreClean
  <2>2. PICK e \in Envs : Leasing(e) /\ vm[e] = v
    BY <1>1, <2>1 DEF Containers, ContainersAreTracked, Holds
  <2>3. QED
    BY <1>1, <2>1, <2>2 DEF Inv, ExclusiveLease
<1>2. QED
  BY Invariance, TrackedAlways, <1>1, PTL

(* Of the containers that somebody will stop, no daemon has two.            *)
THEOREM OneTended == Spec => []OneContainerTended
<1>1. ASSUME Inv, ContainersAreTracked PROVE OneContainerTended
  <2>1. SUFFICES ASSUME NEW v \in Vms PROVE Cardinality(Containers(v) \ stray) <= 1
    BY DEF OneContainerTended
  <2>2. ASSUME NEW n \in Containers(v) \ stray, NEW k \in Containers(v) \ stray PROVE n = k
    <3>1. PICK e \in Envs : Leasing(e) /\ start[e] = n /\ vm[e] = v
      BY <1>1 DEF Containers, ContainersAreTracked, Holds
    <3>2. PICK f \in Envs : Leasing(f) /\ start[f] = k /\ vm[f] = v
      BY <1>1 DEF Containers, ContainersAreTracked, Holds
    <3>3. QED
      BY <1>1, <3>1, <3>2 DEF Inv, ExclusiveLease
  <2>3. CASE Containers(v) \ stray = {}
    BY <2>3, FS_EmptySet
  <2>4. CASE Containers(v) \ stray # {}
    <3>1. PICK n : n \in Containers(v) \ stray
      BY <2>4
    <3>2. Containers(v) \ stray = {n}
      BY <2>2, <3>1
    <3>3. QED
      BY <3>2, FS_Singleton
  <2>5. QED
    BY <2>3, <2>4
<1>2. QED
  BY Invariance, TrackedAlways, <1>1, PTL

(* When no call fails and nothing is interrupted, nothing is left behind.   *)
LEMMA NoneStray ==
  ASSUME Faults = {}
  PROVE  Spec => [](stray = {})
<1> DEFINE Smooth == stray = {} /\ \A e \in Envs : env[e] # "interrupted"
<1>1. Init => Smooth
  BY DEF Init
<1>2. ASSUME Inv, Smooth, [Next]_vars PROVE Smooth'
  <2> USE <1>2 DEF Inv, TypeOK, poolVars, envVars
  <2>1. ASSUME NEW e \in Envs, Claim(e) PROVE Smooth'
    BY <2>1 DEF Claim, ClaimFast, ClaimSlow, ClaimSecondLook, RefreshBegins, RefreshTakes, RefreshFails,
       ProbeHealthy, ProbeUnhealthy, Take
  <2>2. ASSUME NEW e \in Envs, Lease(e) PROVE Smooth'
    <3>1. ~(StopInterrupted(e) \/ StopFails(e))
      BY DEF StopInterrupted, StopFails
    <3>2. QED
      BY <2>2, <3>1 DEF Lease, Call, StartAnswered, StartRaises, StartCleansUp, Stop, StopAnswered,
         StopReleases, Return, Leave
  <2>6. ASSUME NEW e \in Envs, Interrupt(e) PROVE Smooth'
    BY <2>6 DEF Interrupt, InterruptClaim, InterruptPop, InterruptOpen, InterruptLease, InterruptRelease
  <2>3. ASSUME NEW n \in Calls, WorkerStarts(n) \/ WorkerRefuses(n) PROVE Smooth'
    BY <2>3 DEF WorkerStarts, WorkerRefuses
  <2>4. CASE UNCHANGED vars
    BY <2>4 DEF vars
  <2>5. QED
    BY <1>2, <2>1, <2>2, <2>3, <2>4, <2>6 DEF Next
<1>3. QED
  BY Invariance, <1>1, <1>2, PTL DEF Spec

(* Then a daemon never has two containers, as the protocol says.            *)
THEOREM OneContainer ==
  ASSUME Faults = {}
  PROVE  Spec => []OneContainerPerWorker
<1>1. OneContainerTended /\ stray = {} => OneContainerPerWorker
  <2>1. ASSUME stray = {}, NEW v \in Vms PROVE Containers(v) \ stray = Containers(v)
    BY <2>1
  <2>2. QED
    BY <2>1 DEF OneContainerTended, OneContainerPerWorker
<1>2. QED
  BY OneTended, NoneStray, <1>1, PTL

-----------------------------------------------------------------------------
(* Refinement                                                               *)

(* Calls that were given up are calls that were made.                       *)
StrayWereCalled == stray \subseteq 1 .. Len(calls)

LEMMA StrayStep ==
  ASSUME Inv, ContainersAreTracked, StrayWereCalled, [Next]_vars
  PROVE  StrayWereCalled'
<1> USE DEF StrayWereCalled, Inv, TypeOK, poolVars, envVars, workerVars
<1>1. ASSUME NEW e \in Envs, Claim(e) PROVE StrayWereCalled'
  BY <1>1 DEF Claim, ClaimFast, ClaimSlow, ClaimSecondLook, RefreshBegins, RefreshTakes,
     RefreshFails, ProbeHealthy, ProbeUnhealthy, Take
<1>2. ASSUME NEW e \in Envs, Call(e) PROVE StrayWereCalled'
  <2>1. vm[e] \in Vms
    BY <1>2 DEF Call, Leasing, ExclusiveLease
  <2>2. Len(calls) \in Nat /\ Len(calls') = Len(calls) + 1 /\ stray' = stray
    BY <1>2, <2>1 DEF Call
  <2>3. QED
    BY <2>2
<1>3. ASSUME NEW e \in Envs PROVE CallOf(e) \subseteq 1 .. Len(calls)
  BY <1>3 DEF ContainersAreTracked, CallOf, Holds
<1>4. ASSUME NEW e \in Envs, Lease(e) PROVE StrayWereCalled'
  <2>1. CASE StartRaises(e) \/ StopInterrupted(e) \/ StopFails(e)
    BY <1>3, <2>1 DEF StartRaises, StopInterrupted, StopFails
  <2>2. QED
    BY <1>2, <1>4, <2>1 DEF Lease, StartAnswered, StartCleansUp, Stop, StopAnswered, StopReleases
<1>5. ASSUME NEW e \in Envs, Interrupt(e) PROVE StrayWereCalled'
  <2>1. CASE InterruptLease(e)
    BY <1>3, <2>1 DEF InterruptLease
  <2>2. QED
    BY <1>5, <2>1 DEF Interrupt, InterruptClaim, InterruptPop, InterruptOpen, InterruptRelease
<1>6. CASE UNCHANGED vars \/ \E n \in Calls : WorkerStarts(n) \/ WorkerRefuses(n)
  BY <1>6 DEF vars, WorkerStarts, WorkerRefuses
<1>7. QED
  BY <1>1, <1>4, <1>5, <1>6 DEF Next

(* The environment will stop the container of its call.                     *)
Tends(e) == Holds(e) /\ start[e] \notin stray /\ container[start[e]] \in {"asked", "up"}

Stage == [v \in Vms |-> StageOf(v)]
Tended == [v \in Vms |-> Containers(v) \ stray # {}]

(* Where a VM stands by the coordinator's book-keeping, and that what is    *)
(* tended on it is its tenant's.                                            *)
Views ==
    /\ \A v \in Vms :
        /\ Stage[v] = "lost" <=> v \in lost
        /\ Stage[v] = "leased" <=> v \in active /\ v \notin lost
        /\ Stage[v] = "free" <=> v \in Queued
        /\ Stage[v] = "unknown" <=> v \notin Enrolled
        /\ Tended[v] \in BOOLEAN
        /\ Tended[v] <=> \E e \in Envs : vm[e] = v /\ Tends(e)
    /\ Stage = [v \in Vms |-> Stage[v]] /\ Tended = [v \in Vms |-> Tended[v]]
    /\ \A v \in Vms : Stage[v] \in Leases!Stages

LEMMA ViewsHold == Inv /\ ClaimedAreLeased /\ ContainersAreTracked => Views
<1> SUFFICES ASSUME Inv, ClaimedAreLeased, ContainersAreTracked PROVE Views
  OBVIOUS
<1>1. ASSUME NEW v \in Vms
      PROVE  /\ StageOf(v) = "lost" <=> v \in lost
             /\ StageOf(v) = "leased" <=> v \in active /\ v \notin lost
             /\ StageOf(v) = "free" <=> v \in Queued
             /\ StageOf(v) = "unknown" <=> v \notin Enrolled
             /\ StageOf(v) \in Leases!Stages
  <2>1. lost \subseteq active /\ Queued \cap active = {}
    BY DEF ClaimedAreLeased, Inv, ExclusiveLease
  <2>2. CASE v \in lost
    BY <2>1, <2>2 DEF StageOf, Enrolled, Leases!Stages
  <2>3. CASE v \in active \ lost
    BY <2>1, <2>3 DEF StageOf, Enrolled, Leases!Stages
  <2>4. CASE v \in Queued
    BY <2>1, <2>4 DEF StageOf, Enrolled, Leases!Stages
  <2>5. CASE v \notin Enrolled
    BY <2>1, <2>5 DEF StageOf, Enrolled, Leases!Stages
  <2>6. QED
    BY <2>2, <2>3, <2>4, <2>5 DEF Enrolled
<1>2. ASSUME NEW v \in Vms
      PROVE  Containers(v) \ stray # {} <=> \E e \in Envs : vm[e] = v /\ Tends(e)
  <2>1. ASSUME NEW n \in Containers(v) \ stray PROVE \E e \in Envs : vm[e] = v /\ Tends(e)
    BY <2>1 DEF Containers, ContainersAreTracked, Tends, Holds
  <2>2. ASSUME NEW e \in Envs, vm[e] = v, Tends(e) PROVE start[e] \in Containers(v) \ stray
    BY <2>2 DEF Containers, ContainersAreTracked, Tends
  <2>3. QED
    BY <2>1, <2>2
<1>3. QED
  BY <1>1, <1>2 DEF Views, Stage, Tended

(* The invariants the refinement rests on.                                  *)
Kept == Inv /\ ClaimedAreLeased /\ ContainersAreTracked /\ StrayWereCalled /\ Views

(* A VM's container is tended as long as its tenant's business with it is   *)
(* what it was.                                                             *)
LEMMA TendedElsewhere ==
  ASSUME Views, Views', NEW v \in Vms,
         \A e \in Envs : (vm[e] = v /\ Tends(e)) <=> (vm[e] = v /\ Tends(e))'
  PROVE  Tended'[v] = Tended[v]
  BY DEF Views

(* What a tenant tends, and what is tended of a VM without one.             *)
LEMMA TendedByTenant ==
  ASSUME Inv, Views, ContainersAreTracked
  PROVE  /\ \A e \in Envs : Leasing(e) => (Tended[vm[e]] <=> Tends(e))
         /\ \A v \in Vms : v \notin active => ~Tended[v]
  BY DEF Inv, TypeOK, ExclusiveLease, Views, Tends, ContainersAreTracked

(* A claim that pops the queue begins a lease.                              *)
LEMMA TakeBegins ==
  ASSUME Kept, Kept', NEW e \in Envs, ~Leasing(e), Take(e)
  PROVE  \E v \in Vms : Leases!Begin(e, v)
<1> DEFINE h == Head(free)
<1> USE DEF Kept
<1>1. Queued' = Queued \ {h} /\ h \in Queued /\ h \in Vms
  BY PopTakesHead DEF Take
<1>2. /\ active' = active \cup {h} /\ UNCHANGED <<lost, stray, start, container, calls>>
      /\ vm' = [vm EXCEPT ![e] = h] /\ vm[e] = NoVm /\ vm' [e] = h
  BY DEF Take, Inv, TypeOK, ExclusiveLease, workerVars
<1> HIDE DEF h
<1>3. h \notin active /\ h \notin lost
  BY <1>1 DEF Inv, ExclusiveLease, ClaimedAreLeased
<1>4. Stage[h] = "free" /\ Stage'[h] = "leased"
  BY <1>1, <1>2, <1>3 DEF Views
<1>5. ASSUME NEW v \in Vms, v # h PROVE Stage'[v] = Stage[v]
  <2>1. /\ v \in lost' <=> v \in lost
        /\ v \in active' <=> v \in active
        /\ v \in Queued' <=> v \in Queued
    BY <1>1, <1>2, <1>5
  <2>2. QED
    BY <2>1 DEF Views, Leases!Stages, Enrolled
<1>6. Stage' = [Stage EXCEPT ![h] = "leased"]
  BY <1>1, <1>4, <1>5 DEF Views
<1>7. Tended' = Tended
  BY <1>2 DEF Tended, Containers
<1>8. Leases!Begin(e, h)
  BY <1>2, <1>4, <1>6, <1>7 DEF Leases!Begin, Stage, Tended
<1>9. QED
  BY <1>1, <1>8

(* A call of StartContainer makes its environment tend a container where    *)
(* none was tended.                                                         *)
LEMMA CallAttends ==
  ASSUME Kept, Kept', NEW e \in Envs, Call(e)
  PROVE  Leases!Attend(e, vm[e])
<1> USE DEF Kept
<1>1. Leasing(e) /\ vm[e] \in Vms /\ ~Holds(e)
  BY DEF Call, Leasing, Inv, TypeOK, ExclusiveLease, ContainersAreTracked
<1>2. UNCHANGED <<free, active, lost, vm, stray>>
  BY DEF Call, poolVars
<1>3. Stage' = Stage
  BY <1>2 DEF Stage, StageOf, Queued
<1>4. ~Tended[vm[e]]
  BY <1>1, TendedByTenant DEF Tends
<1>5. Len(calls) \in Nat /\ Len(calls') = Len(calls) + 1
  BY <1>1 DEF Call, Inv, TypeOK
<1>6. Tends(e)'
  <2>1. start'[e] = Len(calls') /\ container'[start'[e]] = "asked"
    <3>1. Len(calls') \in Calls
      BY <1>5, GceAssumption DEF Call, Calls, Inv, TypeOK
    <3>2. QED
      BY <3>1 DEF Call, Inv, TypeOK
  <2>2. start'[e] \notin stray' /\ start'[e] # 0
    BY <1>2, <1>5, <2>1 DEF StrayWereCalled
  <2>3. QED
    BY <2>1, <2>2 DEF Tends, Holds
<1>7. Tended'[vm[e]]
  BY <1>1, <1>2, <1>6 DEF Views
<1>8. ASSUME NEW v \in Vms, v # vm[e] PROVE Tended'[v] = Tended[v]
  <2>1. ASSUME NEW f \in Envs, f # e PROVE Tends(f) <=> Tends(f)'
    <3>1. start'[f] = start[f]
      BY <2>1 DEF Call, Inv, TypeOK
    <3>2. Holds(f) => start[f] \in 1 .. Len(calls) /\ start[f] # Len(calls')
      BY <1>5 DEF ContainersAreTracked
    <3>3. Holds(f) => container'[start[f]] = container[start[f]]
      BY <3>2 DEF Call, Inv, TypeOK
    <3>4. QED
      BY <1>2, <3>1, <3>3 DEF Tends, Holds
  <2>2. \A f \in Envs : (vm[f] = v /\ Tends(f)) <=> (vm[f] = v /\ Tends(f))'
    BY <1>2, <1>8, <2>1
  <2>3. QED
    BY <2>2, TendedElsewhere
<1>9. Tended' = [Tended EXCEPT ![vm[e]] = TRUE]
  BY <1>1, <1>7, <1>8 DEF Views
<1>10. QED
  BY <1>2, <1>3, <1>4, <1>9 DEF Leases!Attend, Stage, Tended

(* Two environments stand for different calls.                              *)
LEMMA OwnCalls ==
  ASSUME Inv, ContainersAreTracked, NEW e \in Envs, NEW f \in Envs, Holds(e), Holds(f), e # f
  PROVE  start[e] # start[f]
<1>1. Leasing(e) /\ Leasing(f)
  BY DEF ContainersAreTracked
<1>2. vm[e] # vm[f]
  BY <1>1 DEF Inv, TypeOK, ExclusiveLease
<1>3. QED
  BY <1>2 DEF ContainersAreTracked

(* An environment that gives its own call up gives up no other's.           *)
LEMMA OthersTend ==
  ASSUME Inv, ContainersAreTracked, NEW e \in Envs, NEW f \in Envs, e # f,
         start'[f] = start[f], UNCHANGED container, stray' \in {stray, stray \cup CallOf(e)}
  PROVE  Tends(f)' <=> Tends(f)
<1>1. Holds(f) => (start[f] \in stray' <=> start[f] \in stray)
  <2>1. Holds(f) => start[f] \notin CallOf(e)
    BY OwnCalls DEF CallOf, Holds
  <2>2. QED
    BY <2>1
<1>2. QED
  BY <1>1 DEF Tends, Holds

(* Whatever it does with its own container, who lets a VM go ends its       *)
(* lease.                                                                   *)
LEMMA LeaseEnds ==
  ASSUME Kept, Kept', NEW e \in Envs, Leasing(e), NEW after \in Leases!Stages,
         Leave(e), UNCHANGED container, stray' \in {stray, stray \cup CallOf(e)},
         Stage'[vm[e]] = after, \A v \in Vms \ {vm[e]} : Stage'[v] = Stage[v]
  PROVE  Leases!End(e, vm[e], after)
<1> USE DEF Kept
<1>1. vm[e] \in Vms /\ vm[e] # NoVm /\ vm'[e] = NoVm
  BY GceAssumption DEF Leave, Inv, TypeOK, ExclusiveLease
<1>2. \A f \in Envs \ {e} : vm'[f] = vm[f] /\ vm[f] # vm[e] /\ start'[f] = start[f]
  BY <1>1 DEF Leave, Inv, TypeOK, ExclusiveLease
<1>3. ~Tended'[vm[e]]
  BY <1>1, <1>2, GceAssumption DEF Views
<1>4. ASSUME NEW v \in Vms, v # vm[e] PROVE Tended'[v] = Tended[v]
  <2>1. ASSUME NEW f \in Envs \ {e} PROVE Tends(f)' <=> Tends(f)
    BY <1>2, <2>1, OthersTend
  <2>2. \A f \in Envs : (vm[f] = v /\ Tends(f)) <=> (vm[f] = v /\ Tends(f))'
    BY <1>1, <1>2, <1>4, <2>1, GceAssumption
  <2>3. QED
    BY <2>2, TendedElsewhere
<1>5. Tended' = [Tended EXCEPT ![vm[e]] = FALSE]
  BY <1>1, <1>3, <1>4 DEF Views
<1>6. Stage' = [Stage EXCEPT ![vm[e]] = after]
  BY <1>1 DEF Views
<1>7. QED
  BY <1>5, <1>6 DEF Leases!End, Leave, Stage, Tended

(* A released VM is free.                                                   *)
LEMMA ReturnEnds ==
  ASSUME Kept, Kept', NEW e \in Envs, Leasing(e), Return(e), UNCHANGED <<lost, stray, workerVars>>
  PROVE  Leases!End(e, vm[e], "free")
<1> USE DEF Kept
<1>1. vm[e] \in Vms /\ vm[e] \in active /\ vm[e] \notin lost
  BY DEF Inv, TypeOK, ExclusiveLease, ClaimedAreLeased
<1>2. Queued' = Queued \cup {vm[e]} /\ active' = active \ {vm[e]}
  BY <1>1, ElementsOfAppend DEF Return, Queued, Inv, TypeOK
<1>3. Stage'[vm[e]] = "free"
  BY <1>1, <1>2 DEF Views
<1>4. ASSUME NEW v \in Vms \ {vm[e]} PROVE Stage'[v] = Stage[v]
  BY <1>2, <1>4 DEF Views, Leases!Stages, Enrolled
<1>5. Leave(e) /\ UNCHANGED container
  BY DEF Return, workerVars
<1>6. "free" \in Leases!Stages
  BY DEF Leases!Stages
<1>7. QED
  BY <1>3, <1>4, <1>5, <1>6, LeaseEnds

(* One left without a channel is lost, and one half released is forgotten.  *)
LEMMA InterruptEnds ==
  ASSUME Kept, Kept', NEW e \in Envs, InterruptLease(e) \/ InterruptRelease(e)
  PROVE  \E after \in {"lost", "unknown"} : Leases!End(e, vm[e], after)
<1> USE DEF Kept
<1>1. Leasing(e)
  BY DEF InterruptLease, InterruptRelease, Leasing
<1>2. vm[e] \in Vms /\ vm[e] \in active /\ vm[e] \notin lost /\ vm[e] \notin Queued
  BY <1>1 DEF Inv, TypeOK, ExclusiveLease, ClaimedAreLeased
<1>3. /\ Queued' = Queued /\ Leave(e) /\ UNCHANGED container
      /\ stray' \in {stray, stray \cup CallOf(e)}
  BY DEF InterruptLease, InterruptRelease, poolVars, Queued, workerVars
<1>4. CASE InterruptLease(e)
  <2>1. active' = active /\ lost' = lost \cup {vm[e]}
    BY <1>4 DEF InterruptLease, poolVars
  <2>2. Stage'[vm[e]] = "lost"
    BY <1>2, <2>1 DEF Views
  <2>3. ASSUME NEW v \in Vms \ {vm[e]} PROVE Stage'[v] = Stage[v]
    BY <1>3, <2>1, <2>3 DEF Views, Leases!Stages, Enrolled
  <2>4. "lost" \in Leases!Stages
    BY DEF Leases!Stages
  <2>5. QED
    BY <1>1, <1>3, <2>2, <2>3, <2>4, LeaseEnds
<1>5. CASE InterruptRelease(e)
  <2>1. active' = active \ {vm[e]} /\ lost' = lost
    BY <1>5 DEF InterruptRelease
  <2>2. Stage'[vm[e]] = "unknown"
    BY <1>2, <1>3, <2>1 DEF Views, Enrolled
  <2>3. ASSUME NEW v \in Vms \ {vm[e]} PROVE Stage'[v] = Stage[v]
    BY <1>3, <2>1, <2>3 DEF Views, Leases!Stages, Enrolled
  <2>4. "unknown" \in Leases!Stages
    BY DEF Leases!Stages
  <2>5. QED
    BY <1>1, <1>3, <2>2, <2>3, <2>4, LeaseEnds
<1>6. QED
  BY <1>4, <1>5

(* A VM popped by an interrupted claim is forgotten.                        *)
LEMMA PopForgets ==
  ASSUME Kept, Kept', NEW e \in Envs, InterruptPop(e)
  PROVE  \E v \in Vms : Leases!Forget(v)
<1> DEFINE h == Head(free)
<1> USE DEF Kept
<1>1. Queued' = Queued \ {h} /\ h \in Queued /\ h \in Vms
  BY PopTakesHead DEF InterruptPop
<1>2. UNCHANGED <<active, lost, vm, stray, calls, container>>
  BY DEF InterruptPop, workerVars
<1> HIDE DEF h
<1>3. h \notin active
  BY <1>1 DEF Inv, ExclusiveLease
<1>4. Stage[h] = "free" /\ Stage'[h] = "unknown"
  BY <1>1, <1>2, <1>3 DEF Views, Enrolled
<1>5. ASSUME NEW v \in Vms, v # h PROVE Stage'[v] = Stage[v]
  BY <1>1, <1>2, <1>5 DEF Views, Leases!Stages, Enrolled
<1>6. Stage' = [Stage EXCEPT ![h] = "unknown"]
  BY <1>1, <1>4, <1>5 DEF Views
<1>7. Tended' = Tended
  BY <1>2 DEF Tended, Containers
<1>8. Leases!Forget(h)
  BY <1>2, <1>4, <1>6, <1>7 DEF Leases!Forget, Stage, Tended
<1>9. QED
  BY <1>1, <1>8

(* While its tenant keeps a VM, what is tended there can only be settled.   *)
LEMMA LeaseSettles ==
  ASSUME Kept, Kept', NEW e \in Envs, Leasing(e), Leasing(e)', UNCHANGED <<vm, Stage>>,
         Tends(e)' => Tends(e), \A f \in Envs \ {e} : Tends(f)' <=> Tends(f)
  PROVE  Leases!Settle(e, vm[e]) \/ UNCHANGED Leases!vars
<1> USE DEF Kept
<1>1. vm[e] \in Vms /\ \A f \in Envs \ {e} : vm[f] # vm[e]
  BY DEF Inv, TypeOK, ExclusiveLease
<1>2. \A v \in Vms \ {vm[e]} : Tended'[v] = Tended[v]
  <2>1. ASSUME NEW v \in Vms \ {vm[e]} PROVE Tended'[v] = Tended[v]
    <3>1. \A f \in Envs : (vm[f] = v /\ Tends(f)) <=> (vm[f] = v /\ Tends(f))'
      BY <2>1
    <3>2. QED
      BY <2>1, <3>1, TendedElsewhere
  <2>2. QED
    BY <2>1
<1>3. /\ Tended[vm[e]] <=> Tends(e)
      /\ Tended'[vm[e]] <=> Tends(e)'
      /\ Tended[vm[e]] \in BOOLEAN /\ Tended'[vm[e]] \in BOOLEAN
  BY <1>1, TendedByTenant DEF Views
<1>4. CASE Tended'[vm[e]] = Tended[vm[e]]
  <2>1. Tended' = Tended
    BY <1>1, <1>2, <1>4 DEF Views
  <2>2. QED
    BY <2>1 DEF Leases!vars, Stage, Tended
<1>5. CASE Tended'[vm[e]] # Tended[vm[e]]
  <2>1. Tended[vm[e]] /\ ~Tended'[vm[e]]
    BY <1>3, <1>5
  <2>2. Tended' = [Tended EXCEPT ![vm[e]] = FALSE]
    BY <1>1, <1>2, <2>1 DEF Views
  <2>3. QED
    BY <2>1, <2>2 DEF Leases!Settle, Stage, Tended
<1>6. QED
  BY <1>4, <1>5

(* A step that touches neither the lists nor a container is none of the     *)
(* leases' business.                                                        *)
LEMMA Unmoved ==
  ASSUME UNCHANGED <<free, active, lost, vm, stray, workerVars>>
  PROVE  UNCHANGED Leases!vars
<1>1. \A v \in Vms : StageOf(v)' = StageOf(v)
  BY DEF StageOf, Queued
<1>2. \A v \in Vms : Containers(v)' = Containers(v)
  BY DEF Containers, workerVars
<1>3. QED
  BY <1>1, <1>2 DEF Leases!vars

(* A step of a daemon changes what is tended on one VM at most.             *)
LEMMA WorkerSettles ==
  ASSUME Kept, Kept', NEW n \in Calls, WorkerStarts(n) \/ WorkerRefuses(n)
  PROVE  (\E e \in Envs : Leasing(e) /\ Leases!Settle(e, vm[e])) \/ UNCHANGED Leases!vars
<1> USE DEF Kept
<1>1. /\ UNCHANGED <<poolVars, envVars>>
      /\ container[n] = "asked" /\ container'[n] \in {"up", "refused"}
      /\ \A k \in Calls \ {n} : container'[k] = container[k]
  BY DEF WorkerStarts, WorkerRefuses, Inv, TypeOK
<1>2. /\ UNCHANGED <<vm, start, stray>> /\ \A e \in Envs : Leasing(e)' <=> Leasing(e)
      /\ \A e \in Envs : Holds(e)' <=> Holds(e)
      /\ \A e \in Envs : Holds(e) => start[e] \in Calls
  BY <1>1, GceAssumption DEF poolVars, envVars, Leasing, Holds, ContainersAreTracked, Inv, TypeOK, Calls
<1>3. UNCHANGED Stage
  BY <1>1 DEF poolVars, envVars, Stage, StageOf, Queued
<1>4. CASE \E e \in Envs : Holds(e) /\ start[e] = n
  <2>1. PICK e \in Envs : Holds(e) /\ start[e] = n
    BY <1>4
  <2>2. Leasing(e) /\ Leasing(e)'
    BY <1>2, <2>1 DEF ContainersAreTracked
  <2>3. Tends(e)' => Tends(e)
    BY <1>1, <1>2, <2>1 DEF Tends
  <2>4. ASSUME NEW f \in Envs \ {e} PROVE Tends(f)' <=> Tends(f)
    <3>1. Holds(f) => start[f] # n
      BY <2>1, OwnCalls
    <3>2. QED
      BY <1>1, <1>2, <3>1 DEF Tends
  <2>5. QED
    BY <1>2, <1>3, <2>2, <2>3, <2>4, LeaseSettles
<1>5. CASE ~\E e \in Envs : Holds(e) /\ start[e] = n
  <2>1. \A f \in Envs : Tends(f)' <=> Tends(f)
    BY <1>1, <1>2, <1>5 DEF Tends
  <2>2. ASSUME NEW v \in Vms PROVE Tended'[v] = Tended[v]
    BY <1>2, <2>1, TendedElsewhere
  <2>3. Tended' = Tended
    BY <2>2 DEF Views
  <2>4. QED
    BY <1>2, <1>3, <2>3 DEF Leases!vars, Stage, Tended
<1>6. QED
  BY <1>4, <1>5

(* Each step of the pool, of its environments and of the daemons is a step  *)
(* of the leases, or none.                                                  *)
LEMMA RefinementStep ==
  ASSUME Kept, Kept', [Next]_vars
  PROVE  [Leases!Next]_(Leases!vars)
<1> USE DEF Kept, poolVars, envVars
<1>1. \A e \in Envs : Leasing(e) => vm[e] \in Vms
  BY DEF Inv, TypeOK, ExclusiveLease
<1>2. ASSUME NEW e \in Envs, Claim(e) PROVE [Leases!Next]_(Leases!vars)
  <2>1. CASE ClaimFast(e) \/ ClaimSecondLook(e) \/ RefreshTakes(e)
    <3>1. ~Leasing(e)
      BY <2>1 DEF ClaimFast, ClaimSecondLook, RefreshTakes, Leasing, Inv, OneRefresh
    <3>2. Take(e)
      BY <2>1 DEF ClaimFast, ClaimSecondLook, RefreshTakes
    <3>3. QED
      BY <3>1, <3>2, TakeBegins DEF Leases!Next
  <2>2. CASE ClaimSlow(e) \/ RefreshBegins(e) \/ RefreshFails(e)
    BY <2>2, Unmoved DEF ClaimSlow, RefreshBegins, RefreshFails
  <2>3. ASSUME NEW v \in Vms, ProbeUnhealthy(e, v) PROVE [Leases!Next]_(Leases!vars)
    BY <2>3, Unmoved DEF ProbeUnhealthy
  <2>4. ASSUME NEW v \in Vms, ProbeHealthy(e, v) PROVE [Leases!Next]_(Leases!vars)
    <3>1. Queued' = Queued \cup {v} /\ UNCHANGED <<active, lost, vm, stray, workerVars>>
      <4>1. /\ free' = Append(free, v) /\ UNCHANGED <<active, lost, vm, stray, workerVars>>
            /\ free \in Seq(Vms)
        BY <2>4 DEF ProbeHealthy, Inv, TypeOK
      <4>2. QED
        BY <4>1, ElementsOfAppend DEF Queued
    <3>2. Stage[v] = "unknown" /\ Stage'[v] = "free"
      BY <2>4, <3>1 DEF Views, ProbeHealthy
    <3>3. \A u \in Vms \ {v} : Stage'[u] = Stage[u]
      BY <3>1 DEF Views, Leases!Stages, Enrolled
    <3>4. Stage' = [Stage EXCEPT ![v] = "free"]
      BY <3>2, <3>3 DEF Views
    <3>5. Tended' = Tended
      BY <3>1 DEF Tended, Containers, workerVars
    <3>6. Leases!Enrol(v)
      BY <3>1, <3>2, <3>4, <3>5 DEF Leases!Enrol, Stage, Tended
    <3>7. QED
      BY <3>6 DEF Leases!Next
  <2>5. QED
    BY <1>2, <2>1, <2>2, <2>3, <2>4 DEF Claim
<1>3. ASSUME NEW e \in Envs, Lease(e) PROVE [Leases!Next]_(Leases!vars)
  <2>1. Leasing(e)
    BY <1>3 DEF Lease, Call, StartAnswered, StartRaises, StartCleansUp, Stop, StopInterrupted,
       StopAnswered, StopFails, StopReleases, Leasing
  <2>2. CASE StartAnswered(e) \/ Stop(e)
    BY <2>2, Unmoved DEF StartAnswered, Stop
  <2>3. CASE StartCleansUp(e) \/ StopReleases(e)
    <3>1. Return(e) /\ UNCHANGED <<lost, stray, workerVars>>
      BY <2>3 DEF StartCleansUp, StopReleases
    <3>2. QED
      BY <1>1, <2>1, <3>1, ReturnEnds DEF Leases!Next
  <2>4. CASE Call(e)
    BY <1>1, <2>1, <2>4, CallAttends DEF Leases!Next
  <2>5. CASE StartRaises(e) \/ StopInterrupted(e) \/ StopFails(e)
    <3>1. /\ UNCHANGED <<vm, start, container>> /\ Leasing(e)'
          /\ stray' \in {stray, stray \cup CallOf(e)}
      BY <2>5 DEF StartRaises, StopInterrupted, StopFails, Leasing, Inv, TypeOK, workerVars
    <3>2. UNCHANGED Stage
      BY <2>5 DEF StartRaises, StopInterrupted, StopFails, Stage, StageOf, Queued
    <3>3. Tends(e)' => Tends(e)
      BY <3>1 DEF Tends, Holds
    <3>4. ASSUME NEW f \in Envs \ {e} PROVE Tends(f)' <=> Tends(f)
      BY <3>1, OthersTend
    <3>5. QED
      BY <1>1, <2>1, <3>1, <3>2, <3>3, <3>4, LeaseSettles DEF Leases!Next
  <2>6. CASE StopAnswered(e)
    <3>1. UNCHANGED <<vm, start, stray>> /\ Leasing(e)' /\ Holds(e)
      BY <2>6 DEF StopAnswered, Leasing, Inv, TypeOK, ContainersAreTracked
    <3>2. UNCHANGED Stage
      BY <2>6 DEF StopAnswered, Stage, StageOf, Queued
    <3>3. \A k \in Calls : container'[k] = IF k = start[e] THEN "gone" ELSE container[k]
      BY <2>6 DEF StopAnswered, Inv, TypeOK
    <3>4. \A f \in Envs : Holds(f) => start[f] \in Calls
      BY GceAssumption DEF ContainersAreTracked, Inv, TypeOK, Calls, Holds
    <3>5. ~Tends(e)'
      BY <3>1, <3>3, <3>4 DEF Tends, Holds
    <3>6. ASSUME NEW f \in Envs \ {e} PROVE Tends(f)' <=> Tends(f)
      <4>1. Holds(f) => start[f] # start[e]
        BY <3>1, OwnCalls
      <4>2. QED
        BY <3>1, <3>3, <3>4, <4>1 DEF Tends, Holds
    <3>7. QED
      BY <1>1, <2>1, <3>1, <3>2, <3>5, <3>6, LeaseSettles DEF Leases!Next
  <2>7. QED
    BY <1>3, <2>2, <2>3, <2>4, <2>5, <2>6 DEF Lease
<1>7. ASSUME NEW e \in Envs, Interrupt(e) PROVE [Leases!Next]_(Leases!vars)
  <2>1. CASE InterruptClaim(e) \/ InterruptOpen(e)
    BY <2>1, Unmoved DEF InterruptClaim, InterruptOpen
  <2>2. CASE InterruptPop(e)
    BY <2>2, PopForgets DEF Leases!Next
  <2>3. CASE InterruptLease(e) \/ InterruptRelease(e)
    <3>1. vm[e] \in Vms
      BY <1>1, <2>3 DEF InterruptLease, InterruptRelease, Leasing
    <3>2. QED
      BY <2>3, <3>1, InterruptEnds DEF Leases!Next
  <2>4. QED
    BY <1>7, <2>1, <2>2, <2>3 DEF Interrupt
<1>4. ASSUME NEW n \in Calls, WorkerStarts(n) \/ WorkerRefuses(n) PROVE [Leases!Next]_(Leases!vars)
  BY <1>1, <1>4, WorkerSettles DEF Leases!Next
<1>5. CASE UNCHANGED vars
  BY <1>5, Unmoved DEF vars
<1>6. QED
  BY <1>2, <1>3, <1>4, <1>5, <1>7 DEF Next

LEMMA KeptAlways == Spec => []Kept
<1>1. Init => StrayWereCalled
  BY DEF Init, StrayWereCalled
<1>2. Inv /\ ContainersAreTracked /\ StrayWereCalled /\ [Next]_vars => StrayWereCalled'
  BY StrayStep
<1>3. Spec => []StrayWereCalled
  BY <1>1, <1>2, Invariance, TrackedAlways, PTL DEF Spec
<1>4. Inv /\ ClaimedAreLeased /\ ContainersAreTracked /\ StrayWereCalled => Kept
  BY ViewsHold DEF Kept
<1>5. QED
  BY <1>3, <1>4, Invariance, ClaimsAreHeld, TrackedAlways, PTL

(* The coordinator, the environments and the daemons implement the leases,  *)
(* for any number of each and whichever calls fail.                         *)
THEOREM PoolRefinesLeases == Spec => RefinesLeases
<1>1. Init => Leases!Init
  <2>1. ASSUME Init, NEW v \in Vms PROVE StageOf(v) = "unknown" /\ Containers(v) \ stray = {}
    BY <2>1 DEF Init, StageOf, Queued, Containers
  <2>2. QED
    BY <2>1 DEF Init, Leases!Init
<1>2. Kept /\ Kept' /\ [Next]_vars => [Leases!Next]_(Leases!vars)
  BY RefinementStep
<1>3. QED
  BY <1>1, <1>2, KeptAlways, PTL DEF Spec, RefinesLeases, Leases!Spec

(* A VM is leased, in the coordinator's books, exactly when one environment *)
(* leases it, and only there may a container be that somebody will stop.    *)
THEOREM PoolLeasesExclusive == Spec => [](Leases!LeasesAreExclusive /\ Leases!OnlyLeasedAreTended)
<1>1. ASSUME Kept PROVE Leases!LeasesAreExclusive
  <2>1. ASSUME NEW v \in Vms PROVE StageOf(v) = "leased" <=> \E e \in Envs : vm[e] = v
    <3>1. StageOf(v) = "leased" <=> v \in active /\ v \notin lost
      BY <1>1 DEF Kept, Views, Stage
    <3>2. (\E e \in Envs : vm[e] = v) => v \in active
      BY GceAssumption, <1>1 DEF Kept, Inv, ExclusiveLease
    <3>3. QED
      BY <1>1, <3>1, <3>2 DEF Kept, ClaimedAreLeased
  <2>2. \A e, f \in Envs : vm[e] = vm[f] /\ vm[e] # NoVm => e = f
    BY <1>1 DEF Kept, Inv, ExclusiveLease
  <2>3. QED
    BY <2>1, <2>2 DEF Leases!LeasesAreExclusive
<1>2. ASSUME Kept PROVE Leases!OnlyLeasedAreTended
  <2>1. SUFFICES ASSUME NEW v \in Vms, Tended[v] PROVE Stage[v] = "leased"
    BY DEF Leases!OnlyLeasedAreTended, Stage, Tended
  <2>2. PICK e \in Envs : vm[e] = v /\ Leasing(e)
    BY <1>2, <2>1 DEF Kept, Views, Tends, ContainersAreTracked
  <2>3. v \in active /\ v \notin lost
    BY <1>2, <2>2 DEF Kept, Inv, ExclusiveLease, ClaimedAreLeased
  <2>4. QED
    BY <1>2, <2>3 DEF Kept, Views
<1>3. QED
  BY <1>1, <1>2, KeptAlways, PTL

(* A lost VM was leased and is never used again, and a lease begins with a  *)
(* VM from the queue.                                                       *)
THEOREM PoolLivesOrderly == Spec => Leases!LivesAreOrderly
<1> DEFINE Orderly == \A v \in Vms : /\ Stage[v] = "lost" => Stage'[v] = "lost"
                                     /\ Stage'[v] = "lost" => Stage[v] \in {"leased", "lost"}
                                     /\ Stage'[v] = "leased" => Stage[v] \in {"free", "leased"}
<1>1. ASSUME Kept, Leases!LeasesAreExclusive, [Leases!Next]_(Leases!vars) PROVE Orderly
  <2>1. \A e \in Envs, v \in Vms : vm[e] = v => Stage[v] = "leased"
    BY <1>1 DEF Leases!LeasesAreExclusive, Stage
  <2>2. CASE UNCHANGED Leases!vars
    <3>1. Stage' = Stage
      BY <2>2 DEF Leases!vars, Stage
    <3>2. QED
      BY <3>1
  <2>3. ASSUME NEW v \in Vms, Leases!Enrol(v) PROVE Orderly
    <3>1. Stage[v] = "unknown" /\ Stage' = [Stage EXCEPT ![v] = "free"]
      BY <2>3 DEF Leases!Enrol, Stage
    <3>2. QED
      BY <3>1 DEF Stage
  <2>4. ASSUME NEW v \in Vms, Leases!Forget(v) PROVE Orderly
    <3>1. Stage[v] = "free" /\ Stage' = [Stage EXCEPT ![v] = "unknown"]
      BY <2>4 DEF Leases!Forget, Stage
    <3>2. QED
      BY <3>1 DEF Stage
  <2>5. ASSUME NEW v \in Vms, NEW e \in Envs, Leases!Begin(e, v) PROVE Orderly
    <3>1. Stage[v] = "free" /\ Stage' = [Stage EXCEPT ![v] = "leased"]
      BY <2>5 DEF Leases!Begin, Stage
    <3>2. QED
      BY <3>1 DEF Stage
  <2>6. ASSUME NEW v \in Vms, NEW e \in Envs, Leases!Attend(e, v) \/ Leases!Settle(e, v) PROVE Orderly
    <3>1. Stage' = Stage
      BY <2>6 DEF Leases!Attend, Leases!Settle, Stage
    <3>2. QED
      BY <3>1
  <2>7. ASSUME NEW v \in Vms, NEW e \in Envs, NEW after \in {"free", "lost", "unknown"},
               Leases!End(e, v, after)
        PROVE  Orderly
    <3>1. vm[e] = v /\ Stage' = [Stage EXCEPT ![v] = after]
      BY <2>7 DEF Leases!End, Stage
    <3>2. Stage[v] = "leased"
      BY <2>1, <3>1
    <3>3. QED
      BY <3>1, <3>2 DEF Stage
  <2>8. QED
    BY <1>1, <2>2, <2>3, <2>4, <2>5, <2>6, <2>7 DEF Leases!Next
<1>2. Kept /\ Kept' /\ Leases!LeasesAreExclusive /\ [Next]_vars => [Orderly]_(Leases!vars)
  BY <1>1, RefinementStep
<1>3. Spec => [][Orderly]_(Leases!vars)
  BY <1>2, KeptAlways, PoolLeasesExclusive, PTL DEF Spec
<1>4. [][Orderly]_(Leases!vars) => Leases!LivesAreOrderly
  BY PTL DEF Leases!LivesAreOrderly, Leases!vars, Stage
<1>5. QED
  BY <1>3, <1>4
==============================================================================
