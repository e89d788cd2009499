---------------------------- MODULE WorkerLeases ----------------------------
(***************************************************************************)
(* What the pool of worker VMs promises to the environments that share it.  *)
(* A VM is unknown until it is enrolled, then free, leased by one           *)
(* environment, and free again, any number of times.  A VM that is lost     *)
(* with its lease stays so; one that the pool forgets is unknown and may be *)
(* enrolled again.  During a lease one container is asked for on the VM; it *)
(* is tended while its environment can still stop it, and nothing tended is *)
(* left on a VM whose lease has ended.                                      *)
(***************************************************************************)
CONSTANTS
    Envs,           \* environments
    Vms,            \* worker VMs
    NoVm            \* no member of Vms

VARIABLES
    stage,          \* where each VM is in its life
    lease,          \* the VM each environment leases
    tended          \* whether a VM has, or may get, a container somebody will stop

vars == <<stage, lease, tended>>

Stages == {"unknown", "free", "leased", "lost"}

TypeOK ==
    /\ stage \in [Vms -> Stages]
    /\ lease \in [Envs -> Vms \cup {NoVm}]
    /\ tended \in [Vms -> BOOLEAN]

Init ==
    /\ stage = [v \in Vms |-> "unknown"]
    /\ lease = [e \in Envs |-> NoVm]
    /\ tended = [v \in Vms |-> FALSE]

Enrol(v) ==
    /\ stage[v] = "unknown"
    /\ stage' = [stage EXCEPT ![v] = "free"]
    /\ UNCHANGED <<lease, tended>>

Forget(v) ==
    /\ stage[v] = "free"
    /\ stage' = [stage EXCEPT ![v] = "unknown"]
    /\ UNCHANGED <<lease, tended>>

Begin(e, v) ==
    /\ lease[e] = NoVm
    /\ stage[v] = "free"
    /\ stage' = [stage EXCEPT ![v] = "leased"]
    /\ lease' = [lease EXCEPT ![e] = v]
    /\ UNCHANGED tended

(* A container is asked for where no other is tended.                       *)
Attend(e, v) ==
    /\ lease[e] = v
    /\ ~tended[v]
    /\ tended' = [tended EXCEPT ![v] = TRUE]
    /\ UNCHANGED <<stage, lease>>

(* The container is stopped, did not come, or is given up.                  *)
Settle(e, v) ==
    /\ lease[e] = v
    /\ tended[v]
    /\ tended' = [tended EXCEPT ![v] = FALSE]
    /\ UNCHANGED <<stage, lease>>

(* A container that is still tended is given up with the VM.                *)
End(e, v, after) ==
    /\ lease[e] = v
    /\ stage' = [stage EXCEPT ![v] = after]
    /\ lease' = [lease EXCEPT ![e] = NoVm]
    /\ tended' = [tended EXCEPT ![v] = FALSE]

Next ==
    \E v \in Vms :
        \/ Enrol(v) \/ Forget(v)
        \/ \E e \in Envs :
            \/ Begin(e, v) \/ Attend(e, v) \/ Settle(e, v)
            \/ \E after \in {"free", "lost", "unknown"} : End(e, v, after)

Spec == Init /\ [][Next]_vars

-----------------------------------------------------------------------------
(* What the environments may rely on                                        *)

(* A VM is leased exactly when one environment leases it.                   *)
LeasesAreExclusive ==
    /\ \A v \in Vms : stage[v] = "leased" <=> \E e \in Envs : lease[e] = v
    /\ \A e, f \in Envs : lease[e] = lease[f] /\ lease[e] # NoVm => e = f

(* Who gets a VM finds no container there that another will stop, or that   *)
(* nobody knows will come.                                                  *)
OnlyLeasedAreTended == \A v \in Vms : tended[v] => stage[v] = "leased"

(* A lost VM is lost, it was leased before, and a lease is begun from the   *)
(* queue only.                                                              *)
LivesAreOrderly ==
    [][\A v \in Vms :
        /\ stage[v] = "lost" => stage'[v] = "lost"
        /\ stage'[v] = "lost" => stage[v] \in {"leased", "lost"}
        /\ stage'[v] = "leased" => stage[v] \in {"free", "leased"}]_vars
=============================================================================
