----------------------------- MODULE DesktopEnv -----------------------------
(***************************************************************************)
(* OSWorld trials on local VMs: harness/runner/osworld/run.py, one trial    *)
(* after another in each worker process, and the DesktopEnv each trial      *)
(* makes, with its flag is_environment_used and its retries of the setup.   *)
(* A desktop carries the marks of the trials whose setup or agent touched   *)
(* it since it was last reverted.                                           *)
(***************************************************************************)
EXTENDS VmRegistry

CONSTANTS
    Loads,          \* how many trials each process may be given
    MaxRetries      \* MAX_RETRIES of desktop_env.py

ASSUME DesktopAssumption ==
    /\ Loads \subseteq [Procs -> Nat]
    /\ MaxRetries \in Nat \ {0}
    /\ MaxVms \in Nat
    /\ "free" \notin Procs

VARIABLES
    load,           \* how many trials each process is given
    trial,          \* the number of the trial a process runs
    used,           \* is_environment_used
    retries,        \* attempts of reset() that found no server
    marks,          \* the trials that touched a desktop
    pending         \* VMs whose revert was ordered and is not known done

vars == <<registryVars, load, trial, used, retries, marks, pending>>

TypeOK ==
    /\ RegistryTypeOK
    /\ load \in Loads
    /\ trial \in [Procs -> Nat] /\ \A p \in Procs : trial[p] <= load[p]
    /\ used \in [Procs -> BOOLEAN]
    /\ retries \in [Procs -> 0 .. MaxRetries]
    /\ marks \in [Vms -> SUBSET (Procs \X Nat)]
    /\ pending \subseteq Vms

Init ==
    /\ RegistryInit
    /\ load \in Loads
    /\ trial = [p \in Procs |-> 0]
    /\ used = [p \in Procs |-> FALSE]
    /\ retries = [p \in Procs |-> 0]
    /\ marks = [v \in Vms |-> {}]
    /\ pending = {}

Own(p) == <<p, trial[p]>>
Touch(p) == marks' = [marks EXCEPT ![mine[p]] = @ \cup {Own(p)}]

Step(p, from, to) ==
    /\ pc[p] = from
    /\ Goto(p, to)
    /\ UNCHANGED <<provider, lines, there, cleaned, mine, again, spoiled, load, trial>>

(* The process leaves its VM, which stays registered to it, and its         *)
(* environment object.                                                      *)
Leave(p, to) ==
    /\ Goto(p, to)
    /\ mine' = [mine EXCEPT ![p] = NoVm]
    /\ used' = [used EXCEPT ![p] = FALSE]
    /\ retries' = [retries EXCEPT ![p] = 0]
    /\ UNCHANGED <<provider, there, cleaned, again, load, trial>>

-----------------------------------------------------------------------------
(* DesktopEnv()                                                             *)

(* Seeded fault: a VM taken from the registry is thought to be clean.       *)
UsedAtFirstNot == FALSE

(* A local VM is thought to be used from the start.                         *)
UsedAtFirst == provider \in {"vmware", "virtualbox"}

BeginTrial(p) ==
    /\ pc[p] \in {"absent", "between"}
    /\ trial[p] < load[p]
    /\ trial' = [trial EXCEPT ![p] = @ + 1]
    /\ used' = [used EXCEPT ![p] = UsedAtFirst]
    /\ Goto(p, "clean")
    /\ UNCHANGED <<provider, lines, there, cleaned, mine, again, spoiled, load, retries, marks, pending>>

AcquireVm(p) ==
    /\ \/ CheckAndClean(p) \/ TakeFree(p) \/ NoneFree(p)
       \/ NameVm(p) \/ BootVm(p) \/ RegisterVm(p)
    /\ UNCHANGED <<provider, load, trial, used, retries, marks, pending>>

(* A freshly unpacked VM carries no marks.                                  *)
FillVm(p) ==
    /\ LayFiles(p)
    /\ marks' = IF mine[p] \in there THEN marks ELSE [marks EXCEPT ![mine[p]] = {}]
    /\ UNCHANGED <<provider, load, trial, used, retries, pending>>

(* Each attempt of reset() reverts the desktop first, if it was used.       *)
Attempt(u) == IF u THEN "revert" ELSE "setup"

StartVm(p) ==
    /\ mine[p] \in there
    /\ Step(p, "start", Attempt(used[p]))
    /\ UNCHANGED <<used, retries, marks, pending>>

(* An exception from the constructor leaves no environment to close.  The   *)
(* lock may time out, the installation and the first start may fail.        *)
ConstructorRaises(p) ==
    /\ pc[p] \in {"clean", "choose", "start"} \cup Installing
    /\ Leave(p, "between")
    /\ UNCHANGED <<lines, spoiled, marks, pending>>

-----------------------------------------------------------------------------
(* reset(): revert and start again, then the task's setup                   *)

(* VirtualBox's command is waited for, and its failure raises.              *)
Revert(p) ==
    /\ mine[p] \in there
    /\ Step(p, "revert", "setup")
    /\ used' = [used EXCEPT ![p] = FALSE]
    /\ marks' = [marks EXCEPT ![mine[p]] = {}]
    /\ pending' = pending \ {mine[p]}
    /\ UNCHANGED retries

(* VMware's is started, not waited for, and its result not looked at: it    *)
(* takes effect later, or never.                                            *)
OrderRevert(p) ==
    /\ provider = "vmware"
    /\ Step(p, "revert", "setup")
    /\ used' = [used EXCEPT ![p] = FALSE]
    /\ pending' = pending \cup {mine[p]}
    /\ UNCHANGED <<retries, marks>>

RevertLands(v) ==
    /\ v \in pending
    /\ marks[v] # {}
    /\ marks' = [marks EXCEPT ![v] = {}]
    /\ UNCHANGED <<registryVars, load, trial, used, retries, pending>>

(* The flag is set if the task's setup has any steps.                       *)
SetUp(p) ==
    /\ Step(p, "setup", "run")
    /\ Touch(p)
    /\ \E config \in BOOLEAN : used' = [used EXCEPT ![p] = @ \/ config]
    /\ UNCHANGED <<retries, pending>>

(* Seeded fault: one attempt too many.                                      *)
SetUpUnansweredAgain(p) ==
    /\ Step(p, "setup", IF retries[p] < MaxRetries THEN Attempt(used[p]) ELSE "run")
    /\ retries' = [retries EXCEPT ![p] = @ + 1]
    /\ UNCHANGED <<used, marks, pending>>

(* setup() returns False when the VM's server answers none of its calls.    *)
(* The loop of attempts ends without a setup.                               *)
SetUpUnanswered(p) ==
    /\ Step(p, "setup", IF retries[p] + 1 < MaxRetries THEN Attempt(used[p]) ELSE "run")
    /\ retries' = [retries EXCEPT ![p] = @ + 1]
    /\ UNCHANGED <<used, marks, pending>>

-----------------------------------------------------------------------------
(* The agent, the evaluation, close()                                       *)

Act(p) ==
    /\ Step(p, "run", "run")
    /\ Touch(p)
    /\ used' = [used EXCEPT ![p] = TRUE]
    /\ UNCHANGED <<retries, pending>>

(* The trial ends, by its evaluation, whose own setup nobody asks whether   *)
(* it succeeded, or by an exception, perhaps half way through the setup.    *)
(* close() stops the VM; a failure is logged.                               *)
EndTrial(p) ==
    /\ pc[p] \in {"revert", "setup", "run"}
    /\ marks' = marks \/ (pc[p] # "revert" /\ Touch(p))
    /\ Leave(p, "between")
    /\ UNCHANGED <<lines, spoiled, pending>>

-----------------------------------------------------------------------------
(* Processes                                                                *)

(* A worker that leaves between two trials, and one that is killed.         *)
Exit(p) ==
    /\ Alive(p)
    /\ Leave(p, "gone")
    /\ TearRegistry(p) \/ UNCHANGED <<lines, spoiled>>
    /\ UNCHANGED <<marks, pending>>

Work(p) ==
    \/ BeginTrial(p) \/ AcquireVm(p) \/ FillVm(p) \/ StartVm(p) \/ ConstructorRaises(p)
    \/ Revert(p) \/ OrderRevert(p) \/ SetUp(p) \/ SetUpUnanswered(p)
    \/ Act(p) \/ EndTrial(p)

Done ==
    /\ \A p \in Procs : pc[p] = "gone" \/ (pc[p] \in {"absent", "between"} /\ trial[p] = load[p])
    /\ UNCHANGED vars

Next ==
    \/ \E p \in Procs : Work(p) \/ Exit(p)
    \/ \E v \in Vms : RevertLands(v)
    \/ Done

Spec == Init /\ [][Next]_vars

-----------------------------------------------------------------------------
(* Safety.  Three accidents spoil a VM, and nothing else may: two processes *)
(* installed it under one name at once; a clean-up removed its directory    *)
(* before its installer had registered it; a process was killed while it    *)
(* wrote the registry, which spoils them all.  And a VM that VirtualBox's   *)
(* manager names again may have two users from then on.                     *)

Using(p) == pc[p] \in InUse

(* A VM is used by one process at a time, whatever processes start, fail    *)
(* and die, and however many VMs are installed meanwhile.  VirtualBox keeps *)
(* this only until a process finds no VM free.                              *)
VmsAreExclusive ==
    \A p, q \in Procs :
        p # q /\ Using(p) /\ Using(q) /\ mine[p] = mine[q] => mine[p] \in spoiled \cup again

(* No clean-up removes a VM that a process uses, one named again included.  *)
VmsInUseExist == \A p \in Procs : Using(p) => mine[p] \in there \cup spoiled

(* When its agent acts, a desktop carries the marks of its own trial and of *)
(* no other, and lacks them only if the server never answered the setup.    *)
(* That VMware's revert is not waited for is the exception, and the desktop *)
(* that VirtualBox's manager has named again.                               *)
DesktopsAreAsPosed ==
    \A p \in Procs :
        pc[p] = "run" /\ mine[p] \notin spoiled \cup again \cup pending =>
            /\ marks[mine[p]] \subseteq {Own(p)}
            /\ marks[mine[p]] = {} => retries[p] = MaxRetries
=============================================================================
