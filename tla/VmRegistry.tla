----------------------------- MODULE VmRegistry -----------------------------
(***************************************************************************)
(* The file in which the processes of a host keep which local VM is whose   *)
(* (providers/vmware and providers/virtualbox, manager.py), and the         *)
(* directory of the VMs.  The file is read and written under a file lock,   *)
(* so what one `with` block does is one action; a VM is named and installed *)
(* outside the lock.  A VM is known by the number in its name.              *)
(***************************************************************************)
EXTENDS Naturals, Sequences, FiniteSets

CONSTANTS
    Procs,          \* worker processes, by pid
    MaxVms          \* bound: how many VMs a run may install

VARIABLES
    provider,       \* "virtualbox" or "vmware", each with a manager.py
    lines,          \* the registry, a sequence of [vm, holder]
    there,          \* the VMs whose .vmx or .vbox file exists
    cleaned,        \* processes with checked_and_cleaned set
    pc,             \* where a process is
    mine,           \* the VM a process names, installs or uses
    again,          \* VMs that were named for a new user although they were there
    spoiled         \* VMs that an accident of the kinds below befell

registryVars == <<provider, lines, there, cleaned, pc, mine, again, spoiled>>

Vms == 0 .. MaxVms - 1
NoVm == MaxVms

(* A VM on its way to its first user, and one in its user's hands.          *)
Installing == {"lay", "boot", "register"}
InUse == {"start", "revert", "setup", "run"}
Acquiring == {"clean", "choose", "name"} \cup Installing
Alive(p) == pc[p] \in {"between"} \cup Acquiring \cup InUse

RegistryTypeOK ==
    /\ provider \in {"virtualbox", "vmware"}
    /\ lines \in Seq([vm : Vms, holder : Procs \cup {"free"}])
    /\ there \subseteq Vms
    /\ cleaned \subseteq Procs
    /\ pc \in [Procs -> {"absent", "between", "gone"} \cup Acquiring \cup InUse]
    /\ mine \in [Procs -> Vms \cup {NoVm}]
    /\ again \subseteq Vms
    /\ spoiled \subseteq Vms

RegistryInit ==
    /\ provider \in {"virtualbox", "vmware"}
    /\ lines = <<>>
    /\ there = {}
    /\ cleaned = {}
    /\ pc = [p \in Procs |-> "absent"]
    /\ mine = [p \in Procs |-> NoVm]
    /\ again = {}
    /\ spoiled = {}

Goto(p, l) == pc' = [pc EXCEPT ![p] = l]
Others(p, labels) == {q \in Procs \ {p} : pc[q] \in labels}

-----------------------------------------------------------------------------

(* Seeded fault: the owners are not looked up.                              *)
IsHeldByAny(l) == FALSE

(* The owner of a line still runs.                                          *)
IsHeld(l) == l.holder # "free" /\ Alive(l.holder)

(* A line whose VM is not there is kept, and released.                      *)
Checked(l) ==
    IF l.vm \in there /\ IsHeld(l) THEN l ELSE [l EXCEPT !.holder = "free"]

(* Seeded fault: only the VMs nobody uses are noted as registered.          *)
RegisteredFree(ls) == {ls[i].vm : i \in {j \in DOMAIN ls : ls[j].holder = "free"}}

Registered(ls) == {ls[i].vm : i \in DOMAIN ls}

(* _check_and_clean, once per process: lines of dead owners are released,   *)
(* and directories that no line names are removed, also one that a process  *)
(* is filling.                                                              *)
CheckAndClean(p) ==
    /\ pc[p] = "clean"
    /\ IF p \in cleaned
       THEN UNCHANGED <<lines, there, cleaned, spoiled>>
       ELSE /\ cleaned' = cleaned \cup {p}
            /\ lines' = [i \in DOMAIN lines |-> Checked(lines[i])]
            /\ there' = there \cap Registered(lines)
            /\ spoiled' = spoiled \cup
                 ({mine[q] : q \in Others(p, Installing)} \ Registered(lines))
    /\ Goto(p, "choose")
    /\ UNCHANGED <<mine, again>>

(* _occupy_vm marks every line of the VM.                                   *)
Occupied(ls, v, p) ==
    [i \in DOMAIN ls |-> IF ls[i].vm = v THEN [ls[i] EXCEPT !.holder = p] ELSE ls[i]]

Free == {i \in DOMAIN lines : lines[i].holder = "free"}

(* The first free VM is taken in the block that looked for it.              *)
TakeFree(p) ==
    /\ pc[p] = "choose"
    /\ \E i \in Free :
        /\ \A j \in Free : i <= j
        /\ mine' = [mine EXCEPT ![p] = lines[i].vm]
        /\ lines' = Occupied(lines, lines[i].vm, p)
    /\ Goto(p, "start")
    /\ UNCHANGED <<there, cleaned, again, spoiled>>

NoneFree(p) ==
    /\ pc[p] = "choose"
    /\ Free = {}
    /\ Goto(p, "name")
    /\ UNCHANGED <<lines, there, cleaned, mine, again, spoiled>>

(* The VMs whose names generate_new_vm_name finds in use.  VirtualBox's     *)
(* looks for vms_dir/name/name/name.vbox, one directory too deep.           *)
NamesInUse == IF provider = "vmware" THEN there ELSE {}

(* The first name not in use: Ubuntu0 always with VirtualBox, also when     *)
(* that VM is there and has a user.  A name that another process is         *)
(* installing is not taken for used by either.                              *)
NameVm(p) ==
    /\ pc[p] = "name"
    /\ \E v \in Vms \ NamesInUse :
        /\ \A u \in Vms \ NamesInUse : v <= u
        /\ mine' = [mine EXCEPT ![p] = v]
        /\ again' = again \cup ({v} \cap there)
        /\ spoiled' = spoiled \cup {w \in {v} : \E q \in Others(p, Installing) : mine[q] = v}
    /\ Goto(p, "lay")
    /\ UNCHANGED <<lines, there, cleaned>>

(* Download and unpack; nothing if the file is there by now.                *)
LayFiles(p) ==
    /\ pc[p] = "lay"
    /\ there' = there \cup {mine[p]}
    /\ Goto(p, "boot")
    /\ UNCHANGED <<lines, cleaned, mine, again, spoiled>>

(* First start and snapshot.  VirtualBox refuses to start a VM that runs.   *)
BootVm(p) ==
    /\ pc[p] = "boot"
    /\ mine[p] \in there
    /\ provider = "virtualbox" =>
        \A q \in Others(p, {"register", "setup", "run"}) : mine[q] # mine[p]
    /\ Goto(p, "register")
    /\ UNCHANGED <<lines, there, cleaned, mine, again, spoiled>>

(* _add_vm and _occupy_vm in one block; a VM named again gets another line. *)
RegisterVm(p) ==
    /\ pc[p] = "register"
    /\ lines' = Occupied(Append(lines, [vm |-> mine[p], holder |-> "free"]), mine[p], p)
    /\ Goto(p, "start")
    /\ UNCHANGED <<there, cleaned, mine, again, spoiled>>

(* What a process killed in a `with` block does to the registry: it may be  *)
(* left empty, between the open that truncates it and the write.            *)
TearRegistry(p) ==
    /\ \/ pc[p] = "clean" /\ p \notin cleaned
       \/ pc[p] = "choose" /\ Free # {}
       \/ pc[p] = "register"
    /\ lines' = <<>>
    /\ spoiled' = Vms
=============================================================================
