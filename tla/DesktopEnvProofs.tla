--------------------------- MODULE DesktopEnvProofs ---------------------------
(***************************************************************************)
(* Proofs about desktops, for any processes, trials and number of VMs.      *)
(* That a VM has one user is not inductive: it depends on what the registry *)
(* says of it, on its files, and on nobody installing it at the same time.  *)
(* Owned and Foreign below say how these go together for each VM that none  *)
(* of the three accidents befell, and what is left of it for one that       *)
(* VirtualBox's manager has named again.                                    *)
(***************************************************************************)
EXTENDS DesktopEnv, TLAPS

Acts(p) == Work(p) \/ Exit(p)

(* What the types of a process's variables rest on.                         *)
Paced ==
    \A p \in Procs :
        /\ pc[p] \in Installing \cup InUse => mine[p] \in Vms
        /\ pc[p] \notin {"revert", "setup", "run"} => retries[p] = 0
        /\ pc[p] \in {"revert", "setup"} => retries[p] < MaxRetries

Typed == TypeOK /\ Paced

(* Who uses a VM holds all lines of it, and it is there.                    *)
Owned ==
    \A p \in Procs : Using(p) /\ mine[p] \notin spoiled =>
        /\ mine[p] \in there
        /\ mine[p] \in Registered(lines)
        /\ mine[p] \notin again =>
            \A i \in DOMAIN lines : lines[i].vm = mine[p] => lines[i].holder = p

(* Who installs a VM is alone with it.                                      *)
Foreign ==
    \A p \in Procs : pc[p] \in Installing /\ mine[p] \notin spoiled =>
        /\ pc[p] # "lay" => mine[p] \in there
        /\ mine[p] \notin again =>
            /\ mine[p] \notin Registered(lines)
            /\ \A q \in Procs \ {p} : pc[q] \in Installing => mine[q] # mine[p]

(* What is registered has its files.                                        *)
Filed == Registered(lines) \subseteq there \cup spoiled

Register == Owned /\ Foreign /\ Filed

(* A desktop on its way to its task, and with its agent.                    *)
Posed(p) ==
    /\ pc[p] \in Acquiring \cup {"start"} => used[p]
    /\ pc[p] = "setup" => ~used[p]
    /\ pc[p] = "setup" /\ mine[p] \notin spoiled \cup again \cup pending => marks[mine[p]] = {}
    /\ pc[p] = "run" /\ mine[p] \notin spoiled \cup again \cup pending =>
        /\ marks[mine[p]] \subseteq {Own(p)}
        /\ marks[mine[p]] = {} => retries[p] = MaxRetries

-----------------------------------------------------------------------------
(* Types                                                                    *)

Line == [vm : Vms, holder : Procs \cup {"free"}]

LEMMA Mapped ==
  ASSUME NEW S, NEW s \in Seq(S), NEW t, DOMAIN t = DOMAIN s, t = [i \in DOMAIN s |-> t[i]],
         \A i \in DOMAIN s : t[i] \in S
  PROVE  t \in Seq(S)
OBVIOUS

LEMMA LineFields ==
  ASSUME NEW ls \in Seq(Line), NEW i \in DOMAIN ls
  PROVE  ls[i].vm \in Vms /\ ls[i].holder \in Procs \cup {"free"}
<1>1. ls[i] \in Line
  OBVIOUS
<1>2. QED
  BY <1>1 DEF Line

LEMMA OccupiedTyped ==
  ASSUME NEW ls \in Seq(Line), NEW v, NEW p \in Procs
  PROVE  /\ Occupied(ls, v, p) \in Seq(Line)
         /\ DOMAIN Occupied(ls, v, p) = DOMAIN ls
         /\ \A i \in DOMAIN ls :
              /\ Occupied(ls, v, p)[i].vm = ls[i].vm
              /\ Occupied(ls, v, p)[i].holder = IF ls[i].vm = v THEN p ELSE ls[i].holder
<1> DEFINE t == Occupied(ls, v, p)
<1>1. DOMAIN t = DOMAIN ls /\ t = [i \in DOMAIN ls |-> t[i]]
  BY DEF Occupied
<1>2. ASSUME NEW i \in DOMAIN ls
      PROVE  t[i] \in Line /\ t[i].vm = ls[i].vm /\ t[i].holder = IF ls[i].vm = v THEN p ELSE ls[i].holder
  <2>1. ls[i] \in Line
    OBVIOUS
  <2>2. t[i] = IF ls[i].vm = v THEN [ls[i] EXCEPT !.holder = p] ELSE ls[i]
    BY DEF Occupied
  <2>3. QED
    BY <2>1, <2>2 DEF Line
<1>3. t \in Seq(Line)
  BY <1>1, <1>2, Mapped
<1>4. QED
  BY <1>1, <1>2, <1>3

LEMMA CheckedTyped ==
  ASSUME NEW ls \in Seq(Line)
  PROVE  LET t == [i \in DOMAIN ls |-> Checked(ls[i])] IN
         /\ t \in Seq(Line)
         /\ DOMAIN t = DOMAIN ls
         /\ \A i \in DOMAIN ls :
              /\ t[i].vm = ls[i].vm
              /\ t[i].holder = IF ls[i].vm \in there /\ IsHeld(ls[i]) THEN ls[i].holder ELSE "free"
<1> DEFINE t == [i \in DOMAIN ls |-> Checked(ls[i])]
<1>1. DOMAIN t = DOMAIN ls /\ t = [i \in DOMAIN ls |-> t[i]]
  OBVIOUS
<1>2. ASSUME NEW i \in DOMAIN ls
      PROVE  /\ t[i] \in Line /\ t[i].vm = ls[i].vm
             /\ t[i].holder = IF ls[i].vm \in there /\ IsHeld(ls[i]) THEN ls[i].holder ELSE "free"
  <2>1. ls[i] \in Line
    OBVIOUS
  <2>2. QED
    BY <2>1 DEF Line, Checked
<1> HIDE DEF t
<1>3. t \in Seq(Line)
  BY <1>1, <1>2, Mapped
<1>4. QED
  BY <1>1, <1>2, <1>3 DEF t

LEMMA Steps ==
  ASSUME [Next]_vars
  PROVE  (\E p \in Procs : Acts(p)) \/ (\E v \in Vms : RevertLands(v)) \/ UNCHANGED vars
BY DEF Next, Acts, Done

(* A process moves nobody else.                                             *)
LEMMA OthersStill ==
  ASSUME TypeOK, NEW p \in Procs, Acts(p)
  PROVE  /\ \A q \in Procs \ {p} :
               /\ pc'[q] = pc[q] /\ mine'[q] = mine[q] /\ used'[q] = used[q]
               /\ retries'[q] = retries[q] /\ trial'[q] = trial[q]
         /\ spoiled \subseteq spoiled' /\ again \subseteq again'
<1> USE DEF TypeOK, RegistryTypeOK, Goto, Step, Leave
<1>1. CASE BeginTrial(p) \/ FillVm(p) \/ StartVm(p) \/ ConstructorRaises(p)
  BY <1>1 DEF BeginTrial, FillVm, LayFiles, StartVm, ConstructorRaises
<1>2. CASE Revert(p) \/ OrderRevert(p) \/ SetUp(p) \/ SetUpUnanswered(p) \/ Act(p) \/ EndTrial(p)
  BY <1>2 DEF Revert, OrderRevert, SetUp, SetUpUnanswered, Act, EndTrial
<1>3. CASE Exit(p)
  BY <1>3 DEF Exit, TearRegistry
<1>4. CASE AcquireVm(p)
  BY <1>4 DEF AcquireVm, CheckAndClean, TakeFree, NoneFree, NameVm, BootVm, RegisterVm
<1>5. QED
  BY <1>1, <1>2, <1>3, <1>4 DEF Acts, Work

LEMMA LinesTyped ==
  ASSUME Typed, NEW p \in Procs, Acts(p)
  PROVE  lines' \in Seq(Line)
<1>1. lines \in Seq(Line)
  BY DEF Typed, TypeOK, RegistryTypeOK, Line
<1>2. CASE CheckAndClean(p)
  <2>1. lines' = lines \/ lines' = [i \in DOMAIN lines |-> Checked(lines[i])]
    BY <1>2 DEF CheckAndClean
  <2>2. QED
    BY <1>1, <2>1, CheckedTyped
<1>3. CASE TakeFree(p)
  <2>1. \E v : lines' = Occupied(lines, v, p)
    BY <1>3 DEF TakeFree
  <2>2. QED
    BY <1>1, <2>1, OccupiedTyped
<1>4. CASE RegisterVm(p)
  <2>1. mine[p] \in Vms
    BY <1>4 DEF RegisterVm, Typed, Paced, Installing
  <2>2. Append(lines, [vm |-> mine[p], holder |-> "free"]) \in Seq(Line)
    BY <1>1, <2>1 DEF Line
  <2>3. QED
    BY <1>4, <2>2, OccupiedTyped DEF RegisterVm
<1>5. CASE lines' = lines \/ lines' = <<>>
  <2>1. <<>> \in Seq(Line)
    OBVIOUS
  <2>2. QED
    BY <1>1, <1>5, <2>1
<1>6. QED
  BY <1>2, <1>3, <1>4, <1>5 DEF Acts, Work, AcquireVm, NoneFree, NameVm, BootVm, BeginTrial, FillVm, LayFiles,
     StartVm, ConstructorRaises, Revert, OrderRevert, SetUp, SetUpUnanswered, Act, EndTrial, Exit, TearRegistry,
     Step, Leave

LEMMA ActsTyped ==
  ASSUME Typed, NEW p \in Procs, Acts(p)
  PROVE  Typed'
<1> DEFINE Rest == /\ there \subseteq Vms /\ cleaned \subseteq Procs /\ spoiled \subseteq Vms /\ again \subseteq Vms
                   /\ pc \in [Procs -> {"absent", "between", "gone"} \cup Acquiring \cup InUse]
                   /\ mine \in [Procs -> Vms \cup {NoVm}]
                   /\ provider \in {"virtualbox", "vmware"} /\ load \in Loads
                   /\ trial \in [Procs -> Nat] /\ \A q \in Procs : trial[q] <= load[q]
                   /\ used \in [Procs -> BOOLEAN]
                   /\ retries \in [Procs -> 0 .. MaxRetries]
                   /\ marks \in [Vms -> SUBSET (Procs \X Nat)]
                   /\ pending \subseteq Vms
<1>0. lines \in Seq(Line)
  BY DEF Typed, TypeOK, RegistryTypeOK, Line
<1>1. Rest /\ Paced /\ MaxRetries \in Nat \ {0} /\ load \in [Procs -> Nat]
  BY DesktopAssumption DEF Typed, TypeOK, RegistryTypeOK
<1>2. Rest' /\ Paced'
  <2> USE <1>1 DEF Paced, Goto, Step, Leave, Installing, InUse, Acquiring
  <2>1. CASE BeginTrial(p)
    BY <2>1 DEF BeginTrial, UsedAtFirst
  <2>2. CASE FillVm(p)
    BY <2>2 DEF FillVm, LayFiles
  <2>3. CASE StartVm(p)
    <3>1. pc' = [pc EXCEPT ![p] = "revert"] \/ pc' = [pc EXCEPT ![p] = "setup"]
      BY <2>3 DEF StartVm, Attempt
    <3>2. pc[p] = "start" /\ retries' = retries
      BY <2>3 DEF StartVm
    <3>3. QED
      BY <2>3, <3>1, <3>2 DEF StartVm
  <2>12. CASE ConstructorRaises(p)
    BY <2>12 DEF ConstructorRaises
  <2>4. CASE Revert(p) \/ OrderRevert(p)
    BY <2>4 DEF Revert, OrderRevert
  <2>5. ASSUME Touch(p), mine[p] \in Vms PROVE marks' \in [Vms -> SUBSET (Procs \X Nat)]
    BY <2>5 DEF Touch, Own
  <2>6. CASE SetUp(p) \/ Act(p)
    BY <2>5, <2>6 DEF SetUp, Act
  <2>7. CASE SetUpUnanswered(p)
    BY <2>7 DEF SetUpUnanswered, Attempt
  <2>8. CASE EndTrial(p)
    BY <2>5, <2>8 DEF EndTrial
  <2>9. CASE Exit(p)
    BY <2>9 DEF Exit, TearRegistry
  <2>10. CASE AcquireVm(p)
    <3>1. CASE CheckAndClean(p)
      <4>1. spoiled' \subseteq Vms
        BY <3>1 DEF CheckAndClean, Others
      <4>2. QED
        BY <2>10, <3>1, <4>1 DEF AcquireVm, CheckAndClean
    <3>2. CASE TakeFree(p)
      <4>1. PICK i \in DOMAIN lines : mine' = [mine EXCEPT ![p] = lines[i].vm]
        BY <3>2 DEF TakeFree, Free
      <4>2. lines[i].vm \in Vms
        BY <1>0, LineFields
      <4>3. QED
        BY <2>10, <3>2, <4>1, <4>2 DEF AcquireVm, TakeFree
    <3>3. CASE NoneFree(p) \/ BootVm(p) \/ RegisterVm(p)
      BY <2>10, <3>3 DEF AcquireVm, NoneFree, BootVm, RegisterVm
    <3>4. CASE NameVm(p)
      BY <2>10, <3>4 DEF AcquireVm, NameVm
    <3>5. QED
      BY <2>10, <3>1, <3>2, <3>3, <3>4 DEF AcquireVm
  <2>11. QED
    BY <2>1, <2>2, <2>3, <2>4, <2>6, <2>7, <2>8, <2>9, <2>10, <2>12 DEF Acts, Work
<1>3. QED
  BY <1>2, LinesTyped DEF Typed, TypeOK, RegistryTypeOK, Line

LEMMA LandsTyped ==
  ASSUME Typed, NEW v \in Vms, RevertLands(v)
  PROVE  Typed'
BY DEF Typed, TypeOK, RegistryTypeOK, Paced, RevertLands, registryVars

LEMMA TypedInit == Init => Typed
<1> SUFFICES ASSUME Init PROVE Typed
  OBVIOUS
<1>1. load \in [Procs -> Nat] /\ MaxRetries \in Nat \ {0} /\ <<>> \in Seq(Line)
  BY DesktopAssumption DEF Init
<1>2. QED
  BY <1>1 DEF Init, RegistryInit, Typed, TypeOK, RegistryTypeOK, Paced, Line, Installing, InUse

LEMMA TypedAlways == Spec => []Typed
<1>1. Typed /\ [Next]_vars => Typed'
  <2> SUFFICES ASSUME Typed, [Next]_vars PROVE Typed'
    OBVIOUS
  <2>1. CASE UNCHANGED vars
    BY <2>1 DEF Typed, TypeOK, RegistryTypeOK, Paced, vars, registryVars
  <2>2. QED
    BY <2>1, Steps, ActsTyped, LandsTyped
<1>2. QED
  BY <1>1, TypedInit, PTL DEF Spec

(* Registry, VMs, processes and desktops keep their types; no process runs  *)
(* more trials than it was given.                                           *)
THEOREM TypeCorrect == Spec => []TypeOK
<1>1. Typed => TypeOK
  BY DEF Typed
<1>2. QED
  BY <1>1, TypedAlways, PTL

-----------------------------------------------------------------------------
(* The registry                                                             *)

LEMMA RegisteredLines ==
  ASSUME NEW ls, NEW v
  PROVE  v \in Registered(ls) <=> \E i \in DOMAIN ls : ls[i].vm = v
BY DEF Registered

(* A step that leaves registry and directory alone, or its user alone.      *)
LEMMA RegisterKept ==
  ASSUME Typed, Register, NEW p \in Procs,
         lines' = lines, there \subseteq there', spoiled \subseteq spoiled', again \subseteq again',
         \A q \in Procs \ {p} : pc'[q] = pc[q] /\ mine'[q] = mine[q],
         \/ pc'[p] \notin Installing \cup InUse
         \/ pc[p] \in InUse /\ pc'[p] \in InUse /\ mine'[p] = mine[p]
         \/ pc[p] \in Installing /\ pc'[p] \in Installing /\ mine'[p] = mine[p]
             /\ pc'[p] # "lay" /\ mine[p] \in there'
  PROVE  Register'
<1> USE DEF Register, Owned, Foreign, Filed, Using
<1>1. Registered(lines)' = Registered(lines)
  BY DEF Registered
<1>2. Installing \cap InUse = {}
  BY DEF Installing, InUse
<1>3. Owned'
  BY <1>1, <1>2
<1>4. Foreign'
  BY <1>1, <1>2
<1>5. Filed'
  BY <1>1
<1>6. QED
  BY <1>3, <1>4, <1>5

(* A clean-up keeps the lines of those that run, and removes what no line   *)
(* names.                                                                   *)
LEMMA RegisterCleaned ==
  ASSUME Typed, Register, "free" \notin Procs, NEW p \in Procs, CheckAndClean(p), p \notin cleaned
  PROVE  Register'
<1> DEFINE t == [i \in DOMAIN lines |-> Checked(lines[i])]
<1>1. /\ lines' = t /\ there' = there \cap Registered(lines) /\ mine' = mine /\ pc' = [pc EXCEPT ![p] = "choose"]
      /\ spoiled' = spoiled \cup ({mine[q] : q \in Others(p, Installing)} \ Registered(lines)) /\ again' = again
      /\ lines \in Seq(Line) /\ pc \in [Procs -> {"absent", "between", "gone"} \cup Acquiring \cup InUse]
  BY DEF CheckAndClean, Goto, Typed, TypeOK, RegistryTypeOK, Line
<1>2. /\ DOMAIN t = DOMAIN lines
      /\ \A i \in DOMAIN lines :
           /\ t[i].vm = lines[i].vm
           /\ t[i].holder = IF lines[i].vm \in there /\ IsHeld(lines[i]) THEN lines[i].holder ELSE "free"
  BY <1>1, CheckedTyped
<1> HIDE DEF t
<1>3. Registered(lines)' = Registered(lines)
  BY <1>1, <1>2 DEF Registered
<1>4. \A q \in Procs : pc'[q] \in Installing \cup InUse => pc'[q] = pc[q] /\ q # p
  BY <1>1 DEF Installing, InUse
<1>5. Owned'
  <2> SUFFICES ASSUME NEW q \in Procs, Using(q)', mine[q] \notin spoiled'
               PROVE  /\ mine[q] \in there' /\ mine[q] \in Registered(lines)'
                      /\ mine[q] \notin again =>
                          \A i \in DOMAIN lines' : lines'[i].vm = mine[q] => lines'[i].holder = q
    BY <1>1 DEF Owned
  <2>1. Using(q) /\ mine[q] \notin spoiled
    BY <1>1, <1>4 DEF Using
  <2>2. mine[q] \in there /\ mine[q] \in Registered(lines)
    BY <2>1 DEF Register, Owned
  <2>3. ASSUME mine[q] \notin again, NEW i \in DOMAIN lines, lines[i].vm = mine[q] PROVE t[i].holder = q
    <3>1. lines[i].holder = q
      BY <2>1, <2>3 DEF Register, Owned
    <3>2. IsHeld(lines[i])
      BY <2>1, <3>1 DEF IsHeld, Alive, Using
    <3>3. QED
      BY <1>2, <2>2, <2>3, <3>1, <3>2
  <2>4. QED
    BY <1>1, <1>2, <1>3, <2>2, <2>3
<1>6. Foreign'
  <2> SUFFICES ASSUME NEW q \in Procs, pc'[q] \in Installing, mine[q] \notin spoiled'
               PROVE  mine[q] \in again /\ (pc'[q] # "lay" => mine[q] \in there')
    BY <1>1 DEF Foreign
  <2>1. q \in Others(p, Installing) /\ mine[q] \notin spoiled /\ pc'[q] = pc[q]
    BY <1>1, <1>4 DEF Others
  <2>2. mine[q] \in Registered(lines)
    BY <1>1, <2>1
  <2>3. QED
    BY <1>1, <2>1, <2>2 DEF Register, Foreign, Others
<1>7. Filed'
  BY <1>1, <1>3 DEF Register, Filed
<1>8. QED
  BY <1>5, <1>6, <1>7 DEF Register

LEMMA RegisterTaken ==
  ASSUME Typed, Register, "free" \notin Procs, NEW p \in Procs, TakeFree(p)
  PROVE  Register'
<1>1. PICK i \in Free : mine' = [mine EXCEPT ![p] = lines[i].vm] /\ lines' = Occupied(lines, lines[i].vm, p)
  BY DEF TakeFree
<1> DEFINE v == lines[i].vm
<1>2. /\ pc' = [pc EXCEPT ![p] = "start"] /\ there' = there /\ spoiled' = spoiled /\ again' = again
      /\ lines \in Seq(Line) /\ pc \in [Procs -> {"absent", "between", "gone"} \cup Acquiring \cup InUse]
      /\ mine'[p] = v /\ \A q \in Procs \ {p} : mine'[q] = mine[q]
      /\ i \in DOMAIN lines /\ lines[i].holder = "free"
  BY <1>1 DEF TakeFree, Goto, Typed, TypeOK, RegistryTypeOK, Line, Free
<1>3. /\ DOMAIN lines' = DOMAIN lines
      /\ \A j \in DOMAIN lines :
           lines'[j].vm = lines[j].vm /\ lines'[j].holder = IF lines[j].vm = v THEN p ELSE lines[j].holder
  BY <1>1, <1>2, OccupiedTyped
<1>4. Registered(lines)' = Registered(lines) /\ v \in Registered(lines)
  BY <1>2, <1>3 DEF Registered
<1>5. \A q \in Procs \ {p} : pc'[q] = pc[q]
  BY <1>2
<1>6. Owned'
  <2> SUFFICES ASSUME NEW q \in Procs, Using(q)', mine'[q] \notin spoiled
               PROVE  /\ mine'[q] \in there /\ mine'[q] \in Registered(lines)
                      /\ mine'[q] \notin again =>
                          \A j \in DOMAIN lines : lines'[j].vm = mine'[q] => lines'[j].holder = q
    BY <1>2, <1>3, <1>4 DEF Owned
  <2>1. CASE q = p
    BY <1>2, <1>3, <1>4, <2>1 DEF Register, Filed
  <2>2. CASE q # p
    <3>1. Using(q) /\ mine'[q] = mine[q] /\ mine[q] \notin spoiled
      BY <1>2, <1>5, <2>2 DEF Using
    <3>2. mine[q] # v \/ mine[q] \in again
      BY <1>2, <3>1 DEF Register, Owned
    <3>3. QED
      BY <1>3, <3>1, <3>2 DEF Register, Owned
  <2>3. QED
    BY <2>1, <2>2
<1>7. Foreign'
  <2>1. \A q \in Procs : pc'[q] \in Installing => q # p /\ pc[q] \in Installing /\ mine'[q] = mine[q]
    BY <1>2 DEF Installing
  <2>2. QED
    BY <1>2, <1>4, <1>5, <2>1 DEF Register, Foreign
<1>8. Filed'
  BY <1>2, <1>4 DEF Register, Filed
<1>9. QED
  BY <1>6, <1>7, <1>8 DEF Register

LEMMA RegisterNamed ==
  ASSUME Typed, Register, NEW p \in Procs, NameVm(p)
  PROVE  Register'
<1>1. PICK v \in Vms :
        /\ mine' = [mine EXCEPT ![p] = v]
        /\ again' = again \cup ({v} \cap there)
        /\ spoiled' = spoiled \cup {w \in {v} : \E q \in Others(p, Installing) : mine[q] = v}
  BY DEF NameVm
<1>2. /\ pc' = [pc EXCEPT ![p] = "lay"] /\ there' = there /\ lines' = lines /\ mine'[p] = v
      /\ pc \in [Procs -> {"absent", "between", "gone"} \cup Acquiring \cup InUse]
      /\ \A q \in Procs \ {p} : mine'[q] = mine[q]
  BY <1>1 DEF NameVm, Goto, Typed, TypeOK, RegistryTypeOK
<1>3. Registered(lines)' = Registered(lines)
  BY <1>2 DEF Registered
<1>4. \A q \in Procs \ {p} : pc'[q] = pc[q]
  BY <1>2
<1>5. \A q \in Procs \ {p} : pc[q] \in Installing /\ mine[q] = v => v \in spoiled'
  BY <1>1 DEF Others
<1>6. Owned'
  <2>1. \A q \in Procs : pc'[q] \in InUse => q # p
    BY <1>2 DEF InUse
  <2>2. QED
    BY <1>1, <1>2, <1>3, <1>4, <2>1 DEF Register, Owned, Using
<1>7. Foreign'
  <2> SUFFICES ASSUME NEW q \in Procs, pc'[q] \in Installing, mine'[q] \notin spoiled'
               PROVE  /\ pc'[q] # "lay" => mine'[q] \in there
                      /\ mine'[q] \notin again' =>
                          /\ mine'[q] \notin Registered(lines)
                          /\ \A r \in Procs \ {q} : pc'[r] \in Installing => mine'[r] # mine'[q]
    BY <1>2, <1>3 DEF Foreign
  <2>1. CASE q = p
    <3>1. v \notin again' => v \notin Registered(lines)
      BY <1>1, <1>2, <2>1 DEF Register, Filed
    <3>2. QED
      BY <1>2, <1>4, <1>5, <2>1, <3>1
  <2>2. CASE q # p
    <3>1. pc[q] \in Installing /\ mine'[q] = mine[q] /\ mine[q] \notin spoiled /\ mine[q] # v
      BY <1>1, <1>2, <1>4, <1>5, <2>2
    <3>2. QED
      BY <1>1, <1>2, <1>4, <2>2, <3>1 DEF Register, Foreign
  <2>3. QED
    BY <2>1, <2>2
<1>8. Filed'
  BY <1>1, <1>2, <1>3 DEF Register, Filed
<1>9. QED
  BY <1>6, <1>7, <1>8 DEF Register

LEMMA RegisterAdded ==
  ASSUME Typed, Register, NEW p \in Procs, RegisterVm(p)
  PROVE  Register'
<1> DEFINE v == mine[p]
           more == Append(lines, [vm |-> v, holder |-> "free"])
<1>1. /\ pc[p] = "register" /\ pc' = [pc EXCEPT ![p] = "start"] /\ there' = there /\ spoiled' = spoiled /\ mine' = mine
      /\ again' = again /\ lines' = Occupied(more, v, p) /\ lines \in Seq(Line) /\ v \in Vms
      /\ pc \in [Procs -> {"absent", "between", "gone"} \cup Acquiring \cup InUse]
  BY DEF RegisterVm, Goto, Typed, TypeOK, RegistryTypeOK, Line, Paced, Installing
<1>2. /\ more \in Seq(Line) /\ DOMAIN more = 1 .. Len(lines) + 1 /\ DOMAIN lines = 1 .. Len(lines)
      /\ \A i \in DOMAIN lines : more[i] = lines[i]
      /\ more[Len(lines) + 1].vm = v
  BY <1>1 DEF Line
<1> HIDE DEF more
<1>3. /\ DOMAIN lines' = DOMAIN more
      /\ \A i \in DOMAIN more :
            lines'[i].vm = more[i].vm /\ lines'[i].holder = IF more[i].vm = v THEN p ELSE more[i].holder
  BY <1>1, <1>2, OccupiedTyped
<1>4. \A i \in DOMAIN more : i \in DOMAIN lines \/ more[i].vm = v
  BY <1>1, <1>2
<1>5. Registered(lines)' = Registered(lines) \cup {v}
  <2>1. \A i \in DOMAIN lines : i \in DOMAIN more
    BY <1>1, <1>2
  <2>2. Len(lines) + 1 \in DOMAIN more
    BY <1>1, <1>2
  <2>3. QED
    BY <1>2, <1>3, <1>4, <2>1, <2>2 DEF Registered
<1>6. \A q \in Procs \ {p} : pc'[q] = pc[q]
  BY <1>1
<1>7. v \notin spoiled => v \in there /\ (v \notin again => v \notin Registered(lines))
  BY <1>1 DEF Register, Foreign, Installing
<1>8. Owned'
  <2> SUFFICES ASSUME NEW q \in Procs, Using(q)', mine[q] \notin spoiled
               PROVE  /\ mine[q] \in there /\ mine[q] \in Registered(lines)'
                      /\ mine[q] \notin again => \A i \in DOMAIN more : lines'[i].vm = mine[q] => lines'[i].holder = q
    BY <1>1, <1>3 DEF Owned
  <2>1. CASE q = p
    BY <1>3, <1>5, <1>7, <2>1
  <2>2. CASE q # p
    <3>1. /\ mine[q] \in there /\ mine[q] \in Registered(lines)
          /\ mine[q] \notin again => \A i \in DOMAIN lines : lines[i].vm = mine[q] => lines[i].holder = q
      BY <1>1, <1>6, <2>2 DEF Register, Owned, Using
    <3>2. mine[q] # v \/ mine[q] \in again
      BY <1>7, <3>1
    <3>3. QED
      BY <1>2, <1>3, <1>4, <1>5, <3>1, <3>2
  <2>3. QED
    BY <2>1, <2>2
<1>9. Foreign'
  <2> SUFFICES ASSUME NEW q \in Procs, pc'[q] \in Installing, mine[q] \notin spoiled
               PROVE  /\ pc'[q] # "lay" => mine[q] \in there
                      /\ mine[q] \notin again =>
                          /\ mine[q] \notin Registered(lines)'
                          /\ \A r \in Procs \ {q} : pc'[r] \in Installing => mine[r] # mine[q]
    BY <1>1 DEF Foreign
  <2>1. q # p /\ pc[q] \in Installing /\ pc'[q] = pc[q]
    BY <1>1 DEF Installing
  <2>2. pc[p] \in Installing
    BY <1>1 DEF Installing
  <2>3. mine[q] # v \/ mine[q] \in again
    BY <2>1, <2>2 DEF Register, Foreign
  <2>4. \A r \in Procs : pc'[r] \in Installing => pc[r] \in Installing
    BY <1>1 DEF Installing
  <2>5. QED
    BY <1>5, <2>1, <2>3, <2>4 DEF Register, Foreign
<1>10. Filed'
  BY <1>1, <1>5, <1>7 DEF Register, Filed
<1>11. QED
  BY <1>8, <1>9, <1>10 DEF Register

LEMMA RegisterStep ==
  ASSUME Typed, Register, NEW p \in Procs, Acts(p)
  PROVE  Register'
<1> DEFINE Far == {"absent", "between", "gone", "clean", "choose", "name"}
<1>1. /\ \A q \in Procs \ {p} : pc'[q] = pc[q] /\ mine'[q] = mine[q]
      /\ spoiled \subseteq spoiled' /\ again \subseteq again' /\ "free" \notin Procs
      /\ pc \in [Procs -> {"absent", "between", "gone"} \cup Acquiring \cup InUse]
      /\ mine \in [Procs -> Vms \cup {NoVm}]
  BY OthersStill, DesktopAssumption DEF Typed, TypeOK, RegistryTypeOK
<1>2. CASE lines' = lines /\ there' = there /\ pc'[p] \in Far
  BY <1>1, <1>2, RegisterKept DEF Installing, InUse
<1>3. CASE lines' = lines /\ there' = there /\ pc[p] \in InUse /\ pc'[p] \in InUse /\ mine'[p] = mine[p]
  BY <1>1, <1>3, RegisterKept
<1>4. CASE BeginTrial(p) \/ ConstructorRaises(p) \/ EndTrial(p) \/ NoneFree(p)
  BY <1>1, <1>2, <1>4 DEF BeginTrial, ConstructorRaises, EndTrial, NoneFree, Leave, Goto
<1>5. CASE StartVm(p) \/ Revert(p) \/ OrderRevert(p) \/ SetUp(p) \/ SetUpUnanswered(p) \/ Act(p)
  <2>1. pc[p] \in InUse /\ pc'[p] \in InUse
    BY <1>1, <1>5 DEF StartVm, Revert, OrderRevert, SetUp, SetUpUnanswered, Act, Step, Goto, Attempt, InUse
  <2>2. lines' = lines /\ there' = there /\ mine' = mine
    BY <1>5 DEF StartVm, Revert, OrderRevert, SetUp, SetUpUnanswered, Act, Step
  <2>3. QED
    BY <1>3, <2>1, <2>2
<1>6. CASE FillVm(p) \/ BootVm(p)
  <2>1. /\ pc[p] \in Installing /\ pc'[p] \in Installing /\ pc'[p] # "lay"
        /\ lines' = lines /\ there \subseteq there' /\ mine' = mine /\ mine[p] \in there'
    BY <1>1, <1>6 DEF FillVm, LayFiles, BootVm, Goto, Installing
  <2>2. QED
    BY <1>1, <2>1, RegisterKept
<1>7. CASE CheckAndClean(p)
  <2>1. CASE p \in cleaned
    BY <1>1, <1>2, <1>7, <2>1 DEF CheckAndClean, Goto
  <2>2. QED
    BY <1>1, <1>7, <2>1, RegisterCleaned
<1>8. CASE Exit(p)
  <2>1. CASE spoiled' = Vms
    <3>1. \A q \in Procs : pc'[q] \in Installing \cup InUse => mine'[q] \in spoiled'
      BY <2>1, ActsTyped DEF Typed, Paced, Vms
    <3>2. Registered(lines)' \subseteq spoiled'
      <4>1. lines' \in Seq(Line)
        BY LinesTyped
      <4>2. QED
        BY <2>1, <4>1, LineFields DEF Registered
    <3>3. QED
      BY <3>1, <3>2 DEF Register, Owned, Foreign, Filed, Using
  <2>2. CASE lines' = lines /\ spoiled' = spoiled
    BY <1>1, <1>2, <1>8, <2>2 DEF Exit, Leave, Goto
  <2>3. QED
    BY <1>8, <2>1, <2>2 DEF Exit, TearRegistry
<1>9. QED
  BY <1>1, <1>4, <1>5, <1>6, <1>7, <1>8, RegisterTaken, RegisterNamed, RegisterAdded DEF Acts, Work, AcquireVm

LEMMA RegisterInit == Init => Register
BY DEF Init, RegistryInit, Register, Owned, Foreign, Filed, Using, Installing, InUse, Registered

LEMMA RegisterAlways == Spec => [](Typed /\ Register)
<1>1. Typed /\ Register /\ [Next]_vars => Register'
  <2> SUFFICES ASSUME Typed, Register, [Next]_vars PROVE Register'
    OBVIOUS
  <2>1. CASE UNCHANGED registryVars
    BY <2>1 DEF registryVars, Register, Owned, Foreign, Filed, Using, Registered
  <2>2. QED
    BY <2>1, Steps, RegisterStep DEF RevertLands, vars
<1>2. QED
  BY <1>1, RegisterInit, TypedAlways, PTL DEF Spec

LEMMA OneUser ==
  ASSUME Register, NEW p \in Procs, NEW q \in Procs, p # q, Using(p), mine[p] \notin spoiled \cup again,
         Using(q) \/ pc[q] \in Installing
  PROVE  mine[q] # mine[p]
BY DEF Register, Owned, Foreign, Registered

(* A VM none of the three accidents befell, and which VirtualBox's manager  *)
(* has not named again, has one user at a time.                             *)
THEOREM VmsExclusive == Spec => []VmsAreExclusive
<1>1. Register => VmsAreExclusive
  BY OneUser DEF VmsAreExclusive
<1>2. QED
  BY <1>1, RegisterAlways, PTL

(* No clean-up removes a VM in use.                                         *)
THEOREM VmsExist == Spec => []VmsInUseExist
<1>1. Register => VmsInUseExist
  BY DEF Register, Owned, VmsInUseExist
<1>2. QED
  BY <1>1, RegisterAlways, PTL

-----------------------------------------------------------------------------
(* Desktops                                                                 *)

(* A process marks, empties or reverts the VM it installs or uses only.     *)
LEMMA MarksOwn ==
  ASSUME Typed, NEW p \in Procs, Acts(p), NEW v \in Vms,
         v # mine[p] \/ pc[p] \notin Installing \cup InUse
  PROVE  marks'[v] = marks[v] /\ (v \in pending' <=> v \in pending)
<1> USE DEF Typed, TypeOK, RegistryTypeOK, Step, Leave, Installing, InUse
<1>1. CASE BeginTrial(p) \/ StartVm(p) \/ ConstructorRaises(p) \/ SetUpUnanswered(p) \/ Exit(p) \/ AcquireVm(p)
  BY <1>1 DEF BeginTrial, StartVm, ConstructorRaises, SetUpUnanswered, Exit, AcquireVm
<1>2. CASE FillVm(p)
  BY <1>2 DEF FillVm, LayFiles
<1>3. CASE Revert(p) \/ OrderRevert(p)
  BY <1>3 DEF Revert, OrderRevert
<1>4. CASE SetUp(p) \/ Act(p) \/ EndTrial(p)
  BY <1>4 DEF SetUp, Act, EndTrial, Touch
<1>5. QED
  BY <1>1, <1>2, <1>3, <1>4 DEF Acts, Work

LEMMA PosedOthers ==
  ASSUME Typed, Register, NEW p \in Procs, Acts(p), NEW q \in Procs, q # p, Posed(q)
  PROVE  Posed(q)'
<1>1. /\ pc'[q] = pc[q] /\ mine'[q] = mine[q] /\ used'[q] = used[q] /\ retries'[q] = retries[q] /\ Own(q)' = Own(q)
      /\ spoiled \subseteq spoiled' /\ again \subseteq again'
  BY OthersStill DEF Typed, Own
<1>2. ASSUME pc[q] \in InUse, mine[q] \notin spoiled \cup again
      PROVE  marks'[mine[q]] = marks[mine[q]] /\ (mine[q] \in pending' <=> mine[q] \in pending)
  <2>1. mine[q] \in Vms
    BY <1>2 DEF Typed, Paced
  <2>2. mine[q] # mine[p] \/ pc[p] \notin Installing \cup InUse
    BY <1>2, OneUser DEF Using
  <2>3. QED
    BY <2>1, <2>2, MarksOwn
<1>3. QED
  BY <1>1, <1>2 DEF Posed, InUse

LEMMA PosedOwn ==
  ASSUME Typed, NEW p \in Procs, Acts(p), Posed(p)
  PROVE  Posed(p)'
<1>1. /\ pc \in [Procs -> {"absent", "between", "gone"} \cup Acquiring \cup InUse]
      /\ used \in [Procs -> BOOLEAN] /\ retries \in [Procs -> 0 .. MaxRetries] /\ MaxRetries \in Nat \ {0}
      /\ marks \in [Vms -> SUBSET (Procs \X Nat)] /\ provider \in {"virtualbox", "vmware"}
      /\ pc[p] \in Installing \cup InUse => mine[p] \in Vms
  BY DesktopAssumption DEF Typed, TypeOK, RegistryTypeOK, Paced
<1> DEFINE Far == {"absent", "between", "gone"}
<1>2. CASE pc'[p] \in Far
  BY <1>2 DEF Posed, Acquiring, Installing
<1>3. CASE ConstructorRaises(p) \/ EndTrial(p) \/ Exit(p)
  BY <1>1, <1>2, <1>3 DEF ConstructorRaises, EndTrial, Exit, Leave, Goto
<1>4. CASE BeginTrial(p) \/ FillVm(p) \/ AcquireVm(p)
  <2>1. /\ pc'[p] \in Acquiring \cup {"start"}
        /\ used'[p]
    <3>1. CASE BeginTrial(p)
      BY <1>1, <3>1 DEF BeginTrial, UsedAtFirst, Goto, Acquiring
    <3>2. CASE FillVm(p)
      BY <1>1, <3>2 DEF FillVm, LayFiles, Goto, Acquiring, Installing, Posed
    <3>3. CASE AcquireVm(p)
      BY <1>1, <3>3 DEF AcquireVm, CheckAndClean, TakeFree, NoneFree, NameVm, BootVm, RegisterVm, Goto, Acquiring,
         Installing, Posed
    <3>4. QED
      BY <1>4, <3>1, <3>2, <3>3
  <2>2. QED
    BY <2>1 DEF Posed, Acquiring, Installing
<1>5. CASE StartVm(p)
  BY <1>1, <1>5 DEF StartVm, Step, Goto, Attempt, Posed, Acquiring, Installing
<1>6. CASE Revert(p) \/ OrderRevert(p)
  <2>1. /\ pc[p] = "revert" /\ pc'[p] = "setup" /\ ~used'[p] /\ mine' = mine /\ mine[p] \in Vms
        /\ marks'[mine[p]] = {} \/ mine[p] \in pending'
    BY <1>1, <1>6 DEF Revert, OrderRevert, Step, Goto, InUse
  <2>2. QED
    BY <2>1 DEF Posed, Acquiring, Installing
<1>7. CASE SetUp(p) \/ Act(p)
  <2>1. /\ pc[p] \in {"setup", "run"} /\ pc'[p] = "run" /\ mine' = mine /\ mine[p] \in Vms
        /\ spoiled' = spoiled /\ again' = again /\ pending' = pending /\ Own(p)' = Own(p)
        /\ marks'[mine[p]] = marks[mine[p]] \cup {Own(p)}
    BY <1>1, <1>7 DEF SetUp, Act, Step, Goto, Touch, InUse, Own
  <2>2. QED
    BY <2>1 DEF Posed, Acquiring, Installing
<1>8. CASE SetUpUnanswered(p)
  <2>1. /\ pc[p] = "setup" /\ mine' = mine /\ spoiled' = spoiled /\ again' = again
        /\ pending' = pending /\ marks' = marks /\ used' = used
        /\ retries'[p] = retries[p] + 1 /\ ~used[p] /\ Own(p)' = Own(p)
    BY <1>1, <1>8 DEF SetUpUnanswered, Step, Goto, Posed, Own
  <2>2. \/ pc'[p] = "setup"
        \/ pc'[p] = "run" /\ retries[p] + 1 = MaxRetries
    <3>1. retries[p] < MaxRetries /\ retries[p] \in Nat
      BY <1>1, <2>1 DEF Typed, Paced
    <3>2. pc'[p] = IF retries[p] + 1 < MaxRetries THEN Attempt(used[p]) ELSE "run"
      BY <1>1, <1>8 DEF SetUpUnanswered, Step, Goto
    <3>3. Attempt(used[p]) = "setup"
      BY <2>1 DEF Attempt
    <3>4. QED
      BY <1>1, <3>1, <3>2, <3>3
  <2>3. QED
    BY <2>1, <2>2 DEF Posed, Acquiring, Installing
<1>9. QED
  BY <1>3, <1>4, <1>5, <1>6, <1>7, <1>8 DEF Acts, Work

(* An agent that acts finds the desktop of its own task, and one untouched  *)
(* only if the server never answered; but for the accidents, for VMware's   *)
(* unfinished reverts and the VM that VirtualBox's manager named again.     *)
THEOREM DesktopsPosed == Spec => []DesktopsAreAsPosed
<1> DEFINE All == \A p \in Procs : Posed(p)
<1>1. Init => All
  BY DEF Init, RegistryInit, Posed, Acquiring, Installing
<1>2. Typed /\ Register /\ All /\ [Next]_vars => All'
  <2> SUFFICES ASSUME Typed, Register, All, [Next]_vars, NEW q \in Procs PROVE Posed(q)'
    OBVIOUS
  <2>1. ASSUME NEW p \in Procs, Acts(p) PROVE Posed(q)'
    BY <2>1, PosedOwn, PosedOthers
  <2>2. ASSUME NEW v \in Vms, RevertLands(v) PROVE Posed(q)'
    <3>1. /\ UNCHANGED <<registryVars, trial, used, retries, pending>>
          /\ v \in pending /\ marks' = [marks EXCEPT ![v] = {}]
      BY <2>2 DEF RevertLands
    <3>2. pc[q] \in InUse /\ mine[q] \notin pending => marks'[mine[q]] = marks[mine[q]]
      BY <3>1 DEF Typed, TypeOK, Paced
    <3>3. QED
      BY <3>1, <3>2 DEF Posed, registryVars, Own, InUse
  <2>3. CASE UNCHANGED vars
    BY <2>3 DEF vars, registryVars, Posed, Own
  <2>4. QED
    BY <2>1, <2>2, <2>3, Steps
<1>3. All => DesktopsAreAsPosed
  BY DEF Posed, DesktopsAreAsPosed
<1>4. QED
  BY <1>1, <1>2, <1>3, RegisterAlways, PTL DEF Spec
===============================================================================
