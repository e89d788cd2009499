------------------------ MODULE RolloutServiceProofs ------------------------
(***************************************************************************)
(* Proofs about what the rollout service promises.  The server and the      *)
(* local runner implement it, and so inherit what is proved here.           *)
(***************************************************************************)
EXTENDS RolloutService, FiniteSetTheorems, TLAPS

Finite == Slots \in Nat /\ IsFiniteSet(Requests)

Inv == TypeOK /\ SlotsAreBounded /\ VerdictsAreSound

LEMMA InvInit ==
  ASSUME Slots \in Nat, Init
  PROVE  Inv
<1>1. TypeOK /\ VerdictsAreSound
  BY DEF Init, TypeOK, VerdictsAreSound, Phases, Verdicts
<1>2. Running = {}
  BY DEF Init, Running
<1>3. QED
  BY <1>1, <1>2, FS_EmptySet DEF Inv, SlotsAreBounded

LEMMA TypeStep ==
  ASSUME TypeOK, [Next]_vars
  PROVE  TypeOK'
<1> USE DEF TypeOK, Phases, Verdicts
<1>1. ASSUME NEW r \in Requests, Submit(r) \/ Start(r) \/ Save(r) PROVE TypeOK'
  BY <1>1 DEF Submit, Start, Save
<1>2. ASSUME NEW r \in Requests, NEW v \in Verdicts, Decide(r, v) PROVE TypeOK'
  BY <1>2 DEF Decide
<1>3. ASSUME NEW R \in SUBSET Requests, Answer(R) \/ Drop(R) PROVE TypeOK'
  BY <1>3 DEF Answer, Drop
<1>4. CASE UNCHANGED vars
  BY <1>4 DEF vars
<1>5. QED
  BY <1>1, <1>2, <1>3, <1>4 DEF Next

(* What FatesAreFinal asks of a step                                        *)
FateStep ==
    \A r \in Requests :
        /\ verdict[r] # "none" => verdict'[r] = verdict[r]
        /\ phase[r] = "saved" => phase'[r] \in {"saved", "answered"}
        /\ phase[r] \in {"answered", "dropped"} => phase'[r] = phase[r]

(* A verdict is given once, when the rollout leaves its slot or before it   *)
(* has one, and nothing is taken from where its fate has put it.            *)
LEMMA VerdictStep ==
  ASSUME TypeOK, VerdictsAreSound, [Next]_vars
  PROVE  VerdictsAreSound' /\ FateStep
<1> USE DEF TypeOK, VerdictsAreSound, FateStep
<1>1. ASSUME NEW r \in Requests, Submit(r) \/ Start(r) \/ Save(r)
      PROVE  VerdictsAreSound' /\ FateStep
  BY <1>1 DEF Submit, Start, Save
<1>2. ASSUME NEW r \in Requests, NEW v \in Verdicts, Decide(r, v)
      PROVE  VerdictsAreSound' /\ FateStep
  BY <1>2 DEF Decide, Verdicts
<1>3. ASSUME NEW R \in SUBSET Requests, Answer(R) \/ Drop(R)
      PROVE  VerdictsAreSound' /\ FateStep
  BY <1>3 DEF Answer, Drop
<1>4. CASE UNCHANGED vars
  BY <1>4 DEF vars
<1>5. QED
  BY <1>1, <1>2, <1>3, <1>4 DEF Next

(* Only a start makes one more run, and it looks whether there is room.     *)
LEMMA SlotStep ==
  ASSUME Slots \in Nat, IsFiniteSet(Requests), TypeOK, SlotsAreBounded, [Next]_vars
  PROVE  SlotsAreBounded'
<1>1. IsFiniteSet(Running) /\ Cardinality(Running) \in Nat
  BY FS_Subset, FS_CardinalityType DEF Running
<1>2. ASSUME Running' \subseteq Running PROVE SlotsAreBounded'
  <2>1. Cardinality(Running') \in Nat /\ Cardinality(Running') <= Cardinality(Running)
    BY <1>1, <1>2, FS_Subset, FS_CardinalityType
  <2>2. QED
    BY <1>1, <2>1 DEF SlotsAreBounded
<1>3. ASSUME NEW r \in Requests, Start(r) PROVE SlotsAreBounded'
  <2>1. Running' = Running \cup {r} /\ r \notin Running
    BY <1>3 DEF Start, TypeOK, Running
  <2>2. Cardinality(Running') = Cardinality(Running) + 1
    BY <1>1, <2>1, FS_AddElement
  <2>3. QED
    BY <1>1, <1>3, <2>2 DEF Start, SlotsAreBounded
<1>4. ASSUME NEW r \in Requests, Submit(r) \/ Save(r) PROVE SlotsAreBounded'
  BY <1>2, <1>4 DEF Submit, Save, TypeOK, Running
<1>5. ASSUME NEW r \in Requests, NEW v \in Verdicts, Decide(r, v) PROVE SlotsAreBounded'
  BY <1>2, <1>5 DEF Decide, TypeOK, Running
<1>6. ASSUME NEW R \in SUBSET Requests, Answer(R) \/ Drop(R) PROVE SlotsAreBounded'
  BY <1>2, <1>6 DEF Answer, Drop, TypeOK, Running
<1>7. CASE UNCHANGED vars
  BY <1>2, <1>7 DEF vars, Running
<1>8. QED
  BY <1>3, <1>4, <1>5, <1>6, <1>7 DEF Next

(* An engine with finitely many requests that implements the service runs   *)
(* no more rollouts than it has slots, and answers only with a verdict, of  *)
(* Timeout only where one was asked for.                                    *)
THEOREM ServiceIsSafe ==
  Finite => (Spec => [](SlotsAreBounded /\ VerdictsAreSound))
<1> SUFFICES ASSUME Slots \in Nat, IsFiniteSet(Requests)
             PROVE  Spec => [](SlotsAreBounded /\ VerdictsAreSound)
  BY DEF Finite
<1>1. Init => Inv
  BY InvInit
<1>2. Inv /\ [Next]_vars => Inv'
  BY TypeStep, VerdictStep, SlotStep DEF Inv
<1>3. Inv => SlotsAreBounded /\ VerdictsAreSound
  BY DEF Inv
<1>4. QED
  BY <1>1, <1>2, <1>3, PTL DEF Spec

(* An engine that implements the service changes no verdict it has given,   *)
(* and takes back neither an answer nor what it saved.                      *)
THEOREM ServiceIsFinal == Spec => FatesAreFinal
<1>1. Init => TypeOK /\ VerdictsAreSound
  BY DEF Init, TypeOK, VerdictsAreSound, Phases, Verdicts
<1>2. TypeOK /\ VerdictsAreSound /\ [Next]_vars => (TypeOK /\ VerdictsAreSound)'
  BY TypeStep, VerdictStep
<1>3. TypeOK /\ VerdictsAreSound /\ [Next]_vars => [FateStep]_vars
  BY VerdictStep
<1>4. Spec => [][FateStep]_vars
  BY <1>1, <1>2, <1>3, PTL DEF Spec
<1>5. QED
  BY <1>4 DEF FatesAreFinal, FateStep
=============================================================================
