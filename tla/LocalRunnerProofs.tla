-------------------------- MODULE LocalRunnerProofs --------------------------
(***************************************************************************)
(* Proofs about the local runner: its types, its two lists and what is left *)
(* of one of them in the loop under way, the children it may still own, and *)
(* the batch it returns.                                                    *)
(***************************************************************************)
EXTENDS LocalRunner, FiniteSetTheorems, TLAPS

(* The elements of a list, and that it holds each of them once.             *)
Elems(s) == {s[i] : i \in 1 .. Len(s)}
Distinct(s) == \A i, j \in 1 .. Len(s) : s[i] = s[j] => i = j

(* The request _start is working on.                                        *)
Starting == IF pc = "register" THEN {Current} ELSE {}

(* The polling loop stands at an element of todo.                           *)
AtOne == pc \in {"check", "last", "receive", "join", "save"}

Lists ==
    /\ Distinct(active) /\ Distinct(pending)
    /\ Elems(active) \cap Elems(pending) = {}
    /\ Len(active) <= Concurrency
    /\ pc = "fill" => todo = <<>>
    /\ pc = "register" =>
        /\ todo # <<>>
        /\ Current \notin Elems(active) \cup Elems(pending)
        /\ Len(active) < Concurrency
    /\ pc = "poll" \/ AtOne => Distinct(todo)
    /\ pc \in {"poll", "abort"} \/ AtOne => Elems(todo) \subseteq Elems(active)
    /\ AtOne => todo # <<>>

(* A response is given to the dead only.                                    *)
Children ==
    /\ \A r \in Elems(pending) : proc[r] = "none"
    /\ \A r \in Elems(active) \cup Starting : proc[r] # "none"
    /\ pc = "last" => proc[Current] = "dead"
    /\ pc = "join" => payload # "none"
    /\ pc = "save" => response[Current] # "none"
    /\ \A r \in Requests : response[r] # "none" => proc[r] = "dead"
    /\ NoOutcomeOverlooked

(* Who may be alive: what is on the list of active ones or about to be,     *)
(* and, once the loop is left, what the finally clause still has to stop    *)
(* and at most one child it does not know.                                  *)
Owned ==
    /\ pc \in LoopStates => \A r \in Requests : Alive(r) => r \in Elems(active) \cup Starting
    /\ pc = "returned" => \A r \in Requests : ~Alive(r)
    /\ pc = "raised" => todo = <<>>
    /\ pc \in {"abort", "raised"} =>
        /\ \A r \in Requests : Alive(r) /\ r \in Elems(active) => r \in Elems(todo)
        /\ \A r, s \in Requests :
            Alive(r) /\ Alive(s) /\ r \notin Elems(todo) /\ s \notin Elems(todo) => r = s

(* While no exception was raised, every request of the batch is on one of   *)
(* the lists or being started, once.                                        *)
Accounted ==
    pc \in LoopStates \cup {"returned"} =>
        /\ Elems(pending) \cup Starting \cup Elems(active) \cup Elems(responses) = Requests
        /\ Elems(responses) \cap (Elems(pending) \cup Starting \cup Elems(active)) = {}
        /\ Len(pending) + Len(active) + Len(responses) + (IF pc = "register" THEN 1 ELSE 0) = Len(Batch)
        /\ \A r \in Elems(responses) : record[r] = response[r] /\ response[r] # "none"
        /\ pc = "returned" => pending = <<>> /\ active = <<>>

Inv == TypeOK /\ Lists /\ Children /\ Owned /\ Accounted /\ LiveChildrenBounded

-----------------------------------------------------------------------------
(* Lists                                                                    *)

(* The first element of a list, and what is left without it.                *)
LEMMA HeadAndTail ==
  ASSUME NEW s \in Seq(Requests), s # <<>>
  PROVE  /\ Head(s) \in Requests /\ Head(s) \in Elems(s)
         /\ Tail(s) \in Seq(Requests) /\ Len(Tail(s)) = Len(s) - 1
         /\ Elems(s) = Elems(Tail(s)) \cup {Head(s)}
         /\ Distinct(s) => Distinct(Tail(s)) /\ Head(s) \notin Elems(Tail(s))
<1> DEFINE t == Tail(s)
<1>1. /\ Len(s) \in Nat \ {0} /\ Head(s) = s[1] /\ Head(s) \in Requests
      /\ t \in Seq(Requests) /\ Len(t) = Len(s) - 1
      /\ \A i \in 1 .. Len(t) : t[i] = s[i + 1]
  OBVIOUS
<1> HIDE DEF t
<1>2. \A i \in 1 .. Len(t) : i + 1 \in 1 .. Len(s) /\ i + 1 # 1
  BY <1>1
<1>3. \A k \in 1 .. Len(s) : k = 1 \/ (k - 1 \in 1 .. Len(t) /\ t[k - 1] = s[k])
  <2>1. ASSUME NEW k \in 1 .. Len(s), k # 1 PROVE k - 1 \in 1 .. Len(t) /\ (k - 1) + 1 = k
    BY <1>1, <2>1
  <2>2. QED
    BY <1>1, <2>1
<1>4. 1 \in 1 .. Len(s)
  BY <1>1
<1>5. Elems(s) = Elems(t) \cup {Head(s)}
  BY <1>1, <1>2, <1>3, <1>4 DEF Elems
<1>6. ASSUME Distinct(s) PROVE Distinct(t) /\ Head(s) \notin Elems(t)
  <2>1. Head(s) \notin Elems(t)
    BY <1>1, <1>2, <1>4, <1>6 DEF Elems, Distinct
  <2>2. ASSUME NEW i \in 1 .. Len(t), NEW j \in 1 .. Len(t), t[i] = t[j]
        PROVE  i = j
    BY <1>1, <1>2, <1>6, <2>2 DEF Distinct
  <2>3. QED
    BY <2>1, <2>2 DEF Distinct
<1>7. QED
  BY <1>1, <1>4, <1>5, <1>6 DEF t, Elems

(* Adding an element at the end.                                            *)
LEMMA AppendedElems ==
  ASSUME NEW s \in Seq(Requests), NEW x \in Requests
  PROVE  /\ Append(s, x) \in Seq(Requests) /\ Len(Append(s, x)) = Len(s) + 1
         /\ Elems(Append(s, x)) = Elems(s) \cup {x}
         /\ Distinct(s) /\ x \notin Elems(s) => Distinct(Append(s, x))
<1> DEFINE t == Append(s, x)
<1>1. /\ Len(s) \in Nat /\ t \in Seq(Requests) /\ Len(t) = Len(s) + 1
      /\ t[Len(s) + 1] = x
      /\ \A i \in 1 .. Len(s) : t[i] = s[i]
  OBVIOUS
<1> HIDE DEF t
<1>2. \A i \in 1 .. Len(t) : i \in 1 .. Len(s) \/ i = Len(s) + 1
  BY <1>1
<1>3. Len(s) + 1 \in 1 .. Len(t) /\ \A i \in 1 .. Len(s) : i \in 1 .. Len(t)
  BY <1>1
<1>4. Elems(t) = Elems(s) \cup {x}
  BY <1>1, <1>2, <1>3, Zenon DEF Elems
<1>5. Distinct(s) /\ x \notin Elems(s) => Distinct(t)
  BY <1>1, <1>2, Zenon DEF Elems, Distinct
<1>6. QED
  BY <1>1, <1>4, <1>5 DEF t

LEMMA ShortLists ==
  /\ <<>> \in Seq(Requests) /\ Len(<<>>) = 0 /\ Elems(<<>>) = {} /\ Distinct(<<>>)
  /\ \A s \in Seq(Requests) : Len(s) \in Nat /\ Elems(s) \subseteq Requests
  /\ \A x \in Requests :
        /\ <<x>> \in Seq(Requests) /\ <<x>> # <<>> /\ Head(<<x>>) = x
BY DEF Elems, Distinct

(* list.remove takes one element off a list that holds it once.             *)
LEMMA WithoutOne ==
  ASSUME NEW s \in Seq(Requests), Distinct(s), NEW r \in Elems(s)
  PROVE  /\ Without(s, r) \in Seq(Requests) /\ Len(Without(s, r)) = Len(s) - 1
         /\ Elems(Without(s, r)) = Elems(s) \ {r}
         /\ Distinct(Without(s, r))
<1> DEFINE at == CHOOSE i \in 1 .. Len(s) : s[i] = r
           t == [i \in 1 .. Len(s) - 1 |-> IF i < at THEN s[i] ELSE s[i + 1]]
<1>1. at \in 1 .. Len(s) /\ s[at] = r
  BY DEF Elems
<1>2. Len(s) \in Nat /\ Without(s, r) = t
  BY DEF Without
<1> HIDE DEF at
<1>3. t \in Seq(Requests) /\ Len(t) = Len(s) - 1
  BY <1>1, <1>2
<1>4. \A i \in 1 .. Len(s) - 1 : t[i] = IF i < at THEN s[i] ELSE s[i + 1]
  OBVIOUS
<1> HIDE DEF t
<1>5. Elems(t) \subseteq Elems(s) \ {r}
  BY <1>1, <1>2, <1>3, <1>4 DEF Elems, Distinct
<1>6. Elems(s) \ {r} \subseteq Elems(t)
  <2>1. SUFFICES ASSUME NEW k \in 1 .. Len(s), s[k] # r PROVE s[k] \in Elems(t)
    BY DEF Elems
  <2>2. CASE k < at
    <3>1. k \in 1 .. Len(t) /\ t[k] = s[k]
      BY <1>1, <1>2, <1>3, <1>4, <2>2
    <3>2. QED
      BY <3>1 DEF Elems
  <2>3. CASE k > at
    <3>1. k - 1 \in 1 .. Len(t) /\ t[k - 1] = s[k]
      BY <1>1, <1>2, <1>3, <1>4, <2>3
    <3>2. QED
      BY <3>1 DEF Elems
  <2>4. QED
    BY <1>1, <1>2, <2>1, <2>2, <2>3
<1>7. Distinct(t)
  BY <1>1, <1>2, <1>3, <1>4 DEF Distinct
<1>8. QED
  BY <1>2, <1>3, <1>5, <1>6, <1>7

-----------------------------------------------------------------------------
(* The steps                                                                *)

(* The request the loop stands at.                                          *)
LEMMA CurrentOne ==
  ASSUME TypeOK, Lists, todo # <<>>
  PROVE  /\ Current \in Requests /\ Current \in Elems(todo)
         /\ Tail(todo) \in Seq(Requests)
         /\ Elems(todo) = Elems(Tail(todo)) \cup {Current}
         /\ Distinct(todo) => Distinct(Tail(todo)) /\ Current \notin Elems(Tail(todo))
         /\ pc \in {"poll", "abort"} \/ AtOne => Current \in Elems(active)
<1>1. todo \in Seq(Requests)
  BY DEF TypeOK
<1>2. QED
  BY <1>1, HeadAndTail DEF Lists, Current

LEMMA TypeStep ==
  ASSUME TypeOK, Lists, Children, [Next]_vars
  PROVE  TypeOK'
<1> USE DEF TypeOK, parentVars, answerVars, childVars, vars, LoopStates
<1>1. CASE Fork
  <2>1. Head(pending) \in Requests /\ Tail(pending) \in Seq(Requests)
    BY <1>1, HeadAndTail DEF Fork, HasRoom
  <2>2. <<Head(pending)>> \in Seq(Requests)
    BY <2>1
  <2>3. QED
    BY <1>1, <2>1, <2>2 DEF Fork
<1>2. CASE Register
  BY <1>2, CurrentOne DEF Register, Lists
<1>3. CASE StartRaises
  BY <1>3, HeadAndTail DEF StartRaises, HasRoom
<1>4. CASE BeginPass \/ Return \/ PollEmpty \/ GetWaits \/ CheckDead \/ EndPass \/ Raise \/ Interrupt
  BY <1>4 DEF BeginPass, Return, PollEmpty, GetWaits, CheckDead, EndPass, Raise, Interrupt
<1>5. CASE PollTimeout \/ LastGetEmpty \/ Join
  BY <1>5 DEF PollTimeout, LastGetEmpty, Join, Respond, ResponseOf, Responses
<1>6. CASE PollTakes \/ LastGetTakes \/ GetEnds
  <2>1. Current \in Requests
    BY <1>6, CurrentOne DEF PollTakes, LastGetTakes, GetEnds, Lists, AtOne
  <2>2. QED
    BY <1>6, <2>1 DEF PollTakes, LastGetTakes, GetEnds
<1>7. CASE CheckAlive
  BY <1>7, CurrentOne DEF CheckAlive, Lists, AtOne
<1>8. CASE Save \/ SaveRaises
  <2>1. pc = "save" /\ todo # <<>>
    BY <1>8 DEF Save, SaveRaises, Lists, AtOne
  <2>2. Current \in Requests /\ Tail(todo) \in Seq(Requests)
    BY <2>1, CurrentOne
  <2>3. Without(active, Current) \in Seq(Requests)
    BY <2>1, CurrentOne, WithoutOne DEF Lists, AtOne
  <2>4. Append(responses, Current) \in Seq(Requests)
    BY <2>2, AppendedElems
  <2>5. QED
    BY <1>8, <2>2, <2>3, <2>4 DEF Save, SaveRaises
<1>9. CASE AbortNext
  BY <1>9, CurrentOne DEF AbortNext
<1>10. ASSUME NEW r \in Requests, Child(r) \/ TimePasses(r) PROVE TypeOK'
  BY ZenonT(60), <1>10 DEF Child, ChildWrites, ChildPuts, ChildExits, ChildCrashes, TimePasses
<1>11. CASE Ended \/ UNCHANGED vars
  BY <1>11 DEF Ended
<1>12. QED
  BY <1>1, <1>2, <1>3, <1>4, <1>5, <1>6, <1>7, <1>8, <1>9, <1>10, <1>11 DEF Next, Parent

LEMMA ListsStep ==
  ASSUME TypeOK, Lists, [Next]_vars
  PROVE  Lists'
<1> USE DEF Lists, AtOne, Current
<1>1. CASE Fork
  <2>1. /\ pending \in Seq(Requests) /\ pending # <<>>
        /\ active' = active /\ pending' = Tail(pending) /\ pc' = "register"
        /\ todo' = <<Head(pending)>> /\ Len(active) < Concurrency
    BY <1>1 DEF Fork, HasRoom, TypeOK
  <2>2. Head(pending) \in Requests /\ Head(pending) \in Elems(pending)
        /\ Head(pending) \notin Elems(Tail(pending)) /\ Distinct(Tail(pending))
        /\ Elems(Tail(pending)) \subseteq Elems(pending)
    BY <2>1, HeadAndTail
  <2>3. Head(todo') = Head(pending) /\ todo' # <<>>
    BY <2>1, <2>2, ShortLists
  <2>4. QED
    BY <2>1, <2>2, <2>3
<1>2. CASE Register
  <2>1. /\ pc = "register" /\ pc' = "fill" /\ todo' = <<>> /\ pending' = pending
        /\ active' = Append(active, Head(todo)) /\ active \in Seq(Requests)
        /\ Len(active) \in Nat /\ Concurrency \in Nat
    BY <1>2, LocalAssumption DEF Register, TypeOK
  <2>2. Head(todo) \in Requests
    BY <2>1, CurrentOne
  <2>3. QED
    BY <2>1, <2>2, AppendedElems
<1>3. CASE StartRaises
  <2>1. pending \in Seq(Requests) /\ pending # <<>>
    BY <1>3 DEF StartRaises, HasRoom, TypeOK
  <2>2. Distinct(Tail(pending)) /\ Elems(Tail(pending)) \subseteq Elems(pending)
    BY <2>1, HeadAndTail
  <2>3. QED
    BY <1>3, <2>2 DEF StartRaises, answerVars, childVars
<1>4. CASE BeginPass \/ PollEmpty \/ GetWaits \/ CheckDead \/ Return \/ EndPass \/ Raise \/ Interrupt
  BY <1>4 DEF BeginPass, PollEmpty, GetWaits, CheckDead, Return, EndPass, Raise, Interrupt, LoopStates
<1>5. CASE PollTimeout \/ PollTakes
  BY <1>5 DEF PollTimeout, PollTakes, Respond
<1>6. CASE LastGetTakes \/ GetEnds \/ LastGetEmpty \/ Join
  BY <1>6 DEF LastGetTakes, GetEnds, LastGetEmpty, Join, Respond
<1>7. CASE CheckAlive
  BY <1>7, CurrentOne DEF CheckAlive
<1>8. CASE Save \/ SaveRaises
  <2>1. /\ pc = "save" /\ todo # <<>> /\ active \in Seq(Requests)
        /\ active' = Without(active, Head(todo)) /\ pending' = pending
        /\ pc' \in {"poll", "abort"}
        /\ pc' = "poll" => todo' = Tail(todo)
        /\ pc' = "abort" => todo' = active'
    BY <1>8 DEF Save, SaveRaises, TypeOK
  <2>2. /\ Head(todo) \in Elems(active)
        /\ Distinct(Tail(todo)) /\ Elems(Tail(todo)) \subseteq Elems(active) \ {Head(todo)}
    BY <2>1, CurrentOne
  <2>3. Len(active') = Len(active) - 1 /\ Elems(active') = Elems(active) \ {Head(todo)} /\ Distinct(active')
    BY <2>1, <2>2, WithoutOne
  <2>4. Len(active) \in Nat /\ Concurrency \in Nat
    BY <2>1, LocalAssumption
  <2>5. CASE pc' = "poll"
    <3>1. Distinct(todo') /\ Elems(todo') \subseteq Elems(active')
      BY <2>1, <2>2, <2>3, <2>5
    <3>2. Elems(active') \cap Elems(pending') = {} /\ Distinct(pending')
      BY <2>1, <2>3
    <3>3. Len(active') <= Concurrency
      BY <2>3, <2>4
    <3>4. QED
      BY <2>3, <2>5, <3>1, <3>2, <3>3
  <2>6. CASE pc' = "abort"
    BY <2>1, <2>2, <2>3, <2>4, <2>6
  <2>7. QED
    BY <2>1, <2>5, <2>6
<1>9. CASE AbortNext
  BY <1>9, CurrentOne DEF AbortNext
<1>10. ASSUME NEW r \in Requests, Child(r) \/ TimePasses(r) PROVE Lists'
  BY <1>10 DEF Child, ChildWrites, ChildPuts, ChildExits, ChildCrashes, TimePasses, parentVars
<1>11. CASE Ended \/ UNCHANGED vars
  BY <1>11 DEF Ended, vars, parentVars
<1>12. QED
  BY <1>1, <1>2, <1>3, <1>4, <1>5, <1>6, <1>7, <1>8, <1>9, <1>10, <1>11 DEF Next, Parent

LEMMA ChildrenStep ==
  ASSUME TypeOK, Lists, Children, [Next]_vars
  PROVE  Children'
<1> USE DEF Children, NoOutcomeOverlooked, Starting, AtOne, TypeOK, Payloads
<1>1. CASE Fork
  <2>1. /\ pending # <<>> /\ pending' = Tail(pending)
        /\ pc' = "register" /\ todo' = <<Head(pending)>>
        /\ proc' = [proc EXCEPT ![Head(pending)] = "running"]
        /\ UNCHANGED <<active, response, queue>>
    BY <1>1 DEF Fork, HasRoom, answerVars
  <2>2. Head(pending) \in Requests /\ Head(todo') = Head(pending)
    BY <2>1, HeadAndTail, ShortLists
  <2>3. Elems(active) \subseteq Requests /\ Elems(pending) \subseteq Requests
    BY ShortLists
  <2>4. proc[Head(pending)] = "none"
    BY <2>1, HeadAndTail
  <2>5. \A r \in Elems(Tail(pending)) : r \in Elems(pending) /\ r # Head(pending)
    BY <2>1, HeadAndTail DEF Lists
  <2>6. QED
    BY <2>1, <2>2, <2>3, <2>4, <2>5 DEF Current
<1>2. CASE Register
  <2>1. /\ pc = "register" /\ pc' = "fill" /\ pending' = pending
        /\ active' = Append(active, Current) /\ UNCHANGED <<response, proc, queue>>
    BY <1>2 DEF Register, answerVars, childVars
  <2>2. Elems(active') = Elems(active) \cup {Current}
    BY <2>1, CurrentOne, AppendedElems DEF Lists
  <2>3. QED
    BY <2>1, <2>2
<1>3. CASE StartRaises
  <2>1. \A r \in Elems(Tail(pending)) : r \in Elems(pending)
    BY <1>3, HeadAndTail DEF StartRaises, HasRoom
  <2>2. QED
    BY <1>3, <2>1 DEF StartRaises, answerVars, childVars
<1>4. CASE BeginPass \/ PollEmpty \/ GetWaits \/ CheckDead \/ Return \/ EndPass \/ Raise \/ Interrupt
  <2>1. CASE CheckDead
    <3>1. Current \in Elems(active) /\ Current \in Requests
      BY <2>1, CurrentOne DEF CheckDead, Lists
    <3>2. proc[Current] = "dead"
      BY <2>1, <3>1 DEF CheckDead, Alive
    <3>3. QED
      BY <2>1, <3>2 DEF CheckDead, answerVars, childVars, Current
  <2>2. QED
    BY <1>4, <2>1 DEF BeginPass, PollEmpty, GetWaits, Return, EndPass, Raise, Interrupt, LoopStates,
       answerVars, childVars
<1>5. CASE PollTimeout
  <2>1. Current \in Elems(active) /\ Current \in Requests /\ proc[Current] # "none"
    BY <1>5, CurrentOne DEF PollTimeout
  <2>2. Elems(active) \subseteq Requests /\ Elems(pending) \subseteq Requests
    BY ShortLists
  <2>3. QED
    BY <1>5, <2>1, <2>2 DEF PollTimeout, Respond, Current
<1>6. CASE PollTakes \/ LastGetTakes \/ GetEnds
  <2>1. todo # <<>>
    BY <1>6 DEF PollTakes, LastGetTakes, GetEnds, Lists
  <2>2. Current \in Requests
    BY <2>1, CurrentOne
  <2>3. QED
    BY <1>6, <2>2 DEF PollTakes, LastGetTakes, GetEnds, answerVars
<1>7. CASE LastGetEmpty \/ Join
  <2>1. todo # <<>>
    BY <1>7 DEF LastGetEmpty, Join, Lists
  <2>2. Current \in Elems(active) /\ Current \in Requests /\ proc[Current] # "none"
    BY <1>7, <2>1, CurrentOne DEF LastGetEmpty, Join
  <2>3. proc[Current] = "dead" /\ (response'[Current] = "NoResult" => queue[Current] = "none")
    BY <1>7, <2>2 DEF LastGetEmpty, Join, Respond, ResponseOf, Alive
  <2>4. QED
    BY <1>7, <2>2, <2>3 DEF LastGetEmpty, Join, Respond, ResponseOf, childVars, Current
<1>8. CASE CheckAlive
  BY <1>8 DEF CheckAlive, answerVars, childVars
<1>9. CASE Save \/ SaveRaises
  <2>1. Elems(Without(active, Current)) \subseteq Elems(active)
    BY <1>9, CurrentOne, WithoutOne DEF Save, SaveRaises, Lists
  <2>2. QED
    BY <1>9, <2>1 DEF Save, SaveRaises, childVars
<1>10. CASE AbortNext
  <2>1. Elems(active) \subseteq Requests /\ Elems(pending) \subseteq Requests
    BY ShortLists
  <2>2. Current \in Requests /\ proc[Current] # "none"
    BY <1>10, CurrentOne DEF AbortNext
  <2>3. QED
    BY <1>10, <2>1, <2>2 DEF AbortNext, answerVars
<1>11. ASSUME NEW r \in Requests, Child(r) PROVE Children'
  <2>1. Elems(active) \subseteq Requests /\ Elems(pending) \subseteq Requests
    BY ShortLists
  <2>2. \A q \in Requests : (proc[q] = "none" <=> proc'[q] = "none") /\ (proc[q] = "dead" => proc'[q] = "dead")
    BY <1>11 DEF Child, ChildWrites, ChildPuts, ChildExits, ChildCrashes
  <2>3. \A q \in Requests : proc[q] = "dead" => queue'[q] = queue[q]
    BY <1>11 DEF Child, ChildWrites, ChildPuts, ChildExits, ChildCrashes
  <2>4. UNCHANGED <<parentVars, answerVars>>
    BY <1>11 DEF Child, ChildWrites, ChildPuts, ChildExits, ChildCrashes
  <2>5. pc = "register" \/ AtOne => Current \in Requests
    BY CurrentOne DEF Lists
  <2>6. QED
    BY <2>1, <2>2, <2>3, <2>4, <2>5 DEF parentVars, answerVars, Current
<1>12. CASE Ended \/ UNCHANGED vars \/ \E r \in Requests : TimePasses(r)
  BY <1>12 DEF Ended, vars, parentVars, answerVars, childVars, TimePasses, Current
<1>13. QED
  BY <1>1, <1>2, <1>3, <1>4, <1>5, <1>6, <1>7, <1>8, <1>9, <1>10, <1>11, <1>12 DEF Next, Parent

(* Only a child that is started comes to life.                              *)
LEMMA NoneRises ==
  ASSUME TypeOK, Lists, [Next]_vars, ~Fork, NEW r \in Requests, Alive(r)'
  PROVE  Alive(r)
<1> USE DEF Alive, TypeOK
<1>1. CASE PollTimeout \/ AbortNext
  BY <1>1 DEF PollTimeout, AbortNext
<1>2. ASSUME NEW q \in Requests, Child(q) PROVE Alive(r)
  BY <1>2 DEF Child, ChildWrites, ChildPuts, ChildExits, ChildCrashes
<1>3. CASE PollTakes \/ LastGetTakes \/ GetEnds \/ LastGetEmpty \/ Join
  BY <1>3 DEF PollTakes, LastGetTakes, GetEnds, LastGetEmpty, Join, childVars
<1>4. CASE UNCHANGED childVars \/ UNCHANGED vars
  BY <1>4 DEF childVars, vars
<1>5. CASE \/ Register \/ StartRaises \/ BeginPass \/ Return \/ PollEmpty \/ GetWaits \/ CheckAlive \/ CheckDead
           \/ Save \/ SaveRaises \/ EndPass \/ Raise \/ Interrupt \/ Ended
  <2>1. UNCHANGED childVars \/ UNCHANGED vars
    BY <1>5 DEF Register, StartRaises, BeginPass, Return, PollEmpty, GetWaits, CheckAlive, CheckDead,
       Save, SaveRaises, EndPass, Raise, Interrupt, Ended
  <2>2. QED
    BY <2>1, <1>4
<1>6. CASE \E q \in Requests : TimePasses(q)
  BY <1>6 DEF TimePasses
<1>7. QED
  BY <1>1, <1>2, <1>3, <1>4, <1>5, <1>6 DEF Next, Parent

(* The child the parent stops is dead after it.                             *)
LEMMA StoppedIsDead ==
  ASSUME TypeOK, Lists, PollTimeout \/ AbortNext
  PROVE  Current \in Requests /\ proc'[Current] = "dead"
<1>1. Current \in Requests
  BY CurrentOne DEF PollTimeout, AbortNext
<1>2. QED
  BY <1>1 DEF PollTimeout, AbortNext, TypeOK

LEMMA OwnedStep ==
  ASSUME TypeOK, Lists, Children, Owned, [Next]_vars
  PROVE  Owned'
<1> USE DEF Owned, Starting, AtOne, LoopStates
<1>1. CASE Fork
  <2>1. /\ pc = "fill" /\ pc' = "register" /\ todo' = <<Head(pending)>> /\ active' = active
        /\ pending # <<>> /\ proc' = [proc EXCEPT ![Head(pending)] = "running"]
    BY <1>1 DEF Fork, HasRoom
  <2>2. Head(todo') = Head(pending)
    BY <2>1, HeadAndTail, ShortLists DEF TypeOK
  <2>3. \A r \in Requests : r # Head(pending) => Alive(r)' = Alive(r)
    BY <2>1 DEF Alive, TypeOK
  <2>4. QED
    BY <2>1, <2>2, <2>3 DEF Current
<1>2. CASE Register
  <2>1. Elems(active') = Elems(active) \cup {Current}
    BY <1>2, CurrentOne, AppendedElems DEF Register, Lists, TypeOK
  <2>2. QED
    BY <1>2, <2>1, NoneRises DEF Register, Fork
<1>3. CASE StartRaises
  BY <1>3, NoneRises DEF StartRaises, Fork
<1>4. CASE Return
  <2>1. Elems(active) = {}
    BY <1>4, ShortLists DEF Return
  <2>2. QED
    BY <1>4, <2>1, NoneRises DEF Return, Fork
<1>5. CASE Interrupt
  <2>1. \A r \in Requests : Alive(r)' => r \in Elems(active) \cup Starting
    BY <1>5, NoneRises DEF Interrupt, Fork
  <2>2. QED
    BY <1>5, <2>1 DEF Interrupt
<1>6. CASE \/ BeginPass \/ PollTimeout \/ PollTakes \/ PollEmpty \/ GetWaits \/ CheckAlive \/ CheckDead
           \/ LastGetTakes \/ GetEnds \/ LastGetEmpty \/ Join \/ EndPass
  <2>1. /\ pc \in LoopStates \ {"register"} /\ pc' \in LoopStates \ {"register"}
        /\ active' = active
    BY <1>6 DEF BeginPass, PollTimeout, PollTakes, PollEmpty, GetWaits, CheckAlive, CheckDead,
       LastGetTakes, GetEnds, LastGetEmpty, Join, EndPass, Respond
  <2>2. ~Fork
    BY <1>6 DEF BeginPass, PollTimeout, PollTakes, PollEmpty, GetWaits, CheckAlive, CheckDead,
       LastGetTakes, GetEnds, LastGetEmpty, Join, EndPass, Respond, Fork
  <2>3. QED
    BY <2>1, <2>2, NoneRises
<1>7. CASE Save \/ SaveRaises
  <2>1. /\ pc = "save" /\ pc' \in {"poll", "abort"} /\ active' = Without(active, Current)
        /\ pc' = "abort" => todo' = active'
    BY <1>7 DEF Save, SaveRaises
  <2>2. Elems(active') = Elems(active) \ {Current}
    BY <2>1, CurrentOne, WithoutOne DEF Lists, TypeOK
  <2>3. ~Alive(Current)
    BY <2>1, CurrentOne DEF Children, Lists, Alive
  <2>4. ~Fork
    BY <2>1 DEF Fork
  <2>5. \A r \in Requests : Alive(r)' => r \in Elems(active')
    BY <2>1, <2>2, <2>3, <2>4, NoneRises
  <2>6. QED
    BY <2>1, <2>5
<1>8. CASE AbortNext
  <2>1. /\ pc = "abort" /\ pc' = "abort" /\ todo # <<>> /\ todo' = Tail(todo) /\ active' = active
    BY <1>8 DEF AbortNext
  <2>2. Elems(todo) = Elems(todo') \cup {Current}
    BY <2>1, CurrentOne
  <2>3. ~Fork
    BY <2>1 DEF Fork
  <2>4. \A r \in Requests : Alive(r)' => Alive(r) /\ r # Current
    BY <2>3, <1>8, NoneRises, StoppedIsDead DEF Alive
  <2>5. QED
    BY <2>1, <2>2, <2>4
<1>9. CASE Raise
  BY <1>9, NoneRises DEF Raise, Fork
<1>10. ASSUME NEW q \in Requests, Child(q) PROVE Owned'
  <2>1. UNCHANGED <<pc, active, todo>>
    BY <1>10 DEF Child, ChildWrites, ChildPuts, ChildExits, ChildCrashes, parentVars
  <2>2. \A r \in Requests : Alive(r)' => Alive(r)
    BY <1>10 DEF Child, ChildWrites, ChildPuts, ChildExits, ChildCrashes, Alive, TypeOK
  <2>3. QED
    BY <2>1, <2>2 DEF Current
<1>11. CASE Ended \/ UNCHANGED vars \/ \E q \in Requests : TimePasses(q)
  <2>1. UNCHANGED <<pc, active, todo, proc>>
    BY <1>11 DEF Ended, vars, parentVars, childVars, TimePasses
  <2>2. QED
    BY <2>1 DEF Current, Alive
<1>12. QED
  BY <1>1, <1>2, <1>3, <1>4, <1>5, <1>6, <1>7, <1>8, <1>9, <1>10, <1>11 DEF Next, Parent

LEMMA AccountedStep ==
  ASSUME TypeOK, Lists, Children, Accounted, [Next]_vars
  PROVE  Accounted'
<1> USE DEF Accounted, Starting, AtOne, LoopStates
<1>0. /\ Len(pending) \in Nat /\ Len(active) \in Nat /\ Len(responses) \in Nat /\ Len(Batch) \in Nat
      /\ pending \in Seq(Requests) /\ active \in Seq(Requests) /\ responses \in Seq(Requests)
  BY LocalAssumption, ShortLists DEF TypeOK
<1>1. CASE Fork
  <2>1. /\ pc = "fill" /\ pc' = "register" /\ todo' = <<Head(pending)>> /\ pending # <<>>
        /\ pending' = Tail(pending) /\ UNCHANGED <<active, responses, response, record>>
    BY <1>1 DEF Fork, HasRoom, answerVars
  <2>2. /\ Elems(pending) = Elems(pending') \cup {Head(pending)}
        /\ Len(pending') = Len(pending) - 1
        /\ Head(todo') = Head(pending)
    BY <1>0, <2>1, HeadAndTail, ShortLists
  <2>3. /\ Elems(pending) \cup Elems(active) \cup Elems(responses) = Requests
        /\ Elems(responses) \cap (Elems(pending) \cup Elems(active)) = {}
        /\ Len(pending) + Len(active) + Len(responses) = Len(Batch)
        /\ \A r \in Elems(responses) : record[r] = response[r] /\ response[r] # "none"
    BY <2>1, <1>0
  <2>4. Len(pending') + Len(active') + Len(responses') + 1 = Len(Batch)
    BY <1>0, <2>1, <2>2, <2>3
  <2>5. Starting' = {Head(pending)}
    BY <2>1, <2>2 DEF Current
  <2>6. QED
    BY <2>1, <2>2, <2>3, <2>4, <2>5
<1>2. CASE Register
  <2>1. /\ pc = "register" /\ pc' = "fill" /\ active' = Append(active, Current)
        /\ UNCHANGED <<pending, responses, response, record>> /\ Current \in Requests
    BY <1>2, CurrentOne DEF Register, Lists, answerVars
  <2>2. /\ Elems(active') = Elems(active) \cup {Current} /\ Len(active') = Len(active) + 1
    BY <1>0, <2>1, AppendedElems
  <2>3. Starting = {Current} /\ Starting' = {}
    BY <2>1
  <2>4. Len(pending') + Len(active') + Len(responses') + 0 = Len(Batch)
    BY <1>0, <2>1, <2>2
  <2>5. QED
    BY <2>1, <2>2, <2>3, <2>4
<1>3. CASE StartRaises \/ Interrupt \/ SaveRaises \/ AbortNext \/ Raise
  BY <1>3 DEF StartRaises, Interrupt, SaveRaises, AbortNext, Raise
<1>4. CASE \/ BeginPass \/ PollTakes \/ PollEmpty \/ GetWaits \/ CheckAlive \/ CheckDead
           \/ LastGetTakes \/ GetEnds \/ EndPass
  <2>1. /\ pc \in LoopStates \ {"register"} /\ pc' \in LoopStates \ {"register"}
        /\ UNCHANGED <<pending, active, responses, response, record>>
    BY <1>4 DEF BeginPass, PollTakes, PollEmpty, GetWaits, CheckAlive, CheckDead, LastGetTakes, GetEnds,
       EndPass, answerVars
  <2>2. QED
    BY <2>1
<1>5. CASE Return
  <2>1. /\ pc = "fill" /\ pc' = "returned" /\ pending = <<>> /\ active = <<>>
        /\ UNCHANGED <<pending, active, responses, response, record>>
    BY <1>5 DEF Return, answerVars
  <2>2. QED
    BY <2>1
<1>6. CASE PollTimeout \/ LastGetEmpty \/ Join
  <2>1. /\ pc \in {"poll", "last", "join"} /\ pc' = "save" /\ todo # <<>>
        /\ UNCHANGED <<pending, active, responses, record>>
        /\ \E s : response' = [response EXCEPT ![Current] = s]
    BY <1>6 DEF PollTimeout, LastGetEmpty, Join, Respond, Lists
  <2>2. Current \in Elems(active)
    BY <2>1, CurrentOne
  <2>3. \A r \in Elems(responses) : response'[r] = response[r]
    BY <1>0, <2>1, <2>2, ShortLists DEF TypeOK
  <2>4. QED
    BY <2>1, <2>3
<1>7. CASE Save
  <2>1. /\ pc = "save" /\ pc' = "poll" /\ todo # <<>> /\ active' = Without(active, Current)
        /\ responses' = Append(responses, Current)
        /\ record' = [record EXCEPT ![Current] = response[Current]]
        /\ UNCHANGED <<pending, response>>
    BY <1>7 DEF Save, Lists
  <2>2. Current \in Elems(active) /\ Current \in Requests /\ response[Current] # "none"
    BY <2>1, CurrentOne DEF Children
  <2>3. Elems(active') = Elems(active) \ {Current} /\ Len(active') = Len(active) - 1
    BY <1>0, <2>1, <2>2, WithoutOne DEF Lists
  <2>4. Elems(responses') = Elems(responses) \cup {Current} /\ Len(responses') = Len(responses) + 1
    BY <1>0, <2>1, <2>2, AppendedElems
  <2>5. \A r \in Requests : record'[r] = IF r = Current THEN response[r] ELSE record[r]
    BY <2>1, <2>2 DEF TypeOK
  <2>6. \A r \in Elems(responses') : record'[r] = response'[r] /\ response'[r] # "none"
    BY <1>0, <2>1, <2>2, <2>4, <2>5, ShortLists
  <2>7. Elems(responses') \cap (Elems(pending') \cup Elems(active')) = {}
    BY <2>1, <2>2, <2>3, <2>4 DEF Lists
  <2>8. Len(pending') + Len(active') + Len(responses') + 0 = Len(Batch)
    <3>1. Len(pending) + Len(active) + Len(responses) + 0 = Len(Batch)
      BY <2>1
    <3>2. /\ Len(active') = Len(active) - 1 /\ Len(responses') = Len(responses) + 1
          /\ Len(pending') = Len(pending)
      BY <2>1, <2>3, <2>4
    <3>3. \A a, b, c \in Nat : a + (b - 1) + (c + 1) + 0 = a + b + c + 0
      OBVIOUS
    <3>4. Len(pending) + (Len(active) - 1) + (Len(responses) + 1) + 0 = Len(Batch)
      BY SMTT(40), <1>0, <3>1, <3>3
    <3>5. QED
      BY <3>2, <3>4, Zenon
  <2>9. Elems(pending') \cup Elems(active') \cup Elems(responses') = Requests
    BY <2>1, <2>2, <2>3, <2>4
  <2>10. QED
    BY <2>1, <2>6, <2>7, <2>8, <2>9
<1>8. CASE \/ Ended \/ UNCHANGED vars \/ \E q \in Requests : Child(q) \/ TimePasses(q)
  <2>1. UNCHANGED <<pc, pending, active, todo, responses, response, record>>
    BY <1>8 DEF Ended, vars, parentVars, answerVars, Child, ChildWrites, ChildPuts, ChildExits,
       ChildCrashes, TimePasses
  <2>2. QED
    BY <2>1 DEF Current
<1>9. QED
  BY <1>1, <1>2, <1>3, <1>4, <1>5, <1>6, <1>7, <1>8 DEF Next, Parent

(* Requests that are on a list are at most as many as the list is long.     *)
LEMMA FewElems ==
  ASSUME NEW s \in Seq(Requests)
  PROVE  IsFiniteSet(Elems(s)) /\ Cardinality(Elems(s)) <= Len(s)
<1>1. Len(s) \in Nat
  OBVIOUS
<1>2. IsFiniteSet(1 .. Len(s)) /\ Cardinality(1 .. Len(s)) = Len(s)
  BY SMTT(40), <1>1, FS_Interval
<1>3. [i \in 1 .. Len(s) |-> s[i]] \in Surjection(1 .. Len(s), Elems(s))
  BY DEF Surjection, Elems
<1>4. QED
  BY <1>2, <1>3, FS_Surjection

LEMMA RequestsFinite == IsFiniteSet(Requests)
<1>1. Requests = Elems(Batch)
  BY LocalAssumption DEF Requests, Elems
<1>2. QED
  BY <1>1, LocalAssumption, FewElems

(* A set grows by at most one when an element is added to it.               *)
LEMMA OneMore ==
  ASSUME NEW S, NEW x, IsFiniteSet(S), Cardinality(S) \in Nat
  PROVE  IsFiniteSet(S \cup {x}) /\ Cardinality(S \cup {x}) <= Cardinality(S) + 1
<1>1. IsFiniteSet(S \cup {x})
  BY FS_AddElement
<1>2. Cardinality(S \cup {x}) = IF x \in S THEN Cardinality(S) ELSE Cardinality(S) + 1
  BY FS_AddElement
<1>3. QED
  BY <1>1, <1>2

(* A child is only started when the list of active ones, which holds every  *)
(* child alive, has room for it.                                            *)
LEMMA BoundStep ==
  ASSUME TypeOK, Lists, Owned, LiveChildrenBounded, [Next]_vars
  PROVE  LiveChildrenBounded'
<1> DEFINE live == {r \in Requests : Alive(r)}
<1>1. IsFiniteSet(live)
  BY RequestsFinite, FS_Subset
<1>2. CASE Fork
  <2>1. /\ pc = "fill" /\ pending # <<>> /\ pending \in Seq(Requests) /\ active \in Seq(Requests)
        /\ Len(active) < Concurrency /\ proc' = [proc EXCEPT ![Head(pending)] = "running"]
    BY <1>2 DEF Fork, HasRoom, TypeOK
  <2>2. live \subseteq Elems(active)
    BY <2>1 DEF Owned, Starting, LoopStates
  <2>3. live' \subseteq Elems(active) \cup {Head(pending)}
    BY <2>1, <2>2 DEF Alive, TypeOK
  <2>4. IsFiniteSet(Elems(active)) /\ Cardinality(Elems(active)) \in Nat /\ Cardinality(Elems(active)) <= Len(active)
    BY <2>1, FewElems, FS_CardinalityType
  <2>5. /\ IsFiniteSet(Elems(active) \cup {Head(pending)})
        /\ Cardinality(Elems(active) \cup {Head(pending)}) <= Cardinality(Elems(active)) + 1
    BY <2>4, OneMore
  <2>6. /\ Cardinality(live') \in Nat
        /\ Cardinality(live') <= Cardinality(Elems(active) \cup {Head(pending)})
        /\ Cardinality(Elems(active) \cup {Head(pending)}) \in Nat
    BY <2>3, <2>5, FS_Subset, FS_CardinalityType
  <2>7. Len(active) \in Nat /\ Concurrency \in Nat
    BY <2>1, LocalAssumption
  <2>8. Cardinality(live') <= Concurrency
    BY <2>1, <2>4, <2>5, <2>6, <2>7
  <2>9. QED
    BY <2>8 DEF LiveChildrenBounded
<1>3. CASE ~Fork
  <2>1. live' \subseteq live
    BY <1>3, NoneRises
  <2>2. Cardinality(live') \in Nat /\ Cardinality(live) \in Nat /\ Cardinality(live') <= Cardinality(live)
    BY <1>1, <2>1, FS_Subset, FS_CardinalityType
  <2>3. Concurrency \in Nat
    BY LocalAssumption
  <2>4. QED
    BY <2>2, <2>3 DEF LiveChildrenBounded
<1>4. QED
  BY <1>2, <1>3

LEMMA InvInit == Init => Inv
<1> SUFFICES ASSUME Init PROVE Inv
  OBVIOUS
<1> USE DEF Init
<1>1. TypeOK
  BY LocalAssumption, ShortLists DEF TypeOK, LoopStates
<1>2. Requests = Elems(Batch)
  BY LocalAssumption DEF Requests, Elems
<1>3. Lists
  BY LocalAssumption, ShortLists DEF Lists, Distinct, AtOne
<1>4. Children
  BY LocalAssumption, ShortLists DEF Children, Starting, NoOutcomeOverlooked
<1>5. {r \in Requests : Alive(r)} = {} /\ Owned
  BY DEF Owned, Alive, LoopStates
<1>6. Len(Batch) + Len(<<>>) + Len(<<>>) + 0 = Len(Batch)
  BY LocalAssumption
<1>7. Accounted
  BY <1>2, <1>6, ShortLists DEF Accounted, Starting
<1>8. LiveChildrenBounded
  <2>1. Cardinality({r \in Requests : Alive(r)}) = 0
    BY <1>5, FS_EmptySet, Zenon
  <2>2. QED
    BY <2>1, LocalAssumption DEF LiveChildrenBounded
<1>9. QED
  BY <1>1, <1>3, <1>4, <1>5, <1>7, <1>8 DEF Inv

(* The inductive invariant holds of every state.                            *)
THEOREM Invariance == Spec => []Inv
<1>1. Inv /\ [Next]_vars => Inv'
  BY TypeStep, ListsStep, ChildrenStep, OwnedStep, AccountedStep, BoundStep DEF Inv
<1>2. QED
  BY InvInit, <1>1, PTL DEF Spec

-----------------------------------------------------------------------------
(* Results                                                                  *)

(* Every variable has its type in every state of the local runner.          *)
THEOREM TypeCorrect == Spec => []TypeOK
<1>1. Inv => TypeOK
  BY DEF Inv
<1>2. QED
  BY <1>1, Invariance, PTL

(* The local runner never owns more processes than it has slots.            *)
THEOREM ChildrenBounded == Spec => []LiveChildrenBounded
<1>1. Inv => LiveChildrenBounded
  BY DEF Inv
<1>2. QED
  BY <1>1, Invariance, PTL

(* However run_many ends, no child on its list outlives it, and at most one *)
(* child does, the one an exception kept it from putting there.             *)
THEOREM NoneLeftBehind == Spec => []NoListedChildLeftBehind
<1>1. Inv => NoListedChildLeftBehind
  <2>1. SUFFICES ASSUME Inv, pc \in {"returned", "raised"} PROVE NoListedChildLeftBehind
    BY DEF NoListedChildLeftBehind
  <2> DEFINE left == {r \in Requests : Alive(r)}
  <2>2. IsFiniteSet(left)
    BY RequestsFinite, FS_Subset
  <2>3. pc = "returned" => left = {}
    BY <2>1 DEF Inv, Owned
  <2>4. \A r, s \in left : r = s
    BY <2>1, <2>3, ShortLists DEF Inv, Owned
  <2>5. left = {} \/ \E r : left = {r}
    BY <2>4
  <2>6. Cardinality(left) <= 1
    <3>1. CASE left = {}
      BY <3>1, FS_EmptySet
    <3>2. ASSUME NEW r, left = {r} PROVE Cardinality(left) <= 1
      <4>1. Cardinality({r}) = 1
        BY FS_Singleton
      <4>2. QED
        BY <3>2, <4>1
    <3>3. QED
      BY <2>5, <3>1, <3>2
  <2>7. \A r \in left : response[r] = "none"
    BY <2>1 DEF Inv, Children, Alive
  <2>8. \A r \in left : r \notin Elems(active)
    BY <2>1, <2>3, ShortLists DEF Inv, Owned
  <2>9. \A r \in left : \A i \in 1 .. Len(active) : active[i] # r
    BY <2>8 DEF Elems
  <2>10. QED
    BY <2>3, <2>6, <2>7, <2>9 DEF NoListedChildLeftBehind
<1>2. QED
  BY <1>1, Invariance, PTL

(* run_many returns a response, saved whole, for each request of its batch. *)
THEOREM BatchesAreComplete == Spec => []ReturnedBatchIsComplete
<1>1. Inv => ReturnedBatchIsComplete
  <2>1. SUFFICES ASSUME Inv, pc = "returned" PROVE ReturnedBatchIsComplete
    BY DEF ReturnedBatchIsComplete
  <2>2. /\ Elems(pending) \cup Elems(active) \cup Elems(responses) = Requests
        /\ pending = <<>> /\ active = <<>>
        /\ Len(pending) + Len(active) + Len(responses) + 0 = Len(Batch)
        /\ \A r \in Elems(responses) : record[r] = response[r] /\ response[r] # "none"
    BY <2>1 DEF Inv, Accounted, Starting
  <2>3. Elems(responses) = Requests /\ Len(responses) = Len(Batch)
    <3>1. Len(responses) \in Nat /\ Len(Batch) \in Nat
      BY <2>1, LocalAssumption, ShortLists DEF Inv, TypeOK
    <3>2. Len(pending) = 0 /\ Len(active) = 0 /\ Elems(pending) = {} /\ Elems(active) = {}
      BY <2>2, ShortLists
    <3>3. Len(responses) = Len(Batch)
      BY <2>2, <3>1, <3>2
    <3>4. Elems(responses) = Requests
      BY <2>2, <3>2
    <3>5. QED
      BY <3>3, <3>4
  <2>4. QED
    BY <2>2, <2>3 DEF ReturnedBatchIsComplete, Elems
<1>2. QED
  BY <1>1, Invariance, PTL

(* No child that left an outcome is said to have left none.                 *)
THEOREM NoneOverlooked == Spec => []NoOutcomeOverlooked
<1>1. Inv => NoOutcomeOverlooked
  BY DEF Inv, Children
<1>2. QED
  BY <1>1, Invariance, PTL

(* The lists hold each request once, and a request is on one of them.       *)
THEOREM ListsDisjoint == Spec => []ListsAreDisjoint
<1>1. Inv => ListsAreDisjoint
  <2>1. SUFFICES ASSUME Inv PROVE ListsAreDisjoint
    OBVIOUS
  <2>2. Distinct(active) /\ Elems(active) \cap Elems(pending) = {}
    BY <2>1 DEF Inv, Lists
  <2>3. pc \in LoopStates \ {"register"} => Elems(todo) \subseteq Elems(active)
    BY <2>1, ShortLists DEF Inv, Lists, LoopStates, AtOne
  <2>4. \A i \in 1 .. Len(active) : \A j \in 1 .. Len(pending) : active[i] # pending[j]
    BY <2>2 DEF Elems
  <2>5. pc \in LoopStates \ {"register"} =>
            \A i \in 1 .. Len(todo) : \E j \in 1 .. Len(active) : active[j] = todo[i]
    BY <2>3 DEF Elems
  <2>6. QED
    BY <2>2, <2>4, <2>5 DEF ListsAreDisjoint, Distinct
<1>2. QED
  BY <1>1, Invariance, PTL

-----------------------------------------------------------------------------
(* Refinement                                                               *)

(* Only listed responses are recorded, and only timed requests expire.      *)
Recorded ==
    /\ \A r \in Requests : expired[r] => r \in Timed
    /\ \A r \in Requests : record[r] \in Responses => response[r] # "none"
    /\ pc \in LoopStates =>
        \A r \in Requests :
            /\ response[r] # "none" => r \in Elems(responses) \/ (pc = "save" /\ r = Current)
            /\ record[r] # "none" => r \in Elems(responses)

LEMMA RecordedStep ==
  ASSUME Inv, Recorded, [Next]_vars
  PROVE  Recorded'
<1> USE DEF Recorded, LoopStates
<1>0. TypeOK /\ Lists /\ Children /\ responses \in Seq(Requests)
  BY DEF Inv, TypeOK
<1>1. CASE PollTimeout \/ LastGetEmpty \/ Join
  <2>1. /\ pc \in {"poll", "last", "join"} /\ pc' = "save" /\ todo # <<>> /\ todo' = todo
        /\ UNCHANGED <<responses, record, expired>>
        /\ \E s \in Responses : response' = [response EXCEPT ![Current] = s]
    BY <1>0, <1>1 DEF PollTimeout, LastGetEmpty, Join, Respond, ResponseOf, Responses, Lists, AtOne, childVars
  <2>2. Current \in Requests
    BY <1>0, <2>1, CurrentOne
  <2>3. PICK s \in Responses : response' = [response EXCEPT ![Current] = s]
    BY <2>1
  <2>4. /\ response'[Current] = s /\ s # "none"
        /\ \A r \in Requests : r # Current => response'[r] = response[r]
    BY <1>0, <2>2, <2>3 DEF TypeOK, Responses
  <2>5. Current' = Current
    BY <2>1 DEF Current
  <2>6. QED
    BY <2>1, <2>4, <2>5
<1>2. CASE Save
  <2>1. /\ pc = "save" /\ pc' = "poll" /\ todo # <<>> /\ responses' = Append(responses, Current)
        /\ record' = [record EXCEPT ![Current] = response[Current]]
        /\ UNCHANGED <<response, expired>>
    BY <1>0, <1>2 DEF Save, Lists, AtOne, childVars
  <2>2. Current \in Requests
    BY <1>0, <2>1, CurrentOne
  <2>3. Elems(responses') = Elems(responses) \cup {Current}
    BY <1>0, <2>1, <2>2, AppendedElems
  <2>4. /\ record'[Current] = response[Current] /\ response[Current] # "none"
        /\ \A r \in Requests : r # Current => record'[r] = record[r]
    BY <1>0, <2>1, <2>2 DEF TypeOK, Children
  <2>5. QED
    BY <2>1, <2>3, <2>4
<1>3. CASE SaveRaises
  <2>1. /\ pc' = "abort" /\ record' = [record EXCEPT ![Current] = "partial"]
        /\ UNCHANGED <<response, expired>>
    BY <1>3 DEF SaveRaises, childVars
  <2>2. \A r \in Requests : record'[r] \in Responses => record[r] \in Responses
    BY <1>0, <2>1 DEF TypeOK, Responses
  <2>3. QED
    BY <2>1, <2>2
<1>4. CASE \/ Fork \/ Register \/ StartRaises \/ BeginPass \/ Return \/ PollTakes \/ PollEmpty \/ GetWaits
           \/ CheckAlive \/ CheckDead \/ LastGetTakes \/ GetEnds \/ EndPass \/ AbortNext \/ Raise \/ Interrupt
  <2>1. /\ pc # "save" \/ pc' \notin LoopStates
        /\ pc' \in LoopStates => pc \in LoopStates
        /\ UNCHANGED <<responses, response, record, expired>>
    BY <1>4 DEF Fork, Register, StartRaises, BeginPass, Return, PollTakes, PollEmpty, GetWaits, CheckAlive,
       CheckDead, LastGetTakes, GetEnds, EndPass, AbortNext, Raise, Interrupt, answerVars, childVars
  <2>2. QED
    BY <2>1
<1>5. CASE \/ Ended \/ UNCHANGED vars \/ \E q \in Requests : Child(q) \/ TimePasses(q)
  <2>1. UNCHANGED <<pc, todo, responses, response, record>>
    BY <1>5 DEF Ended, vars, parentVars, answerVars, Child, ChildWrites, ChildPuts, ChildExits,
       ChildCrashes, TimePasses
  <2>2. \A r \in Requests : expired'[r] => expired[r] \/ r \in Timed
    BY <1>0, <1>5 DEF Ended, vars, childVars, Child, ChildWrites, ChildPuts, ChildExits,
       ChildCrashes, TimePasses, TypeOK
  <2>3. QED
    BY <2>1, <2>2 DEF Current
<1>6. QED
  BY <1>1, <1>2, <1>3, <1>4, <1>5 DEF Next, Parent

LEMMA RecordedAlways == Spec => []Recorded
<1>1. Init => Recorded
  BY DEF Init, Recorded, Responses
<1>2. Inv /\ Recorded /\ [Next]_vars => Recorded'
  BY RecordedStep
<1>3. QED
  BY <1>1, <1>2, Invariance, PTL DEF Spec

(* When one request's phase alone changes.                                  *)
LEMMA OnePhaseChanges ==
  ASSUME NEW r \in Requests, NEW p, PhaseOf(r)' = p,
         \A q \in Requests \ {r} : PhaseOf(q)' = PhaseOf(q)
  PROVE  [q \in Requests |-> PhaseOf(q)]' = [[q \in Requests |-> PhaseOf(q)] EXCEPT ![r] = p]
OBVIOUS

(* A child is started for a request that waits, while a slot is free.       *)
LEMMA ForkStarts ==
  ASSUME Inv, Recorded, Fork
  PROVE  \E r \in Requests : Service!Start(r)
<1>1. /\ pc = "fill" /\ pc' = "register" /\ pending # <<>> /\ Len(active) < Concurrency
      /\ proc' = [proc EXCEPT ![Head(pending)] = "running"] /\ UNCHANGED <<response, record>>
      /\ pending \in Seq(Requests) /\ active \in Seq(Requests)
  BY DEF Fork, HasRoom, answerVars, Inv, TypeOK
<1>2. PICK r \in Requests : r = Head(pending) /\ r \in Elems(pending)
  BY <1>1, HeadAndTail
<1>3. proc[r] = "none" /\ response[r] = "none" /\ record[r] = "none"
  BY <1>1, <1>2 DEF Inv, Children, Accounted, Recorded, LoopStates
<1>4. proc' = [proc EXCEPT ![r] = "running"]
  BY <1>1, <1>2
<1>5. PhaseOf(r) = "queued" /\ PhaseOf(r)' = "running"
  BY <1>1, <1>3, <1>4 DEF PhaseOf, Responses, Inv, TypeOK
<1>6. \A q \in Requests \ {r} : PhaseOf(q)' = PhaseOf(q)
  BY <1>1, <1>4 DEF PhaseOf, Inv, TypeOK
<1>7. UNCHANGED [q \in Requests |-> VerdictOf(q)]
  BY <1>1 DEF VerdictOf
<1>8. Service!Cardinality(Service!Running) < Concurrency
  <2>1. Service!Running \subseteq Elems(active)
    <3>1. SUFFICES ASSUME NEW q \in Requests, PhaseOf(q) = "running" PROVE q \in Elems(active)
      BY DEF Service!Running
    <3>2. response[q] = "none" /\ proc[q] # "none"
      BY <3>1 DEF PhaseOf
    <3>3. q \notin Elems(responses) /\ q \notin Elems(pending)
      BY <1>1, <3>2 DEF Inv, Accounted, Children, LoopStates
    <3>4. QED
      BY <1>1, <3>3 DEF Inv, Accounted, Starting, LoopStates
  <2>2. /\ Cardinality(Service!Running) \in Nat /\ Cardinality(Elems(active)) \in Nat
        /\ Cardinality(Service!Running) <= Cardinality(Elems(active))
        /\ Cardinality(Elems(active)) <= Len(active)
    BY <1>1, <2>1, FewElems, FS_Subset, FS_CardinalityType
  <2>3. Len(active) \in Nat /\ Concurrency \in Nat
    BY <1>1, LocalAssumption
  <2>4. Cardinality(Service!Running) < Concurrency
    BY <1>1, <2>2, <2>3
  <2>5. Service!Cardinality(Service!Running) = Cardinality(Service!Running)
    BY DEF Service!Cardinality, Cardinality
  <2>6. QED
    BY <2>4, <2>5
<1>9. QED
  BY <1>5, <1>6, <1>7, <1>8, OnePhaseChanges DEF Service!Start

(* The response built for the current request is its one verdict, a timeout *)
(* only if the request asked for one.                                       *)
LEMMA RespondDecides ==
  ASSUME Inv, Recorded, PollTimeout \/ LastGetEmpty \/ Join
  PROVE  \E r \in Requests : \E v \in Service!Verdicts : Service!Decide(r, v)
<1>1. /\ pc \in {"poll", "last", "join"} /\ pc' = "save" /\ todo # <<>> /\ record' = record
      /\ proc' = proc \/ proc' = [proc EXCEPT ![Current] = "dead"]
      /\ \E s \in Responses :
            response' = [response EXCEPT ![Current] = s] /\ (s = "Timeout" => expired[Current])
  BY DEF PollTimeout, LastGetEmpty, Join, Respond, ResponseOf, Responses, Inv, Lists, AtOne, childVars
<1>2. PICK r \in Requests : r = Current /\ r \in Elems(active)
  BY <1>1, CurrentOne DEF Inv, AtOne
<1>3. PICK s \in Responses : response' = [response EXCEPT ![r] = s] /\ (s = "Timeout" => expired[r])
  BY <1>1, <1>2
<1>4. r \notin Elems(responses) /\ proc[r] # "none"
  BY <1>1, <1>2 DEF Inv, Accounted, Children, LoopStates
<1>5. response[r] = "none" /\ record[r] = "none"
  BY <1>1, <1>4 DEF Recorded, LoopStates
<1>6. response'[r] = s /\ s # "none" /\ \A q \in Requests \ {r} : response'[q] = response[q]
  BY <1>3 DEF Responses, Inv, TypeOK
<1>7. \A q \in Requests \ {r} : proc'[q] = proc[q]
  BY <1>1, <1>2 DEF Inv, TypeOK
<1>8. PhaseOf(r) = "running" /\ PhaseOf(r)' = "decided"
  BY <1>1, <1>4, <1>5, <1>6 DEF PhaseOf, Responses
<1>9. \A q \in Requests \ {r} : PhaseOf(q)' = PhaseOf(q)
  BY <1>1, <1>6, <1>7 DEF PhaseOf
<1> DEFINE v == IF s = "NoResult" THEN "Error" ELSE s
<1>10. [q \in Requests |-> VerdictOf(q)]' = [[q \in Requests |-> VerdictOf(q)] EXCEPT ![r] = v]
  BY <1>6 DEF VerdictOf
<1>11. v \in Service!Verdicts /\ (v = "Timeout" => r \in Timed)
  BY <1>3 DEF Responses, Service!Verdicts, Recorded
<1>12. QED
  BY <1>8, <1>9, <1>10, <1>11, OnePhaseChanges DEF Service!Decide

LEMMA SaveSaves ==
  ASSUME Inv, Recorded, Save
  PROVE  \E r \in Requests : Service!Save(r)
<1>1. /\ pc = "save" /\ pc' = "poll" /\ todo # <<>>
      /\ record' = [record EXCEPT ![Current] = response[Current]] /\ UNCHANGED <<response, proc>>
  BY DEF Save, Inv, Lists, AtOne, childVars
<1>2. PICK r \in Requests : r = Current /\ r \in Elems(active)
  BY <1>1, CurrentOne DEF Inv, AtOne
<1>3. record[r] = "none" /\ response[r] \in Responses
  BY <1>1, <1>2 DEF Inv, Accounted, Children, Recorded, LoopStates, TypeOK
<1>4. record'[r] \in Responses /\ \A q \in Requests \ {r} : record'[q] = record[q]
  BY <1>1, <1>2, <1>3 DEF Inv, TypeOK
<1>5. PhaseOf(r) = "decided" /\ PhaseOf(r)' = "saved"
  BY <1>1, <1>3, <1>4 DEF PhaseOf, Responses
<1>6. \A q \in Requests \ {r} : PhaseOf(q)' = PhaseOf(q)
  BY <1>1, <1>4 DEF PhaseOf
<1>7. UNCHANGED [q \in Requests |-> VerdictOf(q)]
  BY <1>1 DEF VerdictOf
<1>8. QED
  BY <1>5, <1>6, <1>7, OnePhaseChanges DEF Service!Save

(* Each step of the local runner is a step of the service, or none: the     *)
(* batch is answered when run_many returns, and what an exception left      *)
(* unsaved is dropped when it raises.                                       *)
LEMMA RefinementStep ==
  ASSUME Inv, Recorded, Inv', [Next]_vars
  PROVE  [Service!Next]_(Service!vars)
<1>1. CASE Fork
  BY <1>1, ForkStarts DEF Service!Next
<1>2. CASE PollTimeout \/ LastGetEmpty \/ Join
  BY <1>2, RespondDecides DEF Service!Next
<1>3. CASE Save
  BY <1>3, SaveSaves DEF Service!Next
<1>4. CASE Return
  <2>1. /\ pc = "fill" /\ pc' = "returned" /\ UNCHANGED <<responses, response, record>>
    BY <1>4 DEF Return, answerVars
  <2>2. Elems(responses) = Requests
    <3>1. Elems(pending) = {} /\ Elems(active) = {} /\ Starting = {}
      BY <1>4, ShortLists DEF Return, Starting
    <3>2. QED
      BY <2>1, <3>1 DEF Inv, Accounted, LoopStates
  <2>3. \A r \in Requests : record[r] \in Responses
    BY <2>1, <2>2 DEF Inv, Accounted, LoopStates, TypeOK
  <2>4. \A r \in Requests : PhaseOf(r) = "saved" /\ PhaseOf(r)' = "answered"
    BY <2>1, <2>3 DEF PhaseOf
  <2>5. UNCHANGED [q \in Requests |-> VerdictOf(q)]
    BY <2>1 DEF VerdictOf
  <2>6. Service!Answer(Requests)
    BY <2>4, <2>5 DEF Service!Answer
  <2>7. Requests \in SUBSET Requests
    OBVIOUS
  <2>8. QED
    BY <2>6, <2>7 DEF Service!Next
<1>5. CASE Raise
  <2>1. pc = "abort" /\ pc' = "raised" /\ UNCHANGED <<response, record, proc>>
    BY <1>5 DEF Raise, answerVars, childVars
  <2> DEFINE R == {r \in Requests : record[r] \notin Responses}
  <2>2. \A r \in R : PhaseOf(r) \in {"queued", "running", "decided"} /\ PhaseOf(r)' = "dropped"
    BY <2>1 DEF PhaseOf
  <2>3. \A r \in Requests \ R : PhaseOf(r)' = PhaseOf(r)
    BY <2>1 DEF PhaseOf
  <2>4. UNCHANGED [q \in Requests |-> VerdictOf(q)]
    BY <2>1 DEF VerdictOf
  <2>5. Service!Drop(R)
    BY <2>2, <2>3, <2>4 DEF Service!Drop
  <2>6. R \in SUBSET Requests
    OBVIOUS
  <2>7. QED
    BY <2>5, <2>6 DEF Service!Next
<1>6. CASE SaveRaises
  <2>1. /\ pc = "save" /\ pc' = "abort" /\ todo # <<>> /\ UNCHANGED <<response, proc>>
        /\ record' = [record EXCEPT ![Current] = "partial"]
    BY <1>6 DEF SaveRaises, Inv, Lists, AtOne, childVars
  <2>2. PICK r \in Requests : r = Current /\ r \in Elems(active)
    BY <2>1, CurrentOne DEF Inv, AtOne
  <2>3. record[r] = "none"
    BY <2>1, <2>2 DEF Inv, Accounted, Recorded, LoopStates
  <2>4. \A q \in Requests : (record'[q] \in Responses) = (record[q] \in Responses)
    BY <2>1, <2>2, <2>3 DEF Inv, TypeOK, Responses
  <2>5. \A q \in Requests : PhaseOf(q)' = PhaseOf(q) /\ VerdictOf(q)' = VerdictOf(q)
    BY <2>1, <2>4 DEF PhaseOf, VerdictOf
  <2>6. QED
    BY <2>5 DEF Service!vars
<1>7. CASE \/ Register \/ StartRaises \/ BeginPass \/ PollTakes \/ PollEmpty \/ GetWaits
           \/ CheckAlive \/ CheckDead \/ LastGetTakes \/ GetEnds \/ EndPass \/ Interrupt
  <2>1. pc \notin {"raised", "returned"} /\ pc' \notin {"raised", "returned"} /\ UNCHANGED <<response, record, proc>>
    BY <1>7 DEF Register, StartRaises, BeginPass, PollTakes, PollEmpty, GetWaits, CheckAlive, CheckDead,
       LastGetTakes, GetEnds, EndPass, Interrupt, LoopStates, answerVars, childVars
  <2>2. QED
    BY <2>1 DEF PhaseOf, VerdictOf, Service!vars
<1>8. CASE AbortNext \/ \E q \in Requests : Child(q)
  <2>1. pc' = pc /\ UNCHANGED <<response, record>>
    BY <1>8 DEF AbortNext, Child, ChildWrites, ChildPuts, ChildExits, ChildCrashes, parentVars, answerVars
  <2>2. \A r \in Requests : proc'[r] = "none" <=> proc[r] = "none"
    <3>1. CASE AbortNext
      <4>1. Current \in Requests /\ proc[Current] # "none"
        BY <3>1, CurrentOne DEF AbortNext, Inv, Children
      <4>2. QED
        BY <3>1, <4>1 DEF AbortNext, Inv, TypeOK
    <3>2. CASE \E q \in Requests : Child(q)
      BY <3>2 DEF Child, ChildWrites, ChildPuts, ChildExits, ChildCrashes, Inv, TypeOK
    <3>3. QED
      BY <1>8, <3>1, <3>2
  <2>3. \A q \in Requests : PhaseOf(q)' = PhaseOf(q) /\ VerdictOf(q)' = VerdictOf(q)
    BY <2>1, <2>2 DEF PhaseOf, VerdictOf
  <2>4. QED
    BY <2>3 DEF Service!vars
<1>9. CASE Ended \/ UNCHANGED vars \/ \E q \in Requests : TimePasses(q)
  BY <1>9 DEF Ended, vars, parentVars, answerVars, childVars, TimePasses, PhaseOf, VerdictOf, Service!vars
<1>10. QED
  BY <1>1, <1>2, <1>3, <1>4, <1>5, <1>6, <1>7, <1>8, <1>9 DEF Next, Parent

(* The local runner implements the same service as the server, for every    *)
(* batch and every number of slots.                                         *)
THEOREM LocalRefinesService == Spec => RefinesService
<1>1. Init => Service!Init
  <2>1. \A r \in Requests : Init => PhaseOf(r) = "queued" /\ VerdictOf(r) = "none"
    BY DEF Init, PhaseOf, VerdictOf, Responses
  <2>2. QED
    BY <2>1 DEF Service!Init
<1>2. Inv /\ Recorded /\ Inv' /\ [Next]_vars => [Service!Next]_(Service!vars)
  BY RefinementStep
<1>3. QED
  BY <1>1, <1>2, Invariance, RecordedAlways, PTL DEF Spec, RefinesService, Service!Spec

-----------------------------------------------------------------------------
(* What the service promises, the engine inherits                           *)

Promise == INSTANCE RolloutServiceProofs WITH
    phase <- [r \in Requests |-> PhaseOf(r)],
    verdict <- [r \in Requests |-> VerdictOf(r)],
    Slots <- Concurrency

(* The service as the model instantiates it, and as the proofs about it do. *)
LEMMA SameService == Service!Spec => Promise!Spec
<1>1. Service!Init => Promise!Init
  BY DEF Service!Init, Promise!Init
<1>2. /\ Promise!Running = Service!Running
      /\ Promise!Cardinality(Promise!Running) = Service!Cardinality(Service!Running)
  BY DEF Promise!Running, Service!Running, Promise!Cardinality, Service!Cardinality
<1>3. [Service!Next]_(Service!vars) => [Promise!Next]_(Promise!vars)
  <2>1. ASSUME NEW r \in Requests, Service!Start(r) PROVE Promise!Start(r)
    BY <1>2, <2>1 DEF Service!Start, Promise!Start
  <2>2. ASSUME NEW r \in Requests
        PROVE  (Service!Submit(r) => Promise!Submit(r)) /\ (Service!Save(r) => Promise!Save(r))
    BY DEF Service!Submit, Promise!Submit, Service!Save, Promise!Save
  <2>3. ASSUME NEW r \in Requests, NEW v, Service!Decide(r, v) PROVE Promise!Decide(r, v)
    BY <2>3 DEF Service!Decide, Promise!Decide
  <2>4. ASSUME NEW R
        PROVE  (Service!Answer(R) => Promise!Answer(R)) /\ (Service!Drop(R) => Promise!Drop(R))
    BY DEF Service!Answer, Promise!Answer, Service!Drop, Promise!Drop
  <2>5. (UNCHANGED Service!vars) => UNCHANGED Promise!vars
    BY DEF Service!vars, Promise!vars
  <2>6. Service!Verdicts = Promise!Verdicts
    BY DEF Service!Verdicts, Promise!Verdicts
  <2>7. QED
    BY <2>1, <2>2, <2>3, <2>4, <2>5, <2>6 DEF Service!Next, Promise!Next
<1>4. QED
  BY <1>1, <1>3, PTL DEF Service!Spec, Promise!Spec

(* At most Concurrency children run for requests that have no response yet;  *)
(* run_many returns a request only with a verdict, and Timeout only if it   *)
(* asked for one.                                                           *)
THEOREM LocalKeepsPromise ==
  Spec => [](Service!SlotsAreBounded /\ Service!VerdictsAreSound)
<1>1. Promise!Finite
  BY LocalAssumption, RequestsFinite DEF Promise!Finite, Promise!IsFiniteSet, IsFiniteSet
<1>2. Promise!Spec => [](Promise!SlotsAreBounded /\ Promise!VerdictsAreSound)
  BY <1>1, Promise!ServiceIsSafe, PTL
<1>3. /\ Promise!SlotsAreBounded => Service!SlotsAreBounded
      /\ Promise!VerdictsAreSound => Service!VerdictsAreSound
  BY DEF Promise!Running, Service!Running, Promise!Cardinality, Service!Cardinality,
         Promise!SlotsAreBounded, Service!SlotsAreBounded,
         Promise!VerdictsAreSound, Service!VerdictsAreSound
<1>4. QED
  BY <1>2, <1>3, SameService, LocalRefinesService, PTL DEF RefinesService

(* What a child puts on its pipe late, a child that dies after its answer   *)
(* or an interrupt changes no response once it is built, and no record once *)
(* it is saved; a returned or raised batch stays so.                        *)
THEOREM LocalFatesFinal == Spec => Service!FatesAreFinal
<1>1. Promise!Spec => Promise!FatesAreFinal
  BY Promise!ServiceIsFinal, PTL
<1>2. Promise!FatesAreFinal => Service!FatesAreFinal
  BY PTL DEF Service!FatesAreFinal, Promise!FatesAreFinal, Promise!vars, Service!vars
<1>3. QED
  BY <1>1, <1>2, SameService, LocalRefinesService, PTL DEF RefinesService
=============================================================================
