------------------------ MODULE RolloutServerProofs ------------------------
(***************************************************************************)
(* Proofs about the rollout server, for every set of requests, number of    *)
(* slots and number of retries.  Inv is inductive: its first two conjuncts  *)
(* keep the semaphore's count, Coherence ties the coroutine, the pool call  *)
(* and the Ray task of each request together, and the last three are what   *)
(* the answers owe to them.  Each lemma below shows that a step keeps one   *)
(* conjunct, action by action; the theorems follow.                         *)
(***************************************************************************)
EXTENDS RolloutServer, FiniteSetTheorems, TLAPS

Inv ==
    /\ TypeOK
    /\ SlotAccounting
    /\ Coherence
    /\ ResultsAreGenuine
    /\ CancelledIsTimeout
    /\ RepliesAreOnDisk

-----------------------------------------------------------------------------
(* The semaphore                                                            *)

(* Only finitely many requests hold a permit.                               *)
LEMMA SlotHoldersFinite ==
  /\ IsFiniteSet(SlotHolders)
  /\ Cardinality(SlotHolders) \in Nat
<1>1. SlotHolders \subseteq Requests
  BY DEF SlotHolders
<1>2. IsFiniteSet(SlotHolders)
  BY <1>1, ServerAssumption, FS_Subset
<1>3. QED
  BY <1>2, FS_CardinalityType

(* A coroutine that holds a permit can give it back without overfilling the *)
(* semaphore.                                                               *)
LEMMA HeldPermitIsMissing ==
  ASSUME TypeOK, SlotAccounting, NEW r \in Requests, handler[r] = "executing"
  PROVE  permits + 1 \in 0 .. Concurrency
<1>1. r \in SlotHolders
  BY DEF SlotHolders
<1>2. Cardinality(SlotHolders) # 0
  BY <1>1, SlotHoldersFinite, FS_EmptySet
<1>3. QED
  BY <1>2, SlotHoldersFinite, ServerAssumption DEF TypeOK, SlotAccounting

(* What _run_blocking makes of anything a task can yield; only a result     *)
(* becomes a value, only a blank failure something that is unusable.        *)
LEMMA UnwrapType ==
  ASSUME NEW v \in Payloads \cup RayErrors
  PROVE  /\ Unwrap(v) \in {"value", "invalid", "raised"}
         /\ Unwrap(v) = "value" => v = "result"
         /\ Unwrap(v) = "invalid" => v = "blank"
<1>1. CASE v = "result"
  BY <1>1 DEF Unwrap
<1>2. CASE v = "blank"
  BY <1>2 DEF Unwrap
<1>3. CASE v \in RayErrors \cup {"failure"}
  BY <1>3 DEF Unwrap, RayErrors
<1>4. QED
  BY <1>1, <1>2, <1>3 DEF Payloads

(* handle_run has a verdict for each way a call can end that it can answer. *)
LEMMA VerdictOfType ==
  ASSUME NEW o \in {"value", "raised", "timeout"}
  PROVE  /\ VerdictOf(o) \in Verdicts
         /\ VerdictOf(o) = "Result" <=> o = "value"
         /\ VerdictOf(o) = "Timeout" <=> o = "timeout"
  BY DEF VerdictOf, Verdicts

(* The permits stay within the semaphore, every variable within its type.   *)
LEMMA TypeStep ==
  ASSUME TypeOK, SlotAccounting, CallsHaveSlots, TasksFollowCalls, [Next]_vars
  PROVE  TypeOK'
<1> USE ServerAssumption DEF TypeOK, HandlerStates, CallStates, TaskStates, Outcomes,
        Verdicts, Payloads, RayErrors
<1>1. ASSUME NEW r \in Requests, Arrive(r) PROVE TypeOK'
  BY <1>1 DEF Arrive, callVars, taskVars
<1>2. ASSUME NEW r \in Requests, Admit(r) PROVE TypeOK'
  BY <1>2 DEF Admit, IsNext, callVars, taskVars
<1>3. ASSUME NEW r \in Requests, RejectUnknown(r) PROVE TypeOK'
  BY <1>3 DEF RejectUnknown, IsNext, callVars, taskVars
<1>4. ASSUME NEW r \in Requests, Resume(r) PROVE TypeOK'
  <2>1. permits' \in 0 .. Concurrency
    BY <1>4, HeldPermitIsMissing DEF Resume
  <2>2. VerdictOf(outcome[r]) \in Verdicts
    BY <1>4, VerdictOfType DEF Resume, CallsHaveSlots
  <2>3. QED
    BY <1>4, <2>1, <2>2 DEF Resume, callVars, taskVars
<1>5. ASSUME NEW r \in Requests, ResumeInvalid(r) PROVE TypeOK'
  <2>1. permits' \in 0 .. Concurrency
    BY <1>5, HeldPermitIsMissing DEF ResumeInvalid
  <2>2. QED
    BY <1>5, <2>1 DEF ResumeInvalid, callVars, taskVars
<1>6. ASSUME NEW r \in Requests, Save(r) PROVE TypeOK'
  BY <1>6 DEF Save, slotVars, callVars, taskVars
<1>7. ASSUME NEW r \in Requests, SaveRaises(r) PROVE TypeOK'
  BY <1>7 DEF SaveRaises, slotVars, callVars, taskVars
<1>8. ASSUME NEW r \in Requests, Reply(r) PROVE TypeOK'
  BY <1>8 DEF Reply, slotVars, callVars, taskVars
<1>9. ASSUME NEW r \in Requests, SubmitTask(r) PROVE TypeOK'
  BY <1>9 DEF SubmitTask, slotVars, httpVars, taskVars
<1>10. ASSUME NEW r \in Requests, SubmitRaises(r) PROVE TypeOK'
  BY <1>10 DEF SubmitRaises, slotVars, httpVars, taskVars
<1>11. ASSUME NEW r \in Requests, GetReturns(r) PROVE TypeOK'
  <2>1. Unwrap(value[r]) \in Outcomes
    BY <1>11, UnwrapType DEF GetReturns, TasksFollowCalls
  <2>2. QED
    BY <1>11, <2>1 DEF GetReturns, slotVars, httpVars, taskVars
<1>12. ASSUME NEW r \in Requests, GetTimesOut(r) PROVE TypeOK'
  BY <1>12 DEF GetTimesOut, slotVars, httpVars, taskVars
<1>13. ASSUME NEW r \in Requests, CancelSoftly(r) PROVE TypeOK'
  <2>1. UNCHANGED <<server, slotVars, httpVars, outcome, retries>> /\ call' \in [Requests -> CallStates]
    BY <1>13 DEF CancelSoftly
  <2>2. /\ task' \in [Requests -> TaskStates]
        /\ value' \in [Requests -> Payloads \cup RayErrors \cup {"none"}]
        /\ cancel' \in [Requests -> {"no", "soft", "force"}]
    <3>1. CASE task[r] = "pending"
      <4>1. /\ task' = [task EXCEPT ![r] = "finished"]
            /\ value' = [value EXCEPT ![r] = "cancelled"]
            /\ cancel' = [cancel EXCEPT ![r] = "soft"]
        BY <1>13, <3>1 DEF CancelSoftly
      <4>2. QED
        BY <4>1
    <3>2. CASE task[r] = "running"
      <4>1. /\ task' = [task EXCEPT ![r] = "interrupted"]
            /\ cancel' = [cancel EXCEPT ![r] = "soft"]
            /\ UNCHANGED value
        BY <1>13, <3>2 DEF CancelSoftly
      <4>2. QED
        BY <4>1
    <3>3. CASE task[r] = "finished"
      <4>1. UNCHANGED <<task, value, cancel>>
        BY <1>13, <3>3 DEF CancelSoftly
      <4>2. QED
        BY <4>1
    <3>4. QED
      BY <1>13, <3>1, <3>2, <3>3 DEF CancelSoftly
  <2>3. QED
    BY <2>1, <2>2 DEF slotVars, httpVars
<1>14. ASSUME NEW r \in Requests, GraceEnds(r) PROVE TypeOK'
  BY <1>14 DEF GraceEnds, slotVars, httpVars, taskVars
<1>15. ASSUME NEW r \in Requests, ForceCancel(r) PROVE TypeOK'
  BY <1>15 DEF ForceCancel, slotVars, httpVars, taskVars
<1>16. ASSUME NEW r \in Requests, RayStart(r) PROVE TypeOK'
  BY <1>16 DEF RayStart, slotVars, httpVars, callVars
<1>17. ASSUME NEW r \in Requests, RayReturn(r) PROVE TypeOK'
  <2>1. PICK v \in Payloads : Finish(r, v)
    BY <1>17 DEF RayReturn
  <2>2. QED
    BY <1>17, <2>1 DEF RayReturn, Finish, Executing, slotVars, httpVars, callVars
<1>18. ASSUME NEW r \in Requests, RayUnwind(r) PROVE TypeOK'
  BY <1>18 DEF RayUnwind, Finish, slotVars, httpVars, callVars
<1>19. ASSUME NEW r \in Requests, RayRetry(r) PROVE TypeOK'
  BY <1>19 DEF RayRetry, Executing, slotVars, httpVars, callVars
<1>20. ASSUME NEW r \in Requests, RayCrash(r) PROVE TypeOK'
  BY <1>20 DEF RayCrash, Finish, Executing, slotVars, httpVars, callVars
<1>21. ASSUME NEW r \in Requests, RayKill(r) PROVE TypeOK'
  BY <1>21 DEF RayKill, Finish, Executing, slotVars, httpVars, callVars
<1>22. CASE BeginShutdown
  BY <1>22 DEF BeginShutdown, slotVars, httpVars, callVars, taskVars
<1>23. CASE Close
  BY <1>23 DEF Close, Live, slotVars, httpVars, callVars
<1>24. CASE UNCHANGED vars
  BY <1>24 DEF vars, slotVars, httpVars, callVars, taskVars
<1>25. QED
  BY <1>1, <1>2, <1>3, <1>4, <1>5, <1>6, <1>7, <1>8, <1>9, <1>10, <1>11, <1>12, <1>13, <1>14, <1>15, <1>16, <1>17, <1>18, <1>19, <1>20, <1>21, <1>22, <1>23, <1>24 DEF Next, Loop, Thread, Ray, Closed

(* Permits and slot holders change together.                                *)
LEMMA SlotStep ==
  ASSUME TypeOK, SlotAccounting, [Next]_vars
  PROVE  SlotAccounting'
<1> USE DEF SlotAccounting
<1>1. ASSUME NEW r \in Requests, Arrive(r) PROVE SlotAccounting'
  <2>1. SlotHolders' = SlotHolders
    BY <1>1 DEF Arrive, SlotHolders, TypeOK
  <2>2. QED
    BY <1>1, <2>1 DEF Arrive
<1>2. ASSUME NEW r \in Requests, Admit(r) PROVE SlotAccounting'
  <2>1. SlotHolders' = SlotHolders \cup {r} /\ r \notin SlotHolders
    BY <1>2 DEF Admit, IsNext, SlotHolders, TypeOK
  <2>2. Cardinality(SlotHolders') = Cardinality(SlotHolders) + 1
    BY <2>1, SlotHoldersFinite, FS_AddElement
  <2>3. QED
    BY <1>2, <2>2, SlotHoldersFinite, ServerAssumption DEF Admit, TypeOK
<1>3. ASSUME NEW r \in Requests, RejectUnknown(r) PROVE SlotAccounting'
  <2>1. SlotHolders' = SlotHolders
    BY <1>3 DEF RejectUnknown, IsNext, SlotHolders, TypeOK
  <2>2. QED
    BY <1>3, <2>1 DEF RejectUnknown
<1>4. ASSUME NEW r \in Requests, Resume(r) PROVE SlotAccounting'
  <2>1. SlotHolders' = SlotHolders \ {r} /\ r \in SlotHolders
    BY <1>4 DEF Resume, SlotHolders, TypeOK
  <2>2. Cardinality(SlotHolders') = Cardinality(SlotHolders) - 1
    BY <2>1, SlotHoldersFinite, FS_RemoveElement
  <2>3. QED
    BY <1>4, <2>2, SlotHoldersFinite, ServerAssumption DEF Resume, TypeOK
<1>5. ASSUME NEW r \in Requests, ResumeInvalid(r) PROVE SlotAccounting'
  <2>1. SlotHolders' = SlotHolders \ {r} /\ r \in SlotHolders
    BY <1>5 DEF ResumeInvalid, SlotHolders, TypeOK
  <2>2. Cardinality(SlotHolders') = Cardinality(SlotHolders) - 1
    BY <2>1, SlotHoldersFinite, FS_RemoveElement
  <2>3. QED
    BY <1>5, <2>2, SlotHoldersFinite, ServerAssumption DEF ResumeInvalid, TypeOK
<1>6. ASSUME NEW r \in Requests, Save(r) PROVE SlotAccounting'
  <2>1. SlotHolders' = SlotHolders
    BY <1>6 DEF Save, slotVars, SlotHolders, TypeOK
  <2>2. QED
    BY <1>6, <2>1 DEF Save, slotVars
<1>7. ASSUME NEW r \in Requests, SaveRaises(r) PROVE SlotAccounting'
  <2>1. SlotHolders' = SlotHolders
    BY <1>7 DEF SaveRaises, slotVars, SlotHolders, TypeOK
  <2>2. QED
    BY <1>7, <2>1 DEF SaveRaises, slotVars
<1>8. ASSUME NEW r \in Requests, Reply(r) PROVE SlotAccounting'
  <2>1. SlotHolders' = SlotHolders
    BY <1>8 DEF Reply, slotVars, SlotHolders, TypeOK
  <2>2. QED
    BY <1>8, <2>1 DEF Reply, slotVars
<1>9. ASSUME UNCHANGED <<slotVars, httpVars>> PROVE SlotAccounting'
  BY <1>9 DEF SlotHolders, slotVars, httpVars
<1>10. ASSUME NEW r \in Requests, Thread(r) PROVE UNCHANGED <<slotVars, httpVars>>
  BY <1>10 DEF Thread, SubmitTask, SubmitRaises, GetReturns, GetTimesOut, CancelSoftly,
     GraceEnds, ForceCancel
<1>11. ASSUME NEW r \in Requests, Ray(r) PROVE UNCHANGED <<slotVars, httpVars>>
  BY <1>11 DEF Ray, RayStart, RayReturn, RayUnwind, RayRetry, RayCrash, RayKill, Finish
<1>12. CASE BeginShutdown \/ Close \/ UNCHANGED vars
  BY <1>12, <1>9 DEF BeginShutdown, Close, vars
<1>13. QED
  BY <1>1, <1>2, <1>3, <1>4, <1>5, <1>6, <1>7, <1>8, <1>9, <1>10, <1>11, <1>12 DEF Next, Loop, Closed

-----------------------------------------------------------------------------
(* The queue of the semaphore                                               *)

(* The first coroutine leaves the queue: the others keep their order.        *)
LEMMA FirstLeaves ==
  ASSUME TypeOK, WaitersAreQueued, NEW r \in Requests, IsNext(r),
         waiters' = Tail(waiters),
         \A q \in Requests : handler'[q] = "waiting" <=> handler[q] = "waiting" /\ q # r
  PROVE  WaitersAreQueued'
<1> USE DEF WaitersAreQueued, TypeOK
<1>1. /\ waiters' \in Seq(Requests)
      /\ Len(waiters') = Len(waiters) - 1
      /\ \A i \in 1 .. Len(waiters') : \E k \in 1 .. Len(waiters) :
          k = i + 1 /\ waiters'[i] = waiters[k]
      /\ \A k \in 1 .. Len(waiters) : k # 1 => \E i \in 1 .. Len(waiters') :
          k = i + 1 /\ waiters'[i] = waiters[k]
      /\ 1 \in 1 .. Len(waiters) /\ waiters[1] = r
  <2>1. /\ Len(waiters) \in Nat \ {0} /\ waiters[1] = r
        /\ waiters' \in Seq(Requests) /\ Len(waiters') = Len(waiters) - 1
        /\ \A i \in 1 .. Len(waiters) - 1 : waiters'[i] = waiters[i + 1]
    BY DEF IsNext
  <2>2. \A i \in 1 .. Len(waiters') : i + 1 \in 1 .. Len(waiters)
    BY <2>1
  <2>3. \A k \in 1 .. Len(waiters) : k # 1 => k - 1 \in 1 .. Len(waiters') /\ k = (k - 1) + 1
    BY <2>1
  <2>4. 1 \in 1 .. Len(waiters)
    BY <2>1
  <2>5. QED
    BY <2>1, <2>2, <2>3, <2>4
<1>2. \A q \in Requests : handler'[q] = "waiting" <=> handler[q] = "waiting" /\ q # r
  OBVIOUS
<1>3. \A i \in 1 .. Len(waiters') : handler'[waiters'[i]] = "waiting"
  <2> TAKE i \in 1 .. Len(waiters')
  <2>1. PICK k \in 1 .. Len(waiters) : k = i + 1 /\ waiters'[i] = waiters[k]
    BY <1>1
  <2>2. k # 1 /\ waiters[k] \in Requests
    BY <2>1
  <2>3. waiters[k] # r
    BY <1>1, <2>2
  <2>4. QED
    BY <2>1, <2>2, <2>3, <1>2
<1>4. ASSUME NEW i \in 1 .. Len(waiters'), NEW j \in 1 .. Len(waiters'),
             waiters'[i] = waiters'[j]
      PROVE  i = j
  <2>1. PICK k \in 1 .. Len(waiters) : k = i + 1 /\ waiters'[i] = waiters[k]
    BY <1>1
  <2>2. PICK m \in 1 .. Len(waiters) : m = j + 1 /\ waiters'[j] = waiters[m]
    BY <1>1
  <2>3. k = m
    BY <1>4, <2>1, <2>2
  <2>4. QED
    BY <2>1, <2>2, <2>3
<1>5. ASSUME NEW q \in Requests, handler'[q] = "waiting"
      PROVE  \E i \in 1 .. Len(waiters') : waiters'[i] = q
  <2>1. PICK k \in 1 .. Len(waiters) : waiters[k] = q
    BY <1>2, <1>5
  <2>2. k # 1
    BY <1>1, <1>2, <1>5, <2>1
  <2>3. PICK i \in 1 .. Len(waiters') : waiters'[i] = waiters[k]
    BY <1>1, <2>2
  <2>4. QED
    BY <2>1, <2>3
<1>6. QED
  BY <1>3, <1>4, <1>5

(* Arriving puts a request at the end of the queue, leaving takes the first. *)
LEMMA WaitersStep ==
  ASSUME TypeOK, WaitersAreQueued, [Next]_vars
  PROVE  WaitersAreQueued'
<1> USE DEF WaitersAreQueued, TypeOK
<1>1. ASSUME NEW r \in Requests, Arrive(r) PROVE WaitersAreQueued'
  BY <1>1 DEF Arrive, callVars, taskVars
<1>2. ASSUME NEW r \in Requests, Admit(r) PROVE WaitersAreQueued'
  <2>1. \A q \in Requests : handler'[q] = "waiting" <=> handler[q] = "waiting" /\ q # r
    BY <1>2 DEF Admit, IsNext
  <2>2. QED
    BY <1>2, <2>1, FirstLeaves DEF Admit
<1>3. ASSUME NEW r \in Requests, RejectUnknown(r) PROVE WaitersAreQueued'
  <2>1. \A q \in Requests : handler'[q] = "waiting" <=> handler[q] = "waiting" /\ q # r
    BY <1>3 DEF RejectUnknown, IsNext
  <2>2. QED
    BY <1>3, <2>1, FirstLeaves DEF RejectUnknown
<1>4. ASSUME NEW r \in Requests, Resume(r) PROVE WaitersAreQueued'
  BY <1>4 DEF Resume, VerdictOf, callVars, taskVars
<1>5. ASSUME NEW r \in Requests, ResumeInvalid(r) PROVE WaitersAreQueued'
  BY <1>5 DEF ResumeInvalid, callVars, taskVars
<1>6. ASSUME NEW r \in Requests, Save(r) PROVE WaitersAreQueued'
  BY <1>6 DEF Save, slotVars, callVars, taskVars
<1>7. ASSUME NEW r \in Requests, SaveRaises(r) PROVE WaitersAreQueued'
  BY <1>7 DEF SaveRaises, slotVars, callVars, taskVars
<1>8. ASSUME NEW r \in Requests, Reply(r) PROVE WaitersAreQueued'
  BY <1>8 DEF Reply, slotVars, callVars, taskVars
<1>9. ASSUME UNCHANGED <<slotVars, httpVars>> PROVE WaitersAreQueued'
  BY <1>9 DEF slotVars, httpVars
<1>10. ASSUME NEW r \in Requests, Thread(r) PROVE UNCHANGED <<slotVars, httpVars>>
  BY <1>10 DEF Thread, SubmitTask, SubmitRaises, GetReturns, GetTimesOut, CancelSoftly,
     GraceEnds, ForceCancel
<1>11. ASSUME NEW r \in Requests, Ray(r) PROVE UNCHANGED <<slotVars, httpVars>>
  BY <1>11 DEF Ray, RayStart, RayReturn, RayUnwind, RayRetry, RayCrash, RayKill, Finish
<1>12. CASE BeginShutdown \/ Close \/ UNCHANGED vars
  BY <1>12, <1>9 DEF BeginShutdown, Close, vars
<1>13. QED
  BY <1>1, <1>2, <1>3, <1>4, <1>5, <1>6, <1>7, <1>8, <1>9, <1>10, <1>11, <1>12 DEF Next, Loop, Closed

-----------------------------------------------------------------------------
(* Coroutine, call and task                                                 *)

(* Permits are held exactly while a call is under way.                       *)
LEMMA CallsStep ==
  ASSUME TypeOK, CallsHaveSlots, TasksFollowCalls, [Next]_vars
  PROVE  CallsHaveSlots'
<1> USE DEF CallsHaveSlots, TypeOK, Outcomes
<1>1. ASSUME NEW r \in Requests, Arrive(r) PROVE CallsHaveSlots'
  BY <1>1 DEF Arrive, callVars, taskVars
<1>2. ASSUME NEW r \in Requests, Admit(r) PROVE CallsHaveSlots'
  BY <1>2 DEF Admit, IsNext, callVars, taskVars
<1>3. ASSUME NEW r \in Requests, RejectUnknown(r) PROVE CallsHaveSlots'
  BY <1>3 DEF RejectUnknown, IsNext, callVars, taskVars
<1>4. ASSUME NEW r \in Requests, Resume(r) PROVE CallsHaveSlots'
  BY <1>4 DEF Resume, VerdictOf, callVars, taskVars
<1>5. ASSUME NEW r \in Requests, ResumeInvalid(r) PROVE CallsHaveSlots'
  BY <1>5 DEF ResumeInvalid, callVars, taskVars
<1>6. ASSUME NEW r \in Requests, Save(r) PROVE CallsHaveSlots'
  BY <1>6 DEF Save, slotVars, callVars, taskVars
<1>7. ASSUME NEW r \in Requests, SaveRaises(r) PROVE CallsHaveSlots'
  BY <1>7 DEF SaveRaises, slotVars, callVars, taskVars
<1>8. ASSUME NEW r \in Requests, Reply(r) PROVE CallsHaveSlots'
  BY <1>8 DEF Reply, slotVars, callVars, taskVars
<1>9. ASSUME NEW r \in Requests, SubmitTask(r) PROVE CallsHaveSlots'
  BY <1>9 DEF SubmitTask, slotVars, httpVars, taskVars
<1>10. ASSUME NEW r \in Requests, SubmitRaises(r) PROVE CallsHaveSlots'
  BY <1>10 DEF SubmitRaises, slotVars, httpVars, taskVars
<1>11. ASSUME NEW r \in Requests, GetReturns(r) PROVE CallsHaveSlots'
  <2>1. Unwrap(value[r]) # "none"
    BY <1>11, UnwrapType DEF GetReturns, TasksFollowCalls
  <2>2. QED
    BY <1>11, <2>1 DEF GetReturns, slotVars, httpVars, taskVars
<1>12. ASSUME NEW r \in Requests, GetTimesOut(r) PROVE CallsHaveSlots'
  BY <1>12 DEF GetTimesOut, slotVars, httpVars, taskVars
<1>13. ASSUME NEW r \in Requests, CancelSoftly(r) PROVE CallsHaveSlots'
  BY <1>13 DEF CancelSoftly, slotVars, httpVars, taskVars
<1>14. ASSUME NEW r \in Requests, GraceEnds(r) PROVE CallsHaveSlots'
  BY <1>14 DEF GraceEnds, slotVars, httpVars, taskVars
<1>15. ASSUME NEW r \in Requests, ForceCancel(r) PROVE CallsHaveSlots'
  BY <1>15 DEF ForceCancel, slotVars, httpVars, taskVars
<1>16. ASSUME NEW r \in Requests, RayStart(r) PROVE CallsHaveSlots'
  BY <1>16 DEF RayStart, slotVars, httpVars, callVars
<1>17. ASSUME NEW r \in Requests, RayReturn(r) PROVE CallsHaveSlots'
  <2>1. PICK v \in Payloads : Finish(r, v)
    BY <1>17 DEF RayReturn
  <2>2. QED
    BY <1>17, <2>1 DEF RayReturn, Finish, Executing, slotVars, httpVars, callVars
<1>18. ASSUME NEW r \in Requests, RayUnwind(r) PROVE CallsHaveSlots'
  BY <1>18 DEF RayUnwind, Finish, slotVars, httpVars, callVars
<1>19. ASSUME NEW r \in Requests, RayRetry(r) PROVE CallsHaveSlots'
  BY <1>19 DEF RayRetry, Executing, slotVars, httpVars, callVars
<1>20. ASSUME NEW r \in Requests, RayCrash(r) PROVE CallsHaveSlots'
  BY <1>20 DEF RayCrash, Finish, Executing, slotVars, httpVars, callVars
<1>21. ASSUME NEW r \in Requests, RayKill(r) PROVE CallsHaveSlots'
  BY <1>21 DEF RayKill, Finish, Executing, slotVars, httpVars, callVars
<1>22. CASE BeginShutdown
  BY <1>22 DEF BeginShutdown, slotVars, httpVars, callVars, taskVars
<1>23. CASE Close
  BY <1>23 DEF Close, Live, slotVars, httpVars, callVars
<1>24. CASE UNCHANGED vars
  BY <1>24 DEF vars, slotVars, httpVars, callVars, taskVars
<1>25. QED
  BY <1>1, <1>2, <1>3, <1>4, <1>5, <1>6, <1>7, <1>8, <1>9, <1>10, <1>11, <1>12, <1>13, <1>14, <1>15, <1>16, <1>17, <1>18, <1>19, <1>20, <1>21, <1>22, <1>23, <1>24 DEF Next, Loop, Thread, Ray, Closed

(* Tasks follow their calls.                                                *)
LEMMA TasksStep ==
  ASSUME TypeOK, CallsHaveSlots, TasksFollowCalls, CancelsFollowTimeouts, [Next]_vars
  PROVE  TasksFollowCalls'
<1> USE DEF TasksFollowCalls, CallsHaveSlots, CancelsFollowTimeouts, TypeOK, Live, Payloads, RayErrors
<1>1. ASSUME NEW r \in Requests, Arrive(r) PROVE TasksFollowCalls'
  BY <1>1 DEF Arrive, callVars, taskVars
<1>2. ASSUME NEW r \in Requests, Admit(r) PROVE TasksFollowCalls'
  BY <1>2 DEF Admit, IsNext, callVars, taskVars
<1>3. ASSUME NEW r \in Requests, RejectUnknown(r) PROVE TasksFollowCalls'
  BY <1>3 DEF RejectUnknown, IsNext, callVars, taskVars
<1>4. ASSUME NEW r \in Requests, Resume(r) PROVE TasksFollowCalls'
  BY <1>4 DEF Resume, VerdictOf, callVars, taskVars
<1>5. ASSUME NEW r \in Requests, ResumeInvalid(r) PROVE TasksFollowCalls'
  BY <1>5 DEF ResumeInvalid, callVars, taskVars
<1>6. ASSUME NEW r \in Requests, Save(r) PROVE TasksFollowCalls'
  BY <1>6 DEF Save, slotVars, callVars, taskVars
<1>7. ASSUME NEW r \in Requests, SaveRaises(r) PROVE TasksFollowCalls'
  BY <1>7 DEF SaveRaises, slotVars, callVars, taskVars
<1>8. ASSUME NEW r \in Requests, Reply(r) PROVE TasksFollowCalls'
  BY <1>8 DEF Reply, slotVars, callVars, taskVars
<1>9. ASSUME NEW r \in Requests, SubmitTask(r) PROVE TasksFollowCalls'
  BY <1>9 DEF SubmitTask, slotVars, httpVars, taskVars
<1>10. ASSUME NEW r \in Requests, SubmitRaises(r) PROVE TasksFollowCalls'
  BY <1>10 DEF SubmitRaises, slotVars, httpVars, taskVars
<1>11. ASSUME NEW r \in Requests, GetReturns(r) PROVE TasksFollowCalls'
  BY <1>11 DEF GetReturns, Unwrap, slotVars, httpVars, taskVars
<1>12. ASSUME NEW r \in Requests, GetTimesOut(r) PROVE TasksFollowCalls'
  BY <1>12 DEF GetTimesOut, slotVars, httpVars, taskVars
<1>13. ASSUME NEW r \in Requests, CancelSoftly(r) PROVE TasksFollowCalls'
  BY <1>13 DEF CancelSoftly, slotVars, httpVars, taskVars
<1>14. ASSUME NEW r \in Requests, GraceEnds(r) PROVE TasksFollowCalls'
  BY <1>14 DEF GraceEnds, slotVars, httpVars, taskVars
<1>15. ASSUME NEW r \in Requests, ForceCancel(r) PROVE TasksFollowCalls'
  BY <1>15 DEF ForceCancel, slotVars, httpVars, taskVars
<1>16. ASSUME NEW r \in Requests, RayStart(r) PROVE TasksFollowCalls'
  BY <1>16 DEF RayStart, slotVars, httpVars, callVars
<1>17. ASSUME NEW r \in Requests, RayReturn(r) PROVE TasksFollowCalls'
  <2>1. PICK v \in Payloads : Finish(r, v)
    BY <1>17 DEF RayReturn
  <2>2. QED
    BY <1>17, <2>1 DEF RayReturn, Finish, Executing, slotVars, httpVars, callVars
<1>18. ASSUME NEW r \in Requests, RayUnwind(r) PROVE TasksFollowCalls'
  BY <1>18 DEF RayUnwind, Finish, slotVars, httpVars, callVars
<1>19. ASSUME NEW r \in Requests, RayRetry(r) PROVE TasksFollowCalls'
  BY <1>19 DEF RayRetry, Executing, slotVars, httpVars, callVars
<1>20. ASSUME NEW r \in Requests, RayCrash(r) PROVE TasksFollowCalls'
  BY <1>20 DEF RayCrash, Finish, Executing, slotVars, httpVars, callVars
<1>21. ASSUME NEW r \in Requests, RayKill(r) PROVE TasksFollowCalls'
  BY <1>21 DEF RayKill, Finish, Executing, slotVars, httpVars, callVars
<1>22. CASE BeginShutdown
  BY <1>22 DEF BeginShutdown, slotVars, httpVars, callVars, taskVars
<1>23. CASE Close
  BY <1>23 DEF Close, Live, slotVars, httpVars, callVars
<1>24. CASE UNCHANGED vars
  BY <1>24 DEF vars, slotVars, httpVars, callVars, taskVars
<1>25. QED
  BY <1>1, <1>2, <1>3, <1>4, <1>5, <1>6, <1>7, <1>8, <1>9, <1>10, <1>11, <1>12, <1>13, <1>14, <1>15, <1>16, <1>17, <1>18, <1>19, <1>20, <1>21, <1>22, <1>23, <1>24 DEF Next, Loop, Thread, Ray, Closed

(* Cancellations follow timeouts.                                           *)
LEMMA CancelsStep ==
  ASSUME TypeOK, CallsHaveSlots, TasksFollowCalls, CancelsFollowTimeouts, [Next]_vars
  PROVE  CancelsFollowTimeouts'
<1> USE DEF CancelsFollowTimeouts, TasksFollowCalls, CallsHaveSlots, TypeOK, Live, Payloads, RayErrors
<1>1. ASSUME NEW r \in Requests, Arrive(r) PROVE CancelsFollowTimeouts'
  BY <1>1 DEF Arrive, callVars, taskVars
<1>2. ASSUME NEW r \in Requests, Admit(r) PROVE CancelsFollowTimeouts'
  BY <1>2 DEF Admit, IsNext, callVars, taskVars
<1>3. ASSUME NEW r \in Requests, RejectUnknown(r) PROVE CancelsFollowTimeouts'
  BY <1>3 DEF RejectUnknown, IsNext, callVars, taskVars
<1>4. ASSUME NEW r \in Requests, Resume(r) PROVE CancelsFollowTimeouts'
  BY <1>4 DEF Resume, VerdictOf, callVars, taskVars
<1>5. ASSUME NEW r \in Requests, ResumeInvalid(r) PROVE CancelsFollowTimeouts'
  BY <1>5 DEF ResumeInvalid, callVars, taskVars
<1>6. ASSUME NEW r \in Requests, Save(r) PROVE CancelsFollowTimeouts'
  BY <1>6 DEF Save, slotVars, callVars, taskVars
<1>7. ASSUME NEW r \in Requests, SaveRaises(r) PROVE CancelsFollowTimeouts'
  BY <1>7 DEF SaveRaises, slotVars, callVars, taskVars
<1>8. ASSUME NEW r \in Requests, Reply(r) PROVE CancelsFollowTimeouts'
  BY <1>8 DEF Reply, slotVars, callVars, taskVars
<1>9. ASSUME NEW r \in Requests, SubmitTask(r) PROVE CancelsFollowTimeouts'
  BY <1>9 DEF SubmitTask, slotVars, httpVars, taskVars
<1>10. ASSUME NEW r \in Requests, SubmitRaises(r) PROVE CancelsFollowTimeouts'
  BY <1>10 DEF SubmitRaises, slotVars, httpVars, taskVars
<1>11. ASSUME NEW r \in Requests, GetReturns(r) PROVE CancelsFollowTimeouts'
  BY <1>11 DEF GetReturns, Unwrap, slotVars, httpVars, taskVars
<1>12. ASSUME NEW r \in Requests, GetTimesOut(r) PROVE CancelsFollowTimeouts'
  BY <1>12 DEF GetTimesOut, slotVars, httpVars, taskVars
<1>13. ASSUME NEW r \in Requests, CancelSoftly(r) PROVE CancelsFollowTimeouts'
  BY <1>13 DEF CancelSoftly, slotVars, httpVars, taskVars
<1>14. ASSUME NEW r \in Requests, GraceEnds(r) PROVE CancelsFollowTimeouts'
  BY <1>14 DEF GraceEnds, slotVars, httpVars, taskVars
<1>15. ASSUME NEW r \in Requests, ForceCancel(r) PROVE CancelsFollowTimeouts'
  BY <1>15 DEF ForceCancel, slotVars, httpVars, taskVars
<1>16. ASSUME NEW r \in Requests, RayStart(r) PROVE CancelsFollowTimeouts'
  BY <1>16 DEF RayStart, slotVars, httpVars, callVars
<1>17. ASSUME NEW r \in Requests, RayReturn(r) PROVE CancelsFollowTimeouts'
  <2>1. PICK v \in Payloads : Finish(r, v)
    BY <1>17 DEF RayReturn
  <2>2. QED
    BY <1>17, <2>1 DEF RayReturn, Finish, Executing, slotVars, httpVars, callVars
<1>18. ASSUME NEW r \in Requests, RayUnwind(r) PROVE CancelsFollowTimeouts'
  BY <1>18 DEF RayUnwind, Finish, slotVars, httpVars, callVars
<1>19. ASSUME NEW r \in Requests, RayRetry(r) PROVE CancelsFollowTimeouts'
  BY <1>19 DEF RayRetry, Executing, slotVars, httpVars, callVars
<1>20. ASSUME NEW r \in Requests, RayCrash(r) PROVE CancelsFollowTimeouts'
  BY <1>20 DEF RayCrash, Finish, Executing, slotVars, httpVars, callVars
<1>21. ASSUME NEW r \in Requests, RayKill(r) PROVE CancelsFollowTimeouts'
  BY <1>21 DEF RayKill, Finish, Executing, slotVars, httpVars, callVars
<1>22. CASE BeginShutdown
  BY <1>22 DEF BeginShutdown, slotVars, httpVars, callVars, taskVars
<1>23. CASE Close
  BY <1>23 DEF Close, Live, slotVars, httpVars, callVars
<1>24. CASE UNCHANGED vars
  BY <1>24 DEF vars, slotVars, httpVars, callVars, taskVars
<1>25. QED
  BY <1>1, <1>2, <1>3, <1>4, <1>5, <1>6, <1>7, <1>8, <1>9, <1>10, <1>11, <1>12, <1>13, <1>14, <1>15, <1>16, <1>17, <1>18, <1>19, <1>20, <1>21, <1>22, <1>23, <1>24 DEF Next, Loop, Thread, Ray, Closed

-----------------------------------------------------------------------------
(* Answers                                                                  *)

(* What is built, saved and sent follows the stages of handle_run.          *)
LEMMA AnswersStep ==
  ASSUME TypeOK, CallsHaveSlots, TasksFollowCalls, CancelsFollowTimeouts, AnswersFollowCalls, [Next]_vars
  PROVE  AnswersFollowCalls'
<1> USE DEF AnswersFollowCalls, CancelsFollowTimeouts, TasksFollowCalls, CallsHaveSlots, TypeOK,
        Live, Payloads, RayErrors, Verdicts
<1>1. ASSUME NEW r \in Requests, Arrive(r) PROVE AnswersFollowCalls'
  BY <1>1 DEF Arrive, callVars, taskVars
<1>2. ASSUME NEW r \in Requests, Admit(r) PROVE AnswersFollowCalls'
  BY <1>2 DEF Admit, IsNext, callVars, taskVars
<1>3. ASSUME NEW r \in Requests, RejectUnknown(r) PROVE AnswersFollowCalls'
  BY <1>3 DEF RejectUnknown, IsNext, callVars, taskVars
<1>4. ASSUME NEW r \in Requests, Resume(r) PROVE AnswersFollowCalls'
  <2>1. /\ VerdictOf(outcome[r]) \in Verdicts
        /\ VerdictOf(outcome[r]) = "Result" <=> outcome[r] = "value"
        /\ VerdictOf(outcome[r]) = "Timeout" <=> outcome[r] = "timeout"
    BY <1>4, VerdictOfType DEF Resume, CallsHaveSlots, TypeOK, Outcomes
  <2>2. QED
    BY <1>4, <2>1 DEF Resume, callVars, taskVars
<1>5. ASSUME NEW r \in Requests, ResumeInvalid(r) PROVE AnswersFollowCalls'
  BY <1>5 DEF ResumeInvalid, callVars, taskVars
<1>6. ASSUME NEW r \in Requests, Save(r) PROVE AnswersFollowCalls'
  BY <1>6 DEF Save, slotVars, callVars, taskVars
<1>7. ASSUME NEW r \in Requests, SaveRaises(r) PROVE AnswersFollowCalls'
  BY <1>7 DEF SaveRaises, slotVars, callVars, taskVars
<1>8. ASSUME NEW r \in Requests, Reply(r) PROVE AnswersFollowCalls'
  BY <1>8 DEF Reply, slotVars, callVars, taskVars
<1>9. ASSUME NEW r \in Requests, SubmitTask(r) PROVE AnswersFollowCalls'
  BY <1>9 DEF SubmitTask, slotVars, httpVars, taskVars
<1>10. ASSUME NEW r \in Requests, SubmitRaises(r) PROVE AnswersFollowCalls'
  BY <1>10 DEF SubmitRaises, slotVars, httpVars, taskVars
<1>11. ASSUME NEW r \in Requests, GetReturns(r) PROVE AnswersFollowCalls'
  <2>1. Unwrap(value[r]) = "value" => value[r] = "result"
    BY <1>11, UnwrapType DEF GetReturns, TasksFollowCalls, TypeOK
  <2>2. Unwrap(value[r]) # "timeout"
    BY <1>11, UnwrapType DEF GetReturns, TasksFollowCalls, TypeOK
  <2>3. QED
    BY <1>11, <2>1, <2>2 DEF GetReturns, slotVars, httpVars, taskVars
<1>12. ASSUME NEW r \in Requests, GetTimesOut(r) PROVE AnswersFollowCalls'
  BY <1>12 DEF GetTimesOut, slotVars, httpVars, taskVars
<1>13. ASSUME NEW r \in Requests, CancelSoftly(r) PROVE AnswersFollowCalls'
  <2>1. UNCHANGED <<handler, response, record, reply, outcome>>
    BY <1>13 DEF CancelSoftly, httpVars
  <2>2. \A q \in Requests : value[q] = "result" => value'[q] = "result"
    <3>1. CASE task[r] = "pending"
      <4>1. value' = [value EXCEPT ![r] = "cancelled"] /\ value[r] = "none"
        BY <1>13, <3>1 DEF CancelSoftly
      <4>2. QED
        BY <4>1
    <3>2. CASE task[r] # "pending"
      BY <1>13, <3>2 DEF CancelSoftly
    <3>3. QED
      BY <3>1, <3>2
  <2>3. QED
    BY <2>1, <2>2
<1>14. ASSUME NEW r \in Requests, GraceEnds(r) PROVE AnswersFollowCalls'
  BY <1>14 DEF GraceEnds, slotVars, httpVars, taskVars
<1>15. ASSUME NEW r \in Requests, ForceCancel(r) PROVE AnswersFollowCalls'
  BY <1>15 DEF ForceCancel, slotVars, httpVars, taskVars
<1>16. ASSUME NEW r \in Requests, RayStart(r) PROVE AnswersFollowCalls'
  BY <1>16 DEF RayStart, slotVars, httpVars, callVars
<1>17. ASSUME NEW r \in Requests, RayReturn(r) PROVE AnswersFollowCalls'
  <2>1. PICK v \in Payloads : Finish(r, v)
    BY <1>17 DEF RayReturn
  <2>2. QED
    BY <1>17, <2>1 DEF RayReturn, Finish, Executing, slotVars, httpVars, callVars
<1>18. ASSUME NEW r \in Requests, RayUnwind(r) PROVE AnswersFollowCalls'
  BY <1>18 DEF RayUnwind, Finish, slotVars, httpVars, callVars
<1>19. ASSUME NEW r \in Requests, RayRetry(r) PROVE AnswersFollowCalls'
  BY <1>19 DEF RayRetry, Executing, slotVars, httpVars, callVars
<1>20. ASSUME NEW r \in Requests, RayCrash(r) PROVE AnswersFollowCalls'
  BY <1>20 DEF RayCrash, Finish, Executing, slotVars, httpVars, callVars
<1>21. ASSUME NEW r \in Requests, RayKill(r) PROVE AnswersFollowCalls'
  BY <1>21 DEF RayKill, Finish, Executing, slotVars, httpVars, callVars
<1>22. CASE BeginShutdown
  BY <1>22 DEF BeginShutdown, slotVars, httpVars, callVars, taskVars
<1>23. CASE Close
  BY <1>23 DEF Close, Live, slotVars, httpVars, callVars
<1>24. CASE UNCHANGED vars
  BY <1>24 DEF vars, slotVars, httpVars, callVars, taskVars
<1>25. QED
  BY <1>1, <1>2, <1>3, <1>4, <1>5, <1>6, <1>7, <1>8, <1>9, <1>10, <1>11, <1>12, <1>13, <1>14, <1>15, <1>16, <1>17, <1>18, <1>19, <1>20, <1>21, <1>22, <1>23, <1>24 DEF Next, Loop, Thread, Ray, Closed

(* A response says "Result" only of a runner's own answer.                 *)
LEMMA ResultsStep ==
  ASSUME TypeOK, CallsHaveSlots, TasksFollowCalls, AnswersFollowCalls, ResultsAreGenuine, [Next]_vars
  PROVE  ResultsAreGenuine'
<1> USE DEF ResultsAreGenuine, AnswersFollowCalls, TasksFollowCalls, TypeOK, Live, Payloads, RayErrors
<1>1. ASSUME NEW r \in Requests, Arrive(r) PROVE ResultsAreGenuine'
  BY <1>1 DEF Arrive, callVars, taskVars
<1>2. ASSUME NEW r \in Requests, Admit(r) PROVE ResultsAreGenuine'
  BY <1>2 DEF Admit, IsNext, callVars, taskVars
<1>3. ASSUME NEW r \in Requests, RejectUnknown(r) PROVE ResultsAreGenuine'
  BY <1>3 DEF RejectUnknown, IsNext, callVars, taskVars
<1>4. ASSUME NEW r \in Requests, Resume(r) PROVE ResultsAreGenuine'
  <2>1. /\ VerdictOf(outcome[r]) \in Verdicts
        /\ VerdictOf(outcome[r]) = "Result" <=> outcome[r] = "value"
        /\ VerdictOf(outcome[r]) = "Timeout" <=> outcome[r] = "timeout"
    BY <1>4, VerdictOfType DEF Resume, CallsHaveSlots, TypeOK, Outcomes
  <2>2. QED
    BY <1>4, <2>1 DEF Resume, callVars, taskVars
<1>5. ASSUME NEW r \in Requests, ResumeInvalid(r) PROVE ResultsAreGenuine'
  BY <1>5 DEF ResumeInvalid, callVars, taskVars
<1>6. ASSUME NEW r \in Requests, Save(r) PROVE ResultsAreGenuine'
  BY <1>6 DEF Save, slotVars, callVars, taskVars
<1>7. ASSUME NEW r \in Requests, SaveRaises(r) PROVE ResultsAreGenuine'
  BY <1>7 DEF SaveRaises, slotVars, callVars, taskVars
<1>8. ASSUME NEW r \in Requests, Reply(r) PROVE ResultsAreGenuine'
  BY <1>8 DEF Reply, slotVars, callVars, taskVars
<1>9. ASSUME NEW r \in Requests, SubmitTask(r) PROVE ResultsAreGenuine'
  BY <1>9 DEF SubmitTask, slotVars, httpVars, taskVars
<1>10. ASSUME NEW r \in Requests, SubmitRaises(r) PROVE ResultsAreGenuine'
  BY <1>10 DEF SubmitRaises, slotVars, httpVars, taskVars
<1>11. ASSUME NEW r \in Requests, GetReturns(r) PROVE ResultsAreGenuine'
  BY <1>11 DEF GetReturns, slotVars, httpVars, taskVars
<1>12. ASSUME NEW r \in Requests, GetTimesOut(r) PROVE ResultsAreGenuine'
  BY <1>12 DEF GetTimesOut, slotVars, httpVars, taskVars
<1>13. ASSUME NEW r \in Requests, CancelSoftly(r) PROVE ResultsAreGenuine'
  <2>1. UNCHANGED <<handler, response, record, reply, outcome>>
    BY <1>13 DEF CancelSoftly, httpVars
  <2>2. \A q \in Requests : value[q] = "result" => value'[q] = "result"
    <3>1. CASE task[r] = "pending"
      <4>1. value' = [value EXCEPT ![r] = "cancelled"] /\ value[r] = "none"
        BY <1>13, <3>1 DEF CancelSoftly
      <4>2. QED
        BY <4>1
    <3>2. CASE task[r] # "pending"
      BY <1>13, <3>2 DEF CancelSoftly
    <3>3. QED
      BY <3>1, <3>2
  <2>3. QED
    BY <2>1, <2>2
<1>14. ASSUME NEW r \in Requests, GraceEnds(r) PROVE ResultsAreGenuine'
  BY <1>14 DEF GraceEnds, slotVars, httpVars, taskVars
<1>15. ASSUME NEW r \in Requests, ForceCancel(r) PROVE ResultsAreGenuine'
  BY <1>15 DEF ForceCancel, slotVars, httpVars, taskVars
<1>16. ASSUME NEW r \in Requests, RayStart(r) PROVE ResultsAreGenuine'
  BY <1>16 DEF RayStart, slotVars, httpVars, callVars
<1>17. ASSUME NEW r \in Requests, RayReturn(r) PROVE ResultsAreGenuine'
  <2>1. PICK v \in Payloads : Finish(r, v)
    BY <1>17 DEF RayReturn
  <2>2. value' = [value EXCEPT ![r] = v] /\ value[r] = "none" /\ UNCHANGED response
    BY <1>17, <2>1 DEF RayReturn, Finish, Executing, httpVars
  <2>3. QED
    BY <2>2
<1>18. ASSUME NEW r \in Requests, RayUnwind(r) PROVE ResultsAreGenuine'
  BY ZenonT(60), <1>18 DEF RayUnwind, Finish, slotVars, httpVars, callVars
<1>19. ASSUME NEW r \in Requests, RayRetry(r) PROVE ResultsAreGenuine'
  BY <1>19 DEF RayRetry, Executing, slotVars, httpVars, callVars
<1>20. ASSUME NEW r \in Requests, RayCrash(r) PROVE ResultsAreGenuine'
  BY ZenonT(60), <1>20 DEF RayCrash, Finish, Executing, slotVars, httpVars, callVars
<1>21. ASSUME NEW r \in Requests, RayKill(r) PROVE ResultsAreGenuine'
  BY ZenonT(60), <1>21 DEF RayKill, Finish, Executing, slotVars, httpVars, callVars
<1>22. CASE BeginShutdown
  BY <1>22 DEF BeginShutdown, slotVars, httpVars, callVars, taskVars
<1>23. CASE Close
  BY <1>23 DEF Close, Live, slotVars, httpVars, callVars
<1>24. CASE UNCHANGED vars
  BY <1>24 DEF vars, slotVars, httpVars, callVars, taskVars
<1>25. QED
  BY <1>1, <1>2, <1>3, <1>4, <1>5, <1>6, <1>7, <1>8, <1>9, <1>10, <1>11, <1>12, <1>13, <1>14, <1>15, <1>16, <1>17, <1>18, <1>19, <1>20, <1>21, <1>22, <1>23, <1>24 DEF Next, Loop, Thread, Ray, Closed

(* Whom a cancellation reached gets a timeout.                              *)
LEMMA CancelledStep ==
  ASSUME TypeOK, CallsHaveSlots, TasksFollowCalls, CancelsFollowTimeouts, CancelledIsTimeout, [Next]_vars
  PROVE  CancelledIsTimeout'
<1> USE DEF CancelledIsTimeout, CancelsFollowTimeouts, TasksFollowCalls, CallsHaveSlots, TypeOK
<1>1. ASSUME NEW r \in Requests, Arrive(r) PROVE CancelledIsTimeout'
  BY <1>1 DEF Arrive, callVars, taskVars
<1>2. ASSUME NEW r \in Requests, Admit(r) PROVE CancelledIsTimeout'
  BY <1>2 DEF Admit, IsNext, callVars, taskVars
<1>3. ASSUME NEW r \in Requests, RejectUnknown(r) PROVE CancelledIsTimeout'
  BY <1>3 DEF RejectUnknown, IsNext, callVars, taskVars
<1>4. ASSUME NEW r \in Requests, Resume(r) PROVE CancelledIsTimeout'
  <2>1. /\ VerdictOf(outcome[r]) \in Verdicts
        /\ VerdictOf(outcome[r]) = "Result" <=> outcome[r] = "value"
        /\ VerdictOf(outcome[r]) = "Timeout" <=> outcome[r] = "timeout"
    BY <1>4, VerdictOfType DEF Resume, CallsHaveSlots, TypeOK, Outcomes
  <2>2. QED
    BY <1>4, <2>1 DEF Resume, callVars, taskVars
<1>5. ASSUME NEW r \in Requests, ResumeInvalid(r) PROVE CancelledIsTimeout'
  BY <1>5 DEF ResumeInvalid, callVars, taskVars
<1>6. ASSUME NEW r \in Requests, Save(r) PROVE CancelledIsTimeout'
  BY <1>6 DEF Save, slotVars, callVars, taskVars
<1>7. ASSUME NEW r \in Requests, SaveRaises(r) PROVE CancelledIsTimeout'
  BY <1>7 DEF SaveRaises, slotVars, callVars, taskVars
<1>8. ASSUME NEW r \in Requests, Reply(r) PROVE CancelledIsTimeout'
  BY <1>8 DEF Reply, slotVars, callVars, taskVars
<1>9. ASSUME NEW r \in Requests, SubmitTask(r) PROVE CancelledIsTimeout'
  BY <1>9 DEF SubmitTask, slotVars, httpVars, taskVars
<1>10. ASSUME NEW r \in Requests, SubmitRaises(r) PROVE CancelledIsTimeout'
  BY <1>10 DEF SubmitRaises, slotVars, httpVars, taskVars
<1>11. ASSUME NEW r \in Requests, GetReturns(r) PROVE CancelledIsTimeout'
  BY <1>11 DEF GetReturns, slotVars, httpVars, taskVars
<1>12. ASSUME NEW r \in Requests, GetTimesOut(r) PROVE CancelledIsTimeout'
  BY <1>12 DEF GetTimesOut, slotVars, httpVars, taskVars
<1>13. ASSUME NEW r \in Requests, CancelSoftly(r) PROVE CancelledIsTimeout'
  <2>1. r \in Timed /\ handler[r] = "executing"
    BY <1>13 DEF CancelSoftly
  <2>2. \A q \in Requests \ {r} : cancel'[q] = cancel[q]
    <3>1. CASE task[r] \in {"pending", "running"}
      BY <1>13, <3>1 DEF CancelSoftly
    <3>2. CASE task[r] = "finished"
      BY <1>13, <3>2 DEF CancelSoftly
    <3>3. QED
      BY <1>13, <3>1, <3>2 DEF CancelSoftly
  <2>3. QED
    BY <1>13, <2>1, <2>2 DEF CancelSoftly, httpVars
<1>14. ASSUME NEW r \in Requests, GraceEnds(r) PROVE CancelledIsTimeout'
  BY <1>14 DEF GraceEnds, slotVars, httpVars, taskVars
<1>15. ASSUME NEW r \in Requests, ForceCancel(r) PROVE CancelledIsTimeout'
  BY <1>15 DEF ForceCancel, slotVars, httpVars, taskVars
<1>16. ASSUME NEW r \in Requests, RayStart(r) PROVE CancelledIsTimeout'
  BY <1>16 DEF RayStart, slotVars, httpVars, callVars
<1>17. ASSUME NEW r \in Requests, RayReturn(r) PROVE CancelledIsTimeout'
  <2>1. PICK v \in Payloads : Finish(r, v)
    BY <1>17 DEF RayReturn
  <2>2. QED
    BY <1>17, <2>1 DEF RayReturn, Finish, Executing, slotVars, httpVars, callVars
<1>18. ASSUME NEW r \in Requests, RayUnwind(r) PROVE CancelledIsTimeout'
  BY <1>18 DEF RayUnwind, Finish, slotVars, httpVars, callVars
<1>19. ASSUME NEW r \in Requests, RayRetry(r) PROVE CancelledIsTimeout'
  BY <1>19 DEF RayRetry, Executing, slotVars, httpVars, callVars
<1>20. ASSUME NEW r \in Requests, RayCrash(r) PROVE CancelledIsTimeout'
  BY <1>20 DEF RayCrash, Finish, Executing, slotVars, httpVars, callVars
<1>21. ASSUME NEW r \in Requests, RayKill(r) PROVE CancelledIsTimeout'
  BY <1>21 DEF RayKill, Finish, Executing, slotVars, httpVars, callVars
<1>22. CASE BeginShutdown
  BY <1>22 DEF BeginShutdown, slotVars, httpVars, callVars, taskVars
<1>23. CASE Close
  BY <1>23 DEF Close, Live, slotVars, httpVars, callVars
<1>24. CASE UNCHANGED vars
  BY <1>24 DEF vars, slotVars, httpVars, callVars, taskVars
<1>25. QED
  BY <1>1, <1>2, <1>3, <1>4, <1>5, <1>6, <1>7, <1>8, <1>9, <1>10, <1>11, <1>12, <1>13, <1>14, <1>15, <1>16, <1>17, <1>18, <1>19, <1>20, <1>21, <1>22, <1>23, <1>24 DEF Next, Loop, Thread, Ray, Closed

(* What was sent has been saved.                                            *)
LEMMA RepliesStep ==
  ASSUME TypeOK, AnswersFollowCalls, RepliesAreOnDisk, [Next]_vars
  PROVE  RepliesAreOnDisk'
<1> USE DEF RepliesAreOnDisk, AnswersFollowCalls, TypeOK, Verdicts
<1>1. ASSUME NEW r \in Requests, Arrive(r) PROVE RepliesAreOnDisk'
  BY <1>1 DEF Arrive, callVars, taskVars
<1>2. ASSUME NEW r \in Requests, Admit(r) PROVE RepliesAreOnDisk'
  BY <1>2 DEF Admit, IsNext, callVars, taskVars
<1>3. ASSUME NEW r \in Requests, RejectUnknown(r) PROVE RepliesAreOnDisk'
  BY <1>3 DEF RejectUnknown, IsNext, callVars, taskVars
<1>4. ASSUME NEW r \in Requests, Resume(r) PROVE RepliesAreOnDisk'
  BY <1>4 DEF Resume
<1>5. ASSUME NEW r \in Requests, ResumeInvalid(r) PROVE RepliesAreOnDisk'
  BY <1>5 DEF ResumeInvalid, callVars, taskVars
<1>6. ASSUME NEW r \in Requests, Save(r) PROVE RepliesAreOnDisk'
  BY <1>6 DEF Save, slotVars, callVars, taskVars
<1>7. ASSUME NEW r \in Requests, SaveRaises(r) PROVE RepliesAreOnDisk'
  BY <1>7 DEF SaveRaises, slotVars, callVars, taskVars
<1>8. ASSUME NEW r \in Requests, Reply(r) PROVE RepliesAreOnDisk'
  BY <1>8 DEF Reply, slotVars, callVars, taskVars
<1>9. ASSUME UNCHANGED httpVars PROVE RepliesAreOnDisk'
  BY <1>9 DEF httpVars
<1>10. ASSUME NEW r \in Requests, Thread(r) \/ Ray(r) PROVE UNCHANGED httpVars
  BY <1>10 DEF Thread, SubmitTask, SubmitRaises, GetReturns, GetTimesOut, CancelSoftly, GraceEnds,
     ForceCancel, Ray, RayStart, RayReturn, RayUnwind, RayRetry, RayCrash, RayKill, Finish
<1>11. CASE BeginShutdown \/ Close \/ UNCHANGED vars
  BY <1>11, <1>9 DEF BeginShutdown, Close, vars
<1>12. QED
  BY <1>1, <1>2, <1>3, <1>4, <1>5, <1>6, <1>7, <1>8, <1>9, <1>10, <1>11 DEF Next, Loop, Closed

-----------------------------------------------------------------------------
(* The invariant                                                            *)

(* The server starts in a state of the invariant.                           *)
LEMMA InvInit == Init => Inv
<1> SUFFICES ASSUME Init PROVE Inv
  OBVIOUS
<1>1. TypeOK
  BY ServerAssumption DEF Init, TypeOK, HandlerStates, CallStates, TaskStates
<1>2. SlotAccounting
  <2>1. SlotHolders = {}
    BY DEF Init, SlotHolders
  <2>2. QED
    BY <2>1, FS_EmptySet, ServerAssumption DEF Init, SlotAccounting
<1>3. Coherence
  BY DEF Init, Coherence, WaitersAreQueued, CallsHaveSlots, TasksFollowCalls,
     CancelsFollowTimeouts, AnswersFollowCalls, Live, Verdicts
<1>4. ResultsAreGenuine /\ CancelledIsTimeout /\ RepliesAreOnDisk
  BY DEF Init, ResultsAreGenuine, CancelledIsTimeout, RepliesAreOnDisk, Verdicts
<1>5. QED
  BY <1>1, <1>2, <1>3, <1>4 DEF Inv

(* Every step of the server keeps the invariant.                            *)
LEMMA InvStep == Inv /\ [Next]_vars => Inv'
<1> SUFFICES ASSUME Inv, [Next]_vars PROVE Inv'
  OBVIOUS
<1> USE DEF Inv, Coherence
<1>1. TypeOK'
  BY TypeStep
<1>2. SlotAccounting'
  BY SlotStep
<1>3. WaitersAreQueued' /\ CallsHaveSlots' /\ TasksFollowCalls'
  BY WaitersStep, CallsStep, TasksStep
<1>4. CancelsFollowTimeouts' /\ AnswersFollowCalls'
  BY CancelsStep, AnswersStep
<1>5. ResultsAreGenuine' /\ CancelledIsTimeout' /\ RepliesAreOnDisk'
  BY ResultsStep, CancelledStep, RepliesStep
<1>6. QED
  BY <1>1, <1>2, <1>3, <1>4, <1>5

(* In every behaviour of the server the invariant holds.                    *)
THEOREM Invariance == Spec => []Inv
<1>1. QED
  BY InvInit, InvStep, PTL DEF Spec

(* Every variable keeps its type: in particular the semaphore's value never *)
(* exceeds the configured concurrency and no task is restarted too often.   *)
THEOREM TypeCorrect == Spec => []TypeOK
<1>1. Inv => TypeOK
  BY DEF Inv
<1>2. QED
  BY <1>1, Invariance, PTL

(* No path out of handle_run loses a permit of the semaphore or gives one   *)
(* back twice.                                                              *)
THEOREM SlotsAccounted == Spec => []SlotAccounting
<1>1. Inv => SlotAccounting
  BY DEF Inv
<1>2. QED
  BY <1>1, Invariance, PTL

(* The stages of coroutine, pool call and Ray task agree.                   *)
THEOREM StagesCohere == Spec => []Coherence
<1>1. Inv => Coherence
  BY DEF Inv
<1>2. QED
  BY <1>1, Invariance, PTL

(* The thread pool never has more jobs than threads, so a timeout counts    *)
(* from the moment the slot is given.                                       *)
THEOREM PoolKeepsUp == Spec => []PoolNeverBacklogged
<1>1. ASSUME Inv PROVE PoolNeverBacklogged
  <2>1. (BusyThreads \cup Pooled) \subseteq SlotHolders
    BY <1>1 DEF Inv, Coherence, CallsHaveSlots, BusyThreads, Pooled, SlotHolders
  <2>2. /\ Cardinality(BusyThreads \cup Pooled) \in Nat
        /\ Cardinality(BusyThreads \cup Pooled) <= Cardinality(SlotHolders)
    BY <2>1, SlotHoldersFinite, FS_Subset, FS_CardinalityType
  <2>3. Cardinality(SlotHolders) <= Concurrency
    BY <1>1, SlotHoldersFinite, ServerAssumption DEF Inv, SlotAccounting, TypeOK
  <2>4. QED
    BY <2>2, <2>3, SlotHoldersFinite, ServerAssumption DEF PoolNeverBacklogged
<1>2. QED
  BY <1>1, Invariance, PTL

(* No request that left its slot leaves a rollout behind that nothing will  *)
(* stop.                                                                    *)
THEOREM OrphansDoomed == Spec => []OrphansAreDoomed
<1>1. Inv => OrphansAreDoomed
  BY DEF Inv, Coherence, CallsHaveSlots, TasksFollowCalls, OrphansAreDoomed
<1>2. QED
  BY <1>1, Invariance, PTL

(* A response the client got is on disk, whatever failed while it was saved. *)
THEOREM AnswersAreOnDisk == Spec => []RepliesAreOnDisk
<1>1. Inv => RepliesAreOnDisk
  BY DEF Inv
<1>2. QED
  BY <1>1, Invariance, PTL

(* A result a handler holds is what the runner of its own request returned. *)
THEOREM ResultsGenuine == Spec => []ResultsAreGenuine
<1>1. Inv => ResultsAreGenuine
  BY DEF Inv
<1>2. QED
  BY <1>1, Invariance, PTL

(* A rollout that was cancelled is reported as a timeout and as nothing else. *)
THEOREM CancelsAreTimeouts == Spec => []CancelledIsTimeout
<1>1. Inv => CancelledIsTimeout
  BY DEF Inv
<1>2. QED
  BY <1>1, Invariance, PTL

(* A rollout that begins has a call waiting for it, so its request holds a   *)
(* slot.                                                                    *)
THEOREM AttemptsHaveSlots == Spec => NoLateAttempt
<1>1. ASSUME Inv, [Next]_vars, NEW r \in Requests, handler[r] # "executing", Executing(r)'
      PROVE  Executing(r)
  <2> USE DEF Inv, Coherence, TypeOK, Executing
  <2>1. task[r] # "pending"
    BY <1>1 DEF CallsHaveSlots, TasksFollowCalls, CancelsFollowTimeouts, Live
  <2>2. ASSUME NEW q \in Requests, Ray(q) PROVE Executing(r)
    <3>1. CASE RayStart(q)
      BY <1>1, <2>1, <3>1 DEF RayStart
    <3>2. CASE RayReturn(q) \/ RayUnwind(q) \/ RayRetry(q) \/ RayCrash(q) \/ RayKill(q)
      BY <1>1, <3>2 DEF RayReturn, RayUnwind, RayRetry, RayCrash, RayKill, Finish
    <3>3. QED
      BY <2>2, <3>1, <3>2 DEF Ray
  <2>3. ASSUME NEW q \in Requests, SubmitTask(q) \/ CancelSoftly(q) PROVE Executing(r)
    <3>1. q # r
      BY <1>1, <2>3 DEF SubmitTask, CancelSoftly, CallsHaveSlots
    <3>2. CASE SubmitTask(q)
      BY <1>1, <3>1, <3>2 DEF SubmitTask
    <3>3. CASE CancelSoftly(q)
      BY <1>1, <3>1, <3>3 DEF CancelSoftly
    <3>4. QED
      BY <2>3, <3>2, <3>3
  <2>4. ASSUME NEW q \in Requests,
               SubmitRaises(q) \/ GetReturns(q) \/ GetTimesOut(q) \/ GraceEnds(q) \/ ForceCancel(q)
        PROVE  UNCHANGED task
    BY <2>4 DEF SubmitRaises, GetReturns, GetTimesOut, GraceEnds, ForceCancel, taskVars
  <2>5. ASSUME NEW q \in Requests, Arrive(q) \/ Loop(q) PROVE UNCHANGED task
    BY <2>5 DEF Arrive, Loop, Admit, RejectUnknown, Resume, ResumeInvalid, Save, SaveRaises, Reply,
       taskVars
  <2>6. CASE Close
    BY <1>1, <2>6 DEF Close, Live
  <2>7. CASE BeginShutdown \/ UNCHANGED vars
    BY <1>1, <2>7 DEF BeginShutdown, vars, taskVars
  <2>8. QED
    BY <1>1, <2>2, <2>3, <2>4, <2>5, <2>6, <2>7 DEF Next, Thread, Closed
<1>2. Inv /\ [Next]_vars =>
        [\A r \in Requests : handler[r] # "executing" /\ Executing(r)' => Executing(r)]_vars
  BY <1>1
<1>3. QED
  BY <1>2, Invariance, PTL DEF Spec, NoLateAttempt

-----------------------------------------------------------------------------
(* Failures                                                                 *)

(* A call whose result is unusable, and a request that ended in HTTP 500    *)
(* without a failed save, have a rollout that failed without a word.        *)
BlankBehind ==
    \A r \in Requests :
        /\ outcome[r] = "invalid" => value[r] = "blank"
        /\ reply[r] = "http500" => record[r] = "partial" \/ value[r] = "blank"

LEMMA BlankStep ==
  ASSUME Inv, BlankBehind, [Next]_vars
  PROVE  BlankBehind'
<1> USE DEF Inv, TypeOK, BlankBehind
<1>1. ASSUME NEW r \in Requests, GetReturns(r) PROVE BlankBehind'
  <2>1. value[r] \in Payloads \cup RayErrors
    BY <1>1 DEF GetReturns, Coherence, TasksFollowCalls
  <2>2. Unwrap(value[r]) = "invalid" => value[r] = "blank"
    BY <2>1, UnwrapType
  <2>3. QED
    BY <1>1, <2>2 DEF GetReturns, taskVars, httpVars
<1>2. ASSUME NEW r \in Requests,
             \/ SubmitTask(r) \/ SubmitRaises(r) \/ GetTimesOut(r) \/ GraceEnds(r)
             \/ ForceCancel(r)
      PROVE  BlankBehind'
  BY <1>2 DEF SubmitTask, SubmitRaises, GetTimesOut, GraceEnds, ForceCancel, taskVars, httpVars
<1>3. ASSUME NEW r \in Requests, CancelSoftly(r) PROVE BlankBehind'
  <2>1. task[r] = "pending" => value[r] # "blank"
    BY DEF Coherence, TasksFollowCalls
  <2>2. QED
    BY <1>3, <2>1 DEF CancelSoftly, httpVars
<1>4. ASSUME NEW r \in Requests, Ray(r) PROVE BlankBehind'
  <2>1. Executing(r) => value[r] # "blank"
    BY DEF Coherence, TasksFollowCalls, Executing
  <2>2. CASE RayStart(r) \/ RayRetry(r)
    BY <2>2 DEF RayStart, RayRetry, httpVars, callVars
  <2>3. CASE RayReturn(r) \/ RayUnwind(r) \/ RayCrash(r) \/ RayKill(r)
    BY <2>1, <2>3 DEF RayReturn, RayUnwind, RayCrash, RayKill, Finish, Executing, httpVars, callVars
  <2>4. QED
    BY <1>4, <2>2, <2>3 DEF Ray
<1>5. ASSUME NEW r \in Requests, ResumeInvalid(r) \/ SaveRaises(r) PROVE BlankBehind'
  BY <1>5 DEF ResumeInvalid, SaveRaises, taskVars, callVars
<1>6. ASSUME NEW r \in Requests, Arrive(r) \/ Admit(r) \/ RejectUnknown(r) \/ Resume(r)
      PROVE  BlankBehind'
  BY <1>6 DEF Arrive, Admit, RejectUnknown, Resume, taskVars, callVars
<1>7. ASSUME NEW r \in Requests, Save(r) PROVE BlankBehind'
  BY <1>7 DEF Save, Coherence, AnswersFollowCalls, taskVars, callVars
<1>8. ASSUME NEW r \in Requests, Reply(r) PROVE BlankBehind'
  BY <1>8 DEF Reply, Verdicts, taskVars, callVars
<1>9. CASE Close
  <2>1. \A r \in Requests : Live(r) => value[r] # "blank"
    BY DEF Coherence, TasksFollowCalls, Live
  <2>2. QED
    BY <1>9, <2>1 DEF Close, httpVars, callVars
<1>10. CASE BeginShutdown \/ UNCHANGED vars
  BY <1>10 DEF BeginShutdown, vars, httpVars, callVars, taskVars
<1>11. QED
  BY <1>1, <1>2, <1>3, <1>4, <1>5, <1>6, <1>7, <1>8, <1>9, <1>10 DEF Next, Loop, Thread, Closed

(* FailuresAreReported, which run server_blank refutes, is refuted in one   *)
(* way only: while no rollout fails without a message, every failure is     *)
(* answered with an error response, unless saving that failed too.          *)
THEOREM FailuresReported == Spec => []((\A r \in Requests : value[r] # "blank") => FailuresAreReported)
<1>1. Init => BlankBehind
  BY DEF Init, BlankBehind
<1>2. Inv /\ BlankBehind /\ [Next]_vars => BlankBehind'
  BY BlankStep
<1>3. BlankBehind => ((\A r \in Requests : value[r] # "blank") => FailuresAreReported)
  BY DEF BlankBehind, FailuresAreReported
<1>4. QED
  BY <1>1, <1>2, <1>3, Invariance, PTL DEF Spec

-----------------------------------------------------------------------------
(* Refinement                                                               *)

(* Where a request stands for its client.                                   *)
LEMMA PhaseOfValue ==
  ASSUME NEW r \in Requests
  PROVE  /\ handler[r] = "absent" => PhaseOf(r) = "idle"
         /\ handler[r] = "waiting" => PhaseOf(r) = "queued"
         /\ handler[r] = "executing" => PhaseOf(r) = "running"
         /\ handler[r] = "saving" => PhaseOf(r) = "decided"
         /\ handler[r] = "saved" => PhaseOf(r) = "saved"
         /\ handler[r] = "answered" /\ reply[r] = "http500" => PhaseOf(r) = "dropped"
         /\ handler[r] = "answered" /\ reply[r] # "http500" => PhaseOf(r) = "answered"
  BY DEF PhaseOf

(* The phases that running rollouts of the service have are those of the     *)
(* requests that hold a slot.                                               *)
LEMMA RunningHoldSlots == TypeOK => Service!Running = SlotHolders
<1> SUFFICES ASSUME TypeOK PROVE Service!Running = SlotHolders
  OBVIOUS
<1>1. \A r \in Requests : PhaseOf(r) = "running" <=> handler[r] = "executing"
  BY PhaseOfValue DEF TypeOK, HandlerStates
<1>2. QED
  BY <1>1 DEF Service!Running, SlotHolders

(* When a step concerns one request, its phase alone changes.               *)
LEMMA OnePhaseChanges ==
  ASSUME NEW r \in Requests, NEW p, PhaseOf(r)' = p,
         \A q \in Requests \ {r} : handler'[q] = handler[q] /\ reply'[q] = reply[q]
  PROVE  [q \in Requests |-> PhaseOf(q)]' = [[q \in Requests |-> PhaseOf(q)] EXCEPT ![r] = p]
<1>1. \A q \in Requests \ {r} : PhaseOf(q)' = PhaseOf(q)
  BY DEF PhaseOf
<1>2. QED
  BY <1>1

(* Each step of the server is a step of the service, or none.               *)
LEMMA RefinementStep ==
  ASSUME Inv, [Next]_vars
  PROVE  [Service!Next]_(Service!vars)
<1> DEFINE phase == [q \in Requests |-> PhaseOf(q)]
<1> USE DEF Inv, TypeOK
<1>1. ASSUME NEW r \in Requests, Arrive(r) PROVE Service!Submit(r)
  <2>1. phase[r] = "idle" /\ PhaseOf(r)' = "queued"
    BY <1>1 DEF Arrive, PhaseOf
  <2>2. \A q \in Requests \ {r} : handler'[q] = handler[q] /\ reply'[q] = reply[q]
    BY <1>1 DEF Arrive
  <2>3. phase' = [phase EXCEPT ![r] = "queued"]
    BY <2>1, <2>2, OnePhaseChanges
  <2>4. UNCHANGED response
    BY <1>1 DEF Arrive
  <2>5. QED
    BY <2>1, <2>3, <2>4 DEF Service!Submit
<1>2. ASSUME NEW r \in Requests, Admit(r) PROVE Service!Start(r)
  <2>1. phase[r] = "queued" /\ PhaseOf(r)' = "running"
    BY <1>2 DEF Admit, IsNext, PhaseOf
  <2>2. \A q \in Requests \ {r} : handler'[q] = handler[q] /\ reply'[q] = reply[q]
    BY <1>2 DEF Admit
  <2>3. phase' = [phase EXCEPT ![r] = "running"]
    BY <2>1, <2>2, OnePhaseChanges
  <2>4. UNCHANGED response
    BY <1>2 DEF Admit
  <2>5. Service!Cardinality(Service!Running) < Concurrency
    <3>1. permits > 0
      BY <1>2 DEF Admit, IsNext
    <3>2. Cardinality(SlotHolders) < Concurrency
      BY <3>1, SlotHoldersFinite, ServerAssumption DEF SlotAccounting
    <3>3. Service!Cardinality(SlotHolders) = Cardinality(SlotHolders)
      BY DEF Service!Cardinality, Cardinality
    <3>4. QED
      BY <3>2, <3>3, RunningHoldSlots
  <2>6. QED
    BY <2>1, <2>3, <2>4, <2>5 DEF Service!Start
<1>3. ASSUME NEW r \in Requests, RejectUnknown(r) PROVE Service!Decide(r, "Error")
  <2>1. phase[r] = "queued" /\ PhaseOf(r)' = "decided"
    BY <1>3 DEF RejectUnknown, IsNext, PhaseOf
  <2>2. \A q \in Requests \ {r} : handler'[q] = handler[q] /\ reply'[q] = reply[q]
    BY <1>3 DEF RejectUnknown
  <2>3. phase' = [phase EXCEPT ![r] = "decided"]
    BY <2>1, <2>2, OnePhaseChanges
  <2>4. response' = [response EXCEPT ![r] = "Error"]
    BY <1>3 DEF RejectUnknown
  <2>5. QED
    BY <2>1, <2>3, <2>4 DEF Service!Decide
<1>4. ASSUME NEW r \in Requests, Resume(r) PROVE Service!Decide(r, VerdictOf(outcome[r]))
  <2>1. phase[r] = "running" /\ PhaseOf(r)' = "decided"
    BY <1>4 DEF Resume, PhaseOf
  <2>2. \A q \in Requests \ {r} : handler'[q] = handler[q] /\ reply'[q] = reply[q]
    BY <1>4 DEF Resume
  <2>3. phase' = [phase EXCEPT ![r] = "decided"]
    BY <2>1, <2>2, OnePhaseChanges
  <2>4. response' = [response EXCEPT ![r] = VerdictOf(outcome[r])]
    BY <1>4 DEF Resume
  <2>5. VerdictOf(outcome[r]) \in Verdicts /\ (VerdictOf(outcome[r]) = "Timeout" => r \in Timed)
    BY <1>4, VerdictOfType DEF Resume, Outcomes, Coherence, CallsHaveSlots, CancelsFollowTimeouts
  <2>6. QED
    BY <2>1, <2>3, <2>4, <2>5 DEF Service!Decide
<1>5. ASSUME NEW r \in Requests, ResumeInvalid(r) PROVE Service!Drop({r})
  <2>1. phase[r] = "running" /\ PhaseOf(r)' = "dropped"
    BY <1>5 DEF ResumeInvalid, PhaseOf
  <2>2. \A q \in Requests \ {r} : handler'[q] = handler[q] /\ reply'[q] = reply[q]
    BY <1>5 DEF ResumeInvalid
  <2>3. phase' = [phase EXCEPT ![r] = "dropped"]
    BY <2>1, <2>2, OnePhaseChanges
  <2>4. UNCHANGED response
    BY <1>5 DEF ResumeInvalid
  <2>5. QED
    BY <2>1, <2>3, <2>4 DEF Service!Drop
<1>6. ASSUME NEW r \in Requests, Save(r) PROVE Service!Save(r)
  <2>1. phase[r] = "decided" /\ PhaseOf(r)' = "saved"
    BY <1>6 DEF Save, PhaseOf
  <2>2. \A q \in Requests \ {r} : handler'[q] = handler[q] /\ reply'[q] = reply[q]
    BY <1>6 DEF Save
  <2>3. phase' = [phase EXCEPT ![r] = "saved"]
    BY <2>1, <2>2, OnePhaseChanges
  <2>4. UNCHANGED response
    BY <1>6 DEF Save
  <2>5. QED
    BY <2>1, <2>3, <2>4 DEF Service!Save
<1>7. ASSUME NEW r \in Requests, SaveRaises(r) PROVE Service!Drop({r})
  <2>1. phase[r] = "decided" /\ PhaseOf(r)' = "dropped"
    BY <1>7 DEF SaveRaises, PhaseOf
  <2>2. \A q \in Requests \ {r} : handler'[q] = handler[q] /\ reply'[q] = reply[q]
    BY <1>7 DEF SaveRaises
  <2>3. phase' = [phase EXCEPT ![r] = "dropped"]
    BY <2>1, <2>2, OnePhaseChanges
  <2>4. UNCHANGED response
    BY <1>7 DEF SaveRaises
  <2>5. QED
    BY <2>1, <2>3, <2>4 DEF Service!Drop
<1>8. ASSUME NEW r \in Requests, Reply(r) PROVE Service!Answer({r})
  <2>1. response[r] \in Verdicts
    BY <1>8 DEF Reply, Coherence, AnswersFollowCalls
  <2>2. phase[r] = "saved" /\ PhaseOf(r)' = "answered"
    BY <1>8, <2>1 DEF Reply, PhaseOf, Verdicts
  <2>3. \A q \in Requests \ {r} : handler'[q] = handler[q] /\ reply'[q] = reply[q]
    BY <1>8 DEF Reply
  <2>4. phase' = [phase EXCEPT ![r] = "answered"]
    BY <2>2, <2>3, OnePhaseChanges
  <2>5. UNCHANGED response
    BY <1>8 DEF Reply
  <2>6. QED
    BY <2>2, <2>4, <2>5 DEF Service!Answer
<1>9. ASSUME UNCHANGED httpVars PROVE UNCHANGED Service!vars
  BY <1>9 DEF Service!vars, PhaseOf, httpVars
<1>10. ASSUME NEW r \in Requests, Thread(r) \/ Ray(r) PROVE UNCHANGED httpVars
  BY <1>10 DEF Thread, SubmitTask, SubmitRaises, GetReturns, GetTimesOut, CancelSoftly, GraceEnds,
     ForceCancel, Ray, RayStart, RayReturn, RayUnwind, RayRetry, RayCrash, RayKill, Finish
<1>11. CASE BeginShutdown \/ Close \/ UNCHANGED vars
  BY <1>11, <1>9 DEF BeginShutdown, Close, vars
<1>12. ASSUME NEW r \in Requests, Loop(r) PROVE Service!Next
  <2>1. CASE Admit(r)
    BY <1>2, <2>1 DEF Service!Next
  <2>2. CASE RejectUnknown(r)
    BY <1>3, <2>2 DEF Service!Next, Service!Verdicts
  <2>3. CASE Resume(r)
    <3>1. VerdictOf(outcome[r]) \in Service!Verdicts
      BY <2>3, VerdictOfType DEF Resume, Outcomes, Coherence, CallsHaveSlots, Verdicts, Service!Verdicts
    <3>2. QED
      BY <1>4, <2>3, <3>1 DEF Service!Next
  <2>4. CASE ResumeInvalid(r) \/ SaveRaises(r)
    <3>1. {r} \in SUBSET Requests
      OBVIOUS
    <3>2. QED
      BY <1>5, <1>7, <2>4, <3>1 DEF Service!Next
  <2>5. CASE Save(r)
    BY <1>6, <2>5 DEF Service!Next
  <2>6. CASE Reply(r)
    <3>1. {r} \in SUBSET Requests
      OBVIOUS
    <3>2. QED
      BY <1>8, <2>6, <3>1 DEF Service!Next
  <2>7. QED
    BY <1>12, <2>1, <2>2, <2>3, <2>4, <2>5, <2>6 DEF Loop
<1>13. ASSUME NEW r \in Requests, Arrive(r) PROVE Service!Next
  BY <1>1, <1>13 DEF Service!Next
<1>14. QED
  BY <1>9, <1>10, <1>11, <1>12, <1>13 DEF Next, Closed

(* The server implements the service: slots bound the running rollouts, each *)
(* request gets one verdict, which is saved before it is sent, never after a *)
(* drop, and a timeout only if it asked for one.                            *)
THEOREM ServerRefinesService == Spec => RefinesService
<1>1. Init => Service!Init
  BY DEF Init, Service!Init, PhaseOf
<1>2. Inv /\ [Next]_vars => [Service!Next]_(Service!vars)
  BY RefinementStep
<1>3. QED
  BY <1>1, <1>2, Invariance, PTL DEF Spec, RefinesService, Service!Spec

-----------------------------------------------------------------------------
(* What the service promises, the engine inherits                           *)

Promise == INSTANCE RolloutServiceProofs WITH
    phase <- [r \in Requests |-> PhaseOf(r)],
    verdict <- response,
    Slots <- Concurrency

(* The service as the model instantiates it, and as the proofs about it do. *)
LEMMA SameService == Service!Spec => Promise!Spec
<1>1. Service!Init => Promise!Init
  BY DEF Service!Init, Promise!Init
<1>2. /\ Promise!Running = Service!Running
      /\ Promise!Cardinality(Promise!Running) = Service!Cardinality(Service!Running)
  BY DEF Promise!Running, Service!Running, Promise!Cardinality, Service!Cardinality
<1>3. [Service!Next]_(Service!vars) => [Promise!Next]_(Promise!vars)
  <2>1. ASSUME NEW r \in Requests, Service!Start(r) PROVE Promise!Start(r)
    BY <1>2, <2>1 DEF Service!Start, Promise!Start
  <2>2. ASSUME NEW r \in Requests
        PROVE  (Service!Submit(r) => Promise!Submit(r)) /\ (Service!Save(r) => Promise!Save(r))
    BY DEF Service!Submit, Promise!Submit, Service!Save, Promise!Save
  <2>3. ASSUME NEW r \in Requests, NEW v, Service!Decide(r, v) PROVE Promise!Decide(r, v)
    BY <2>3 DEF Service!Decide, Promise!Decide
  <2>4. ASSUME NEW R
        PROVE  (Service!Answer(R) => Promise!Answer(R)) /\ (Service!Drop(R) => Promise!Drop(R))
    BY DEF Service!Answer, Promise!Answer, Service!Drop, Promise!Drop
  <2>5. (UNCHANGED Service!vars) => UNCHANGED Promise!vars
    BY DEF Service!vars, Promise!vars
  <2>6. Service!Verdicts = Promise!Verdicts
    BY DEF Service!Verdicts, Promise!Verdicts
  <2>7. QED
    BY <2>1, <2>2, <2>3, <2>4, <2>5, <2>6 DEF Service!Next, Promise!Next
<1>4. QED
  BY <1>1, <1>3, PTL DEF Service!Spec, Promise!Spec

(* At most Concurrency rollouts are under way for clients who wait, as many *)
(* as the semaphore has permits; a client gets an answer only with a        *)
(* verdict, and Timeout only if its request had a positive task_timeout_s.  *)
THEOREM ServerKeepsPromise ==
  Spec => [](Service!SlotsAreBounded /\ Service!VerdictsAreSound)
<1>1. Promise!Finite
  BY ServerAssumption DEF Promise!Finite, Promise!IsFiniteSet, IsFiniteSet
<1>2. Promise!Spec => [](Promise!SlotsAreBounded /\ Promise!VerdictsAreSound)
  BY <1>1, Promise!ServiceIsSafe, PTL
<1>3. /\ Promise!SlotsAreBounded => Service!SlotsAreBounded
      /\ Promise!VerdictsAreSound => Service!VerdictsAreSound
  BY DEF Promise!Running, Service!Running, Promise!Cardinality, Service!Cardinality,
         Promise!SlotsAreBounded, Service!SlotsAreBounded,
         Promise!VerdictsAreSound, Service!VerdictsAreSound
<1>4. QED
  BY <1>2, <1>3, SameService, ServerRefinesService, PTL DEF RefinesService

(* Nothing that comes late, an answer of Ray, the result of a cancelled     *)
(* task or the shutdown, changes the response of a request once it is       *)
(* built, takes a saved record back or an answer.                           *)
THEOREM ServerFatesFinal == Spec => Service!FatesAreFinal
<1>1. Promise!Spec => Promise!FatesAreFinal
  BY Promise!ServiceIsFinal, PTL
<1>2. Promise!FatesAreFinal => Service!FatesAreFinal
  BY PTL DEF Service!FatesAreFinal, Promise!FatesAreFinal, Promise!vars, Service!vars
<1>3. QED
  BY <1>1, <1>2, SameService, ServerRefinesService, PTL DEF RefinesService

-----------------------------------------------------------------------------
(* Liveness                                                                 *)

(* How far the handler and the call of a request are.                       *)
Stage(r) ==
    CASE handler[r] \in {"absent", "waiting"} -> 0
      [] handler[r] = "executing" /\ call[r] = "pooled" -> 1
      [] handler[r] = "executing" /\ call[r] = "get" -> 2
      [] handler[r] = "executing" /\ call[r] = "expired" -> 3
      [] handler[r] = "executing" /\ call[r] = "grace" -> 4
      [] handler[r] = "executing" /\ call[r] = "done" -> 5
      [] handler[r] = "saving" -> 6
      [] handler[r] = "saved" -> 7
      [] handler[r] = "answered" -> 8

Located(r) ==
    /\ Stage(r) \in 0 .. 8
    /\ Stage(r) = 0 <=> handler[r] \in {"absent", "waiting"}
    /\ Stage(r) \in 1 .. 5 <=> handler[r] = "executing"
    /\ Stage(r) = 1 <=> call[r] = "pooled"
    /\ Stage(r) = 2 <=> call[r] = "get"
    /\ Stage(r) = 3 <=> call[r] = "expired"
    /\ Stage(r) = 4 <=> call[r] = "grace"
    /\ Stage(r) = 5 <=> call[r] = "done"
    /\ Stage(r) = 6 <=> handler[r] = "saving"
    /\ Stage(r) = 7 <=> handler[r] = "saved"
    /\ Stage(r) = 8 <=> handler[r] = "answered"

(* Every request is at one stage.                                           *)
LEMMA StageIs == ASSUME NEW r \in Requests PROVE Inv => Located(r)
<1> SUFFICES ASSUME Inv PROVE Located(r)
  OBVIOUS
<1>1. handler[r] \in HandlerStates /\ call[r] \in CallStates /\ (handler[r] = "executing" <=> call[r] # "idle")
  BY DEF Inv, TypeOK, Coherence, CallsHaveSlots
<1>2. CASE handler[r] # "executing"
  BY <1>1, <1>2 DEF Located, Stage, HandlerStates
<1>3. CASE handler[r] = "executing"
  BY <1>1, <1>3 DEF Located, Stage, CallStates
<1>4. QED
  BY <1>2, <1>3

(* Every step of a request takes it further; no other step takes it back.   *)
LEMMA StageRises ==
  ASSUME Inv, Inv', NEW r \in Requests, [Next]_vars
  PROVE  /\ Stage(r)' >= Stage(r)
         /\ Loop(r) \/ Thread(r) => Stage(r)' > Stage(r)
<1> DEFINE Held(s) == handler'[s] = handler[s] /\ call'[s] = call[s]
<1> USE DEF Inv, TypeOK
<1>0. Located(r) /\ Located(r)'
  BY StageIs, PTL
<1>1. ASSUME Held(r) PROVE Stage(r)' = Stage(r)
  BY <1>1 DEF Stage
<1>2. ASSUME NEW s \in Requests, Loop(s) \/ Thread(s) \/ Arrive(s), s # r PROVE Held(r)
  <2>1. CASE Loop(s) \/ Arrive(s)
    BY <1>2, <2>1 DEF Loop, Arrive, Admit, RejectUnknown, Resume, ResumeInvalid, Save, SaveRaises, Reply, callVars
  <2>2. CASE Thread(s)
    BY <1>2, <2>2 DEF Thread, SubmitTask, SubmitRaises, GetReturns, GetTimesOut, CancelSoftly, GraceEnds,
       ForceCancel, httpVars
  <2>3. QED
    BY <1>2, <2>1, <2>2
<1>3. ASSUME Arrive(r) PROVE Stage(r)' >= Stage(r)
  BY <1>0, <1>3 DEF Arrive, Located
<1>4. ASSUME Loop(r) PROVE Stage(r)' > Stage(r)
  <2>1. \/ handler[r] = "waiting" /\ handler'[r] \in {"executing", "saving"}
        \/ handler[r] = "executing" /\ handler'[r] \in {"saving", "answered"}
        \/ handler[r] = "saving" /\ handler'[r] \in {"saved", "answered"}
        \/ handler[r] = "saved" /\ handler'[r] = "answered"
    BY <1>4 DEF Loop, IsNext, Admit, RejectUnknown, Resume, ResumeInvalid, Save, SaveRaises, Reply
  <2>2. QED
    BY <1>0, <2>1 DEF Located
<1>5. ASSUME Thread(r) PROVE Stage(r)' > Stage(r)
  <2>1. \/ call[r] = "pooled" /\ call'[r] \in {"get", "done"}
        \/ call[r] = "get" /\ call'[r] \in {"expired", "done"}
        \/ call[r] = "expired" /\ call'[r] = "grace"
        \/ call[r] = "grace" /\ call'[r] = "done"
    BY <1>5 DEF Thread, SubmitTask, SubmitRaises, GetReturns, GetTimesOut, CancelSoftly, GraceEnds, ForceCancel
  <2>2. QED
    BY <1>0, <2>1 DEF Located
<1>6. ASSUME (\E s \in Requests : Ray(s)) \/ BeginShutdown \/ Close \/ Closed \/ UNCHANGED vars PROVE Held(r)
  BY <1>6 DEF Ray, RayStart, RayReturn, RayUnwind, RayRetry, RayCrash, RayKill, Finish, BeginShutdown, Close, Closed,
     vars, httpVars, callVars
<1>7. Stage(r) \in 0 .. 8 /\ Stage(r)' \in 0 .. 8
  BY <1>0 DEF Located
<1> HIDE DEF Inv, TypeOK
<1>8. CASE Arrive(r) \/ Loop(r) \/ Thread(r)
  BY <1>3, <1>4, <1>5, <1>7, <1>8
<1>9. CASE ~(Arrive(r) \/ Loop(r) \/ Thread(r))
  <2>1. Held(r)
    BY <1>2, <1>6, <1>9 DEF Next
  <2>2. QED
    BY <1>1, <1>7, <1>9, <2>1
<1>10. QED
  BY <1>8, <1>9

(* What a timed request, or one past its call, waits for is due.            *)
LEMMA StageIsDue ==
  ASSUME Inv, NEW r \in Requests
  PROVE  /\ Stage(r) \in 1 .. 4 /\ r \in Timed => ThreadIsDue(r)
         /\ Stage(r) \in 5 .. 7 => LoopIsDue(r)
<1>1. Stage(r) \in 5 .. 7 => LoopIsDue(r)
  BY StageIs DEF LoopIsDue, Located
<1>2. CASE Stage(r) = 1
  <2>1. r \in Pooled /\ r \notin BusyThreads
    BY <1>2, StageIs DEF Located, Pooled, BusyThreads
  <2>2. BusyThreads \cup {r} \subseteq SlotHolders
    BY <2>1 DEF Inv, Coherence, CallsHaveSlots, BusyThreads, Pooled, SlotHolders
  <2>3. IsFiniteSet(BusyThreads) /\ Cardinality(BusyThreads) \in Nat
    BY <2>2, SlotHoldersFinite, FS_Subset, FS_CardinalityType
  <2>4. Cardinality(BusyThreads \cup {r}) = Cardinality(BusyThreads) + 1
    BY <2>1, <2>3, FS_AddElement
  <2>5. Cardinality(BusyThreads \cup {r}) <= Cardinality(SlotHolders)
    BY <2>2, SlotHoldersFinite, FS_Subset
  <2>6. Cardinality(SlotHolders) <= Concurrency
    BY SlotHoldersFinite, ServerAssumption DEF Inv, SlotAccounting, TypeOK
  <2>7. Cardinality(BusyThreads) < Concurrency
    BY <2>3, <2>4, <2>5, <2>6, SlotHoldersFinite, ServerAssumption
  <2>8. QED
    BY <1>2, <2>7, StageIs DEF Located, ThreadIsDue
<1>3. CASE Stage(r) = 3
  <2>1. call[r] = "expired"
    BY <1>3, StageIs DEF Located
  <2>2. task[r] \in {"pending", "running", "finished"}
    BY <2>1 DEF Inv, TypeOK, TaskStates, Coherence, TasksFollowCalls, CancelsFollowTimeouts
  <2>3. QED
    BY <1>3, <2>1, <2>2 DEF ThreadIsDue
<1>4. Stage(r) \in {2, 4} /\ r \in Timed => ThreadIsDue(r)
  BY StageIs DEF Located, ThreadIsDue
<1>5. QED
  BY <1>1, <1>2, <1>3, <1>4

(* A slot is given only to a request whose runner is known.                 *)
OnlyKnownRun == \A r \in Requests : handler[r] = "executing" => r \in Known

LEMMA KnownRun == Spec => []OnlyKnownRun
<1>1. Init => OnlyKnownRun
  BY DEF Init, OnlyKnownRun
<1>2. TypeOK /\ OnlyKnownRun /\ [Next]_vars => OnlyKnownRun'
  <2> SUFFICES ASSUME TypeOK, OnlyKnownRun, [Next]_vars PROVE OnlyKnownRun'
    OBVIOUS
  <2> USE DEF TypeOK, OnlyKnownRun
  <2>1. ASSUME NEW r \in Requests, Arrive(r) \/ Loop(r) PROVE OnlyKnownRun'
    BY <2>1 DEF Loop, Arrive, Admit, RejectUnknown, Resume, ResumeInvalid, Save, SaveRaises, Reply
  <2>2. ASSUME UNCHANGED handler PROVE OnlyKnownRun'
    BY <2>2
  <2>3. ASSUME NEW r \in Requests, Thread(r) \/ Ray(r) PROVE UNCHANGED handler
    BY <2>3 DEF Thread, SubmitTask, SubmitRaises, GetReturns, GetTimesOut, CancelSoftly, GraceEnds, ForceCancel,
       Ray, RayStart, RayReturn, RayUnwind, RayRetry, RayCrash, RayKill, Finish, httpVars
  <2>4. ASSUME BeginShutdown \/ Close \/ Closed \/ UNCHANGED vars PROVE UNCHANGED handler
    BY <2>4 DEF BeginShutdown, Close, Closed, vars, httpVars
  <2>5. QED
    BY <2>1, <2>2, <2>3, <2>4 DEF Next
<1>3. QED
  BY <1>1, <1>2, TypeCorrect, PTL DEF Spec

(* What holds of every suffix of a behaviour in which what is due can happen. *)
Goes == []Inv /\ [][Next]_vars /\ []OnlyKnownRun /\ []DueIsEnabled

(* So a request leaves each stage for a later one.                          *)
Climbs(r, k) == Stage(r) = k ~> Stage(r) > k

LEMMA Climbing ==
  ASSUME NEW r \in Requests, NEW k \in 1 .. 7, k \in 5 .. 7 \/ r \in Timed
  PROVE  Goes /\ Served(r) => Climbs(r, k)
<1>0. (Inv => Located(r)) /\ (Inv => Located(r))'
  BY StageIs, PTL
<1>1. Inv /\ Inv' /\ [Next]_vars /\ Stage(r) = k => (Stage(r) = k)' \/ (Stage(r) > k)'
  BY <1>0, StageRises DEF Located
<1>2. Inv /\ Inv' /\ [Next]_vars /\ Stage(r) = k /\ <<Loop(r)>>_vars => (Stage(r) > k)'
  BY <1>0, StageRises DEF Located
<1>3. Inv /\ Inv' /\ [Next]_vars /\ Stage(r) = k /\ <<Thread(r)>>_vars => (Stage(r) > k)'
  BY <1>0, StageRises DEF Located
<1>4. CASE k \in 5 .. 7
  <2>1. Inv /\ DueIsEnabled /\ Stage(r) = k => CanLoop(r)
    BY <1>4, StageIsDue DEF DueIsEnabled
  <2>2. QED
    BY <1>1, <1>2, <2>1, PTL DEF Goes, Served, CanLoop, Climbs
<1>5. CASE k \in 1 .. 4 /\ r \in Timed
  <2>1. Inv /\ DueIsEnabled /\ Stage(r) = k => CanThread(r)
    BY <1>5, StageIsDue DEF DueIsEnabled
  <2>2. QED
    BY <1>1, <1>3, <2>1, PTL DEF Goes, Served, CanThread, Climbs
<1>6. QED
  BY <1>4, <1>5

(* From its save on, a request is answered;                                 *)
LEMMA SavedAreAnswered ==
  ASSUME NEW r \in Requests
  PROVE  Goes /\ Served(r) => (Stage(r) > 5 ~> handler[r] = "answered")
<1>1. Goes /\ Served(r) => Climbs(r, 6) /\ Climbs(r, 7)
  BY Climbing
<1>2. Inv => /\ Stage(r) > 5 => Stage(r) = 6 \/ Stage(r) > 6
             /\ Stage(r) > 6 => Stage(r) = 7 \/ Stage(r) > 7
             /\ Stage(r) > 7 => handler[r] = "answered"
  BY StageIs DEF Located
<1>3. QED
  BY <1>1, <1>2, PTL DEF Goes, Climbs

(* a timed one from the moment it has a slot.                               *)
LEMMA OneCallAnswered ==
  ASSUME NEW r \in Requests, r \in Timed
  PROVE  Goes /\ Served(r) => CallIsAnswered(r)
<1>1. Goes /\ Served(r) =>
        Climbs(r, 1) /\ Climbs(r, 2) /\ Climbs(r, 3) /\ Climbs(r, 4) /\ Climbs(r, 5)
  BY Climbing
<1>2. Inv => /\ handler[r] = "executing" => Stage(r) = 1 \/ Stage(r) > 1
             /\ Stage(r) > 1 => Stage(r) = 2 \/ Stage(r) > 2
             /\ Stage(r) > 2 => Stage(r) = 3 \/ Stage(r) > 3
             /\ Stage(r) > 3 => Stage(r) = 4 \/ Stage(r) > 4
             /\ Stage(r) > 4 => Stage(r) = 5 \/ Stage(r) > 5
  BY StageIs DEF Located
<1>3. Goes /\ Served(r) => (Stage(r) > 5 ~> handler[r] = "answered")
  BY SavedAreAnswered
<1>4. QED
  BY <1>1, <1>2, <1>3, PTL DEF Goes, Climbs, CallIsAnswered

(* Rollouts may hang, crash and answer late: a timed request that got a     *)
(* slot is answered all the same.                                           *)
THEOREM TimedCallsAnswered ==
  FairSpec /\ []DueIsEnabled => \A r \in Timed : CallIsAnswered(r)
<1>1. Spec /\ []DueIsEnabled => Goes
  BY Invariance, KnownRun, PTL DEF Spec, Goes
<1>2. QED
  BY <1>1, OneCallAnswered, ServerAssumption DEF FairSpec, Fairness

-----------------------------------------------------------------------------
(* The first in the queue                                                   *)

(* If no slot is free, a timed request holds one, unless there are enough   *)
(* others.                                                                  *)
LEMMA TimedHoldsSlot ==
  ASSUME Inv, OnlyKnownRun, permits = 0, Cardinality(Known \ Timed) < Concurrency
  PROVE  \E s \in Timed : handler[s] = "executing"
<1> SUFFICES ASSUME \A s \in Timed : handler[s] # "executing"
             PROVE  FALSE
  OBVIOUS
<1>1. SlotHolders \subseteq Known \ Timed
  BY DEF OnlyKnownRun, SlotHolders
<1>2. IsFiniteSet(Known \ Timed)
  BY ServerAssumption, FS_Subset
<1>3. Cardinality(SlotHolders) <= Cardinality(Known \ Timed) /\ Cardinality(Known \ Timed) \in Nat
  BY <1>1, <1>2, FS_Subset, FS_CardinalityType
<1>4. Cardinality(SlotHolders) = Concurrency
  BY SlotHoldersFinite, ServerAssumption DEF Inv, SlotAccounting
<1>5. QED
  BY <1>3, <1>4, ServerAssumption

(* Who leaves its slot leaves a permit.                                     *)
LEMMA LeavesPermit ==
  ASSUME Inv, [Next]_vars, NEW s \in Requests, handler[s] = "executing", handler'[s] # "executing"
  PROVE  permits' > 0
<1> USE ServerAssumption DEF Inv, TypeOK
<1>1. ASSUME NEW r \in Requests, Arrive(r) \/ Loop(r) PROVE permits' > 0
  <2>1. r = s
    BY <1>1 DEF Loop, Arrive, Admit, RejectUnknown, Resume, ResumeInvalid, Save, SaveRaises, Reply
  <2>2. Resume(s) \/ ResumeInvalid(s)
    BY <1>1, <2>1 DEF Loop, IsNext, Arrive, Admit, RejectUnknown, Save, SaveRaises, Reply
  <2>3. QED
    BY <2>2 DEF Resume, ResumeInvalid
<1>2. ASSUME NEW r \in Requests, Thread(r) \/ Ray(r) PROVE FALSE
  BY <1>2 DEF Thread, SubmitTask, SubmitRaises, GetReturns, GetTimesOut, CancelSoftly, GraceEnds, ForceCancel,
     Ray, RayStart, RayReturn, RayUnwind, RayRetry, RayCrash, RayKill, Finish, httpVars
<1>3. ASSUME BeginShutdown \/ Close \/ Closed \/ UNCHANGED vars PROVE FALSE
  BY <1>3 DEF BeginShutdown, Close, Closed, vars, httpVars
<1>4. QED
  BY <1>1, <1>2, <1>3 DEF Next

Frees(s) == handler[s] = "executing" ~> permits > 0

LEMMA TimedFrees ==
  ASSUME NEW s \in Requests, s \in Timed
  PROVE  Goes /\ Served(s) => Frees(s)
<1>1. Inv /\ [Next]_vars /\ handler[s] = "executing" => (handler[s] = "executing")' \/ (permits > 0)'
  BY LeavesPermit
<1>2. ~(handler[s] = "answered" /\ handler[s] = "executing")
  OBVIOUS
<1>3. Goes /\ Served(s) => CallIsAnswered(s)
  BY OneCallAnswered
<1>4. QED
  BY <1>1, <1>2, <1>3, PTL DEF Goes, CallIsAnswered, Frees

LEMMA PermitsComeBack ==
  ASSUME Cardinality(Known \ Timed) < Concurrency, []Goes, []Fairness
  PROVE  permits = 0 ~> permits > 0
<1>1. Goes /\ Fairness
  BY PTL
<1>2. \A s \in Timed : Frees(s)
  BY <1>1, TimedFrees, ServerAssumption DEF Fairness
<1>3. (\E s \in Timed : handler[s] = "executing") => <>(permits > 0)
  <2>1. SUFFICES ASSUME NEW s \in Timed, handler[s] = "executing" PROVE <>(permits > 0)
    OBVIOUS
  <2>2. Frees(s)
    BY <1>2
  <2>3. QED
    BY <2>1, <2>2, PTL DEF Frees
<1>4. Inv /\ OnlyKnownRun /\ permits = 0 => \E s \in Timed : handler[s] = "executing"
  BY TimedHoldsSlot
<1>5. QED
  BY <1>3, <1>4, PTL DEF Goes

(* So the first in the queue finds a permit, which nobody takes before it.  *)
LEMMA FirstWaits ==
  ASSUME Inv, [Next]_vars, NEW r \in Requests, IsFirst(r)
  PROVE  /\ IsFirst(r)' \/ (Stage(r) > 0)'
         /\ permits > 0 => (permits > 0)' \/ (Stage(r) > 0)'
         /\ Loop(r) => (Stage(r) > 0)'
<1> USE ServerAssumption DEF Inv, TypeOK
<1>0. Located(r) /\ Located(r)'
  BY InvStep, StageIs, PTL
<1>a. waiters \in Seq(Requests) /\ waiters # <<>> /\ r = Head(waiters) /\ permits \in Nat
  BY DEF IsFirst
<1>b. handler[r] = "waiting"
  <2>1. 1 \in 1 .. Len(waiters) /\ waiters[1] = r
    BY <1>a
  <2>2. QED
    BY <2>1 DEF Coherence, WaitersAreQueued
<1>c. Stage(r) = 0
  BY <1>0, <1>b DEF Located
<1>1. CASE Loop(r)
  <2>1. Stage(r)' > Stage(r)
    BY <1>1, InvStep, StageRises
  <2>2. QED
    BY <1>c, <2>1
<1>2. ASSUME NEW s \in Requests, Loop(s), s # r
      PROVE  IsFirst(r)' /\ permits' >= permits
  BY <1>a, <1>b, <1>2 DEF Loop, IsNext, Admit, RejectUnknown, Resume, ResumeInvalid, Save, SaveRaises, Reply, IsFirst, slotVars
<1>3. ASSUME NEW s \in Requests, Arrive(s)
      PROVE  IsFirst(r)' /\ permits' = permits
  <2>1. waiters' = Append(waiters, s) /\ permits' = permits
    BY <1>3 DEF Arrive
  <2>2. Len(waiters') = Len(waiters) + 1 /\ Len(waiters) \in Nat \ {0} /\ waiters'[1] = waiters[1]
    BY <1>a, <2>1
  <2>3. waiters' # <<>> /\ Head(waiters') = Head(waiters)
    BY <1>a, <2>1, <2>2
  <2>4. QED
    BY <1>a, <2>1, <2>3 DEF IsFirst
<1>4. ASSUME UNCHANGED slotVars
      PROVE  IsFirst(r)' /\ permits' = permits
  BY <1>a, <1>4 DEF IsFirst, slotVars
<1>5. ASSUME NEW s \in Requests, Thread(s) \/ Ray(s) PROVE UNCHANGED slotVars
  BY <1>5 DEF Thread, SubmitTask, SubmitRaises, GetReturns, GetTimesOut, CancelSoftly, GraceEnds, ForceCancel,
     Ray, RayStart, RayReturn, RayUnwind, RayRetry, RayCrash, RayKill, Finish
<1>6. ASSUME BeginShutdown \/ Close \/ Closed \/ UNCHANGED vars PROVE UNCHANGED slotVars
  BY <1>6 DEF BeginShutdown, Close, Closed, vars
<1>7. \/ Loop(r)
      \/ \E s \in Requests : (Loop(s) /\ s # r) \/ Arrive(s)
      \/ UNCHANGED slotVars
  BY <1>5, <1>6 DEF Next
<1>8. (Stage(r) > 0)' \/ (IsFirst(r)' /\ permits' >= permits)
  BY <1>a, <1>1, <1>2, <1>3, <1>4, <1>7
<1>9. permits' \in Nat
  BY InvStep
<1>10. permits > 0 => permits' > 0 \/ ~(permits' >= permits)
  BY <1>a, <1>9
<1>11. QED
  BY <1>1, <1>8, <1>10

Enters(r) == IsFirst(r) ~> Stage(r) > 0

LEMMA FirstAdmitted ==
  ASSUME NEW r \in Requests
  PROVE  Goes /\ Served(r) /\ (permits = 0 ~> permits > 0) => Enters(r)
<1>1. Inv /\ [Next]_vars /\ IsFirst(r) => IsFirst(r)' \/ (Stage(r) > 0)'
  BY FirstWaits
<1>2. Inv /\ [Next]_vars /\ IsFirst(r) /\ permits > 0 => (permits > 0)' \/ (Stage(r) > 0)'
  BY FirstWaits
<1>3. Inv /\ [Next]_vars /\ IsFirst(r) /\ <<Loop(r)>>_vars => (Stage(r) > 0)'
  BY FirstWaits
<1>4. Inv /\ DueIsEnabled /\ IsFirst(r) /\ permits > 0 => CanLoop(r)
  <2> SUFFICES ASSUME Inv, DueIsEnabled, IsFirst(r), permits > 0 PROVE CanLoop(r)
    OBVIOUS
  <2>1. 1 \in 1 .. Len(waiters) /\ waiters[1] = r
    BY DEF Inv, TypeOK, IsFirst
  <2>2. IsNext(r)
    BY <2>1 DEF Inv, Coherence, WaitersAreQueued, IsNext, IsFirst
  <2>3. QED
    BY <2>2 DEF DueIsEnabled, LoopIsDue
<1>5. Inv => permits = 0 \/ permits > 0
  BY ServerAssumption DEF Inv, TypeOK
<1>6. QED
  BY <1>1, <1>2, <1>3, <1>4, <1>5, PTL DEF Goes, Served, CanLoop, Enters

LEMMA OneFirstAnswered ==
  ASSUME NEW r \in Requests \ (Known \ Timed)
  PROVE  Goes /\ Served(r) /\ (permits = 0 ~> permits > 0) => FirstIsAnswered(r)
<1>1. Goes /\ Served(r) => (Stage(r) > 5 ~> handler[r] = "answered")
  BY SavedAreAnswered
<1>2. Goes /\ Served(r) /\ (permits = 0 ~> permits > 0) => Enters(r)
  BY FirstAdmitted
<1>3. Inv => (Stage(r) > 0 => handler[r] = "executing" \/ Stage(r) > 5)
  BY StageIs DEF Located
<1>4. CASE r \in Timed
  <2>1. Goes /\ Served(r) => CallIsAnswered(r)
    BY <1>4, OneCallAnswered
  <2>2. QED
    BY <1>1, <1>2, <1>3, <2>1, PTL DEF Goes, CallIsAnswered, Enters, FirstIsAnswered
<1>5. CASE r \notin Known
  <2>1. OnlyKnownRun => ~(handler[r] = "executing")
    BY <1>5 DEF OnlyKnownRun
  <2>2. QED
    BY <1>1, <1>2, <1>3, <2>1, PTL DEF Goes, Enters, FirstIsAnswered
<1>6. QED
  BY <1>4, <1>5

(* If slots outnumber the requests without a timeout, hanging rollouts keep *)
(* no slot for ever from the first in the queue: if it has a timeout, or no *)
(* runner, it is answered.  Fairness, once it holds, holds from then on.    *)
THEOREM FirstsAnswered ==
  Cardinality(Known \ Timed) < Concurrency =>
    (Spec /\ []Fairness /\ []DueIsEnabled =>
        \A r \in Requests \ (Known \ Timed) : FirstIsAnswered(r))
<1> SUFFICES ASSUME Cardinality(Known \ Timed) < Concurrency
             PROVE  Spec /\ []Fairness /\ []DueIsEnabled =>
                        \A r \in Requests \ (Known \ Timed) : FirstIsAnswered(r)
  OBVIOUS
<1>1. Spec /\ []Fairness /\ []DueIsEnabled => []Goes
  BY Invariance, KnownRun, PTL DEF Spec, Goes
<1>2. []Goes /\ []Fairness => Goes /\ Fairness
  BY PTL
<1>3. []Goes /\ []Fairness => (permits = 0 ~> permits > 0)
  BY PermitsComeBack
<1>4. QED
  BY <1>1, <1>2, <1>3, OneFirstAnswered DEF Fairness

(* A request keeps its place, and the first in the queue too, until it      *)
(* moves up.                                                                *)
LEMMA PlaceWaits ==
  ASSUME Inv, [Next]_vars, NEW r \in Requests, NEW h \in Requests, NEW k \in Nat \ {0},
         IsAt(r, k + 1), IsFirst(h)
  PROVE  (IsAt(r, k + 1) /\ IsFirst(h))' \/ IsAt(r, k)'
<1>1. waiters \in Seq(Requests) /\ Len(waiters) \in Nat /\ k + 1 \in 1 .. Len(waiters) /\ waiters[k + 1] = r
  BY DEF Inv, TypeOK, IsAt
<1>2. ASSUME waiters' = Tail(waiters) PROVE IsAt(r, k)'
  <2>1. Len(waiters') = Len(waiters) - 1 /\ k \in 1 .. Len(waiters) - 1 /\ waiters'[k] = waiters[k + 1]
    BY <1>1, <1>2
  <2>2. QED
    BY <1>1, <2>1 DEF IsAt
<1>3. ASSUME NEW s \in Requests, waiters' = Append(waiters, s) PROVE (IsAt(r, k + 1) /\ IsFirst(h))'
  <2>1. /\ Len(waiters') = Len(waiters) + 1 /\ waiters'[k + 1] = waiters[k + 1]
        /\ waiters'[1] = waiters[1] /\ waiters' \in Seq(Requests)
    BY <1>1, <1>3
  <2>2. waiters' # <<>> /\ Head(waiters') = Head(waiters)
    BY <1>1, <2>1
  <2>3. QED
    BY <1>1, <2>1, <2>2 DEF IsAt, IsFirst
<1>4. \/ waiters' = Tail(waiters)
      \/ \E s \in Requests : waiters' = Append(waiters, s)
      \/ waiters' = waiters
  <2>1. ASSUME NEW s \in Requests, Loop(s) PROVE waiters' = Tail(waiters) \/ waiters' = waiters
    BY <2>1 DEF Loop, Admit, RejectUnknown, Resume, ResumeInvalid, Save, SaveRaises, Reply, slotVars
  <2>2. ASSUME NEW s \in Requests, Arrive(s) PROVE waiters' = Append(waiters, s)
    BY <2>2 DEF Arrive
  <2>3. ASSUME NEW s \in Requests, Thread(s) \/ Ray(s) PROVE waiters' = waiters
    BY <2>3 DEF Thread, SubmitTask, SubmitRaises, GetReturns, GetTimesOut, CancelSoftly, GraceEnds, ForceCancel,
       Ray, RayStart, RayReturn, RayUnwind, RayRetry, RayCrash, RayKill, Finish, slotVars
  <2>4. ASSUME BeginShutdown \/ Close \/ Closed \/ UNCHANGED vars PROVE waiters' = waiters
    BY <2>4 DEF BeginShutdown, Close, Closed, vars, slotVars
  <2>5. QED
    BY <2>1, <2>2, <2>3, <2>4 DEF Next
<1>5. CASE waiters' = waiters
  BY <1>5 DEF IsAt, IsFirst
<1>6. QED
  BY <1>2, <1>3, <1>4, <1>5

(* So if the first in the queue is admitted, who is behind it moves up.     *)
Follows(r, k, h) == IsAt(r, k + 1) /\ IsFirst(h) ~> IsAt(r, k)

LEMMA FollowsFirst ==
  ASSUME NEW r \in Requests, NEW k \in Nat \ {0}, NEW h \in Requests
  PROVE  Goes /\ Served(h) /\ (permits = 0 ~> permits > 0) => Follows(r, k, h)
<1>1. Inv /\ [Next]_vars /\ IsAt(r, k + 1) /\ IsFirst(h) => (IsAt(r, k + 1) /\ IsFirst(h))' \/ IsAt(r, k)'
  BY PlaceWaits
<1>2. Goes /\ Served(h) /\ (permits = 0 ~> permits > 0) => Enters(h)
  BY FirstAdmitted
<1>3. Inv => ~(IsFirst(h) /\ Stage(h) > 0)
  <2> SUFFICES ASSUME Inv, IsFirst(h) PROVE ~(Stage(h) > 0)
    OBVIOUS
  <2>1. 1 \in 1 .. Len(waiters) /\ waiters[1] = h
    BY DEF Inv, TypeOK, IsFirst
  <2>2. handler[h] = "waiting"
    BY <2>1 DEF Inv, Coherence, WaitersAreQueued
  <2>3. QED
    BY <2>2, StageIs DEF Located
<1>4. QED
  BY <1>1, <1>2, <1>3, PTL DEF Goes, Enters, Follows

LEMMA OneMovesUp ==
  ASSUME Cardinality(Known \ Timed) < Concurrency, []Goes, []Fairness,
         NEW r \in Requests, NEW k \in Nat \ {0}
  PROVE  MovesUp(r, k)
<1>1. permits = 0 ~> permits > 0
  BY PermitsComeBack
<1>2. Goes /\ Fairness
  BY PTL
<1>3. \A h \in Requests : Follows(r, k, h)
  BY <1>1, <1>2, FollowsFirst DEF Fairness
<1>4. (\E h \in Requests : IsAt(r, k + 1) /\ IsFirst(h)) => <>IsAt(r, k)
  <2>1. SUFFICES ASSUME NEW h \in Requests, IsAt(r, k + 1) /\ IsFirst(h) PROVE <>IsAt(r, k)
    OBVIOUS
  <2>2. Follows(r, k, h)
    BY <1>3
  <2>3. QED
    BY <2>1, <2>2, PTL DEF Follows
<1>5. Inv /\ IsAt(r, k + 1) => \E h \in Requests : IsAt(r, k + 1) /\ IsFirst(h)
  <2> SUFFICES ASSUME Inv, IsAt(r, k + 1) PROVE \E h \in Requests : IsFirst(h)
    OBVIOUS
  <2>1. waiters \in Seq(Requests) /\ waiters # <<>>
    BY DEF Inv, TypeOK, IsAt
  <2>2. QED
    BY <2>1 DEF IsFirst
<1>6. QED
  BY <1>4, <1>5, PTL DEF Goes, MovesUp

(* Nor from anybody further back: every request in the queue, timed or not, *)
(* gets to the place before its own, so no request that came later is       *)
(* admitted first and none is forgotten there.                              *)
THEOREM WaitersMoveUp ==
  Cardinality(Known \ Timed) < Concurrency =>
    (Spec /\ []Fairness /\ []DueIsEnabled =>
        \A r \in Requests, k \in Nat \ {0} : MovesUp(r, k))
<1> SUFFICES ASSUME Cardinality(Known \ Timed) < Concurrency
             PROVE  Spec /\ []Fairness /\ []DueIsEnabled =>
                        \A r \in Requests, k \in Nat \ {0} : MovesUp(r, k)
  OBVIOUS
<1>1. Spec /\ []Fairness /\ []DueIsEnabled => []Goes
  BY Invariance, KnownRun, PTL DEF Spec, Goes
<1>2. QED
  BY <1>1, OneMovesUp
=============================================================================
