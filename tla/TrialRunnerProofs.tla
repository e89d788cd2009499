-------------------------- MODULE TrialRunnerProofs --------------------------
(***************************************************************************)
(* Proofs about trials, for any number of them, of attempts and of          *)
(* revisions, on any environments.  The properties of answers need one      *)
(* invariant per trial, which says what is known at each label of its       *)
(* worker; the property of the shared clone relates the trials to it; that  *)
(* of the containers follows each attempt from its start to its end.        *)
(***************************************************************************)
EXTENDS TrialRunner, TLAPS

Acts(t) == Begin(t) \/ Work(t) \/ Interrupt(t) \/ Kill(t) \/ Retry(t)

(* Before the agent is over, and before there is a container to stop.       *)
Early == {"idle"} \cup CacheLabels \cup TryLabels
Fresh == {"idle", "resolve", "create"} \cup CacheLabels

(* What a worker knows of its trial, label by label.                        *)
Earned(t) ==
    /\ answer[t] # "none" => pc[t] = "returned"
    /\ pc[t] \in Early => error[t] = "none"
    /\ pc[t] = "eval" => agent[t] # "none"
    /\ pc[t] \in StopLabels \cup Files \cup {"answer"} /\ error[t] = "none" =>
        agent[t] # "none" /\ verdict[t] # "none"
    /\ pc[t] \in Files \cup {"answer"} => error[t] # "interrupt"
    /\ answer[t] \notin {"none", "error"} =>
        \/ agent[t] # "none" /\ (verdict[t] # "none" \/ error[t] = "blank")
        \/ Kind[t] # "swe" /\ error[t] = "blank"

(* The files a worker has written by now are those of its attempt.          *)
Written(t) ==
    /\ pc[t] \in {"reward", "patch", "report", "eval_output", "answer", "returned"} =>
        disk[t]["trajectory"] = attempt[t]
    /\ pc[t] \in {"patch", "report", "eval_output", "answer", "returned"} =>
        disk[t]["reward"] = attempt[t]
    /\ pc[t] \in {"patch", "report"} => Kind[t] = "swe"
    /\ Kind[t] = "swe" /\ pc[t] \in {"report", "eval_output", "answer", "returned"} =>
        disk[t]["patch"] = attempt[t]
    /\ Kind[t] = "swe" /\ pc[t] \in {"eval_output", "answer", "returned"} =>
        disk[t]["report"] = attempt[t]
    /\ pc[t] \in {"answer", "returned"} /\ HasOutput(t) => disk[t]["eval_output"] = attempt[t]

(* Before a trial has its task.                                             *)
Unposed == {"idle", "resolve"} \cup CacheLabels
Posed(t) == posed[t] \notin {"none", "partial"}

(* Another trial of the batch may move, or has moved, the clone from what a *)
(* trial found there.                                                       *)
Astray(t) == \E u \in batch \ {t} : Revision[u] \in fetched \ {posed[t]}

(* One worker clones at a time, and before anybody finds a whole clone; a   *)
(* whole one stays as a trial found it, or the trial may be led astray.     *)
Settled ==
    /\ \A t \in Trials : pc[t] = "cloning" => tree = "partial"
    /\ \A t, u \in Trials : pc[t] = "cloning" /\ pc[u] = "cloning" => t = u
    /\ \A t, u \in Trials : Posed(t) => pc[u] # "cloning"
    /\ \A t \in Trials : Posed(t) => tree # "absent" /\ (tree = posed[t] \/ Astray(t))
    /\ \A t \in Trials : pc[t] \in Unposed => posed[t] = "none"
    /\ \A t \in Trials : pc[t] \in Early => graded[t] = "none"
    /\ GradedAsPosed

Untouched(o) == container[o] = "none" /\ ~known[o] /\ ~reaper[o] /\ ~lapse[o]

(* The attempt that the worker of t is at.                                  *)
Sheltered(t) ==
    LET o == Current(t) IN
        /\ pc[t] \in Fresh => Untouched(o)
        /\ pc[t] \in (TryLabels \ {"resolve", "create"}) \cup {"unwatch", "halt"} => known[o]
        /\ pc[t] = "remove" => known[o] \/ Env[o] = "modal"
        /\ pc[t] = "mkdir" => Env[o] = "modal"
        /\ pc[t] = "unwatch" => Env[o] = "enroot"
        /\ pc[t] \in {"prepare", "agent", "eval"} /\ Env[o] = "enroot" => reaper[o] \/ lapse[o]
        /\ pc[t] \in Files \cup {"answer", "returned"} /\ container[o] # "none" => lapse[o]
        /\ pc[t] \in {"raised", "dead"} /\ container[o] # "none" =>
            (reaper[o] /\ Gone(o)) \/ lapse[o] \/ Exposed(o)

(* The attempts before it, and those that may follow.                       *)
Behind(o) ==
    o[2] < attempt[o[1]] /\ container[o] # "none" => reaper[o] \/ lapse[o] \/ Exposed(o)
Ahead(o) == o[2] > attempt[o[1]] => Untouched(o)

-----------------------------------------------------------------------------
(* Attempts and labels                                                      *)

LEMMA Pairs ==
  ASSUME NEW o \in Attempts
  PROVE  o[1] \in Trials /\ o[2] \in 1 .. MaxAttempts[o[1]] /\ o = <<o[1], o[2]>>
BY TrialAssumption

LEMMA CurrentIsAttempt ==
  ASSUME TypeOK, NEW t \in Trials
  PROVE  Current(t) \in Attempts /\ Current(t)[1] = t /\ Current(t)[2] = attempt[t] /\ EnvOf(t) \in EnvTypes
BY TrialAssumption, EnvAssumption DEF TypeOK, Current, EnvOf

(* Where the finally clause leads.                                          *)
LEMMA FinallyLeads ==
  ASSUME NEW t, NEW k, NEW e
  PROVE  /\ Finally(t, k, e) \in {"unwatch", "halt", "raised", "trajectory"}
         /\ Finally(t, k, e) = "raised" => e = "interrupt" /\ ~k
         /\ Finally(t, k, e) = "trajectory" => e # "interrupt" /\ ~k
         /\ Finally(t, k, e) = "unwatch" => EnvOf(t) = "enroot" /\ k
         /\ Finally(t, k, e) = "halt" => EnvOf(t) # "enroot" /\ k
BY DEF Finally, AfterStop

(* The attempts but o keep their containers.                                *)
OnlyOne(o) ==
    \A p \in Attempts \ {o} :
        /\ container'[p] = container[p]
        /\ known'[p] = known[p]
        /\ reaper'[p] = reaper[p]
        /\ lapse'[p] = lapse[p]

LEMMA EnvMoves ==
  ASSUME EnvTypeOK, NEW o \in Attempts,
         \/ Create(o) \/ CreateFails(o) \/ Launch(o) \/ LaunchFails(o) \/ Watch(o)
         \/ Unwatch(o) \/ Halt(o) \/ Remove(o) \/ RemoveFails(o)
         \/ Reap(o) \/ SandboxExpires(o) \/ UNCHANGED envVars
  PROVE  EnvTypeOK' /\ OnlyOne(o)
<1> USE DEF EnvTypeOK, OnlyOne
<1>1. CASE Create(o)
  BY <1>1 DEF Create, Made
<1>2. CASE CreateFails(o)
  BY <1>2 DEF CreateFails, Made
<1>3. CASE Launch(o) \/ LaunchFails(o)
  BY <1>3 DEF Launch, LaunchFails
<1>4. CASE Watch(o) \/ Unwatch(o)
  BY <1>4 DEF Watch, Unwatch
<1>5. CASE Halt(o)
  BY <1>5 DEF Halt
<1>6. CASE Remove(o) \/ RemoveFails(o)
  BY <1>6 DEF Remove, RemoveFails
<1>7. CASE Reap(o) \/ SandboxExpires(o)
  BY <1>7 DEF Reap, SandboxExpires
<1>8. CASE UNCHANGED envVars
  BY <1>8 DEF envVars
<1>9. QED
  BY <1>1, <1>2, <1>3, <1>4, <1>5, <1>6, <1>7, <1>8

(* A worker touches the container of its own attempt only.                  *)
LEMMA ActsOnOwn ==
  ASSUME TypeOK, NEW t \in Trials, Acts(t)
  PROVE  EnvTypeOK' /\ OnlyOne(Current(t))
<1> DEFINE o == Current(t)
<1>1. o \in Attempts /\ EnvTypeOK
  BY CurrentIsAttempt DEF TypeOK
<1>2. CASE Begin(t) \/ FindClone(t) \/ CloneBegins(t) \/ CloneRefused(t) \/ CloneEnds(t) \/ CloneFails(t)
           \/ Fetch(t) \/ Checkout(t) \/ CheckoutFails(t) \/ Resolve(t) \/ ResolveRaises(t) \/ Prepare(t)
           \/ RunAgent(t) \/ Evaluate(t) \/ StepRaises(t) \/ WriteFile(t) \/ WriteFails(t)
           \/ Answer(t) \/ AnswerRaises(t) \/ Retry(t)
  <2>1. UNCHANGED envVars
    BY <1>2 DEF Begin, FindClone, CloneBegins, CloneRefused, CloneEnds, CloneFails, Fetch, Checkout,
       CheckoutFails, Resolve, ResolveRaises, Prepare, RunAgent, Evaluate, StepRaises, WriteFile,
       WriteFails, Answer, AnswerRaises, Retry
  <2>2. QED
    BY <1>1, <2>1, EnvMoves
<1>3. CASE StartStep(t)
  BY <1>1, <1>3, EnvMoves DEF StartStep
<1>4. CASE StartRaises(t)
  BY <1>1, <1>4, EnvMoves DEF StartRaises
<1>5. CASE StopStep(t) \/ HaltFails(t)
  BY <1>1, <1>5, EnvMoves DEF StopStep, HaltFails
<1>6. CASE Interrupt(t) \/ Kill(t)
  BY <1>1, <1>6, EnvMoves DEF Interrupt, Kill, Abandon
<1>7. QED
  BY <1>2, <1>3, <1>4, <1>5, <1>6 DEF Acts, Work

-----------------------------------------------------------------------------
(* Types                                                                    *)

(* A step of one worker, by what it does to the workers.                    *)
LEMMA Walks ==
  ASSUME TypeOK, NEW t \in Trials, Acts(t)
  PROVE  /\ \E l \in Active \cup {"returned", "raised", "dead"} : pc' = [pc EXCEPT ![t] = l]
         /\ batch' = batch
<1> USE DEF Advance, Goto, Escape, Active
<1>1. ASSUME RaiseInTry(t)
      PROVE  (\E l \in Active \cup {"returned", "raised", "dead"} : pc' = [pc EXCEPT ![t] = l]) /\ batch' = batch
  <2>1. PICK e : Goto(t, Finally(t, known'[Current(t)], e)) /\ batch' = batch
    BY <1>1 DEF RaiseInTry
  <2>2. Finally(t, known'[Current(t)], e) \in {"unwatch", "halt", "raised", "trajectory"}
    BY FinallyLeads
  <2>3. QED
    BY <2>1, <2>2 DEF StopLabels, Files
<1>2. CASE Begin(t) \/ FindClone(t) \/ CloneBegins(t) \/ CloneRefused(t) \/ CloneEnds(t) \/ CloneFails(t)
           \/ Fetch(t) \/ Checkout(t) \/ CheckoutFails(t) \/ Resolve(t)
  BY <1>2 DEF Begin, FindClone, CloneBegins, CloneRefused, CloneEnds, CloneFails, Fetch, Checkout,
     CheckoutFails, Resolve, FirstLabel, CacheLabels, TryLabels
<1>3. CASE ResolveRaises(t) \/ StartRaises(t) \/ StepRaises(t)
  BY <1>1, <1>3 DEF ResolveRaises, StartRaises, StepRaises
<1>4. CASE StartStep(t)
  <2>1. AfterStart(t) \in TryLabels /\ AfterCreate(t) \in TryLabels
    BY CurrentIsAttempt DEF AfterStart, AfterCreate, TryLabels, EnvTypes
  <2>2. QED
    BY <1>4, <2>1 DEF StartStep, TryLabels
<1>5. CASE Prepare(t) \/ RunAgent(t) \/ Evaluate(t)
  BY <1>5, FinallyLeads DEF Prepare, RunAgent, Evaluate, TryLabels, StopLabels, Files
<1>6. CASE StopStep(t) \/ HaltFails(t)
  BY <1>6 DEF StopStep, HaltFails, AfterStop, StopLabels, Files
<1>7. CASE WriteFile(t) \/ WriteFails(t) \/ Answer(t) \/ AnswerRaises(t)
  <2>1. pc[t] \in Files => AfterFile(t, pc[t]) \in Files \cup {"answer"}
    BY TrialAssumption DEF AfterFile, Files
  <2>2. QED
    BY <1>7, <2>1 DEF WriteFile, WriteFails, Answer, AnswerRaises
<1>8. CASE Interrupt(t) \/ Kill(t) \/ Retry(t)
  BY <1>8, FinallyLeads DEF Interrupt, Kill, Retry, FirstLabel, CacheLabels, TryLabels, StopLabels, Files
<1>9. QED
  BY <1>2, <1>3, <1>4, <1>5, <1>6, <1>7, <1>8 DEF Acts, Work

(* What the workers know, the files, the clone and the cuts keep their      *)
(* types.                                                                   *)
LEMMA ActsTyped ==
  ASSUME TypeOK, NEW t \in Trials, Acts(t)
  PROVE  TypeOK'
<1> DEFINE Rest == /\ attempt \in [Trials -> Nat] /\ \A u \in Trials : attempt[u] \in 1 .. MaxAttempts[u]
                   /\ error \in [Trials -> {"none", "text", "blank", "interrupt"}]
                   /\ agent \in [Trials -> {"none", "finished", "error"}]
                   /\ verdict \in [Trials -> {"none", "broken", "failed", "passed"}]
                   /\ answer \in [Trials -> {"none", "error", "agent", "resolved", "completed"}]
                   /\ disk \in [Trials -> [Files -> Nat]]
                   /\ tree \in Trees
                   /\ fetched \subseteq Revisions
                   /\ posed \in [Trials -> Trees \cup {"none"}]
                   /\ graded \in [Trials -> Trees \cup {"none"}]
                   /\ cut \in [Attempts -> [how : {"not", "interrupt", "kill"}, at : Active \cup {"none"}]]
<1>1. Rest /\ t \in Trials
  BY DEF TypeOK
<1>2. Rest'
  <2> USE <1>1 DEF Advance, Escape, taskVars
  <2>1. /\ "absent" \in Trees /\ "partial" \in Trees /\ "default" \in Revisions /\ Revisions \subseteq Trees
        /\ Revision[t] # "none" => Revision[t] \in Revisions
    BY DEF Revisions, Trees
  <2>t. CloneTakes(t) \/ FetchTakes(t) \/ GitCutShort(t) => tree' \in Trees /\ fetched' \subseteq Revisions
    <3>1. CloneTakes(t) \/ FetchTakes(t) => tree' \in Trees /\ fetched' \subseteq Revisions
      BY <2>1 DEF CloneTakes, FetchTakes
    <3>2. Moves(t) => Revision[t] \in Trees
      BY <2>1 DEF Moves
    <3>3. QED
      BY <2>1, <3>1, <3>2 DEF GitCutShort
  <2>2. CASE Begin(t) \/ FindClone(t) \/ CloneBegins(t) \/ CloneRefused(t) \/ CloneEnds(t)
             \/ Fetch(t) \/ Checkout(t) \/ CheckoutFails(t)
    <3>1. CASE Begin(t) \/ FindClone(t) \/ CloneBegins(t) \/ CloneRefused(t)
      BY <2>1, <3>1 DEF Begin, FindClone, CloneBegins, CloneRefused
    <3>2. CASE CloneEnds(t) \/ Fetch(t)
      BY <2>t, <3>2 DEF CloneEnds, Fetch
    <3>3. CASE Checkout(t)
      <4>1. tree' \in Trees
        BY <2>1, <3>3 DEF Checkout, Moves
      <4>2. QED
        BY <3>3, <4>1 DEF Checkout
    <3>4. CASE CheckoutFails(t)
      BY <2>t, <3>4 DEF CheckoutFails
    <3>5. QED
      BY <2>2, <3>1, <3>2, <3>3, <3>4
  <2>3. CASE CloneFails(t)
    BY <2>1, <2>3 DEF CloneFails
  <2>4. CASE Resolve(t) \/ Prepare(t) \/ RunAgent(t) \/ Evaluate(t)
    <3>0. Found \subseteq Trees
      BY <2>1 DEF Found
    <3>1. CASE Resolve(t)
      BY <3>0, <3>1 DEF Resolve
    <3>2. CASE Prepare(t) \/ RunAgent(t)
      BY <3>2 DEF Prepare, RunAgent, Endings
    <3>3. CASE Evaluate(t)
      BY <3>0, <3>3 DEF Evaluate
    <3>4. QED
      BY <2>4, <3>1, <3>2, <3>3
  <2>5. CASE ResolveRaises(t) \/ StartRaises(t) \/ StepRaises(t)
    BY <2>5 DEF ResolveRaises, StartRaises, StepRaises, RaiseInTry
  <2>6. CASE StartStep(t) \/ StopStep(t) \/ HaltFails(t)
    BY <2>6 DEF StartStep, StopStep, HaltFails
  <2>7. CASE WriteFile(t) \/ WriteFails(t)
    <3>1. pc[t] \in Files /\ attempt[t] \in Nat /\ disk[t] \in [Files -> Nat]
      BY <2>7 DEF WriteFile, WriteFails
    <3>2. disk' \in [Trials -> [Files -> Nat]]
      <4>1. PICK n \in Nat : disk' = [disk EXCEPT ![t][pc[t]] = n]
        BY <2>7, <3>1 DEF WriteFile, WriteFails
      <4>2. QED
        BY <3>1, <4>1
    <3>3. CASE WriteFile(t)
      BY <3>2, <3>3 DEF WriteFile
    <3>4. CASE WriteFails(t)
      BY <3>2, <3>4 DEF WriteFails
    <3>5. QED
      BY <2>7, <3>3, <3>4
  <2>8. CASE Answer(t) \/ AnswerRaises(t)
    <3>1. StatusOf(t) \in {"none", "error", "agent", "resolved", "completed"}
      BY DEF StatusOf, SweStatus, TerminalStatus, Resolved
    <3>2. CASE Answer(t)
      BY <3>1, <3>2 DEF Answer
    <3>3. CASE AnswerRaises(t)
      BY <3>3 DEF AnswerRaises
    <3>4. QED
      BY <2>8, <3>2, <3>3
  <2>9. CASE Interrupt(t) \/ Kill(t)
    <3>1. Current(t) \in Attempts
      BY CurrentIsAttempt
    <3>2. cut' \in [Attempts -> [how : {"not", "interrupt", "kill"}, at : Active \cup {"none"}]]
      <4>1. PICK c \in [how : {"not", "interrupt", "kill"}, at : Active \cup {"none"}] :
                cut' = [cut EXCEPT ![Current(t)] = c]
        BY <2>9 DEF Interrupt, Kill, CutShort
      <4>2. QED
        BY <3>1, <4>1
    <3>3. disk' \in [Trials -> [Files -> Nat]]
      BY <2>9 DEF Interrupt, Kill, Spoil
    <3>4. CASE Interrupt(t)
      BY SMTT(40), <2>t, <3>2, <3>3, <3>4 DEF Interrupt
    <3>5. CASE Kill(t)
      BY SMTT(40), <2>t, <3>2, <3>3, <3>5 DEF Kill
    <3>6. QED
      BY <2>9, <3>4, <3>5
  <2>10. CASE Retry(t)
    <3>1. attempt' \in [Trials -> Nat] /\ \A u \in Trials : attempt'[u] \in 1 .. MaxAttempts[u]
      <4>1. attempt' = [attempt EXCEPT ![t] = attempt[t] + 1] /\ attempt[t] + 1 \in 1 .. MaxAttempts[t]
        <5>1. MaxAttempts[t] \in Nat /\ attempt[t] \in 1 .. MaxAttempts[t] /\ attempt[t] < MaxAttempts[t]
          BY <2>10, TrialAssumption DEF Retry
        <5>2. attempt' = [attempt EXCEPT ![t] = attempt[t] + 1]
          BY <2>10 DEF Retry
        <5>3. QED
          BY <5>1, <5>2
      <4>2. QED
        BY <4>1
    <3>2. QED
      BY <2>10, <3>1 DEF Retry
  <2>11. QED
    BY <2>2, <2>3, <2>4, <2>5, <2>6, <2>7, <2>8, <2>9, <2>10 DEF Acts, Work
<1>3. batch' \subseteq Trials /\ pc' \in [Trials -> Active \cup {"idle", "returned", "raised", "dead"}]
  BY SMTT(40), Walks DEF TypeOK
<1>4. QED
  BY <1>2, <1>3, ActsOnOwn DEF TypeOK

LEMMA OutliveTyped ==
  ASSUME TypeOK, NEW o \in Attempts, Outlive(o)
  PROVE  TypeOK'
<1>1. EnvTypeOK'
  BY EnvMoves DEF Outlive, TypeOK
<1>2. QED
  BY <1>1 DEF Outlive, TypeOK, workerVars, taskVars, EnvTypeOK

LEMMA TypeInit == Init => TypeOK
<1> SUFFICES ASSUME Init PROVE TypeOK
  OBVIOUS
<1>1. EnvTypeOK
  BY DEF Init, EnvInit, EnvTypeOK
<1>2. \A t \in Trials : 1 \in 1 .. MaxAttempts[t]
  BY TrialAssumption
<1>3. batch \subseteq Trials
  BY TrialAssumption DEF Init
<1>5. tree \in Trees /\ fetched \subseteq Revisions
  BY DEF Init, CacheBefore, Trees
<1>4. QED
  BY <1>1, <1>2, <1>3, <1>5 DEF Init, TypeOK, Trees, NotCut

(* The steps of the whole: of a worker, of what outlives it, of nobody.     *)
LEMMA Steps ==
  ASSUME TypeOK, [Next]_vars
  PROVE  \/ \E t \in Trials : t \in batch /\ Acts(t)
         \/ \E o \in Attempts : Outlive(o)
         \/ UNCHANGED vars
BY DEF TypeOK, Next, Acts, Done

(* Every variable keeps its type, and no trial is attempted more often than *)
(* Ray retries it.                                                          *)
THEOREM TypeCorrect == Spec => []TypeOK
<1>1. TypeOK /\ [Next]_vars => TypeOK'
  <2> SUFFICES ASSUME TypeOK, [Next]_vars PROVE TypeOK'
    OBVIOUS
  <2>1. CASE UNCHANGED vars
    BY <2>1 DEF TypeOK, EnvTypeOK, vars, envVars, workerVars, taskVars
  <2>2. QED
    BY <2>1, Steps, ActsTyped, OutliveTyped
<1>2. QED
  BY <1>1, TypeInit, PTL DEF Spec

-----------------------------------------------------------------------------
(* Answers                                                                  *)

(* What a worker does leaves the other trials where they are.               *)
LEMMA OthersWait ==
  ASSUME TypeOK, NEW t \in Trials, Acts(t), NEW u \in Trials, u # t
  PROVE  /\ pc'[u] = pc[u] /\ attempt'[u] = attempt[u] /\ error'[u] = error[u]
         /\ agent'[u] = agent[u] /\ verdict'[u] = verdict[u] /\ answer'[u] = answer[u]
         /\ disk'[u] = disk[u] /\ posed'[u] = posed[u] /\ graded'[u] = graded[u]
<1> USE DEF TypeOK, Advance, Escape, taskVars, workerVars
<1>1. pc'[u] = pc[u]
  BY Walks
<1>2. CASE Begin(t) \/ FindClone(t) \/ CloneBegins(t) \/ CloneRefused(t) \/ CloneEnds(t) \/ CloneFails(t)
           \/ Fetch(t) \/ Checkout(t) \/ CheckoutFails(t)
  BY <1>1, <1>2 DEF Begin, FindClone, CloneBegins, CloneRefused, CloneEnds, CloneFails, Fetch, Checkout, CheckoutFails
<1>3. CASE Resolve(t) \/ Prepare(t) \/ RunAgent(t) \/ Evaluate(t)
  BY <1>1, <1>3 DEF Resolve, Prepare, RunAgent, Evaluate
<1>4. CASE ResolveRaises(t) \/ StartRaises(t) \/ StepRaises(t)
  BY <1>1, <1>4 DEF ResolveRaises, StartRaises, StepRaises, RaiseInTry
<1>5. CASE StartStep(t) \/ StopStep(t) \/ HaltFails(t)
  BY <1>1, <1>5 DEF StartStep, StopStep, HaltFails
<1>6. CASE WriteFile(t) \/ WriteFails(t) \/ Answer(t) \/ AnswerRaises(t)
  BY <1>1, <1>6 DEF WriteFile, WriteFails, Answer, AnswerRaises
<1>7. CASE Interrupt(t) \/ Kill(t) \/ Retry(t)
  BY <1>1, <1>7 DEF Interrupt, Kill, Retry, Spoil
<1>8. QED
  BY <1>2, <1>3, <1>4, <1>5, <1>6, <1>7 DEF Acts, Work

LEMMA EarnedStep ==
  ASSUME TypeOK, NEW t \in Trials, Earned(t), Acts(t)
  PROVE  Earned(t)'
<1> USE DEF Earned, TypeOK, Advance, Goto, Escape, taskVars, workerVars, Early, CacheLabels, TryLabels, StopLabels, Files
<1>1. CASE Begin(t) \/ FindClone(t) \/ CloneBegins(t) \/ CloneEnds(t) \/ Fetch(t) \/ Checkout(t)
  BY <1>1 DEF Begin, FindClone, CloneBegins, CloneEnds, CloneTakes, Fetch, FetchTakes, Checkout, FirstLabel
<1>2. CASE CloneRefused(t) \/ CloneFails(t) \/ CheckoutFails(t) \/ WriteFails(t) \/ AnswerRaises(t)
  BY <1>2 DEF CloneRefused, CloneFails, CheckoutFails, WriteFails, AnswerRaises
<1>3. ASSUME pc[t] \in TryLabels, RaiseInTry(t) PROVE Earned(t)'
  <2>1. PICK e \in {"text", "blank"} :
          /\ error' = [error EXCEPT ![t] = e]
          /\ pc' = [pc EXCEPT ![t] = Finally(t, known'[Current(t)], e)]
    BY <1>3 DEF RaiseInTry
  <2>2. Finally(t, known'[Current(t)], e) \in {"unwatch", "halt", "raised", "trajectory"}
    BY FinallyLeads
  <2>3. QED
    BY <1>3, <2>1, <2>2 DEF RaiseInTry
<1>4. CASE ResolveRaises(t) \/ StartRaises(t) \/ StepRaises(t)
  BY <1>3, <1>4 DEF ResolveRaises, StartRaises, StepRaises
<1>5. CASE Resolve(t) \/ Prepare(t) \/ RunAgent(t)
  BY <1>5 DEF Resolve, Prepare, RunAgent, Endings
<1>6. CASE StartStep(t)
  <2>1. AfterStart(t) \in {"prepare", "agent"} /\ AfterCreate(t) \in {"launch", "mkdir", "prepare", "agent"}
    BY CurrentIsAttempt DEF AfterStart, AfterCreate, EnvTypes
  <2>2. QED
    BY <1>6, <2>1 DEF StartStep
<1>7. CASE Evaluate(t)
  <2>1. Finally(t, known[Current(t)], error[t]) \in {"unwatch", "halt", "trajectory"}
    BY <1>7, FinallyLeads DEF Evaluate
  <2>2. PICK v \in {"broken", "failed", "passed"} : verdict' = [verdict EXCEPT ![t] = v]
    BY <1>7 DEF Evaluate
  <2>3. QED
    BY <1>7, <2>1, <2>2 DEF Evaluate
<1>8. CASE StopStep(t) \/ HaltFails(t)
  BY <1>8 DEF StopStep, HaltFails, AfterStop
<1>9. CASE WriteFile(t)
  <2>1. AfterFile(t, pc[t]) \in Files \cup {"answer"}
    BY <1>9, TrialAssumption DEF WriteFile, AfterFile
  <2>2. QED
    BY <1>9, <2>1 DEF WriteFile
<1>10. CASE Answer(t)
  <2>1. StatusOf(t) # "none" /\ pc[t] = "answer" /\ error[t] # "interrupt"
    BY <1>10 DEF Answer
  <2>2. Kind[t] \in Kinds
    BY TrialAssumption
  <2>3. StatusOf(t) # "error" =>
          \/ agent[t] # "none" /\ (verdict[t] # "none" \/ error[t] = "blank")
          \/ Kind[t] # "swe" /\ error[t] = "blank"
    BY <2>1, <2>2 DEF StatusOf, SweStatus, TerminalStatus, Resolved, Kinds
  <2>4. QED
    BY <1>10, <2>1, <2>3 DEF Answer
<1>11. CASE Interrupt(t)
  <2>1. Finally(t, known'[Current(t)], "interrupt") \in {"unwatch", "halt", "raised"}
    BY FinallyLeads
  <2>2. QED
    BY <1>11, <2>1 DEF Interrupt, Active
<1>12. CASE Kill(t) \/ Retry(t)
  BY <1>12 DEF Kill, Retry, Active, FirstLabel
<1>13. QED
  BY <1>1, <1>2, <1>4, <1>5, <1>6, <1>7, <1>8, <1>9, <1>10, <1>11, <1>12 DEF Acts, Work

(* An answer other than an error comes from a trial that ran its agent and  *)
(* was graded, but for the failures whose message is empty.                 *)
THEOREM AnswersEarned == Spec => []AnswersAreEarned
<1> DEFINE All == \A t \in Trials : Earned(t)
<1>1. Init => All
  BY DEF Init, Earned, StopLabels, Files
<1>2. TypeOK /\ All /\ [Next]_vars => All'
  <2> SUFFICES ASSUME TypeOK, All, [Next]_vars, NEW u \in Trials PROVE Earned(u)'
    OBVIOUS
  <2>1. ASSUME NEW t \in Trials, Acts(t) PROVE Earned(u)'
    <3>1. CASE u = t
      BY <2>1, <3>1, EarnedStep
    <3>2. CASE u # t
      BY <2>1, <3>2, OthersWait DEF Earned
    <3>3. QED
      BY <3>1, <3>2
  <2>2. CASE UNCHANGED workerVars
    BY <2>2 DEF workerVars, Earned
  <2>3. QED
    BY <2>1, <2>2, Steps DEF Outlive, vars
<1>3. All => AnswersAreEarned
  BY DEF Earned, AnswersAreEarned
<1>4. QED
  BY <1>1, <1>2, <1>3, TypeCorrect, PTL DEF Spec

LEMMA WrittenStep ==
  ASSUME TypeOK, NEW t \in Trials, Written(t), Acts(t)
  PROVE  Written(t)'
<1> DEFINE Late == {"reward", "patch", "report", "eval_output", "answer", "returned"}
<1>1. ASSUME pc'[t] \notin Late PROVE Written(t)'
  BY <1>1 DEF Written
<1>2. CASE WriteFile(t)
  <2> DEFINE f == pc[t]
             g == AfterFile(t, f)
  <2>1. f \in Files /\ disk[t] \in [Files -> Nat] /\ attempt'[t] = attempt[t] /\ verdict' = verdict
        /\ pc'[t] = g
    BY <1>2 DEF WriteFile, Goto, TypeOK
  <2>2. /\ disk'[t][f] = attempt[t]
        /\ \A h \in Files : h # f => disk'[t][h] = disk[t][h]
    BY <1>2, <2>1 DEF WriteFile, TypeOK
  <2>3. Kind[t] \in Kinds /\ HasOutput(t)' = HasOutput(t)
    BY <2>1, TrialAssumption DEF HasOutput
  <2>4. /\ f = "trajectory" => g = "reward"
        /\ f = "reward" => g = IF Kind[t] = "swe" THEN "patch" ELSE IF HasOutput(t) THEN "eval_output" ELSE "answer"
        /\ f = "patch" => g = "report"
        /\ f = "report" => g = IF HasOutput(t) THEN "eval_output" ELSE "answer"
        /\ f = "eval_output" => g = "answer"
    BY DEF AfterFile
  <2>5. CASE f = "trajectory"
    BY <2>1, <2>2, <2>4, <2>5 DEF Written, Files
  <2>6. CASE f = "reward"
    BY <2>1, <2>2, <2>3, <2>4, <2>6 DEF Written, Files
  <2>7. CASE f = "patch"
    BY <2>1, <2>2, <2>3, <2>4, <2>7 DEF Written, Files
  <2>8. CASE f = "report"
    BY <2>1, <2>2, <2>3, <2>4, <2>8 DEF Written, Files
  <2>9. CASE f = "eval_output"
    BY <2>1, <2>2, <2>3, <2>4, <2>9 DEF Written, Files
  <2>10. QED
    BY <2>1, <2>5, <2>6, <2>7, <2>8, <2>9 DEF Files
<1>3. CASE Answer(t)
  BY <1>3 DEF Answer, Advance, Goto, Written, HasOutput, TypeOK
<1>4. CASE Begin(t) \/ FindClone(t) \/ CloneBegins(t) \/ CloneRefused(t) \/ CloneEnds(t) \/ CloneFails(t)
           \/ Fetch(t) \/ Checkout(t) \/ CheckoutFails(t) \/ Resolve(t) \/ Prepare(t) \/ RunAgent(t) \/ Retry(t)
  BY <1>1, <1>4 DEF Begin, FindClone, CloneBegins, CloneRefused, CloneEnds, CloneFails, Fetch, Checkout, CheckoutFails,
     Resolve, Prepare, RunAgent, Retry, FirstLabel, TypeOK, Advance, Goto, Escape
<1>5. CASE ResolveRaises(t) \/ StartRaises(t) \/ StepRaises(t)
  <2>1. RaiseInTry(t)
    BY <1>5 DEF ResolveRaises, StartRaises, StepRaises
  <2>2. PICK e : pc' = [pc EXCEPT ![t] = Finally(t, known'[Current(t)], e)]
    BY <2>1 DEF RaiseInTry, Goto
  <2>3. QED
    BY <1>1, <2>2, FinallyLeads DEF TypeOK
<1>6. CASE StartStep(t) \/ StopStep(t) \/ HaltFails(t)
  <2>1. AfterStart(t) \notin Late /\ AfterCreate(t) \notin Late
    BY CurrentIsAttempt DEF AfterStart, AfterCreate, EnvTypes
  <2>2. QED
    BY <1>1, <1>6, <2>1 DEF StartStep, StopStep, HaltFails, AfterStop, Advance, Goto, TypeOK
<1>7. CASE Evaluate(t)
  BY SMTT(40), <1>1, <1>7, FinallyLeads DEF Evaluate, Advance, Goto, TypeOK
<1>8. CASE WriteFails(t) \/ AnswerRaises(t) \/ Kill(t)
  BY <1>1, <1>8 DEF WriteFails, AnswerRaises, Kill, Escape, Goto, TypeOK
<1>9. CASE Interrupt(t)
  BY <1>1, <1>9, FinallyLeads DEF Interrupt, Goto, TypeOK
<1>10. QED
  BY <1>2, <1>3, <1>4, <1>5, <1>6, <1>7, <1>8, <1>9 DEF Acts, Work

(* What an answer speaks of is on disk, whole and of the attempt that       *)
(* answers.                                                                 *)
THEOREM AnswersBacked == Spec => []AnswersAreOnDisk
<1> DEFINE All == \A t \in Trials : Written(t)
<1>1. Init => All
  BY DEF Init, Written
<1>2. TypeOK /\ All /\ [Next]_vars => All'
  <2> SUFFICES ASSUME TypeOK, All, [Next]_vars, NEW u \in Trials PROVE Written(u)'
    OBVIOUS
  <2>1. ASSUME NEW t \in Trials, Acts(t) PROVE Written(u)'
    <3>1. CASE u = t
      BY <2>1, <3>1, WrittenStep
    <3>2. CASE u # t
      BY <2>1, <3>2, OthersWait DEF Written, HasOutput
    <3>3. QED
      BY <3>1, <3>2
  <2>2. CASE UNCHANGED <<workerVars, disk>>
    BY <2>2 DEF workerVars, Written, HasOutput
  <2>3. QED
    BY <2>1, <2>2, Steps DEF Outlive, vars
<1>3. All => AnswersAreOnDisk
  BY DEF Written, AnswersAreOnDisk
<1>4. QED
  BY <1>1, <1>2, <1>3, TypeCorrect, PTL DEF Spec

-----------------------------------------------------------------------------
(* The shared clone                                                         *)

(* The clone changes when one is begun, when one under way ends, by a fetch *)
(* and by a checkout.                                                       *)
Cloning(t) ==
    \/ tree' = tree /\ fetched \subseteq fetched' /\ (pc'[t] = "cloning" => pc[t] = "cloning")
    \/ pc[t] = "clone" /\ tree = "absent" /\ tree' = "partial" /\ fetched' = fetched /\ pc'[t] = "cloning"
    \/ pc[t] = "cloning" /\ pc'[t] # "cloning"
    \/ Moves(t) /\ tree' \in {"partial", Revision[t]} /\ fetched' = fetched /\ pc'[t] # "cloning"

LEMMA GitMoves ==
  ASSUME TypeOK, NEW t \in Trials, GitCutShort(t), pc'[t] # "cloning"
  PROVE  Cloning(t)
BY DEF GitCutShort, CloneTakes, FetchTakes, Cloning

LEMMA TreeMoves ==
  ASSUME TypeOK, NEW t \in Trials, Acts(t)
  PROVE  /\ Cloning(t)
         /\ \/ posed'[t] \in {posed[t], "none"}
            \/ pc[t] = "resolve" /\ tree # "absent" /\ posed'[t] \in Found /\ tree' = tree /\ fetched' = fetched
         /\ \/ graded'[t] = "none"
            \/ graded'[t] = graded[t] /\ posed'[t] = posed[t]
            \/ pc[t] = "eval" /\ graded'[t] \in Found /\ tree' = tree /\ fetched' = fetched /\ posed'[t] = posed[t]
            \/ pc[t] \in Early /\ graded'[t] = graded[t]
         /\ pc'[t] \in Unposed => posed'[t] = "none" \/ (pc[t] \in Unposed /\ posed'[t] = posed[t])
         /\ pc'[t] \in Early => graded'[t] = "none" \/ (pc[t] \in Early /\ graded'[t] = graded[t])
<1> USE DEF TypeOK, Advance, Goto, Escape, taskVars, Early, Unposed, CacheLabels, TryLabels
<1>1. CASE Begin(t) \/ FindClone(t) \/ CloneRefused(t)
  BY <1>1 DEF Begin, FindClone, CloneRefused, FirstLabel, Cloning
<1>2. CASE CloneBegins(t) \/ CloneEnds(t) \/ CloneFails(t)
  BY <1>2 DEF CloneBegins, CloneEnds, CloneTakes, CloneFails, Cloning
<1>3. CASE Fetch(t) \/ Checkout(t)
  BY <1>3 DEF Fetch, FetchTakes, Checkout, Cloning
<1>4. CASE CheckoutFails(t)
  BY <1>4, GitMoves DEF CheckoutFails
<1>5. CASE Resolve(t) \/ Prepare(t) \/ RunAgent(t)
  BY <1>5 DEF Resolve, Prepare, RunAgent, Cloning
<1>6. CASE Evaluate(t)
  BY SMTT(40), <1>6, FinallyLeads DEF Evaluate, Cloning
<1>7. CASE ResolveRaises(t) \/ StartRaises(t) \/ StepRaises(t)
  <2>1. RaiseInTry(t)
    BY <1>7 DEF ResolveRaises, StartRaises, StepRaises
  <2>2. PICK e : pc' = [pc EXCEPT ![t] = Finally(t, known'[Current(t)], e)]
    BY <2>1 DEF RaiseInTry
  <2>3. QED
    BY <2>1, <2>2, FinallyLeads DEF RaiseInTry, Cloning
<1>8. CASE StartStep(t) \/ StopStep(t) \/ HaltFails(t)
  <2>1. AfterStart(t) \in {"prepare", "agent"} /\ AfterCreate(t) \in {"launch", "mkdir", "prepare", "agent"}
    BY CurrentIsAttempt DEF AfterStart, AfterCreate, EnvTypes
  <2>2. QED
    BY <1>8, <2>1 DEF StartStep, StopStep, HaltFails, AfterStop, Cloning
<1>9. CASE WriteFile(t) \/ WriteFails(t)
  <2>1. pc[t] \in Files => AfterFile(t, pc[t]) \in Files \cup {"answer"}
    BY TrialAssumption DEF AfterFile, Files
  <2>2. QED
    BY <1>9, <2>1 DEF WriteFile, WriteFails, Files, Cloning
<1>10. CASE Answer(t) \/ AnswerRaises(t) \/ Retry(t)
  BY <1>10 DEF Answer, AnswerRaises, Retry, FirstLabel, Cloning
<1>11. CASE Interrupt(t) \/ Kill(t)
  <2>1. pc'[t] \notin Early /\ posed' = posed /\ graded' = graded /\ GitCutShort(t)
    BY <1>11, FinallyLeads DEF Interrupt, Kill
  <2>2. QED
    BY <2>1, GitMoves
<1>12. QED
  BY <1>1, <1>2, <1>3, <1>4, <1>5, <1>6, <1>7, <1>8, <1>9, <1>10, <1>11 DEF Acts, Work

(* What there is to find is the tree, but for a checkout at work.           *)
LEMMA FoundIsTree ==
  ASSUME NEW f \in Found, f # "partial"
  PROVE  f = tree
BY DEF Found

LEMMA MoversLead ==
  ASSUME Settled, NEW t \in Trials, Posed(t), NEW u \in batch, u # t, Moves(u)
  PROVE  Astray(t)
BY DEF Settled, Moves, Astray

LEMMA AstrayStays ==
  ASSUME TypeOK, Settled, NEW t \in Trials, Acts(t), batch' = batch,
         NEW u \in Trials, Posed(u), posed'[u] = posed[u], Astray(u)
  PROVE  Astray(u)'
<1>1. fetched \subseteq fetched'
  BY TreeMoves DEF Cloning, Settled
<1>2. QED
  BY <1>1 DEF Astray

LEMMA SettledStep ==
  ASSUME TypeOK, Settled, NEW t \in Trials, t \in batch, Acts(t)
  PROVE  Settled'
<1>1. \A u \in Trials \ {t} : pc'[u] = pc[u] /\ posed'[u] = posed[u] /\ graded'[u] = graded[u]
  BY OthersWait
<1>2. batch' = batch /\ Revision[t] # "absent"
  BY Walks, TrialAssumption
<1>3. \A u \in Trials : pc'[u] = "cloning" => tree' = "partial"
  BY <1>1, TreeMoves DEF Settled, Cloning, Moves
<1>4. \A u, v \in Trials : pc'[u] = "cloning" /\ pc'[v] = "cloning" => u = v
  BY <1>1, TreeMoves DEF Settled, Cloning, Moves
<1>5. ASSUME NEW u \in Trials, Posed(u)'
      PROVE  /\ tree' # "absent" /\ (tree' = posed'[u] \/ Astray(u)')
             /\ \A v \in Trials : pc'[v] # "cloning"
  <2>1. CASE posed'[u] = posed[u]
    <3>1. Posed(u) /\ tree # "absent" /\ (\A v \in Trials : pc[v] # "cloning") /\ (tree = posed[u] \/ Astray(u))
      BY <1>5, <2>1 DEF Settled, Posed
    <3>2. Astray(u) => Astray(u)'
      BY <1>2, <2>1, <3>1, AstrayStays
    <3>3. CASE tree' = tree /\ (pc'[t] = "cloning" => pc[t] = "cloning")
      BY <1>1, <2>1, <3>1, <3>2, <3>3
    <3>4. CASE Moves(t) /\ tree' \in {"partial", Revision[t]} /\ pc'[t] # "cloning"
      <4>1. pc[t] = "checkout" /\ t # u
        BY <3>1, <3>4 DEF Moves, Settled, Unposed, CacheLabels, Posed
      <4>2. Astray(u)
        BY <3>1, <3>4, <4>1, MoversLead
      <4>3. QED
        BY <1>1, <1>2, <3>1, <3>2, <3>4, <4>2
    <3>5. QED
      BY <3>1, <3>3, <3>4, TreeMoves DEF Cloning
  <2>2. CASE posed'[u] # posed[u]
    <3>1. u = t /\ pc[t] = "resolve" /\ tree # "absent" /\ posed'[t] \in Found /\ tree' = tree
      BY <1>1, <1>5, <2>2, TreeMoves DEF Posed
    <3>2. posed'[t] = tree /\ tree # "partial"
      BY <1>5, <3>1, FoundIsTree DEF Posed
    <3>3. QED
      BY <1>1, <3>1, <3>2, TreeMoves DEF Settled, Cloning, Moves
  <2>3. QED
    BY <2>1, <2>2
<1>6. \A u \in Trials : pc'[u] \in Unposed => posed'[u] = "none"
  BY <1>1, TreeMoves DEF Settled
<1>7. \A u \in Trials : pc'[u] \in Early => graded'[u] = "none"
  BY <1>1, TreeMoves DEF Settled
<1>8. GradedAsPosed'
  <2> SUFFICES ASSUME NEW u \in Trials, Posed(u)', graded'[u] # "none", graded'[u] # posed'[u]
               PROVE  Astray(u)'
    BY DEF GradedAsPosed, Posed, Astray
  <2>1. CASE posed'[u] = posed[u] /\ graded'[u] = graded[u]
    <3>1. Posed(u) /\ Astray(u)
      BY <2>1 DEF Settled, GradedAsPosed, Posed, Astray
    <3>2. QED
      BY <1>2, <2>1, <3>1, AstrayStays
  <2>2. CASE ~(posed'[u] = posed[u] /\ graded'[u] = graded[u])
    <3>1. u = t
      BY <1>1, <2>2
    <3>2. pc[t] = "eval" /\ graded'[t] \in Found /\ posed'[t] = posed[t]
      BY <2>2, <3>1, TreeMoves DEF Settled
    <3>3. Posed(t) /\ (tree = posed[t] \/ Astray(t))
      BY <3>1, <3>2 DEF Settled, Posed
    <3>4. CASE graded'[t] = tree
      BY <1>2, <3>1, <3>2, <3>3, <3>4, AstrayStays
    <3>5. CASE graded'[t] # tree
      <4>1. PICK v \in batch : Moves(v)
        BY <3>2, <3>5 DEF Found
      <4>2. v # t
        BY <3>2, <4>1 DEF Moves
      <4>3. QED
        BY <1>2, <3>1, <3>2, <3>3, <4>1, <4>2, MoversLead, AstrayStays
    <3>6. QED
      BY <3>4, <3>5
  <2>3. QED
    BY <2>1, <2>2
<1>9. QED
  BY <1>3, <1>4, <1>5, <1>6, <1>7, <1>8 DEF Settled

(* A trial that takes its task from a whole clone takes its tests from the  *)
(* same revision, unless another trial of the batch asks for one that the   *)
(* clone knows, by a refresh or from before.                                *)
THEOREM TestsAreAsPosed == Spec => []GradedAsPosed
<1>1. Init => Settled
  BY DEF Init, Settled, Posed, GradedAsPosed
<1>2. TypeOK /\ Settled /\ [Next]_vars => Settled'
  <2> SUFFICES ASSUME TypeOK, Settled, [Next]_vars PROVE Settled'
    OBVIOUS
  <2>1. CASE UNCHANGED <<batch, workerVars, taskVars>>
    BY <2>1 DEF workerVars, taskVars, Settled, Posed, Astray, GradedAsPosed
  <2>2. QED
    BY <2>1, Steps, SettledStep DEF Outlive, vars
<1>3. Settled => GradedAsPosed
  BY DEF Settled
<1>4. QED
  BY <1>1, <1>2, <1>3, TypeCorrect, PTL DEF Spec

-----------------------------------------------------------------------------
(* Containers                                                               *)

(* What a worker does leaves the other attempts, its own earlier and later  *)
(* ones included, as they are.                                              *)
LEMMA OthersKept ==
  ASSUME TypeOK, NEW t \in Trials, Acts(t), NEW p \in Attempts, p # Current(t)
  PROVE  /\ container'[p] = container[p] /\ known'[p] = known[p]
         /\ reaper'[p] = reaper[p] /\ lapse'[p] = lapse[p] /\ cut'[p] = cut[p]
<1> USE DEF Advance, Escape
<1>1. container'[p] = container[p] /\ known'[p] = known[p] /\ reaper'[p] = reaper[p] /\ lapse'[p] = lapse[p]
  BY ActsOnOwn DEF OnlyOne
<1>2. CASE Interrupt(t) \/ Kill(t)
  BY <1>1, <1>2, CurrentIsAttempt DEF Interrupt, Kill, CutShort, TypeOK
<1>3. CASE Begin(t) \/ FindClone(t) \/ CloneBegins(t) \/ CloneRefused(t) \/ CloneEnds(t) \/ CloneFails(t)
           \/ Fetch(t) \/ Checkout(t) \/ CheckoutFails(t) \/ Resolve(t) \/ Prepare(t) \/ RunAgent(t) \/ Evaluate(t)
  BY <1>1, <1>3 DEF Begin, FindClone, CloneBegins, CloneRefused, CloneEnds, CloneFails, Fetch, Checkout, CheckoutFails,
     Resolve, Prepare, RunAgent, Evaluate
<1>4. CASE ResolveRaises(t) \/ StartRaises(t) \/ StepRaises(t)
  BY <1>1, <1>4 DEF ResolveRaises, StartRaises, StepRaises, RaiseInTry
<1>5. CASE StartStep(t) \/ StopStep(t) \/ HaltFails(t)
  BY <1>1, <1>5 DEF StartStep, StopStep, HaltFails
<1>6. CASE WriteFile(t) \/ WriteFails(t) \/ Answer(t) \/ AnswerRaises(t) \/ Retry(t)
  BY <1>1, <1>6 DEF WriteFile, WriteFails, Answer, AnswerRaises, Retry
<1>7. QED
  BY <1>2, <1>3, <1>4, <1>5, <1>6 DEF Acts, Work

(* All steps of a worker but Ray's retry stay in the same attempt.          *)
LEMMA SameAttempt ==
  ASSUME TypeOK, NEW t \in Trials, Begin(t) \/ Work(t) \/ Interrupt(t) \/ Kill(t)
  PROVE  attempt' = attempt /\ \A u \in Trials : Current(u)' = Current(u)
<1> USE DEF Advance, Escape, Current
<1>1. CASE Begin(t) \/ FindClone(t) \/ CloneBegins(t) \/ CloneRefused(t) \/ CloneEnds(t) \/ CloneFails(t)
           \/ Fetch(t) \/ Checkout(t) \/ CheckoutFails(t) \/ Resolve(t) \/ Prepare(t) \/ RunAgent(t) \/ Evaluate(t)
  BY <1>1 DEF Begin, FindClone, CloneBegins, CloneRefused, CloneEnds, CloneFails, Fetch, Checkout, CheckoutFails,
     Resolve, Prepare, RunAgent, Evaluate
<1>2. CASE ResolveRaises(t) \/ StartRaises(t) \/ StepRaises(t)
  BY <1>2 DEF ResolveRaises, StartRaises, StepRaises, RaiseInTry
<1>3. CASE StartStep(t) \/ StopStep(t) \/ HaltFails(t)
  BY <1>3 DEF StartStep, StopStep, HaltFails
<1>4. CASE WriteFile(t) \/ WriteFails(t) \/ Answer(t) \/ AnswerRaises(t) \/ Interrupt(t) \/ Kill(t)
  BY <1>4 DEF WriteFile, WriteFails, Answer, AnswerRaises, Interrupt, Kill
<1>5. QED
  BY <1>1, <1>2, <1>3, <1>4 DEF Work

(* The container of the attempt a worker is at, through each of its steps.  *)
LEMMA ShelteredStep ==
  ASSUME TypeOK, NEW t \in Trials, Sheltered(t), Begin(t) \/ Work(t) \/ Interrupt(t) \/ Kill(t)
  PROVE  Sheltered(t)'
<1> DEFINE o == Current(t)
<1>1. o \in Attempts /\ EnvOf(t) = Env[o] /\ Env[o] \in EnvTypes
  BY CurrentIsAttempt DEF EnvOf
<1>2. Current(t)' = o
  BY SameAttempt
<1> USE <1>1, <1>2 DEF Sheltered, TypeOK, EnvTypeOK, Fresh, CacheLabels, TryLabels, StopLabels, Files, Goto
<1>3. ASSUME NEW k \in BOOLEAN, NEW e, pc' = [pc EXCEPT ![t] = Finally(t, k, e)], k, known'[o]
       PROVE  Sheltered(t)'
  <2>1. pc'[t] \in {"unwatch", "halt"} /\ (pc'[t] = "unwatch" => Env[o] = "enroot")
    <3>1. pc'[t] = Finally(t, k, e)
      BY <1>3
    <3>2. /\ Finally(t, k, e) \in {"unwatch", "halt", "raised", "trajectory"}
          /\ Finally(t, k, e) # "raised" /\ Finally(t, k, e) # "trajectory"
          /\ Finally(t, k, e) = "unwatch" => EnvOf(t) = "enroot"
      BY <1>3, FinallyLeads
    <3>3. QED
      BY <3>1, <3>2
  <2>2. QED
    BY ZenonT(60), <1>3, <2>1
<1>4. ASSUME CreateFails(o) PROVE known'[o] \/ container'[o] = "none" \/ lapse'[o]
  <2>1. PICK c \in {"none", "created", Made(o)} :
          /\ container' = [container EXCEPT ![o] = c]
          /\ lapse' = [lapse EXCEPT ![o] = Env[o] # "enroot" /\ c # "none"]
    BY <1>4 DEF CreateFails
  <2>2. known'[o] = (Env[o] = "enroot") /\ container'[o] = c /\ lapse'[o] = (Env[o] # "enroot" /\ c # "none")
    BY <1>4, <2>1 DEF CreateFails
  <2>3. QED
    BY <2>2
<1>5. CASE Begin(t) \/ FindClone(t) \/ CloneBegins(t) \/ CloneEnds(t) \/ Fetch(t) \/ Checkout(t) \/ Resolve(t)
  <2>1. pc[t] \in Fresh /\ pc'[t] \in Fresh /\ UNCHANGED envVars
    BY <1>5 DEF Begin, FindClone, CloneBegins, CloneEnds, CloneTakes, Fetch, FetchTakes, Checkout, Resolve, Advance, FirstLabel
  <2>2. QED
    BY <2>1 DEF envVars, Untouched
<1>6. CASE CloneRefused(t) \/ CloneFails(t) \/ CheckoutFails(t) \/ WriteFails(t) \/ AnswerRaises(t)
  <2>1. pc[t] \in Fresh \cup Files \cup {"answer"} /\ pc'[t] = "raised" /\ UNCHANGED envVars
    BY <1>6 DEF CloneRefused, CloneFails, CheckoutFails, WriteFails, AnswerRaises, Escape
  <2>2. QED
    BY <2>1 DEF envVars, Untouched
<1>7. CASE WriteFile(t) \/ Answer(t)
  <2>1. pc[t] \in Files => AfterFile(t, pc[t]) \in Files \cup {"answer"}
    BY TrialAssumption DEF AfterFile
  <2>2. pc[t] \in Files \cup {"answer"} /\ pc'[t] \in Files \cup {"answer", "returned"} /\ UNCHANGED envVars
    BY <1>7, <2>1 DEF WriteFile, Answer, Advance
  <2>3. QED
    BY <2>2 DEF envVars
<1>8. CASE ResolveRaises(t) \/ StartRaises(t) \/ StepRaises(t)
  <2>1. RaiseInTry(t)
    BY <1>8 DEF ResolveRaises, StartRaises, StepRaises
  <2>2. PICK e \in {"text", "blank"} : pc' = [pc EXCEPT ![t] = Finally(t, known'[o], e)]
    BY <2>1 DEF RaiseInTry
  <2>3. known'[o] \/ container'[o] = "none" \/ lapse'[o]
    <3>1. CASE CreateFails(o)
      BY <1>4, <3>1
    <3>2. CASE LaunchFails(o) /\ pc[t] = "launch"
      BY <3>2 DEF LaunchFails
    <3>3. CASE UNCHANGED envVars /\ pc[t] \in {"resolve", "mkdir", "prepare", "agent", "eval"}
      BY <3>3 DEF envVars, Untouched
    <3>4. QED
      BY <1>8, <3>1, <3>2, <3>3 DEF ResolveRaises, StartRaises, StepRaises
  <2>4. CASE known'[o]
    BY <1>3, <2>2, <2>4
  <2>5. CASE ~known'[o]
    BY <2>2, <2>3, <2>5, FinallyLeads
  <2>6. QED
    BY <2>4, <2>5
<1>9. CASE StartStep(t)
  <2>1. AfterStart(t) \in {"prepare", "agent"}
    BY DEF AfterStart
  <2>2. CASE pc[t] = "create"
    <3>1. AfterCreate(t) \in {"launch", "mkdir", "prepare", "agent"}
          /\ (AfterCreate(t) = "mkdir" => Env[o] = "modal")
          /\ (AfterCreate(t) \in {"prepare", "agent"} => Env[o] = "docker")
      BY <2>1 DEF AfterCreate, EnvTypes
    <3>2. known'[o] /\ pc'[t] = AfterCreate(t)
      BY <1>9, <2>2 DEF StartStep, Create, Advance
    <3>3. QED
      BY <3>1, <3>2
  <2>3. CASE pc[t] = "launch"
    BY <1>9, <2>3 DEF StartStep, Launch, Advance
  <2>4. CASE pc[t] = "watch"
    <3>1. known'[o] /\ (reaper'[o] \/ lapse'[o]) /\ pc'[t] = AfterStart(t)
      BY <1>9, <2>4 DEF StartStep, Watch, Advance
    <3>2. QED
      BY <2>1, <3>1
  <2>5. CASE pc[t] = "mkdir"
    <3>1. known'[o] /\ pc'[t] = AfterStart(t) /\ Env[o] = "modal"
      BY <1>9, <2>5 DEF StartStep, Advance, envVars
    <3>2. QED
      BY <2>1, <3>1
  <2>6. QED
    BY <1>9, <2>2, <2>3, <2>4, <2>5 DEF StartStep
<1>10. CASE Prepare(t) \/ RunAgent(t)
  BY <1>10 DEF Prepare, RunAgent, Advance, envVars
<1>11. CASE Evaluate(t)
  <2>1. known'[o] /\ pc' = [pc EXCEPT ![t] = Finally(t, known[o], error[t])] /\ known[o]
    BY <1>11 DEF Evaluate, Advance, envVars
  <2>2. QED
    BY <1>3, <2>1
<1>12. CASE StopStep(t) \/ HaltFails(t)
  <2>1. CASE pc[t] = "unwatch"
    BY <1>12, <2>1 DEF StopStep, HaltFails, Unwatch, Advance
  <2>2. CASE pc[t] = "halt" /\ StopStep(t)
    BY <2>2 DEF StopStep, Halt, Advance
  <2>3. CASE pc[t] = "remove" \/ HaltFails(t)
    <3>1. pc'[t] \in {"raised", "trajectory"} /\ (Remove(o) \/ RemoveFails(o))
      BY <1>12, <2>3 DEF StopStep, HaltFails, Advance, AfterStop
    <3>2. container'[o] # "none" => lapse'[o]
      <4>1. CASE Remove(o)
        BY <4>1 DEF Remove
      <4>2. CASE RemoveFails(o)
        <5>1. lapse'[o] = (container[o] # "none") /\ container'[o] = container[o]
          BY <4>2 DEF RemoveFails
        <5>2. QED
          BY <5>1
      <4>3. QED
        BY <3>1, <4>1, <4>2
    <3>3. QED
      BY <3>1, <3>2
  <2>4. QED
    BY <1>12, <2>1, <2>2, <2>3 DEF StopStep
<1>13. CASE Interrupt(t)
  <2>1. cut'[o].how = "interrupt" /\ cut'[o].at = pc[t]
    BY <1>13 DEF Interrupt, CutShort
  <2>2. CASE pc[t] \in TryLabels \/ (pc[t] \in StopLabels /\ Env[o] = "enroot")
    <3>1. pc' = [pc EXCEPT ![t] = Finally(t, known'[o], "interrupt")]
      BY <1>13, <2>2 DEF Interrupt
    <3>2. known'[o] \/ container'[o] = "none" \/ lapse'[o]
      <4>1. CASE CreateFails(o)
        BY <1>4, <4>1
      <4>2. CASE UNCHANGED envVars /\ pc[t] # "create"
        BY <2>2, <4>2 DEF envVars, Untouched
      <4>3. QED
        BY <1>13, <4>1, <4>2 DEF Interrupt, Abandon
    <3>3. CASE known'[o]
      BY <1>3, <3>1, <3>3
    <3>4. CASE ~known'[o]
      BY <3>1, <3>2, <3>4, FinallyLeads
    <3>5. QED
      BY <3>3, <3>4
  <2>3. CASE ~(pc[t] \in TryLabels \/ (pc[t] \in StopLabels /\ Env[o] = "enroot"))
    <3>1. pc'[t] = "raised" /\ UNCHANGED envVars
      BY <1>13, <2>3 DEF Interrupt, Abandon
    <3>2. container[o] # "none" => lapse[o] \/ (Env[o] # "enroot" /\ pc[t] \in StopLabels)
      BY <1>13, <2>3 DEF Interrupt, Active, Untouched
    <3>3. pc[t] = "unwatch" => Env[o] = "enroot"
      OBVIOUS
    <3>4. container'[o] # "none" => lapse'[o] \/ Exposed(o)'
      BY <2>1, <3>1, <3>2, <3>3 DEF envVars, Exposed
    <3>5. QED
      BY <3>1, <3>4
  <2>4. QED
    BY <2>2, <2>3
<1>14. CASE Kill(t)
  <2>1. cut'[o].how = "kill" /\ cut'[o].at = pc[t] /\ pc'[t] = "dead"
    BY <1>14 DEF Kill, CutShort
  <2>2. CASE pc[t] = "create" \/ Env[o] # "enroot" \/ pc[t] \in Unwatched
    BY <2>1, <2>2 DEF Exposed, Unwatched
  <2>3. CASE ~(pc[t] = "create" \/ Env[o] # "enroot" \/ pc[t] \in Unwatched)
    <3>1. UNCHANGED envVars
      BY <1>14, <2>3 DEF Kill, Abandon
    <3>2. container'[o] # "none" => reaper'[o] \/ lapse'[o]
      BY <1>14, <2>3, <3>1 DEF Kill, Active, Unwatched, Untouched, envVars
    <3>3. Gone(o)'
      BY <2>1, CurrentIsAttempt DEF Gone
    <3>4. QED
      BY <2>1, <3>2, <3>3
  <2>4. QED
    BY <2>2, <2>3
<1>15. QED
  BY <1>5, <1>6, <1>7, <1>8, <1>9, <1>10, <1>11, <1>12, <1>13, <1>14 DEF Work

(* What nobody is at or past keeps to itself: a container left behind is    *)
(* watched, exposed or let go.                                              *)
LEMMA RetrySheltered ==
  ASSUME TypeOK, NEW t \in Trials, Sheltered(t), \A o \in Attempts : Behind(o) /\ Ahead(o), Retry(t)
  PROVE  Sheltered(t)' /\ \A o \in Attempts : Behind(o)' /\ Ahead(o)'
<1> USE DEF Retry
<1>1. /\ UNCHANGED envVars /\ cut' = cut
      /\ attempt'[t] = attempt[t] + 1 /\ attempt[t] \in Nat /\ MaxAttempts[t] \in Nat
      /\ attempt'[t] \in 1 .. MaxAttempts[t]
      /\ \A u \in Trials \ {t} : attempt'[u] = attempt[u]
  <2>1. MaxAttempts[t] \in Nat /\ attempt[t] \in Nat /\ attempt[t] >= 1 /\ attempt[t] < MaxAttempts[t]
    <3>1. MaxAttempts[t] \in Nat
      BY TrialAssumption
    <3>2. attempt[t] \in Nat /\ attempt[t] \in 1 .. MaxAttempts[t]
      BY DEF TypeOK
    <3>3. attempt[t] < MaxAttempts[t]
      OBVIOUS
    <3>4. QED
      BY ONLY <3>1, <3>2, <3>3
  <2>2. attempt' = [attempt EXCEPT ![t] = attempt[t] + 1] /\ attempt \in [Trials -> Nat]
    BY DEF TypeOK
  <2>3. QED
    BY <2>1, <2>2
<1>2. pc[t] = "dead" /\ pc'[t] \in Fresh
  BY DEF TypeOK, Goto, FirstLabel, Fresh, CacheLabels
<1>3. Current(t)' \in Attempts /\ Current(t)'[2] > attempt[Current(t)'[1]] /\ Current(t)' = <<t, attempt[t] + 1>>
  BY <1>1, TrialAssumption DEF Current
<1>4. Sheltered(t)'
  <2>1. Untouched(Current(t))'
    BY <1>1, <1>3 DEF Ahead, Untouched, envVars
  <2>2. QED
    BY <1>2, <2>1 DEF Sheltered, Fresh, CacheLabels, TryLabels, Files
<1>5. ASSUME NEW o \in Attempts PROVE Behind(o)' /\ Ahead(o)'
  <2>1. o[1] \in Trials /\ o[2] \in Nat /\ o = <<o[1], o[2]>> /\ attempt[o[1]] \in Nat
    BY Pairs, TrialAssumption DEF TypeOK
  <2>2. Ahead(o)'
    BY <1>1, <2>1 DEF Ahead, Untouched, envVars
  <2>3. CASE o = Current(t)
    BY <1>1, <1>2, <2>2, <2>3 DEF Behind, Sheltered, Exposed, envVars
  <2>4. CASE o # Current(t)
    <3>1. o[2] < attempt'[o[1]] => o[2] < attempt[o[1]]
      BY <1>1, <2>1, <2>4 DEF Current
    <3>2. QED
      BY <1>1, <2>2, <3>1 DEF Behind, Exposed, envVars
  <2>5. QED
    BY <2>2, <2>3, <2>4
<1>6. QED
  BY <1>4, <1>5

Housed == (\A t \in Trials : Sheltered(t)) /\ (\A o \in Attempts : Behind(o) /\ Ahead(o))

LEMMA HousedActs ==
  ASSUME TypeOK, Housed, NEW t \in Trials, Acts(t)
  PROVE  Housed'
<1>1. ASSUME NEW u \in Trials, u # t PROVE Sheltered(u)'
  <2>1. Current(u) \in Attempts /\ Current(u) # Current(t) /\ Current(u)[1] = u
    BY <1>1, CurrentIsAttempt
  <2>2. pc'[u] = pc[u] /\ attempt'[u] = attempt[u] /\ Current(u)' = Current(u)
    BY <1>1, OthersWait DEF Current
  <2>3. /\ container'[Current(u)] = container[Current(u)] /\ known'[Current(u)] = known[Current(u)]
        /\ reaper'[Current(u)] = reaper[Current(u)] /\ lapse'[Current(u)] = lapse[Current(u)]
        /\ cut'[Current(u)] = cut[Current(u)]
    BY <2>1, OthersKept
  <2>4. Gone(Current(u))' = Gone(Current(u)) /\ Exposed(Current(u))' = Exposed(Current(u))
    BY <2>1, <2>2, <2>3 DEF Gone, Exposed
  <2>5. QED
    BY <2>2, <2>3, <2>4 DEF Housed, Sheltered, Untouched
<1>2. CASE Retry(t)
  BY <1>1, <1>2, RetrySheltered DEF Housed
<1>3. CASE Begin(t) \/ Work(t) \/ Interrupt(t) \/ Kill(t)
  <2>1. Sheltered(t)'
    BY <1>3, ShelteredStep DEF Housed
  <2>2. ASSUME NEW o \in Attempts PROVE Behind(o)' /\ Ahead(o)'
    <3>1. attempt' = attempt
      BY <1>3, SameAttempt
    <3>2. CASE o = Current(t)
      BY <3>1, <3>2, CurrentIsAttempt, Pairs DEF Behind, Ahead, TypeOK
    <3>3. CASE o # Current(t)
      BY <3>1, <3>3, OthersKept DEF Behind, Ahead, Untouched, Exposed, Housed
    <3>4. QED
      BY <3>2, <3>3
  <2>3. QED
    BY <1>1, <2>1, <2>2 DEF Housed
<1>4. QED
  BY <1>2, <1>3 DEF Acts

LEMMA HousedOutlive ==
  ASSUME TypeOK, Housed, NEW o \in Attempts, Outlive(o)
  PROVE  Housed'
<1>1. UNCHANGED <<pc, attempt, cut>> /\ (\A u \in Trials : Current(u)' = Current(u))
  BY DEF Outlive, workerVars, Current
<1>2. \A p \in Attempts : p # o =>
        /\ container'[p] = container[p] /\ known'[p] = known[p]
        /\ reaper'[p] = reaper[p] /\ lapse'[p] = lapse[p]
  BY EnvMoves DEF Outlive, OnlyOne, TypeOK
<1>3. /\ known'[o] = known[o] /\ (container'[o] = "none" \/ lapse'[o])
      /\ container[o] = "none" => container'[o] = "none"
      /\ ~reaper[o] => ~reaper'[o] /\ reaper' = reaper /\ lapse' = lapse
      /\ lapse[o] => lapse'[o]
      /\ reaper' # reaper => Gone(o) /\ reaper[o]
  BY DEF Outlive, Reap, SandboxExpires, TypeOK, EnvTypeOK
<1>4. o[1] \in Trials /\ o[2] \in Nat /\ o = <<o[1], o[2]>> /\ attempt[o[1]] \in Nat
  BY Pairs, TrialAssumption DEF TypeOK
<1>5. ASSUME NEW t \in Trials PROVE Sheltered(t)'
  <2>1. CASE Current(t) # o
    <3>1. /\ container'[Current(t)] = container[Current(t)] /\ known'[Current(t)] = known[Current(t)]
          /\ reaper'[Current(t)] = reaper[Current(t)] /\ lapse'[Current(t)] = lapse[Current(t)]
      BY <1>2, <2>1, CurrentIsAttempt
    <3>2. QED
      BY <1>1, <3>1 DEF Housed, Sheltered, Untouched, Gone, Exposed
  <2>2. CASE Current(t) = o
    <3>1. o[1] = t /\ o[2] = attempt[t]
      BY <2>2, CurrentIsAttempt
    <3>2. reaper' # reaper => pc[t] = "dead"
      BY <1>3, <1>4, <3>1 DEF Gone
    <3>3. pc[t] # "dead" => reaper' = reaper
      BY <3>2
    <3>4. Untouched(o) => Untouched(o)'
      BY <1>3 DEF Untouched
    <3>5. Current(t)' = o /\ pc'[t] = pc[t]
      BY <1>1, <2>2
    <3>6. QED
      BY <1>3, <2>2, <3>3, <3>4, <3>5 DEF Housed, Sheltered, Fresh, CacheLabels, TryLabels, Files
  <2>3. QED
    BY <2>1, <2>2
<1>6. ASSUME NEW p \in Attempts PROVE Behind(p)' /\ Ahead(p)'
  <2>1. CASE p # o
    BY <1>1, <1>2, <2>1 DEF Housed, Behind, Ahead, Untouched, Exposed
  <2>2. CASE p = o
    BY <1>1, <1>3, <2>2 DEF Housed, Behind, Ahead, Untouched
  <2>3. QED
    BY <2>1, <2>2
<1>7. QED
  BY <1>5, <1>6 DEF Housed

(* Each container is as the attempts at its trial have left it.             *)
LEMMA AllHoused == Spec => [](TypeOK /\ Housed)
<1>1. Init => Housed
  <2> SUFFICES ASSUME Init PROVE Housed
    OBVIOUS
  <2>1. \A o \in Attempts : Untouched(o)
    BY DEF Init, EnvInit, Untouched
  <2>2. \A t \in Trials : Current(t) \in Attempts /\ pc[t] = "idle"
    BY TypeInit, CurrentIsAttempt DEF Init
  <2>3. QED
    BY <2>1, <2>2 DEF Housed, Sheltered, Behind, Ahead, Untouched, Fresh, TryLabels, Files
<1>2. TypeOK /\ Housed /\ [Next]_vars => Housed'
  <2> SUFFICES ASSUME TypeOK, Housed, [Next]_vars PROVE Housed'
    OBVIOUS
  <2>1. CASE UNCHANGED vars
    BY <2>1 DEF vars, envVars, workerVars, Housed, Sheltered, Behind, Ahead, Untouched, Current, Gone, Exposed
  <2>2. QED
    BY <2>1, Steps, HousedActs, HousedOutlive
<1>3. QED
  BY <1>1, <1>2, TypeCorrect, PTL DEF Spec

(* However trials go, are cancelled, die and are tried again: a container   *)
(* is attended to, but for the lapses and the exposed spans.                *)
THEOREM NoneForgotten == Spec => []NoContainerForgotten
<1>1. TypeOK /\ Housed => NoContainerForgotten
  <2> SUFFICES ASSUME TypeOK, Housed, NEW o \in Attempts, container[o] # "none"
               PROVE  Attended(o) \/ lapse[o] \/ Exposed(o)
    BY DEF NoContainerForgotten
  <2>1. o[1] \in Trials /\ o[2] \in Nat /\ o = <<o[1], o[2]>> /\ attempt[o[1]] \in Nat
    BY Pairs, TrialAssumption DEF TypeOK
  <2>2. CASE o[2] < attempt[o[1]]
    BY <2>2 DEF Housed, Behind, Attended, Gone
  <2>3. CASE o[2] > attempt[o[1]]
    BY <2>3 DEF Housed, Ahead, Untouched
  <2>4. CASE o[2] = attempt[o[1]]
    <3>1. o = Current(o[1]) /\ Sheltered(o[1])
      BY <2>1, <2>4 DEF Current, Housed
    <3>2. pc[o[1]] \in Active \cup {"idle", "returned", "raised", "dead"}
      BY <2>1 DEF TypeOK
    <3>3. QED
      BY <3>1, <3>2 DEF Sheltered, Attended, Untouched, Active, Fresh, CacheLabels, TryLabels, StopLabels, Files
  <2>5. QED
    BY <2>1, <2>2, <2>3, <2>4
<1>2. QED
  BY <1>1, AllHoused, PTL

-----------------------------------------------------------------------------
(* Liveness                                                                 *)

(* A worker that is gone does not come back, and nobody but the watcher     *)
(* ends its watch.                                                          *)
Orphaned(o) == Gone(o) /\ (reaper[o] \/ Env[o] = "modal")
Reaped(o) == container[o] = "none" \/ lapse[o]

(* The watcher or modal's clock settles what becomes of a container.        *)
LEMMA EnvReaped ==
  ASSUME TypeOK, NEW o \in Attempts, Outlive(o)
  PROVE  Reaped(o)'
BY DEF Outlive, Reap, SandboxExpires, Reaped, TypeOK, EnvTypeOK

(* The dead do no work.                                                     *)
LEMMA Alive ==
  ASSUME NEW t \in Trials, Begin(t) \/ Work(t) \/ Interrupt(t) \/ Kill(t)
  PROVE  pc[t] # "dead"
<1>1. CASE Begin(t) \/ Interrupt(t) \/ Kill(t)
  BY <1>1 DEF Begin, Interrupt, Kill, Active, CacheLabels, TryLabels, StopLabels, Files
<1>2. CASE Work(t)
  BY <1>2 DEF Work, FindClone, CloneBegins, CloneRefused, CloneEnds, CloneTakes, CloneFails, Fetch, FetchTakes, Checkout, CheckoutFails,
     Resolve, ResolveRaises, StartStep, StartRaises, Prepare, RunAgent, Evaluate, StepRaises, StopStep, HaltFails,
     WriteFile, WriteFails, Answer, AnswerRaises, Files
<1>3. QED
  BY <1>1, <1>2

LEMMA OrphanWaits ==
  ASSUME TypeOK, Housed, NEW o \in Attempts, Orphaned(o), [Next]_vars
  PROVE  Orphaned(o)' \/ Reaped(o)'
<1>1. o[1] \in Trials /\ o[2] \in Nat /\ o = <<o[1], o[2]>> /\ attempt[o[1]] \in Nat
  BY Pairs, TrialAssumption DEF TypeOK
<1>2. ASSUME NEW t \in Trials, Acts(t)
      PROVE  Orphaned(o)' \/ Reaped(o)'
  <2>1. CASE Retry(t)
    <3>1. UNCHANGED envVars
      BY <2>1 DEF Retry
    <3>2. CASE o[2] > attempt[o[1]]
      BY <3>1, <3>2 DEF Housed, Ahead, Untouched, Reaped, envVars
    <3>3. CASE o[2] <= attempt[o[1]]
      <4>1. Gone(o)'
        <5>1. CASE o[1] = t
          BY <1>1, <2>1, <3>3, <5>1 DEF Retry, Gone, TypeOK
        <5>2. CASE o[1] # t
          BY <1>1, <2>1, <5>2 DEF Retry, Goto, Gone, Orphaned, TypeOK
        <5>3. QED
          BY <5>1, <5>2
      <4>2. QED
        BY <3>1, <4>1 DEF Orphaned, envVars
    <3>4. QED
      BY <1>1, <3>2, <3>3
  <2>2. CASE Begin(t) \/ Work(t) \/ Interrupt(t) \/ Kill(t)
    <3>1. pc[t] # "dead"
      BY <2>2, Alive
    <3>0. \A u \in Trials \ {t} : pc'[u] = pc[u]
      BY <1>2, OthersWait
    <3>2. attempt' = attempt
      BY <2>2, SameAttempt
    <3>3. o # Current(t)
      BY <1>1, <3>1, CurrentIsAttempt DEF Orphaned, Gone
    <3>4. reaper'[o] = reaper[o]
      BY <1>2, <3>3, OthersKept
    <3>5. Gone(o)'
      BY <1>1, <3>0, <3>1, <3>2 DEF Orphaned, Gone
    <3>6. QED
      BY <3>4, <3>5 DEF Orphaned
  <2>3. QED
    BY <1>2, <2>1, <2>2 DEF Acts
<1>3. ASSUME NEW p \in Attempts, Outlive(p)
      PROVE  Orphaned(o)' \/ Reaped(o)'
  <2>1. Gone(o)'
    BY <1>3 DEF Outlive, workerVars, Orphaned, Gone
  <2>2. CASE p = o
    BY <1>3, <2>2, EnvReaped
  <2>3. CASE p # o
    <3>1. reaper'[o] = reaper[o]
      BY <1>3, <2>3, EnvMoves DEF Outlive, OnlyOne, TypeOK
    <3>2. QED
      BY <2>1, <3>1 DEF Orphaned
  <2>4. QED
    BY <2>2, <2>3
<1>4. CASE UNCHANGED vars
  BY <1>4 DEF vars, envVars, workerVars, Orphaned, Gone
<1>5. QED
  BY <1>2, <1>3, <1>4, Steps

LEMMA OneReaped ==
  ASSUME NEW o \in Tended
  PROVE  Spec /\ Tending(o) /\ []DueIsEnabled => OrphanIsReaped(o)
<1>0. o \in Attempts
  BY DEF Tended
<1>1. TypeOK /\ Housed /\ Orphaned(o) /\ [Next]_vars => Orphaned(o)' \/ Reaped(o)'
  BY <1>0, OrphanWaits
<1>2. TypeOK /\ <<Outlive(o)>>_vars => Reaped(o)'
  BY <1>0, EnvReaped
<1>3. DueIsEnabled /\ Orphaned(o) => Reaped(o) \/ CanOutlive(o)
  BY <1>0 DEF DueIsEnabled, OutliveIsDue, Orphaned, Reaped
<1>4. Spec /\ Tending(o) /\ []DueIsEnabled => (Orphaned(o) ~> Reaped(o))
  BY <1>1, <1>2, <1>3, AllHoused, PTL DEF Spec, Tending, CanOutlive
<1>5. QED
  BY <1>4, PTL DEF OrphanIsReaped, Orphaned, Reaped

(* Watchers and modal's clock leave no container of a worker that is gone,  *)
(* unless a removal failed: whatever trials, attempts and environments, if  *)
(* what is due can happen.                                                  *)
THEOREM OrphansReaped == FairSpec /\ []DueIsEnabled => OrphansAreReaped
  BY OneReaped DEF FairSpec, OrphansAreReaped
=============================================================================
