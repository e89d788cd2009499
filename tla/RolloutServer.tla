---------------------------- MODULE RolloutServer ----------------------------
(***************************************************************************)
(* `nro serve`: the FastAPI handler of core/server.py, the scheduler of     *)
(* core/scheduler.py that turns each request into one blocking call on a    *)
(* thread pool, and the Ray task that call starts and waits for.            *)
(*                                                                          *)
(* Three kinds of actor interleave.  The event loop runs handle_run, one    *)
(* coroutine per request, atomically between awaits.  Pool threads run      *)
(* _run_blocking, which waits in ray.get, and on a timeout cancels the task *)
(* softly, waits ten seconds more and cancels it by force.  Ray (external,  *)
(* modelled from how the scheduler uses it) starts the task, retries it     *)
(* when its worker crashes, and delivers cancellations asynchronously.      *)
(***************************************************************************)
EXTENDS Naturals, Sequences, FiniteSets

CONSTANTS
    Requests,       \* the POST /run bodies clients may send
    Timed,          \* requests with task_timeout_s > 0
    Known,          \* requests whose task and agent name a registered runner
    Concurrency,    \* ServerConfig.concurrency
    MaxRetries      \* how often Ray restarts a task whose worker crashed

ASSUME ServerAssumption ==
    /\ IsFiniteSet(Requests)
    /\ Timed \subseteq Requests
    /\ Known \subseteq Requests
    /\ Concurrency \in Nat \ {0}
    /\ MaxRetries \in Nat

VARIABLES
    server,         \* "up", "stopping" (no new connection), "closed"
    waiters,        \* coroutines queued on the semaphore, first come first served
    permits,        \* value of the semaphore
    handler,        \* where the coroutine of a request is
    response,       \* the RunResponse it built, "none" before that
    record,         \* what {instance_id}.json holds
    reply,          \* what the client got
    call,           \* where _run_blocking is for the request
    outcome,        \* what the call's future holds
    task,           \* state of the Ray task
    value,          \* what the task's object reference resolves to
    cancel,         \* strongest cancellation that reached a live task
    retries         \* restarts of the task so far

slotVars == <<waiters, permits>>
httpVars == <<handler, response, record, reply>>
callVars == <<call, outcome>>
taskVars == <<task, value, cancel, retries>>
vars == <<server, slotVars, httpVars, callVars, taskVars>>

-----------------------------------------------------------------------------
(* Types                                                                    *)

Verdicts == {"Result", "Error", "Timeout"}
HandlerStates == {"absent", "waiting", "executing", "saving", "saved", "answered"}
CallStates == {"idle", "pooled", "get", "expired", "grace", "done"}
Outcomes == {"value", "invalid", "raised", "timeout"}
TaskStates == {"none", "pending", "running", "interrupted", "finished"}

(* What _ray_worker returns: the runner's result, or the str() of the       *)
(* exception it raised, which is empty for an exception without arguments.  *)
(* "blank" also stands for a result that is a dict but no RunResponse.      *)
Payloads == {"result", "failure", "blank"}

(* What ray.get may raise instead.                                          *)
RayErrors == {"crashed", "cancelled"}

TypeOK ==
    /\ server \in {"up", "stopping", "closed"}
    /\ waiters \in Seq(Requests)
    /\ permits \in 0 .. Concurrency
    /\ handler \in [Requests -> HandlerStates]
    /\ response \in [Requests -> Verdicts \cup {"none"}]
    /\ record \in [Requests -> Verdicts \cup {"none", "partial"}]
    /\ reply \in [Requests -> Verdicts \cup {"none", "http500"}]
    /\ call \in [Requests -> CallStates]
    /\ outcome \in [Requests -> Outcomes \cup {"none"}]
    /\ task \in [Requests -> TaskStates]
    /\ value \in [Requests -> Payloads \cup RayErrors \cup {"none"}]
    /\ cancel \in [Requests -> {"no", "soft", "force"}]
    /\ retries \in [Requests -> 0 .. MaxRetries]

Init ==
    /\ server = "up"
    /\ waiters = <<>>
    /\ permits = Concurrency
    /\ handler = [r \in Requests |-> "absent"]
    /\ response = [r \in Requests |-> "none"]
    /\ record = [r \in Requests |-> "none"]
    /\ reply = [r \in Requests |-> "none"]
    /\ call = [r \in Requests |-> "idle"]
    /\ outcome = [r \in Requests |-> "none"]
    /\ task = [r \in Requests |-> "none"]
    /\ value = [r \in Requests |-> "none"]
    /\ cancel = [r \in Requests |-> "no"]
    /\ retries = [r \in Requests |-> 0]

-----------------------------------------------------------------------------
(* State predicates                                                         *)

SlotHolders == {r \in Requests : handler[r] = "executing"}
BusyThreads == {r \in Requests : call[r] \in {"get", "expired", "grace"}}
Pooled == {r \in Requests : call[r] = "pooled"}
Live(r) == task[r] \in {"pending", "running", "interrupted"}
Executing(r) == task[r] \in {"running", "interrupted"}

-----------------------------------------------------------------------------
(* The event loop: handle_run                                               *)

Arrive(r) ==
    /\ server = "up"
    /\ handler[r] = "absent"
    /\ handler' = [handler EXCEPT ![r] = "waiting"]
    /\ waiters' = Append(waiters, r)
    /\ UNCHANGED <<server, permits, response, record, reply, callVars, taskVars>>

(* asyncio.Semaphore wakes its waiters in order.                            *)
IsNext(r) ==
    /\ handler[r] = "waiting"
    /\ waiters # <<>>
    /\ r = Head(waiters)
    /\ permits > 0

(* acquire() returns and the coroutine runs to run_in_executor.             *)
Admit(r) ==
    /\ IsNext(r)
    /\ r \in Known
    /\ waiters' = Tail(waiters)
    /\ permits' = permits - 1
    /\ handler' = [handler EXCEPT ![r] = "executing"]
    /\ call' = [call EXCEPT ![r] = "pooled"]
    /\ UNCHANGED <<server, response, record, reply, outcome, taskVars>>

(* Seeded fault: the early exit releases its permit twice.                  *)
RejectUnknownTwice(r) ==
    /\ IsNext(r)
    /\ r \notin Known
    /\ waiters' = Tail(waiters)
    /\ permits' = permits + 1
    /\ handler' = [handler EXCEPT ![r] = "saving"]
    /\ response' = [response EXCEPT ![r] = "Error"]
    /\ UNCHANGED <<server, record, reply, callVars, taskVars>>

(* resolve_request_runner raises ValueError before anything is awaited: the *)
(* permit is taken and given back within one step of the event loop.        *)
RejectUnknown(r) ==
    /\ IsNext(r)
    /\ r \notin Known
    /\ waiters' = Tail(waiters)
    /\ handler' = [handler EXCEPT ![r] = "saving"]
    /\ response' = [response EXCEPT ![r] = "Error"]
    /\ UNCHANGED <<server, permits, record, reply, callVars, taskVars>>

-----------------------------------------------------------------------------
(* Pool threads: _run_blocking                                              *)

(* A free thread takes the job and submits the Ray task.                    *)
SubmitTask(r) ==
    /\ call[r] = "pooled"
    /\ Cardinality(BusyThreads) < Concurrency
    /\ call' = [call EXCEPT ![r] = "get"]
    /\ task' = [task EXCEPT ![r] = "pending"]
    /\ UNCHANGED <<server, slotVars, httpVars, outcome, value, cancel, retries>>

(* ray.init or worker.remote raises (no cluster to connect to).             *)
SubmitRaises(r) ==
    /\ call[r] = "pooled"
    /\ Cardinality(BusyThreads) < Concurrency
    /\ call' = [call EXCEPT ![r] = "done"]
    /\ outcome' = [outcome EXCEPT ![r] = "raised"]
    /\ UNCHANGED <<server, slotVars, httpVars, taskVars>>

(* Seeded fault: a payload with an empty error taken for a result.          *)
UnwrapBlankAsValue(v) ==
    IF v \in {"result", "blank"} THEN "value" ELSE "raised"

(* What _run_blocking makes of a payload or exception.  result.get("error") *)
(* is tested for truth: a failure with an empty message is handed on as if  *)
(* it were the runner's answer, and no RunResponse can be built from it.    *)
Unwrap(v) ==
    CASE v = "result" -> "value"
      [] v = "blank" -> "invalid"
      [] v \in RayErrors \cup {"failure"} -> "raised"

GetReturns(r) ==
    /\ call[r] = "get"
    /\ task[r] = "finished"
    /\ call' = [call EXCEPT ![r] = "done"]
    /\ outcome' = [outcome EXCEPT ![r] = Unwrap(value[r])]
    /\ UNCHANGED <<server, slotVars, httpVars, taskVars>>

(* Seeded fault: the task is abandoned at once, uncancelled.                *)
GetTimesOutAbandoning(r) ==
    /\ r \in Timed
    /\ call[r] = "get"
    /\ task[r] # "finished"
    /\ call' = [call EXCEPT ![r] = "done"]
    /\ outcome' = [outcome EXCEPT ![r] = "timeout"]
    /\ UNCHANGED <<server, slotVars, httpVars, taskVars>>

(* ray.get(timeout=task_timeout_s) gives up.  The clock started with the    *)
(* call, so time spent pending in Ray counts; without a timeout the thread  *)
(* waits for as long as the rollout takes.                                  *)
GetTimesOut(r) ==
    /\ r \in Timed
    /\ call[r] = "get"
    /\ task[r] # "finished"
    /\ call' = [call EXCEPT ![r] = "expired"]
    /\ UNCHANGED <<server, slotVars, httpVars, outcome, taskVars>>

(* ray.cancel(force=False): a task that has not started never will, one     *)
(* that runs is interrupted, one that finished meanwhile is left alone.     *)
CancelSoftly(r) ==
    /\ call[r] = "expired"
    /\ call' = [call EXCEPT ![r] = "grace"]
    /\ \/ /\ task[r] = "pending"
          /\ task' = [task EXCEPT ![r] = "finished"]
          /\ value' = [value EXCEPT ![r] = "cancelled"]
          /\ cancel' = [cancel EXCEPT ![r] = "soft"]
       \/ /\ task[r] = "running"
          /\ task' = [task EXCEPT ![r] = "interrupted"]
          /\ cancel' = [cancel EXCEPT ![r] = "soft"]
          /\ UNCHANGED value
       \/ /\ task[r] = "finished"
          /\ UNCHANGED <<task, value, cancel>>
    /\ UNCHANGED <<server, slotVars, httpVars, outcome, retries>>

(* Seeded fault: an answer in spite of the soft cancel is taken.            *)
GraceEndsWithAnswer(r) ==
    /\ call[r] = "grace"
    /\ task[r] = "finished"
    /\ call' = [call EXCEPT ![r] = "done"]
    /\ outcome' = [outcome EXCEPT ![r] = IF value[r] = "result" THEN "value" ELSE "timeout"]
    /\ UNCHANGED <<server, slotVars, httpVars, taskVars>>

(* The second ray.get returns or raises within its ten seconds.  A late     *)
(* answer is dropped; a cancelled task needs nothing more; any other        *)
(* exception is followed by a forced cancel of a task that is over.         *)
GraceEnds(r) ==
    /\ call[r] = "grace"
    /\ task[r] = "finished"
    /\ call' = [call EXCEPT ![r] = "done"]
    /\ outcome' = [outcome EXCEPT ![r] = "timeout"]
    /\ UNCHANGED <<server, slotVars, httpVars, taskVars>>

(* Seeded faults: the task is abandoned after the grace period instead of   *)
(* being cancelled by force; the second ray.get has no timeout.             *)
ForceCancelOmitted(r) ==
    /\ call[r] = "grace"
    /\ task[r] # "finished"
    /\ call' = [call EXCEPT ![r] = "done"]
    /\ outcome' = [outcome EXCEPT ![r] = "timeout"]
    /\ UNCHANGED <<server, slotVars, httpVars, taskVars>>

ForceCancelNever(r) ==
    /\ call[r] = "grace"
    /\ FALSE
    /\ UNCHANGED vars

(* The second ray.get times out too: ray.cancel(force=True), not awaited.   *)
ForceCancel(r) ==
    /\ call[r] = "grace"
    /\ task[r] # "finished"
    /\ call' = [call EXCEPT ![r] = "done"]
    /\ outcome' = [outcome EXCEPT ![r] = "timeout"]
    /\ cancel' = [cancel EXCEPT ![r] = "force"]
    /\ UNCHANGED <<server, slotVars, httpVars, task, value, retries>>

-----------------------------------------------------------------------------
(* The event loop again: the future resolves                                *)

(* Seeded fault: every exception of the call is reported as a timeout.      *)
VerdictOfTimeoutOnly(o) == IF o = "value" THEN "Result" ELSE "Timeout"

(* The result or exception of the call, as handle_run's try statement       *)
(* dispatches on it.                                                        *)
VerdictOf(o) ==
    CASE o = "value" -> "Result"
      [] o = "raised" -> "Error"
      [] o = "timeout" -> "Timeout"

(* Seeded fault: the event loop times the call itself, and leaves the slot  *)
(* while the pool thread is in its grace period.                            *)
ResumeAtTimeout(r) ==
    /\ handler[r] = "executing"
    /\ call[r] \in {"grace", "done"}
    /\ outcome[r] # "invalid"
    /\ permits' = permits + 1
    /\ handler' = [handler EXCEPT ![r] = "saving"]
    /\ response' = [response EXCEPT ![r] = IF call[r] = "grace" THEN "Timeout" ELSE VerdictOf(outcome[r])]
    /\ call' = [call EXCEPT ![r] = IF @ = "grace" THEN @ ELSE "idle"]
    /\ outcome' = [outcome EXCEPT ![r] = "none"]
    /\ UNCHANGED <<server, waiters, record, reply, taskVars>>

(* Leaving `async with reserve()` releases the permit, then the response is *)
(* built.                                                                   *)
Resume(r) ==
    /\ handler[r] = "executing"
    /\ call[r] = "done"
    /\ outcome[r] # "invalid"
    /\ permits' = permits + 1
    /\ handler' = [handler EXCEPT ![r] = "saving"]
    /\ response' = [response EXCEPT ![r] = VerdictOf(outcome[r])]
    /\ call' = [call EXCEPT ![r] = "idle"]
    /\ outcome' = [outcome EXCEPT ![r] = "none"]
    /\ UNCHANGED <<server, waiters, record, reply, taskVars>>

(* Seeded fault: a response that cannot be built keeps its permit.          *)
ResumeInvalidLeaking(r) ==
    /\ handler[r] = "executing"
    /\ call[r] = "done"
    /\ outcome[r] = "invalid"
    /\ handler' = [handler EXCEPT ![r] = "answered"]
    /\ reply' = [reply EXCEPT ![r] = "http500"]
    /\ call' = [call EXCEPT ![r] = "idle"]
    /\ outcome' = [outcome EXCEPT ![r] = "none"]
    /\ UNCHANGED <<server, slotVars, response, record, taskVars>>

(* RunResponse.model_validate runs in the else clause, which no except      *)
(* clause covers: FastAPI answers 500 and nothing is saved.                 *)
ResumeInvalid(r) ==
    /\ handler[r] = "executing"
    /\ call[r] = "done"
    /\ outcome[r] = "invalid"
    /\ permits' = permits + 1
    /\ handler' = [handler EXCEPT ![r] = "answered"]
    /\ reply' = [reply EXCEPT ![r] = "http500"]
    /\ call' = [call EXCEPT ![r] = "idle"]
    /\ outcome' = [outcome EXCEPT ![r] = "none"]
    /\ UNCHANGED <<server, waiters, response, record, taskVars>>

Save(r) ==
    /\ handler[r] = "saving"
    /\ handler' = [handler EXCEPT ![r] = "saved"]
    /\ record' = [record EXCEPT ![r] = response[r]]
    /\ UNCHANGED <<server, slotVars, response, reply, callVars, taskVars>>

(* Seeded fault: a failed save is swallowed and the response returned.      *)
SaveRaisesSwallowed(r) ==
    /\ handler[r] = "saving"
    /\ handler' = [handler EXCEPT ![r] = "saved"]
    /\ record' = [record EXCEPT ![r] = "partial"]
    /\ UNCHANGED <<server, slotVars, response, reply, callVars, taskVars>>

(* mkdir, open or json.dump raises on the worker thread: whatever was       *)
(* written stays, and the handler fails.                                    *)
SaveRaises(r) ==
    /\ handler[r] = "saving"
    /\ handler' = [handler EXCEPT ![r] = "answered"]
    /\ record' = [record EXCEPT ![r] = "partial"]
    /\ reply' = [reply EXCEPT ![r] = "http500"]
    /\ UNCHANGED <<server, slotVars, response, callVars, taskVars>>

Reply(r) ==
    /\ handler[r] = "saved"
    /\ handler' = [handler EXCEPT ![r] = "answered"]
    /\ reply' = [reply EXCEPT ![r] = response[r]]
    /\ UNCHANGED <<server, slotVars, response, record, callVars, taskVars>>

-----------------------------------------------------------------------------
(* Ray                                                                      *)

RayStart(r) ==
    /\ task[r] = "pending"
    /\ task' = [task EXCEPT ![r] = "running"]
    /\ UNCHANGED <<server, slotVars, httpVars, callVars, value, cancel, retries>>

Finish(r, v) ==
    /\ task' = [task EXCEPT ![r] = "finished"]
    /\ value' = [value EXCEPT ![r] = v]
    /\ UNCHANGED <<server, slotVars, httpVars, callVars, cancel, retries>>

(* _ray_worker returns.  A runner may also swallow the interrupt.           *)
RayReturn(r) ==
    /\ Executing(r)
    /\ \E v \in Payloads : Finish(r, v)

(* KeyboardInterrupt unwinds the runner: it is not an Exception, so         *)
(* _ray_worker does not turn it into a payload.                             *)
RayUnwind(r) ==
    /\ task[r] = "interrupted"
    /\ Finish(r, "cancelled")

(* The worker process dies on its own.  Ray starts the task over, with the  *)
(* same output directory, unless it was cancelled or has used its retries.  *)
RayRetry(r) ==
    /\ Executing(r)
    /\ cancel[r] = "no"
    /\ retries[r] < MaxRetries
    /\ task' = [task EXCEPT ![r] = "pending"]
    /\ retries' = [retries EXCEPT ![r] = @ + 1]
    /\ UNCHANGED <<server, slotVars, httpVars, callVars, value, cancel>>

RayCrash(r) ==
    /\ Executing(r)
    /\ cancel[r] # "no" \/ retries[r] = MaxRetries
    /\ Finish(r, "crashed")

(* The forced cancel reaches the worker process.                            *)
RayKill(r) ==
    /\ Executing(r)
    /\ cancel[r] = "force"
    /\ Finish(r, "cancelled")

-----------------------------------------------------------------------------
(* Shutdown: uvicorn stops accepting and waits for the open requests, then  *)
(* the lifespan handler calls close(), and ray.shutdown ends what is left.  *)

BeginShutdown ==
    /\ server = "up"
    /\ server' = "stopping"
    /\ UNCHANGED <<slotVars, httpVars, callVars, taskVars>>

Close ==
    /\ server = "stopping"
    /\ \A r \in Requests : handler[r] \in {"absent", "answered"}
    /\ server' = "closed"
    /\ task' = [r \in Requests |-> IF Live(r) THEN "finished" ELSE task[r]]
    /\ value' = [r \in Requests |-> IF Live(r) THEN "cancelled" ELSE value[r]]
    /\ UNCHANGED <<slotVars, httpVars, callVars, cancel, retries>>

Closed ==
    /\ server = "closed"
    /\ UNCHANGED vars

-----------------------------------------------------------------------------

Ray(r) ==
    RayStart(r) \/ RayReturn(r) \/ RayUnwind(r) \/ RayRetry(r) \/ RayCrash(r) \/ RayKill(r)

Thread(r) ==
    \/ SubmitTask(r) \/ SubmitRaises(r)
    \/ GetReturns(r) \/ GetTimesOut(r)
    \/ CancelSoftly(r) \/ GraceEnds(r) \/ ForceCancel(r)

Loop(r) ==
    \/ Admit(r) \/ RejectUnknown(r)
    \/ Resume(r) \/ ResumeInvalid(r)
    \/ Save(r) \/ SaveRaises(r) \/ Reply(r)

Next ==
    \/ \E r \in Requests : Arrive(r) \/ Loop(r) \/ Thread(r) \/ Ray(r)
    \/ BeginShutdown \/ Close \/ Closed

Spec == Init /\ [][Next]_vars

(* The event loop and the pool threads always run what is ready, ray.get    *)
(* with a timeout always returns, and a forced cancel is delivered.  Nothing *)
(* is assumed of the rollouts themselves: they may hang for ever.           *)
Served(r) == WF_vars(Loop(r)) /\ WF_vars(Thread(r)) /\ WF_vars(RayKill(r))

Fairness == \A r \in Requests : Served(r)

FairSpec == Spec /\ Fairness

-----------------------------------------------------------------------------
(* Safety                                                                   *)

(* Every permit is either free or held by a request whose call is under     *)
(* way, whichever way handle_run leaves `async with reserve()`: answer,     *)
(* failure, timeout, unknown runner, unusable result.                       *)
SlotAccounting == permits + Cardinality(SlotHolders) = Concurrency

(* The semaphore and the thread pool have the same size, so a request that  *)
(* got a slot never waits for a thread behind calls whose requests have     *)
(* already been answered: task_timeout_s starts at once.                    *)
PoolNeverBacklogged == Cardinality(BusyThreads \cup Pooled) <= Concurrency

(* Once handle_run has left the slot, the rollout it started is over, or    *)
(* the forced cancel has been issued: no answered request leaves a worker   *)
(* running that nothing will stop.                                          *)
OrphansAreDoomed ==
    \A r \in Requests : Live(r) /\ handler[r] # "executing" => cancel[r] = "force"

(* A client that got a response finds the same response in the output       *)
(* directory, whole.                                                        *)
RepliesAreOnDisk ==
    \A r \in Requests : reply[r] \in Verdicts => record[r] = reply[r]

(* A response passed off as the runner's own is one the runner produced.    *)
ResultsAreGenuine ==
    \A r \in Requests : response[r] = "Result" => value[r] = "result"

(* A rollout that a cancellation reached is reported as a timeout, even     *)
(* when its answer, its crash or its failure came in during the grace       *)
(* period; and only requests with a timeout are ever cancelled.             *)
CancelledIsTimeout ==
    \A r \in Requests :
        cancel[r] # "no" =>
            /\ r \in Timed
            /\ handler[r] # "executing" => response[r] = "Timeout"

(* The semaphore's queue holds exactly the coroutines that wait, once each. *)
WaitersAreQueued ==
    /\ \A i \in 1 .. Len(waiters) : handler[waiters[i]] = "waiting"
    /\ \A i, j \in 1 .. Len(waiters) : waiters[i] = waiters[j] => i = j
    /\ \A r \in Requests :
        handler[r] = "waiting" => \E i \in 1 .. Len(waiters) : waiters[i] = r

(* The shape of a request's progress, which the other invariants rest on.   *)

(* A coroutine holds a permit exactly while its call is under way, and the  *)
(* call's future is resolved exactly when the call is over.                 *)
CallsHaveSlots ==
    \A r \in Requests :
        /\ handler[r] = "executing" <=> call[r] # "idle"
        /\ outcome[r] # "none" <=> call[r] = "done"

(* A Ray task exists only once its call submitted it, has a value exactly   *)
(* when it is over, and is live without a call that waits for it only after *)
(* the forced cancel.                                                       *)
TasksFollowCalls ==
    \A r \in Requests :
        /\ handler[r] \in {"absent", "waiting"} \/ call[r] = "pooled" => task[r] = "none"
        /\ task[r] = "none" => call[r] \notin {"get", "expired", "grace"}
        /\ task[r] = "finished" <=> value[r] # "none"
        /\ call[r] \in {"idle", "done"} /\ Live(r) => cancel[r] = "force"

(* Who is cancelled, and when: only calls that ran out of time, softly      *)
(* first; every later outcome of such a call is a timeout.                  *)
CancelsFollowTimeouts ==
    \A r \in Requests :
        /\ call[r] \in {"expired", "grace"} \/ outcome[r] = "timeout" => r \in Timed
        /\ cancel[r] = "no" => task[r] # "interrupted"
        /\ cancel[r] # "no" =>
            /\ task[r] \notin {"none", "pending"}
            /\ call[r] \notin {"pooled", "get", "expired"}
            /\ outcome[r] \in {"none", "timeout"}
        /\ call[r] = "grace" /\ Live(r) => cancel[r] = "soft"

(* The stages of handle_run, and what has been built, saved and sent at     *)
(* each of them.                                                            *)
AnswersFollowCalls ==
    \A r \in Requests :
        /\ response[r] # "none" => handler[r] \in {"saving", "saved", "answered"}
        /\ handler[r] \in {"saving", "saved"} => response[r] # "none"
        /\ reply[r] # "none" <=> handler[r] = "answered"
        /\ record[r] # "none" => handler[r] \in {"saved", "answered"}
        /\ handler[r] = "saved" => record[r] = response[r]
        /\ reply[r] \in Verdicts => reply[r] = response[r]
        /\ outcome[r] = "value" => value[r] = "result"
        /\ response[r] = "Timeout" => r \in Timed

(* The inductive core of the proofs: the stages of the coroutine, the pool  *)
(* call and the Ray task of a request agree, in every interleaving of the   *)
(* three.                                                                   *)
Coherence ==
    /\ WaitersAreQueued
    /\ CallsHaveSlots
    /\ TasksFollowCalls
    /\ CancelsFollowTimeouts
    /\ AnswersFollowCalls

(* Once handle_run has left the slot no attempt at the rollout begins, not   *)
(* even a retry of Ray's: the request's output directory, where the         *)
(* response is about to be saved, gets no second tenant.                    *)
NoLateAttempt ==
    [][\A r \in Requests :
        handler[r] # "executing" /\ Executing(r)' => Executing(r)]_vars

(* A request that fails is answered with an error response, unless saving   *)
(* it failed too.  The README promises a trajectory to every client of      *)
(* POST /run and the tests check that the call does not end in HTTP 500.    *)
FailuresAreReported ==
    \A r \in Requests : reply[r] = "http500" => record[r] = "partial"

-----------------------------------------------------------------------------
(* Liveness                                                                 *)

(* If fewer requests without a timeout are made than there are slots, each  *)
(* other request is answered even though rollouts may hang: timeouts and    *)
(* forced cancels alone keep slots and threads moving.                      *)
TimedRequestsAnswered ==
    Cardinality(Known \ Timed) < Concurrency =>
        \A r \in Requests \ (Known \ Timed) :
            handler[r] = "waiting" ~> handler[r] = "answered"

(* Its parts: what holds a slot, and what is first in the queue, is         *)
(* answered; whoever stands further back moves up.                          *)
CallIsAnswered(r) == handler[r] = "executing" ~> handler[r] = "answered"
IsFirst(r) == waiters # <<>> /\ r = Head(waiters)
FirstIsAnswered(r) == IsFirst(r) ~> handler[r] = "answered"
IsAt(r, k) == k \in 1 .. Len(waiters) /\ waiters[k] = r
MovesUp(r, k) == IsAt(r, k + 1) ~> IsAt(r, k)

(* What the loop and the threads wait for, spelled out, since the provers   *)
(* cannot look into ENABLED.                                                *)
LoopIsDue(r) ==
    \/ IsNext(r)
    \/ handler[r] = "executing" /\ call[r] = "done"
    \/ handler[r] \in {"saving", "saved"}

ThreadIsDue(r) ==
    \/ call[r] = "pooled" /\ Cardinality(BusyThreads) < Concurrency
    \/ call[r] = "get" /\ (r \in Timed \/ task[r] = "finished")
    \/ call[r] = "expired" /\ task[r] \in {"pending", "running", "finished"}
    \/ call[r] = "grace"

CanLoop(r) == ENABLED <<Loop(r)>>_vars
CanThread(r) == ENABLED <<Thread(r)>>_vars

DueIsEnabled ==
    \A r \in Requests : (LoopIsDue(r) => CanLoop(r)) /\ (ThreadIsDue(r) => CanThread(r))

-----------------------------------------------------------------------------
(* Refinement                                                               *)

PhaseOf(r) ==
    CASE handler[r] = "absent" -> "idle"
      [] handler[r] = "waiting" -> "queued"
      [] handler[r] = "executing" -> "running"
      [] handler[r] = "saving" -> "decided"
      [] handler[r] = "saved" -> "saved"
      [] handler[r] = "answered" -> IF reply[r] = "http500" THEN "dropped" ELSE "answered"

Service == INSTANCE RolloutService WITH
    phase <- [r \in Requests |-> PhaseOf(r)],
    verdict <- response,
    Slots <- Concurrency

(* The server implements the service promise: bounded slots, one verdict    *)
(* per request, saved before it is handed out, timeouts only where asked.   *)
RefinesService == Service!Spec
=============================================================================
