----------------------------- MODULE LocalRunner -----------------------------
(***************************************************************************)
(* `nro run`: core/local.py runs a batch of requests, each in a child       *)
(* process that leaves its outcome in a queue of capacity one.  One parent  *)
(* thread fills the free slots, then polls the children in turn.  Children  *)
(* put, exit, crash or hang while the parent is between any two of its      *)
(* system calls; the parent's steps below are cut at those calls.           *)
(* _run_many and _run_many_with_progress are the same loop; waiting for     *)
(* poll_interval and drawing the table change nothing and are left out.     *)
(***************************************************************************)
EXTENDS Naturals, Sequences, FiniteSets

CONSTANTS
    Batch,          \* the requests given to run_many, in order
    Timed,          \* requests with a task_timeout_s
    Concurrency     \* LocalProcessRunner.concurrency

Requests == {Batch[i] : i \in DOMAIN Batch}

ASSUME LocalAssumption ==
    /\ Batch \in Seq(Requests)
    /\ \A i, j \in DOMAIN Batch : Batch[i] = Batch[j] => i = j
    /\ Timed \subseteq Requests
    /\ Concurrency \in Nat \ {0}

VARIABLES
    pc,             \* where the parent is
    pending,        \* requests not started
    active,         \* started and not answered, the list `active`
    todo,           \* what is left of list(active) in the loop under way;
                    \* in "register", the request _start is working on
    payload,        \* what the parent took from the queue of Head(todo)
    responses,      \* the list run_many returns
    response,       \* the RunResponse built for a request
    record,         \* what {instance_id}.json holds
    proc,           \* the child process of a request
    queue,          \* its result queue
    expired         \* time.time() - started > task_timeout_s

parentVars == <<pc, pending, active, todo, payload>>
answerVars == <<responses, response, record>>
childVars == <<proc, queue, expired>>
vars == <<parentVars, answerVars, childVars>>

-----------------------------------------------------------------------------

Payloads == {"result", "failure", "blank"}
Responses == {"Result", "Error", "NoResult", "Timeout"}

(* "register" is after process.start() and before active.append; "check",   *)
(* "last" and "join" are the calls inside _poll after the first get_nowait: *)
(* is_alive, get(timeout=0.1), and process.join.  "receive" is inside a get *)
(* that found the beginning of a message.                                   *)
LoopStates == {"fill", "register", "poll", "check", "last", "receive", "join", "save"}

TypeOK ==
    /\ pc \in LoopStates \cup {"abort", "returned", "raised"}
    /\ pending \in Seq(Requests)
    /\ active \in Seq(Requests)
    /\ todo \in Seq(Requests)
    /\ payload \in Payloads \cup {"none"}
    /\ responses \in Seq(Requests)
    /\ response \in [Requests -> Responses \cup {"none"}]
    /\ record \in [Requests -> Responses \cup {"none", "partial"}]
    /\ proc \in [Requests -> {"none", "running", "exiting", "dead"}]
    /\ queue \in [Requests -> Payloads \cup {"none", "partial"}]
    /\ expired \in [Requests -> BOOLEAN]

Init ==
    /\ pc = "fill"
    /\ pending = Batch
    /\ active = <<>>
    /\ todo = <<>>
    /\ payload = "none"
    /\ responses = <<>>
    /\ response = [r \in Requests |-> "none"]
    /\ record = [r \in Requests |-> "none"]
    /\ proc = [r \in Requests |-> "none"]
    /\ queue = [r \in Requests |-> "none"]
    /\ expired = [r \in Requests |-> FALSE]

Alive(r) == proc[r] \in {"running", "exiting"}

(* list.remove: r is on the list, once.                                     *)
Without(s, r) ==
    LET at == CHOOSE i \in 1 .. Len(s) : s[i] = r
    IN  [i \in 1 .. Len(s) - 1 |-> IF i < at THEN s[i] ELSE s[i + 1]]

Current == Head(todo)

-----------------------------------------------------------------------------
(* The parent: filling the slots                                            *)

(* Seeded fault: one child too many.                                        *)
HasRoomOffByOne == pending # <<>> /\ Len(active) <= Concurrency

HasRoom == pending # <<>> /\ Len(active) < Concurrency

(* pending.pop(0) and _start up to process.start().                         *)
Fork ==
    /\ pc = "fill"
    /\ HasRoom
    /\ pc' = "register"
    /\ pending' = Tail(pending)
    /\ todo' = <<Head(pending)>>
    /\ proc' = [proc EXCEPT ![Head(pending)] = "running"]
    /\ UNCHANGED <<active, payload, answerVars, queue, expired>>

(* The rest of _start, and active.append.                                   *)
Register ==
    /\ pc = "register"
    /\ pc' = "fill"
    /\ active' = Append(active, Current)
    /\ todo' = <<>>
    /\ UNCHANGED <<pending, payload, answerVars, childVars>>

(* _start raises: no runner of that name, or the process cannot be forked.  *)
(* The request is off the list, the others are on it or running.            *)
StartRaises ==
    /\ pc = "fill"
    /\ HasRoom
    /\ pending' = Tail(pending)
    /\ pc' = "abort"
    /\ todo' = active
    /\ UNCHANGED <<active, payload, answerVars, childVars>>

BeginPass ==
    /\ pc = "fill"
    /\ ~HasRoom
    /\ active # <<>>
    /\ pc' = "poll"
    /\ todo' = active
    /\ UNCHANGED <<pending, active, payload, answerVars, childVars>>

Return ==
    /\ pc = "fill"
    /\ pending = <<>>
    /\ active = <<>>
    /\ pc' = "returned"
    /\ UNCHANGED <<pending, active, todo, payload, answerVars, childVars>>

-----------------------------------------------------------------------------
(* The parent: _poll                                                        *)

Respond(r, s) ==
    /\ response' = [response EXCEPT ![r] = s]
    /\ pc' = "save"
    /\ payload' = "none"
    /\ UNCHANGED <<pending, active, todo, responses, record>>

(* Seeded fault: the clock is not looked at.                                *)
PollTimeoutNever == FALSE /\ UNCHANGED vars

(* The clock is looked at before the queue: an answer already there is      *)
(* dropped.  _terminate comes back only when the child is dead.             *)
PollTimeout ==
    /\ pc = "poll"
    /\ todo # <<>>
    /\ expired[Current]
    /\ proc' = [proc EXCEPT ![Current] = "dead"]
    /\ Respond(Current, "Timeout")
    /\ UNCHANGED <<queue, expired>>

PollTakes ==
    /\ pc = "poll"
    /\ todo # <<>>
    /\ ~expired[Current]
    /\ queue[Current] \in Payloads
    /\ payload' = queue[Current]
    /\ queue' = [queue EXCEPT ![Current] = "none"]
    /\ pc' = "join"
    /\ UNCHANGED <<pending, active, todo, answerVars, proc, expired>>

PollEmpty ==
    /\ pc = "poll"
    /\ todo # <<>>
    /\ ~expired[Current]
    /\ queue[Current] = "none"
    /\ pc' = "check"
    /\ UNCHANGED <<pending, active, todo, payload, answerVars, childVars>>

(* A get that finds the beginning of a message waits for its end, whatever  *)
(* its timeout: the parent holds the writing end of the pipe too, so the    *)
(* end may never come, nor an error, when the child dies.                   *)
GetWaits ==
    /\ (pc = "poll" /\ todo # <<>> /\ ~expired[Current]) \/ pc = "last"
    /\ queue[Current] = "partial"
    /\ pc' = "receive"
    /\ UNCHANGED <<pending, active, todo, payload, answerVars, childVars>>

GetEnds ==
    /\ pc = "receive"
    /\ queue[Current] \in Payloads
    /\ payload' = queue[Current]
    /\ queue' = [queue EXCEPT ![Current] = "none"]
    /\ pc' = "join"
    /\ UNCHANGED <<pending, active, todo, answerVars, proc, expired>>

CheckAlive ==
    /\ pc = "check"
    /\ Alive(Current)
    /\ pc' = "poll"
    /\ todo' = Tail(todo)
    /\ UNCHANGED <<pending, active, payload, answerVars, childVars>>

CheckDead ==
    /\ pc = "check"
    /\ ~Alive(Current)
    /\ pc' = "last"
    /\ UNCHANGED <<pending, active, todo, payload, answerVars, childVars>>

(* Seeded fault: a dead child is taken to have left nothing.                *)
LastGetSkipped ==
    /\ pc = "last"
    /\ Respond(Current, "NoResult")
    /\ UNCHANGED childVars

(* The child may have put its outcome and died since get_nowait.            *)
LastGetTakes ==
    /\ pc = "last"
    /\ queue[Current] \in Payloads
    /\ payload' = queue[Current]
    /\ queue' = [queue EXCEPT ![Current] = "none"]
    /\ pc' = "join"
    /\ UNCHANGED <<pending, active, todo, answerVars, proc, expired>>

LastGetEmpty ==
    /\ pc = "last"
    /\ queue[Current] = "none"
    /\ Respond(Current, "NoResult")
    /\ UNCHANGED childVars

(* Seeded faults: a failure is reported as a timeout; the payload is handed *)
(* on in place of a response.                                               *)
ResponseOfAsTimeout(p) == IF p = "failure" THEN "Timeout" ELSE "Result"
ResponseOfPayload(p) == IF p = "failure" THEN "Error" ELSE p

(* An error that is the empty string is not an error to payload.get("error"), *)
(* and payload.get("result") is then None, which becomes "Completed".       *)
ResponseOf(p) == IF p = "failure" THEN "Error" ELSE "Result"

(* process.join() has no timeout.                                           *)
Join ==
    /\ pc = "join"
    /\ ~Alive(Current)
    /\ Respond(Current, ResponseOf(payload))
    /\ UNCHANGED childVars

-----------------------------------------------------------------------------
(* The parent: saving, and leaving the loop                                 *)

Save ==
    /\ pc = "save"
    /\ active' = Without(active, Current)
    /\ record' = [record EXCEPT ![Current] = response[Current]]
    /\ responses' = Append(responses, Current)
    /\ todo' = Tail(todo)
    /\ pc' = "poll"
    /\ UNCHANGED <<pending, payload, response, childVars>>

(* Seeded fault: the response is listed before it is saved.                 *)
SaveRaisesListed ==
    /\ pc = "save"
    /\ active' = Without(active, Current)
    /\ record' = [record EXCEPT ![Current] = "partial"]
    /\ responses' = Append(responses, Current)
    /\ todo' = Tail(todo)
    /\ pc' = "poll"
    /\ UNCHANGED <<pending, payload, response, childVars>>

SaveRaises ==
    /\ pc = "save"
    /\ active' = Without(active, Current)
    /\ record' = [record EXCEPT ![Current] = "partial"]
    /\ todo' = active'
    /\ pc' = "abort"
    /\ UNCHANGED <<pending, payload, responses, response, childVars>>

EndPass ==
    /\ pc = "poll"
    /\ todo = <<>>
    /\ pc' = "fill"
    /\ UNCHANGED <<pending, active, todo, payload, answerVars, childVars>>

(* Ctrl-C, or any other exception raised inside the try statement.  One that *)
(* strikes between process.start() and active.append leaves a child that is *)
(* on no list; a second Ctrl-C, in the finally clause, is not modelled.     *)
Interrupt ==
    /\ pc \in LoopStates
    /\ pc' = "abort"
    /\ todo' = active
    /\ UNCHANGED <<pending, active, payload, answerVars, childVars>>

(* Seeded fault: the finally clause only stops the first child.             *)
AbortFirstOnly ==
    /\ pc = "abort"
    /\ todo # <<>>
    /\ proc' = [proc EXCEPT ![Current] = "dead"]
    /\ todo' = <<>>
    /\ UNCHANGED <<pc, pending, active, payload, answerVars, queue, expired>>

(* The finally clause: each child still alive is terminated and joined,     *)
(* while the later ones go on.                                              *)
AbortNext ==
    /\ pc = "abort"
    /\ todo # <<>>
    /\ proc' = [proc EXCEPT ![Current] = "dead"]
    /\ todo' = Tail(todo)
    /\ UNCHANGED <<pc, pending, active, payload, answerVars, queue, expired>>

Raise ==
    /\ pc = "abort"
    /\ todo = <<>>
    /\ pc' = "raised"
    /\ UNCHANGED <<pending, active, todo, payload, answerVars, childVars>>

Ended == pc \in {"returned", "raised"} /\ UNCHANGED vars

-----------------------------------------------------------------------------
(* The children                                                             *)

(* A long message is in the pipe in part before it is there whole.          *)
ChildWrites(r) ==
    /\ proc[r] = "running"
    /\ queue[r] = "none"
    /\ queue' = [queue EXCEPT ![r] = "partial"]
    /\ UNCHANGED <<parentVars, answerVars, proc, expired>>

ChildPuts(r) ==
    /\ proc[r] = "running"
    /\ proc' = [proc EXCEPT ![r] = "exiting"]
    /\ \E p \in Payloads : queue' = [queue EXCEPT ![r] = p]
    /\ UNCHANGED <<parentVars, answerVars, expired>>

ChildExits(r) ==
    /\ proc[r] = "exiting"
    /\ proc' = [proc EXCEPT ![r] = "dead"]
    /\ UNCHANGED <<parentVars, answerVars, queue, expired>>

(* Killed, or ended by something that is not an Exception, before the put   *)
(* or in the middle of it.                                                  *)
ChildCrashes(r) ==
    /\ proc[r] = "running"
    /\ proc' = [proc EXCEPT ![r] = "dead"]
    /\ UNCHANGED <<parentVars, answerVars, queue, expired>>

TimePasses(r) ==
    /\ r \in Timed
    /\ \E i \in 1 .. Len(active) : active[i] = r
    /\ ~expired[r]
    /\ expired' = [expired EXCEPT ![r] = TRUE]
    /\ UNCHANGED <<parentVars, answerVars, proc, queue>>

-----------------------------------------------------------------------------

Parent ==
    \/ Fork \/ Register \/ StartRaises \/ BeginPass \/ Return
    \/ PollTimeout \/ PollTakes \/ PollEmpty \/ GetWaits \/ GetEnds
    \/ CheckAlive \/ CheckDead \/ LastGetTakes \/ LastGetEmpty \/ Join
    \/ Save \/ SaveRaises \/ EndPass \/ AbortNext \/ Raise

Child(r) == ChildWrites(r) \/ ChildPuts(r) \/ ChildExits(r) \/ ChildCrashes(r)

Next ==
    \/ Parent \/ Interrupt \/ Ended
    \/ \E r \in Requests : Child(r) \/ TimePasses(r)

Spec == Init /\ [][Next]_vars

(* The parent runs and time passes; a child may run for ever, before it     *)
(* delivers its outcome or after.                                           *)
Fairness ==
    /\ WF_vars(Parent)
    /\ \A r \in Requests : WF_vars(TimePasses(r))

FairSpec == Spec /\ Fairness

-----------------------------------------------------------------------------
(* Safety                                                                   *)

(* Unlike the server, the local runner never owns more processes than it    *)
(* has slots: every way of answering a request waits for its child to die.  *)
LiveChildrenBounded == Cardinality({r \in Requests : Alive(r)}) <= Concurrency

(* However run_many ends, by returning, by an exception or by Ctrl-C, it    *)
(* leaves no child process behind, but for the one a Ctrl-C kept it from    *)
(* putting on its list.                                                     *)
NoListedChildLeftBehind ==
    pc \in {"returned", "raised"} =>
        LET left == {r \in Requests : Alive(r)}
        IN  /\ Cardinality(left) <= 1
            /\ pc = "returned" => left = {}
            /\ \A r \in left : response[r] = "none" /\ \A i \in 1 .. Len(active) : active[i] # r

(* run_many returns one response for each request of the batch, the one it  *)
(* built, and each of them is on disk, whole.                               *)
ReturnedBatchIsComplete ==
    pc = "returned" =>
        /\ Len(responses) = Len(Batch)
        /\ \A r \in Requests :
            /\ \E i \in 1 .. Len(responses) : responses[i] = r
            /\ record[r] = response[r] /\ response[r] # "none"

(* "exited without a result" is said only of a child that left none: the    *)
(* outcome of a child that puts and dies between get_nowait and is_alive is *)
(* not overlooked.                                                          *)
NoOutcomeOverlooked ==
    \A r \in Requests : response[r] = "NoResult" => queue[r] = "none"

(* A request is on at most one of the two lists, at most once, and what the *)
(* polling loop still has to look at is on the list of active ones.         *)
ListsAreDisjoint ==
    /\ \A i, j \in 1 .. Len(active) : active[i] = active[j] => i = j
    /\ \A i \in 1 .. Len(active) : \A j \in 1 .. Len(pending) : active[i] # pending[j]
    /\ pc \in LoopStates \ {"register"} =>
        \A i \in 1 .. Len(todo) : \E j \in 1 .. Len(active) : active[j] = todo[i]

-----------------------------------------------------------------------------
(* Liveness                                                                 *)

(* The batch ends although children with a timeout may hang for ever, if    *)
(* those without one do not, with two exceptions, where nobody looks at the *)
(* clock any more: a child that delivered its outcome and does not exit (a  *)
(* thread left running) is waited for in process.join(), and one that hangs *)
(* or died in the middle of its message in a get.                           *)
BatchEnds ==
    (\A r \in Requests \ Timed : []<>(proc[r] # "running")) =>
        \/ <>(pc \in {"returned", "raised"})
        \/ <>[](pc = "join" /\ proc[Current] = "exiting")
        \/ <>[](pc = "receive" /\ proc[Current] # "exiting" /\ queue[Current] = "partial")

-----------------------------------------------------------------------------
(* Refinement                                                               *)

PhaseOf(r) ==
    IF record[r] \in Responses
    THEN IF pc = "returned" THEN "answered" ELSE "saved"
    ELSE IF pc = "raised" THEN "dropped"
    ELSE IF response[r] # "none" THEN "decided"
    ELSE IF proc[r] # "none" THEN "running"
    ELSE "queued"

VerdictOf(r) == IF response[r] = "NoResult" THEN "Error" ELSE response[r]

Service == INSTANCE RolloutService WITH
    phase <- [r \in Requests |-> PhaseOf(r)],
    verdict <- [r \in Requests |-> VerdictOf(r)],
    Slots <- Concurrency

(* The local runner implements the same promise as the server.              *)
RefinesService == Service!Spec
=============================================================================
