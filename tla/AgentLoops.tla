----------------------------- MODULE AgentLoops -----------------------------
(***************************************************************************)
(* harness/agents: one run of one agent, whichever it is, against a model   *)
(* that answers, answers badly, refuses or fails at every call.             *)
(***************************************************************************)
EXTENDS SweAgent, TerminusAgent, CocoaAgent, OsworldAgent

vars == <<talkVars, sweVars, terminusVars, cocoaVars, osworldVars>>

Init ==
    /\ agent \in Agents
    /\ TalkInit(IF agent \in SweAgents THEN SweHistory ELSE <<>>)
    /\ SweInit
    /\ TerminusInit
    /\ CocoaInit
    /\ OsworldInit

Next ==
    \/ SweNext /\ UNCHANGED <<terminusVars, cocoaVars, osworldVars>>
    \/ TerminusNext /\ UNCHANGED <<sweVars, cocoaVars, osworldVars>>
    \/ CocoaNext /\ UNCHANGED <<sweVars, terminusVars, osworldVars>>
    \/ OsworldNext /\ UNCHANGED <<sweVars, terminusVars, cocoaVars>>
    \/ pc = "done" /\ UNCHANGED vars

Spec == Init /\ [][Next]_vars

-----------------------------------------------------------------------------

(* Every variable has its type; the iterations stay within their number.    *)
TypeOK == TalkTypeOK /\ SweTypeOK /\ TerminusTypeOK /\ CocoaTypeOK /\ OsworldTypeOK

(* ClaudeLLM leaves the calls it cannot read without an answer, GeminiLLM   *)
(* answers none as the interface of functions would have it.                *)
Unread(h, i) == agent = "gemini" \/ (agent = "claude" /\ ~h[i].read)

(* A reply that was no action stays the last message when call() asks again.*)
AsksAgain == agent \in CocoaAgents /\ attempt > 1

(* Whenever a model is asked, the history it is sent is one its interface   *)
(* takes: each call is answered once, in order and right after it, each     *)
(* result is that of a call, the task is still in it, whatever was cut or   *)
(* taken back, and the model does not have the last word.                   *)
HistoryIsWellFormed ==
    pc = "ask" =>
        /\ \A i \in 1 .. Len(history) :
            /\ IsAddressed(history, i)
            /\ IsAnswered(history, i) \/ Unread(history, i)
        /\ HasTask(history)
        /\ history[Len(history)].role # "assistant" \/ AsksAgain

(* What the status of a SWE run tells.  "max_length" does not mean that the *)
(* history was too long: the request was rejected, for its length or for    *)
(* anything else.  A call that failed in the last iteration goes by the     *)
(* name of the iterations.                                                  *)
SweOutcome ==
    /\ result = "finished" <=> finished
    /\ result = "max_length" => failure \in {"length", "rejected"} /\ iterations < MaxIterations
    /\ result = "unknown" => failure = "call" /\ iterations < MaxIterations
    /\ result = "error" => failure \in {"empty", "tool"}
    /\ result = "max_iterations" =>
        iterations = MaxIterations /\ failure \in {"none", "length", "rejected", "call"}

(* An outcome is never better than the run it ends: a SWE agent is reported *)
(* as finished if it said so, and never as out of iterations when it had    *)
(* some left; a terminal task is complete only after a confirmation was     *)
(* due; and a result is handed over when the only action of the last        *)
(* message gave one.                                                        *)
OutcomesAreEarned ==
    /\ agent \in SweAgents /\ pc = "done" /\ result # "raised" => SweOutcome
    /\ agent = "terminus" /\ result = "finished" => confirmation # "no"
    /\ agent \in CocoaAgents => (taskResult <=> given /\ reply <= 1)
    /\ agent = "osworld" => (result = "finished" => finishing)

(* The attempts of call() and the corrections inside each of them.          *)
NestedRetries == (MaxParseRetries * (MaxParseRetries + 1)) \div 2

(* The calls of one iteration are bounded, although retries nest: one for a *)
(* SWE agent, five for one of a desktop, and each attempt of a CocoaBench   *)
(* one with its corrections.  A terminal agent tries each of three parts of *)
(* an answer three times, and all that again after the history was cut back;*)
(* a summary before takes three calls more, and one between them four.      *)
CallsAreBounded ==
    asked <= IF agent \in SweAgents THEN 1
             ELSE IF agent = "terminus" THEN 2 * (3 * 3) + 3 + 4
             ELSE IF agent = "osworld" THEN MAX_RETRY_TIMES
             ELSE NestedRetries

(* Without old images kept on purpose, those of one message are left when   *)
(* an action is taken, and a call sends those of two at most, of its prompt *)
(* and of the one before it, whatever corrections and failures came         *)
(* between: they do not pile up.                                            *)
ImagesDoNotPileUp ==
    CleansUp =>
        /\ pc \in {"loop", "act"} => \A i, j \in images : i = j
        /\ pc = "ask" => \A i, j, k \in images : i = j \/ j = k \/ i = k

(* "Only the current iteration's images should be included in the API       *)
(* call" (controller.py, _cleanup_old_user_message_images).                 *)
OnlyCurrentImages ==
    CleansUp /\ pc = "ask" => \A i, j \in images : i = j
=============================================================================
