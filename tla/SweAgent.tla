------------------------------ MODULE SweAgent ------------------------------
(***************************************************************************)
(* harness/agents/swe: BaseAgent.run and the steps of its three agents.     *)
(* CodeAct calls tools, R2E-Gym one tool at a time or, as text, a function, *)
(* and mini-SWE-agent a command in a code block.  One pass of the loop is   *)
(* one step: ask the model, run what it asks for.                           *)
(***************************************************************************)
EXTENDS Conversation

VARIABLES
    finished,       \* self.finished
    exitStatus,     \* self.exit_status before the run ends
    failure         \* what the last step failed of

sweVars == <<finished, exitStatus, failure>>

SweTypeOK ==
    /\ finished \in BOOLEAN
    /\ exitStatus \in {"unknown", "max_length"}
    /\ failure \in {"none", "length", "rejected", "call", "empty", "tool"}

SweInit ==
    /\ finished = FALSE
    /\ exitStatus = "unknown"
    /\ failure = "none"

SweHistory == <<Says("system"), Says("task")>>

-----------------------------------------------------------------------------

(* Seeded fault: the last iteration is one too many.                        *)
SweIterateOnce ==
    /\ pc = "loop"
    /\ iterations <= MaxIterations
    /\ iterations' = iterations + 1
    /\ asked' = 0
    /\ Go("ask")
    /\ UNCHANGED <<agent, history, reply, turn, sweVars>>

SweIterate == Iterate("ask") /\ UNCHANGED <<history, sweVars>>

(* Seeded fault: the iterations are looked at before the agent's word.      *)
StatusByCount(f, s) ==
    IF iterations = MaxIterations THEN "max_iterations" ELSE IF f THEN "finished" ELSE s

(* The end of run() without an exception.                                   *)
SweStatus(f, s) ==
    IF f THEN "finished" ELSE IF iterations = MaxIterations THEN "max_iterations" ELSE s

SweExhausted ==
    /\ pc = "loop"
    /\ iterations = MaxIterations
    /\ End(SweStatus(finished, exitStatus))
    /\ UNCHANGED <<agent, history, iterations, reply, turn, asked, sweVars>>

(* The call fails: for the length of the history, because the request is    *)
(* rejected for anything else, or in another way.  Every BadRequestError is *)
(* taken for a refused length.  _step catches it and returns False.         *)
SweCallFails ==
    /\ Asked
    /\ \E f \in {"length", "rejected", "call"} :
        /\ failure' = f
        /\ exitStatus' = IF f = "call" THEN exitStatus ELSE "max_length"
        /\ End(SweStatus(finished, exitStatus'))
    /\ UNCHANGED <<agent, history, iterations, reply, turn, finished>>

(* A response without choices: _call_llm returns None, and _step trips.     *)
SweEmptyReply ==
    /\ Asked
    /\ failure' = "empty"
    /\ End("error")
    /\ UNCHANGED <<agent, history, iterations, reply, turn, finished, exitStatus>>

(* Seeded fault: a message without a tool call gets no continuation prompt. *)
NoContinuation(n) == <<Calls(n)>>

(* CodeAct appends the message at once; a message without a tool call gets  *)
(* the continuation prompt of run().                                        *)
CodeActMessage(n) == IF n = 0 THEN <<Calls(0), Says("user")>> ELSE <<Calls(n)>>

CodeActReply ==
    /\ agent = "codeact"
    /\ Asked
    /\ \E n \in 0 .. MaxCalls :
        /\ Add(CodeActMessage(n))
        /\ reply' = n
        /\ Go(IF n = 0 THEN "loop" ELSE "act")
    /\ turn' = 1
    /\ UNCHANGED <<agent, iterations, sweVars>>

(* Zero or several code blocks make a format error.                         *)
MiniReply ==
    /\ agent = "mini"
    /\ Asked
    /\ \/ Add(<<Says("assistant"), Says("user")>>) /\ Go("loop")
       \/ Add(<<Says("assistant")>>) /\ Go("act")
    /\ UNCHANGED <<agent, iterations, reply, turn, sweVars>>

(* R2E-Gym keeps the first call only, and appends nothing yet.              *)
R2eReply ==
    /\ agent \in {"r2e", "r2e_text"}
    /\ Asked
    /\ \E n \in 0 .. MaxCalls :
        /\ agent = "r2e_text" => n = 0
        /\ reply' = IF n = 0 THEN 0 ELSE 1
    /\ Go("act")
    /\ UNCHANGED <<agent, history, iterations, turn, sweVars>>

-----------------------------------------------------------------------------
(* Running what the model asked for                                         *)

(* A tool's output, and an error in parsing its arguments or name, are the  *)
(* answer to its call.                                                      *)
CodeActTool ==
    /\ agent = "codeact"
    /\ pc = "act"
    /\ Add(<<Answers(turn)>>)
    /\ turn' = turn + 1
    /\ Go(IF turn < reply THEN "act" ELSE "loop")
    /\ UNCHANGED <<agent, iterations, reply, asked, sweVars>>

(* FinishSignal: the calls that follow are dropped.                         *)
CodeActFinish ==
    /\ agent = "codeact"
    /\ pc = "act"
    /\ Add(<<Answers(turn)>>)
    /\ finished' = TRUE
    /\ End(SweStatus(TRUE, exitStatus))
    /\ UNCHANGED <<agent, iterations, reply, turn, asked, exitStatus, failure>>

MiniCommand ==
    /\ agent = "mini"
    /\ pc = "act"
    /\ Add(<<Says("user")>>)
    /\ Go("loop")
    /\ UNCHANGED <<agent, iterations, reply, turn, asked, sweVars>>

(* The output holds the finish signal; it is not appended.                  *)
MiniFinish ==
    /\ agent = "mini"
    /\ pc = "act"
    /\ finished' = TRUE
    /\ End(SweStatus(TRUE, exitStatus))
    /\ UNCHANGED <<agent, history, iterations, reply, turn, asked, exitStatus, failure>>

(* Seeded fault: a reply without a call gets an answer all the same.        *)
R2eExchangeAsTool == <<Calls(reply), Answers(1)>>

R2eExchange ==
    <<Calls(reply), IF reply = 0 THEN Says("user") ELSE Answers(1)>>

(* Every exception of the action is its output.                             *)
R2eAction ==
    /\ agent \in {"r2e", "r2e_text"}
    /\ pc = "act"
    /\ Add(R2eExchange)
    /\ Go("loop")
    /\ UNCHANGED <<agent, iterations, reply, turn, asked, sweVars>>

(* In function-calling mode only a call can finish.                         *)
R2eFinish ==
    /\ agent = "r2e_text" \/ (agent = "r2e" /\ reply = 1)
    /\ pc = "act"
    /\ Add(R2eExchange)
    /\ finished' = TRUE
    /\ End(SweStatus(TRUE, exitStatus))
    /\ UNCHANGED <<agent, iterations, reply, turn, asked, exitStatus, failure>>

(* An exception that the step lets through: a tool that is given arguments  *)
(* it does not take, an environment that is gone.                           *)
SweToolRaises ==
    /\ agent \in {"codeact", "mini"}
    /\ pc = "act"
    /\ failure' = "tool"
    /\ End("error")
    /\ UNCHANGED <<agent, history, iterations, reply, turn, asked, finished, exitStatus>>

(* get_git_diff runs after the loop, outside its try: run() raises.         *)
SweDiffRaises ==
    /\ pc = "done"
    /\ result # "raised"
    /\ result' = "raised"
    /\ UNCHANGED <<agent, history, pc, iterations, reply, turn, asked, sweVars>>

SweNext ==
    /\ agent \in SweAgents
    /\ \/ SweIterate \/ SweExhausted \/ SweCallFails \/ SweEmptyReply
       \/ CodeActReply \/ CodeActTool \/ CodeActFinish
       \/ MiniReply \/ MiniCommand \/ MiniFinish
       \/ R2eReply \/ R2eAction \/ R2eFinish
       \/ SweToolRaises \/ SweDiffRaises
=============================================================================
