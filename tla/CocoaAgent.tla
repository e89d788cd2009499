----------------------------- MODULE CocoaAgent -----------------------------
(***************************************************************************)
(* TaskExecutor.run_task of envs/cocoa_env, and the controllers it asks     *)
(* (harness/agents/cocoa/controller.py): OpenAILLM, which GLM and Kimi      *)
(* inherit from, QwenLLM, which reads its calls from the text, ClaudeLLM    *)
(* and GeminiLLM.  call() retries a call that fails; inside it, a reply     *)
(* that does not parse is corrected by further calls, whose count starts    *)
(* from that of the attempt.  Screenshots go with the prompts.              *)
(***************************************************************************)
EXTENDS Conversation

CONSTANTS
    MaxParseRetries,
    CleansUp        \* cleanup_old_user_images

ASSUME RetriesAssumption == MaxParseRetries \in Nat \ {0}
ASSUME CleansUpAssumption == CleansUp \in BOOLEAN

VARIABLES
    attempt,        \* attempt of call()
    depth,          \* attempt of _handle_api_response
    images,         \* the messages with images
    given,          \* the completing action carried a result
    taskResult      \* task_result is in the result

cocoaVars == <<attempt, depth, images, given, taskResult>>

CocoaTypeOK ==
    /\ attempt \in 1 .. MaxParseRetries
    /\ depth \in 1 .. MaxParseRetries
    /\ images \subseteq Nat
    /\ given \in BOOLEAN
    /\ taskResult \in BOOLEAN

CocoaInit ==
    /\ attempt = 1
    /\ depth = 1
    /\ images = {}
    /\ given = FALSE
    /\ taskResult = FALSE

-----------------------------------------------------------------------------

(* The prompt carries the images of the iteration before it, if any.        *)
CocoaIterate ==
    /\ Iterate("ask")
    /\ Add(<<Says(IF iterations = 0 THEN "task" ELSE "user")>>)
    /\ images' = images \/ (iterations > 0 /\ images' = images \cup {Len(history) + 1})
    /\ attempt' = 1
    /\ depth' = 1
    /\ UNCHANGED <<given, taskResult>>

(* A run that completed nothing is a success like any other.                *)
CocoaExhausted ==
    /\ pc = "loop"
    /\ iterations = MaxIterations
    /\ End("success")
    /\ UNCHANGED <<agent, history, iterations, reply, turn, asked, cocoaVars>>

(* Seeded fault: corrections do not count.                                  *)
DepthOnce == depth' = depth

Deepen == depth' = depth + 1

Users(h) == {i \in 1 .. Len(h) : h[i].role \in {"task", "user"}}

(* Seeded fault: the images of the latest message go, the others stay.      *)
TidyLatest(h) == {i \in images : \E j \in Users(h) : i < j}

(* _cleanup_old_user_message_images: only the user's last message keeps its *)
(* images.                                                                  *)
Tidy(h) == {i \in images : \A j \in Users(h) : j <= i}

(* call() returns an action, h being the messages by then.                  *)
PutAway(h) == images' = IF CleansUp THEN Tidy(h) ELSE images

(* A correction is appended and the model asked again, unless the attempts  *)
(* are used up.                                                             *)
Correct(s) ==
    depth < MaxParseRetries /\ Deepen /\ Add(Append(s, Says("user"))) /\ UNCHANGED <<pc, result, images>>

(* Out of attempts, the error becomes the next prompt of run_task.          *)
GiveUp(s) ==
    depth = MaxParseRetries /\ Add(s) /\ PutAway(history \o s) /\ Go("loop") /\ UNCHANGED depth

(* call() catches an exception: it sleeps and asks again, or raises.        *)
Retry ==
    IF attempt < MaxParseRetries
    THEN attempt' = attempt + 1 /\ depth' = attempt + 1 /\ UNCHANGED <<pc, result>>
    ELSE End("raised") /\ UNCHANGED <<attempt, depth>>

CocoaCallFails ==
    /\ Asked
    /\ Retry
    /\ UNCHANGED <<agent, history, iterations, reply, turn, images, given, taskResult>>

(* A client error other than 429 is not retried.                            *)
CocoaRefused ==
    /\ Asked
    /\ End("raised")
    /\ UNCHANGED <<agent, history, iterations, reply, turn, cocoaVars>>

(* A text that is a JSON object is an action without a call.                *)
CocoaText ==
    /\ Asked
    /\ Add(<<Says("assistant")>>)
    /\ PutAway(history \o <<Says("assistant")>>)
    /\ reply' = 0
    /\ turn' = 1
    /\ Go("act")
    /\ UNCHANGED <<agent, iterations, attempt, depth, given, taskResult>>

CocoaTextCorrected ==
    /\ Asked
    /\ Correct(<<Says("assistant")>>)
    /\ UNCHANGED <<agent, iterations, reply, turn, attempt, given, taskResult>>

(* No JSON and no attempts left, or JSON that is no object: an exception,   *)
(* and the message stays the last of the history.                           *)
CocoaTextRaises ==
    /\ Asked
    /\ Add(<<Says("assistant")>>)
    /\ Retry
    /\ UNCHANGED <<agent, iterations, reply, turn, images, given, taskResult>>

(* OpenAI: a call whose arguments are no object is not kept, only the text. *)
CocoaMalformedCalls ==
    /\ agent = "openai"
    /\ Asked
    /\ \E s \in {<<>>, <<Says("assistant")>>} : Correct(s) \/ GiveUp(s)
    /\ UNCHANGED <<agent, iterations, reply, turn, attempt, given, taskResult>>

(* Seeded fault: no answers to calls that do not parse.                     *)
CallsOnly(n) == <<UnreadCalls(n)>>

(* A tool or a parameter that does not exist: OpenAILLM answers each call   *)
(* with the error, the others do not.  QwenLLM's calls are text.            *)
Misread(n) ==
    IF agent = "qwen" THEN <<Says("assistant")>>
    ELSE <<UnreadCalls(n)>> \o (IF agent = "openai" THEN [k \in 1 .. n |-> Answers(k)] ELSE <<>>)

CocoaUnknownCalls ==
    /\ Asked
    /\ \E n \in 1 .. MaxCalls : Correct(Misread(n)) \/ GiveUp(Misread(n))
    /\ UNCHANGED <<agent, iterations, reply, turn, attempt, given, taskResult>>

Spoken(n) == IF agent = "qwen" THEN Says("assistant") ELSE Calls(n)

CocoaCalls ==
    /\ Asked
    /\ \E n \in 1 .. MaxCalls :
        /\ Add(<<Spoken(n)>>)
        /\ PutAway(history \o <<Spoken(n)>>)
        /\ reply' = n
    /\ turn' = 1
    /\ Go("act")
    /\ UNCHANGED <<agent, iterations, attempt, depth, given, taskResult>>

-----------------------------------------------------------------------------
(* get_feedback makes an exception of an action its feedback.               *)

(* add_tool_message: QwenLLM's calls have no id to answer, and GeminiLLM    *)
(* puts the result into the model's mouth.                                  *)
Feedback ==
    IF reply = 0 \/ agent = "qwen" THEN <<>>
    ELSE <<IF agent = "gemini" THEN Says("assistant") ELSE Answers(turn)>>

CocoaAction ==
    /\ pc = "act"
    /\ Add(Feedback)
    /\ turn' = turn + 1
    /\ Go(IF turn < reply THEN "act" ELSE "loop")
    /\ UNCHANGED <<agent, iterations, reply, asked, cocoaVars>>

(* task_complete: the calls that follow are dropped.  The feedback combined *)
(* from several calls has no room for the result of the task.               *)
CocoaComplete ==
    /\ pc = "act"
    /\ Add(Feedback)
    /\ given' \in BOOLEAN
    /\ taskResult' = (given' /\ reply <= 1)
    /\ End("success")
    /\ UNCHANGED <<agent, iterations, reply, turn, asked, attempt, depth, images>>

(* The sandbox cannot be reached: get_feedback looks before its try, and    *)
(* run_task lets the exception through.                                     *)
CocoaSandboxRaises ==
    /\ pc = "act"
    /\ End("raised")
    /\ UNCHANGED <<agent, history, iterations, reply, turn, asked, cocoaVars>>

CocoaNext ==
    /\ agent \in CocoaAgents
    /\ \/ CocoaIterate \/ CocoaExhausted \/ CocoaCallFails \/ CocoaRefused
       \/ CocoaText \/ CocoaTextCorrected \/ CocoaTextRaises
       \/ CocoaMalformedCalls \/ CocoaUnknownCalls \/ CocoaCalls
       \/ CocoaAction \/ CocoaComplete \/ CocoaSandboxRaises
=============================================================================
