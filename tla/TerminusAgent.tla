--------------------------- MODULE TerminusAgent ---------------------------
(***************************************************************************)
(* harness/agents/terminal/terminus2.py: the loop that types what a model   *)
(* says into a terminal.  A task is complete when the model says so twice,  *)
(* the second time to a request for confirmation.  When the history grows   *)
(* too long for the model it is cut back and summarised, in the last resort *)
(* to its first message.                                                    *)
(***************************************************************************)
EXTENDS Conversation

VARIABLES
    prompt,         \* what the next message to the model is about
    pending,        \* self._pending_completion
    chunks,         \* _output_length_retries of the call under way
    retries,        \* failed attempts at the completion under way
    briefs,         \* calls made for the summary under way
    fallback,       \* the call is the one after the history was cut back
    answer,         \* what the model's reply parses to
    confirmation    \* "asked" of the model, "lost" before it was, or "no"

terminusVars == <<prompt, pending, chunks, retries, briefs, fallback, answer, confirmation>>

Prompts == {"task", "output", "fix", "confirm", "handoff", "brief"}

(* The calls of _summarize: a summary, questions to it, and their answers.  *)
SummaryCalls == 3

TerminusTypeOK ==
    /\ prompt \in Prompts
    /\ pending \in BOOLEAN
    /\ chunks \in 0 .. 2
    /\ retries \in 0 .. 2
    /\ briefs \in 0 .. SummaryCalls + 1
    /\ fallback \in BOOLEAN
    /\ answer \in {"error", "complete", "work"}
    /\ confirmation \in {"no", "asked", "lost"}

TerminusInit ==
    /\ prompt = "task"
    /\ pending = FALSE
    /\ chunks = 0
    /\ retries = 0
    /\ briefs = 0
    /\ fallback = FALSE
    /\ answer = "work"
    /\ confirmation = "no"

-----------------------------------------------------------------------------

(* The brief prompts of the last resorts repeat the task.                   *)
Worded(p) == Says(IF p \in {"task", "brief"} THEN "task" ELSE "user")

Popped == SubSeq(history, 1, Len(history) - 1)

(* _call_llm appends the prompt before it asks.                             *)
Send(p, h) ==
    /\ history' = Append(h, Worded(p))
    /\ pc' = "ask"
    /\ confirmation' = IF p = "confirm" THEN "asked" ELSE confirmation
    /\ UNCHANGED result

(* The counts of a call of _call_llm begin anew.                            *)
CallAnew(f) == chunks' = 0 /\ retries' = 0 /\ briefs' = 0 /\ fallback' = f

(* What _unwind_messages_to_free_tokens may leave of h: pairs go from its   *)
(* end while there are three messages.                                      *)
Unwound(h) ==
    {h} \cup {SubSeq(h, 1, n) : n \in {m \in 1 .. Len(h) : m % 2 = Len(h) % 2}}

(* Seeded fault: a summary replaces the whole history.                      *)
SummaryOnly(h) == <<Says("user"), Says("assistant")>>

(* What _summarize leaves of h.                                             *)
Summary(h) == <<h[1], Says("user"), Says("assistant")>>

(* The prompt that was to be sent gives way to another.                     *)
Displace(p) ==
    /\ prompt' = p
    /\ confirmation' = IF prompt = "confirm" THEN "lost" ELSE confirmation

-----------------------------------------------------------------------------
(* The top of the loop                                                      *)

TerminusIterate ==
    /\ Iterate("check")
    /\ UNCHANGED <<history, terminusVars>>

(* The iterations or the time are up, or the terminal session is over.      *)
TerminusStops ==
    /\ pc \in {"loop", "check"}
    /\ End("stopped")
    /\ UNCHANGED <<agent, history, iterations, reply, turn, asked, terminusVars>>

(* _summarize asks three sub-agents, one after the other.                   *)
TerminusBriefs ==
    /\ pc \in {"check", "shrink"}
    /\ briefs < SummaryCalls
    /\ briefs' = briefs + 1
    /\ asked' = asked + 1
    /\ UNCHANGED <<agent, history, pc, iterations, reply, turn, result>>
    /\ UNCHANGED <<prompt, pending, chunks, retries, fallback, answer, confirmation>>

(* No need to summarise, or an attempt at it that fails after the history   *)
(* was unwound, at any of its calls; on the first iteration it fails after  *)
(* the last, for want of a message.                                         *)
TerminusChecked ==
    /\ pc = "check"
    /\ \E h \in Unwound(history) : Send(prompt, h)
    /\ CallAnew(FALSE)
    /\ UNCHANGED <<agent, iterations, reply, turn, asked, prompt, pending, answer>>

(* Proactive summarisation: the prompt that was due is never sent.          *)
TerminusSummarises ==
    /\ pc = "check"
    /\ briefs = SummaryCalls
    /\ history # <<>>
    /\ history' = Append(Summary(history), Worded("handoff"))
    /\ Displace("handoff")
    /\ CallAnew(FALSE)
    /\ Go("ask")
    /\ UNCHANGED <<agent, iterations, reply, turn, asked, pending, answer>>

-----------------------------------------------------------------------------
(* The call                                                                 *)

TerminusReply ==
    /\ Asked
    /\ Add(<<Says("assistant")>>)
    /\ \E a \in {"error", "complete", "work"} : answer' = a
    /\ Go("act")
    /\ UNCHANGED <<agent, iterations, reply, turn>>
    /\ UNCHANGED <<prompt, pending, chunks, retries, briefs, fallback, confirmation>>

(* Seeded fault: the calls after the first are not counted.                 *)
TruncatedAgain(n) == n < 2 /\ chunks' = 1

MayChunk(n) == n < 2 /\ chunks' = n + 1

(* A truncated reply that does not parse: the model is told to break it up. *)
TerminusTruncated ==
    /\ Asked
    /\ MayChunk(chunks)
    /\ retries' = 0
    /\ Add(<<Says("assistant"), Says("user")>>)
    /\ UNCHANGED <<agent, pc, iterations, reply, turn, result>>
    /\ UNCHANGED <<prompt, pending, briefs, fallback, answer, confirmation>>

(* _completion_with_retry: a completion that failed is tried three times.   *)
MayRetry(n) == n < 2

TerminusRetries ==
    /\ Asked
    /\ MayRetry(retries)
    /\ retries' = retries + 1
    /\ UNCHANGED <<agent, history, pc, iterations, reply, turn, result>>
    /\ UNCHANGED <<prompt, pending, chunks, briefs, fallback, answer, confirmation>>

(* Its last attempt failed as well: the message is taken back.              *)
TerminusCallFails ==
    /\ Asked
    /\ ~MayRetry(retries)
    /\ ~fallback
    /\ history' = Popped
    /\ End("error")
    /\ UNCHANGED <<agent, iterations, reply, turn, terminusVars>>

(* A response without choices fails after the message was sent for good.    *)
TerminusEmptyReply ==
    /\ Asked
    /\ ~fallback
    /\ End("error")
    /\ UNCHANGED <<agent, history, iterations, reply, turn, terminusVars>>

(* A refused length is not tried again.                                     *)
TerminusTooLong ==
    /\ Asked
    /\ ~fallback
    /\ history' = Popped
    /\ Go("shrink")
    /\ UNCHANGED <<agent, iterations, reply, turn, terminusVars>>

(* The call after the history was cut back may fail in any of these ways.   *)
TerminusSynthetic ==
    /\ Asked
    /\ fallback
    /\ \E h \in {history, Popped} : history' = Append(h, Says("assistant"))
    /\ answer' = "work"
    /\ Go("act")
    /\ UNCHANGED <<agent, iterations, reply, turn>>
    /\ UNCHANGED <<prompt, pending, chunks, retries, briefs, fallback, confirmation>>

-----------------------------------------------------------------------------
(* Cutting the history back                                                 *)

(* The short summary after one that failed is a call of its own.            *)
TerminusShortBrief ==
    /\ pc = "shrink"
    /\ briefs <= SummaryCalls
    /\ briefs' = SummaryCalls + 1
    /\ asked' = asked + 1
    /\ UNCHANGED <<agent, history, pc, iterations, reply, turn, result>>
    /\ UNCHANGED <<prompt, pending, chunks, retries, fallback, answer, confirmation>>

(* Summarised, or cut to its first message after a short summary or none.   *)
CutBack(h) == {Summary(h), <<h[1]>>}

TerminusShrinks ==
    /\ pc = "shrink"
    /\ history # <<>>
    /\ \E h \in CutBack(history) :
        LET p == IF Len(h) = 1 THEN "brief" ELSE "handoff" IN
            /\ p = "handoff" => briefs = SummaryCalls
            /\ history' = Append(h, Worded(p))
            /\ Displace(p)
    /\ CallAnew(TRUE)
    /\ Go("ask")
    /\ UNCHANGED <<agent, iterations, reply, turn, asked, pending, answer>>

(* The last resort fails when even the task was refused and there is no     *)
(* first message, or when the terminal cannot be read.                      *)
TerminusShrinkRaises ==
    /\ pc = "shrink"
    /\ \E h \in Unwound(history) : history' = h
    /\ End("error")
    /\ UNCHANGED <<agent, iterations, reply, turn, asked, terminusVars>>

-----------------------------------------------------------------------------
(* The reply                                                                *)

TerminusParseError ==
    /\ pc = "act"
    /\ answer = "error"
    /\ prompt' = "fix"
    /\ Go("loop")
    /\ UNCHANGED <<agent, history, iterations, reply, turn, asked>>
    /\ UNCHANGED <<pending, chunks, retries, briefs, fallback, answer, confirmation>>

TerminusComplete ==
    /\ pc = "act"
    /\ answer = "complete"
    /\ IF pending
       THEN End("finished") /\ UNCHANGED <<prompt, pending>>
       ELSE Go("loop") /\ prompt' = "confirm" /\ pending' = TRUE
    /\ UNCHANGED <<agent, history, iterations, reply, turn, asked>>
    /\ UNCHANGED <<chunks, retries, briefs, fallback, answer, confirmation>>

(* Seeded fault: work goes on with the completion still pending.            *)
StillPending == pending' = pending

Unpend == pending' = FALSE

TerminusWork ==
    /\ pc = "act"
    /\ answer = "work"
    /\ prompt' = "output"
    /\ Unpend
    /\ confirmation' = "no"
    /\ Go("loop")
    /\ UNCHANGED <<agent, history, iterations, reply, turn, asked, chunks, retries, briefs, fallback, answer>>

(* The terminal fails under the commands, or in a look at the session.      *)
TerminusRaises ==
    /\ pc = "check" \/ (pc = "act" /\ answer # "error")
    /\ End("error")
    /\ UNCHANGED <<agent, history, iterations, reply, turn, asked, terminusVars>>

(* tmux.stop() in the finally clause fails: run() raises, finished or not.  *)
TerminusStopRaises ==
    /\ pc = "done"
    /\ result # "raised"
    /\ result' = "raised"
    /\ UNCHANGED <<agent, history, pc, iterations, reply, turn, asked, terminusVars>>

TerminusNext ==
    /\ agent = "terminus"
    /\ \/ TerminusIterate \/ TerminusStops \/ TerminusBriefs \/ TerminusChecked \/ TerminusSummarises
       \/ TerminusReply \/ TerminusTruncated \/ TerminusRetries \/ TerminusCallFails
       \/ TerminusEmptyReply \/ TerminusTooLong \/ TerminusSynthetic
       \/ TerminusShortBrief \/ TerminusShrinks \/ TerminusShrinkRaises
       \/ TerminusParseError \/ TerminusComplete \/ TerminusWork
       \/ TerminusRaises \/ TerminusStopRaises
=============================================================================
