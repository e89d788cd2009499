---------------------------- MODULE Conversation ----------------------------
(***************************************************************************)
(* harness/agents: what the agent loops share.  Every agent keeps the list  *)
(* of messages it sends to the model with each call, runs what the model    *)
(* asks for, and counts its iterations.  A message is known by who speaks,  *)
(* how many tools it calls and, for the result of a tool, which call of the *)
(* message before it is answered.  SweAgent, TerminusAgent, CocoaAgent and  *)
(* OsworldAgent are the loops; AgentLoops runs any of them.                 *)
(***************************************************************************)
EXTENDS Naturals, Sequences

CONSTANTS
    Agents,         \* the agents that may be run
    MaxIterations,  \* config.max_iterations
    MaxCalls        \* tools a model calls in one message

SweAgents == {"codeact", "mini", "r2e", "r2e_text"}
CocoaAgents == {"openai", "qwen", "claude", "gemini"}
AgentKinds == SweAgents \cup CocoaAgents \cup {"terminus", "osworld"}

ASSUME ConversationAssumption ==
    /\ Agents \subseteq AgentKinds
    /\ MaxIterations \in Nat
    /\ MaxCalls \in Nat \ {0}

VARIABLES
    agent,          \* which agent runs
    history,        \* messages
    pc,             \* "loop", "check", "ask", "shrink", "act" or "done"
    iterations,
    reply, turn,    \* calls in the model's reply, and the next one to run
    asked,          \* answers and errors the model gave in this iteration
    result          \* how the run ended

talkVars == <<agent, history, pc, iterations, reply, turn, asked, result>>

Roles == {"system", "task", "user", "assistant", "tool"}
Message == [role : Roles, calls : 0 .. MaxCalls, of : 0 .. MaxCalls, read : BOOLEAN]
Results == {"none", "finished", "max_iterations", "max_length", "unknown", "error", "stopped", "success", "raised"}

TalkTypeOK ==
    /\ agent \in AgentKinds
    /\ history \in Seq(Message)
    /\ pc \in {"loop", "check", "ask", "shrink", "act", "done"}
    /\ iterations \in 0 .. MaxIterations
    /\ reply \in 0 .. MaxCalls
    /\ turn \in 1 .. MaxCalls + 1
    /\ asked \in Nat
    /\ result \in Results

TalkInit(h) ==
    /\ history = h
    /\ pc = "loop"
    /\ iterations = 0
    /\ reply = 0
    /\ turn = 1
    /\ asked = 0
    /\ result = "none"

-----------------------------------------------------------------------------

Says(r) == [role |-> r, calls |-> 0, of |-> 0, read |-> TRUE]

(* An assistant message that calls n tools, and one whose calls make no     *)
(* sense to the agent.                                                      *)
Calls(n) == [role |-> "assistant", calls |-> n, of |-> 0, read |-> TRUE]
UnreadCalls(n) == [role |-> "assistant", calls |-> n, of |-> 0, read |-> FALSE]

Answers(k) == [role |-> "tool", calls |-> 0, of |-> k, read |-> TRUE]

(* The history after the messages s are appended to it.                     *)
Add(s) == history' = history \o s

(* The model answered, or failed to.                                        *)
Asked == pc = "ask" /\ asked' = asked + 1

End(r) == pc' = "done" /\ result' = r

Go(l) == pc' = l /\ UNCHANGED result

(* The runs of the loop that follow a decision to go on.                    *)
Iterate(l) ==
    /\ pc = "loop"
    /\ iterations < MaxIterations
    /\ iterations' = iterations + 1
    /\ asked' = 0
    /\ Go(l)
    /\ UNCHANGED <<agent, reply, turn>>

-----------------------------------------------------------------------------
(* What the interfaces of the models ask of a history                       *)

(* Every call of the i-th message is answered right after it, in order.     *)
IsAnswered(h, i) ==
    \A k \in 1 .. h[i].calls : i + k <= Len(h) /\ h[i + k] = Answers(k)

(* The i-th message, if it is a result, is that of a call before it.        *)
IsAddressed(h, i) ==
    h[i].role = "tool" => h[i].of < i /\ h[i].of <= h[i - h[i].of].calls

(* The task is in one of the first two messages.                            *)
HasTask(h) == \E i \in 1 .. Len(h) : i <= 2 /\ h[i].role = "task"
=============================================================================
