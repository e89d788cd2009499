-------------------------- MODULE AgentLoopsProofs --------------------------
(***************************************************************************)
(* Proofs about the agent loops, for every number of iterations, of calls   *)
(* in a message and of attempts at a reply: their types, how often they     *)
(* call the model, that they end, what their outcomes are worth, and that   *)
(* the history they send is one the model's interface takes.                *)
(***************************************************************************)
EXTENDS AgentLoops, SequenceTheorems, TLAPS

(* A tool is run for a call of the reply, or for a reply without calls;     *)
(* only two kinds of agent run several, and R2E-Gym keeps one call.         *)
InTurn ==
    /\ agent \in {"mini", "r2e", "r2e_text", "terminus"} => turn = 1
    /\ agent \in {"r2e", "r2e_text"} => reply <= 1
    /\ pc = "act" => turn = 1 \/ turn <= reply

Typed == TypeOK /\ InTurn

-----------------------------------------------------------------------------

(* The most calls the attempts before the a-th can have made, twice.        *)
TwiceSpent(a) == (a - 1) * (2 * MaxParseRetries + 2 - a)

(* How many answers the model has given, where the agent stands.            *)
Spent ==
    /\ agent \in SweAgents => asked <= 1 /\ (pc = "ask" => asked = 0)
    /\ agent = "terminus" =>
        /\ asked <= 25
        /\ pc = "check" => asked <= briefs /\ briefs <= 3
        /\ pc = "ask" => asked <= (IF fallback THEN 16 ELSE 3) + 3 * chunks + retries
        /\ pc = "shrink" => asked <= 12 + briefs
        /\ pc \in {"loop", "ask", "act"} => briefs = 0
    /\ agent \in CocoaAgents =>
        /\ 2 * asked <= TwiceSpent(MaxParseRetries + 1)
        /\ pc = "ask" => attempt <= depth /\ 2 * asked <= TwiceSpent(attempt) + 2 * (depth - attempt)
    /\ agent = "osworld" => asked <= 5 /\ (pc = "ask" => asked < 5)

-----------------------------------------------------------------------------

(* No iteration has the model called more often than this.                  *)
MostAsked == 25 + NestedRetries

(* How far a run has come in its iteration.  An answer of the model counts  *)
(* for two, for the history may have to be cut back before the next call.   *)
Effort ==
    CASE pc \in {"check", "shrink"} -> 2 * asked
      [] pc = "ask" -> 2 * asked + 1
      [] pc = "act" -> 2 * MostAsked + 1 + turn
      [] pc = "loop" -> 2 * MostAsked + MaxCalls + 3
      [] pc = "done" -> 2 * MostAsked + MaxCalls + (IF result = "raised" THEN 5 ELSE 4)

(* More than any iteration takes.                                           *)
IterationLength == 2 * MostAsked + MaxCalls + 6

(* How far a run has come.                                                  *)
Work == iterations * IterationLength + Effort

WorkIsBounded == Work \in 0 .. (MaxIterations + 1) * IterationLength

Advances == Work < Work'

-----------------------------------------------------------------------------

(* What an outcome will rest on: a SWE run that goes on has nothing to      *)
(* report, a pending completion was, or is to be, put to the model again,   *)
(* and a CocoaBench run that goes on holds no result.                       *)
Earning ==
    /\ result = "none" <=> pc # "done"
    /\ agent \in SweAgents /\ pc # "done" => ~finished /\ failure = "none" /\ exitStatus = "unknown"
    /\ agent = "terminus" /\ pending =>
        \/ confirmation # "no"
        \/ prompt = "confirm" /\ pc \in {"loop", "check", "done"}
    /\ agent \in CocoaAgents /\ pc # "done" => ~given /\ ~taskResult
    /\ OutcomesAreEarned

-----------------------------------------------------------------------------

(* The i-th message is a fair one but for calls still to be answered.       *)
Settled(h, i) == IsAddressed(h, i) /\ (IsAnswered(h, i) \/ Unread(h, i))

(* The agents whose history holds no call that waits for its answer.        *)
Closed == {"mini", "r2e", "r2e_text", "terminus", "qwen", "gemini", "osworld"}

AllSettled(h) == \A i \in 1 .. Len(h) : Settled(h, i)

(* While tools run, the calls of one message, the n-th, are answered up to  *)
(* the one before `turn`.                                                   *)
Answering(h, n) ==
    /\ n = Len(h) - turn + 1
    /\ h[n].role = "assistant" /\ h[n].calls = reply
    /\ \A k \in 1 .. turn - 1 : h[n + k] = Answers(k)

(* The history between the calls.  The terminal agent's has no tools.       *)
Kept ==
    /\ agent = "terminus" => \A i \in 1 .. Len(history) : history[i].calls = 0 /\ history[i].role # "tool"
    /\ pc \notin {"act", "done"} => \A i \in 1 .. Len(history) : Settled(history, i)
    /\ pc = "act" /\ agent = "codeact" => reply > 0
    /\ pc = "act" =>
        IF reply = 0 \/ agent \in Closed
        THEN \A i \in 1 .. Len(history) : Settled(history, i)
        ELSE \E n \in 1 .. Len(history) :
                /\ Answering(history, n)
                /\ IsAddressed(history, n)
                /\ \A i \in 1 .. Len(history) : i # n => Settled(history, i)

(* The task, and who spoke last.                                            *)
Opened ==
    /\ agent \in SweAgents =>
        /\ Len(history) >= 2 /\ history[2].role = "task"
        /\ pc \in {"loop", "ask"} => history[Len(history)].role # "assistant"
    /\ agent \in CocoaAgents =>
        /\ pc # "done" /\ (iterations > 0 \/ pc # "loop") => history # <<>> /\ history[1].role = "task"
        /\ iterations = 0 => history = <<>>
        /\ pc = "ask" => AsksAgain \/ history[Len(history)].role # "assistant"
    /\ agent = "terminus" =>
        /\ history # <<>> => history[1].role = "task"
        /\ history = <<>> /\ pc \in {"loop", "check"} => prompt = "task"
        /\ pc \in {"ask", "act"} => history # <<>>
        /\ pc = "ask" => history[Len(history)].role # "assistant" /\ (fallback => Len(history) >= 2)
    /\ agent = "osworld" /\ pc = "ask" =>
        /\ Len(history) >= 2 /\ history[2].role = "task"
        /\ history[Len(history)].role # "assistant"

-----------------------------------------------------------------------------
(* Types                                                                    *)

LEMMA Forms ==
  /\ \A r \in Roles : Says(r) \in Message
  /\ \A n \in 0 .. MaxCalls : Calls(n) \in Message /\ UnreadCalls(n) \in Message
  /\ \A k \in 1 .. MaxCalls : Answers(k) \in Message
BY ConversationAssumption DEF Says, Calls, UnreadCalls, Answers, Message, Roles

(* The messages a step appends are messages.                                *)
LEMMA Exchanges ==
  ASSUME TypeOK
  PROVE  /\ SweHistory \in Seq(Message)
         /\ \A n \in 0 .. MaxCalls : CodeActMessage(n) \in Seq(Message)
         /\ reply \in {0, 1} => R2eExchange \in Seq(Message)
         /\ \A n \in 1 .. MaxCalls :
                /\ Misread(n) \in Seq(Message)
                /\ Append(Misread(n), Says("user")) \in Seq(Message)
<1>1. /\ Says("system") \in Message /\ Says("task") \in Message /\ Says("user") \in Message
      /\ MaxCalls \in Nat /\ MaxCalls >= 1
  BY Forms, ConversationAssumption DEF Roles
<1>2. SweHistory \in Seq(Message)
  BY <1>1 DEF SweHistory
<1>3. ASSUME NEW n \in 0 .. MaxCalls PROVE CodeActMessage(n) \in Seq(Message)
  <2>1. Calls(n) \in Message /\ Calls(0) \in Message
    BY <1>1, Forms
  <2>2. QED
    BY <1>1, <2>1 DEF CodeActMessage
<1>4. ASSUME reply \in {0, 1} PROVE R2eExchange \in Seq(Message)
  <2>1. Calls(reply) \in Message /\ Answers(1) \in Message
    BY <1>1, <1>4, Forms
  <2>2. QED
    BY <1>1, <2>1 DEF R2eExchange
<1>5. ASSUME NEW n \in 1 .. MaxCalls
      PROVE  Misread(n) \in Seq(Message) /\ Append(Misread(n), Says("user")) \in Seq(Message)
  <2>1. <<UnreadCalls(n)>> \in Seq(Message)
    <3>1. UnreadCalls(n) \in Message
      BY <1>1, Forms
    <3>2. QED
      BY <3>1
  <2>2. [k \in 1 .. n |-> Answers(k)] \in Seq(Message)
    <3>1. \A k \in 1 .. n : Answers(k) \in Message
      BY <1>1, Forms
    <3>2. QED
      BY <1>1, <3>1, IsASeq
  <2>3. Misread(n) \in Seq(Message)
    <3>1. <<Says("assistant")>> \in Seq(Message)
      BY Forms DEF Roles
    <3>2. QED
      BY <2>1, <2>2, <3>1, ConcatProperties, EmptySeq DEF Misread
  <2>4. QED
    BY <1>1, <2>3, AppendProperties
<1>6. QED
  BY <1>2, <1>3, <1>4, <1>5

(* Adding messages to a history, and taking some away.                      *)
LEMMA Histories ==
  ASSUME TypeOK
  PROVE  /\ \A s \in Seq(Message) : history \o s \in Seq(Message)
         /\ Popped \in Seq(Message)
         /\ \A h \in Seq(Message) : Unwound(h) \subseteq Seq(Message)
         /\ \A h \in Seq(Message), p \in Prompts : Append(h, Worded(p)) \in Seq(Message)
         /\ \A h \in Seq(Message) : h # <<>> => CutBack(h) \subseteq Seq(Message)
         /\ \A r \in Roles : <<Says(r)>> \in Seq(Message)
         /\ \A n \in 0 .. MaxCalls : <<Calls(n)>> \in Seq(Message)
         /\ \A k \in 1 .. MaxCalls : <<Answers(k)>> \in Seq(Message)
<1>1. history \in Seq(Message)
  BY DEF TypeOK, TalkTypeOK
<1>2. \A s \in Seq(Message) : history \o s \in Seq(Message)
  BY <1>1, ConcatProperties
<1>3. ASSUME NEW h \in Seq(Message), NEW n \in 0 .. Len(h) PROVE SubSeq(h, 1, n) \in Seq(Message)
  <2>1. \A i \in 1 .. n : h[i] \in Message
    BY <1>3
  <2>2. QED
    BY <2>1, SubSeqProperties
<1>4. Popped \in Seq(Message)
  <2>1. CASE history = <<>>
    BY <2>1, SubSeqEmpty DEF Popped
  <2>2. CASE history # <<>>
    BY <1>1, <1>3, <2>2 DEF Popped
  <2>3. QED
    BY <2>1, <2>2
<1>5. \A h \in Seq(Message) : Unwound(h) \subseteq Seq(Message)
  BY <1>3 DEF Unwound
<1>6. \A r \in Roles : Says(r) \in Message /\ <<Says(r)>> \in Seq(Message)
  BY Forms
<1>7. ASSUME NEW h \in Seq(Message), NEW p \in Prompts PROVE Append(h, Worded(p)) \in Seq(Message)
  <2>1. Worded(p) \in Message
    BY <1>6 DEF Worded, Roles
  <2>2. QED
    BY <2>1, AppendProperties
<1>8. ASSUME NEW h \in Seq(Message), h # <<>> PROVE CutBack(h) \subseteq Seq(Message)
  <2>1. h[1] \in Message /\ Says("user") \in Message /\ Says("assistant") \in Message
    BY <1>6, <1>8, ElementOfSeq DEF Roles
  <2>2. QED
    BY <2>1 DEF CutBack, Summary
<1>9. /\ \A n \in 0 .. MaxCalls : <<Calls(n)>> \in Seq(Message)
      /\ \A k \in 1 .. MaxCalls : <<Answers(k)>> \in Seq(Message)
  BY Forms
<1>10. QED
  BY <1>2, <1>4, <1>5, <1>6, <1>7, <1>8, <1>9

(* What an iteration does whichever agent runs it.                          *)
LEMMA Loops ==
  ASSUME Typed, NEW l, l \in {"ask", "check"}, Iterate(l), history' \in Seq(Message)
  PROVE  TalkTypeOK' /\ InTurn'
BY ConversationAssumption DEF Typed, TypeOK, TalkTypeOK, InTurn, Iterate, Go

(* No step changes the agent.                                               *)
LEMMA OthersKeepAgent ==
  /\ SweNext => agent \in SweAgents /\ agent' = agent
  /\ TerminusNext => agent = "terminus" /\ agent' = agent
  /\ CocoaNext => agent \in CocoaAgents /\ agent' = agent
  /\ OsworldNext => agent = "osworld" /\ agent' = agent
  /\ "terminus" \notin SweAgents /\ "terminus" \notin CocoaAgents
  /\ "osworld" \notin SweAgents /\ "osworld" \notin CocoaAgents
  /\ SweAgents \cap CocoaAgents = {}
<1>1. SweNext => agent \in SweAgents /\ agent' = agent
  BY DEF SweNext, SweIterate, Iterate, SweExhausted, SweCallFails, SweEmptyReply,
     CodeActReply, CodeActTool, CodeActFinish, MiniReply, MiniCommand, MiniFinish, R2eReply, R2eAction,
     R2eFinish, SweToolRaises, SweDiffRaises
<1>2. TerminusNext => agent = "terminus" /\ agent' = agent
  BY DEF TerminusNext, TerminusIterate, Iterate, TerminusStops, TerminusChecked, TerminusSummarises,
     TerminusReply, TerminusTruncated, TerminusCallFails, TerminusEmptyReply, TerminusTooLong,
     TerminusSynthetic, TerminusShrinks, TerminusShrinkRaises, TerminusParseError, TerminusComplete,
     TerminusWork, TerminusRaises, TerminusStopRaises, TerminusBriefs, TerminusRetries, TerminusShortBrief
<1>3. CocoaNext => agent \in CocoaAgents /\ agent' = agent
  BY DEF CocoaNext, CocoaIterate, Iterate, CocoaExhausted, CocoaCallFails,
     CocoaRefused, CocoaText, CocoaTextCorrected, CocoaTextRaises, CocoaMalformedCalls, CocoaUnknownCalls,
     CocoaCalls, CocoaAction, CocoaComplete, CocoaSandboxRaises
<1>4. OsworldNext => agent = "osworld" /\ agent' = agent
  BY DEF OsworldNext, OsworldIterate, Iterate, OsworldRaises, OsworldCallFails, OsworldGivesUp, OsworldReply,
     OsworldLooks, OsworldAction, OsworldDone, OsworldEnds
<1>5. QED
  BY <1>1, <1>2, <1>3, <1>4 DEF SweAgents, CocoaAgents

LEMMA SweTypes ==
  ASSUME Typed, SweNext, UNCHANGED <<terminusVars, cocoaVars, osworldVars>>
  PROVE  Typed'
<1> USE ConversationAssumption DEF Typed, TypeOK, TalkTypeOK, SweTypeOK, InTurn, Go, End, Asked,
        SweStatus, Results, SweAgents
<1>1. TerminusTypeOK' /\ CocoaTypeOK' /\ OsworldTypeOK'
  BY DEF TerminusTypeOK, CocoaTypeOK, OsworldTypeOK, terminusVars, cocoaVars, osworldVars
<1>2. /\ \A s \in Seq(Message) : history \o s \in Seq(Message)
      /\ \A r \in Roles : <<Says(r)>> \in Seq(Message)
      /\ \A k \in 1 .. MaxCalls : <<Answers(k)>> \in Seq(Message)
  BY Histories
<1>3. CASE SweIterate
  BY <1>1, <1>3, Loops DEF SweIterate, sweVars
<1>4. CASE SweExhausted \/ SweCallFails \/ SweEmptyReply \/ SweToolRaises \/ SweDiffRaises \/ MiniFinish
  <2>1. TalkTypeOK'
    BY <1>1, <1>4 DEF SweExhausted, SweCallFails, SweEmptyReply, SweToolRaises, SweDiffRaises, MiniFinish, sweVars
  <2>2. InTurn'
    BY <1>1, <1>4 DEF SweExhausted, SweCallFails, SweEmptyReply, SweToolRaises, SweDiffRaises, MiniFinish, sweVars
  <2>3. SweTypeOK'
    BY <1>1, <1>4 DEF SweExhausted, SweCallFails, SweEmptyReply, SweToolRaises, SweDiffRaises, MiniFinish, sweVars
  <2>4. QED
    BY <1>1, <2>1, <2>2, <2>3
<1>5. CASE CodeActReply
  <2>1. PICK n \in 0 .. MaxCalls : history' = history \o CodeActMessage(n) /\ reply' = n
    BY <1>5 DEF CodeActReply, Add
  <2>2. history' \in Seq(Message)
    BY <1>2, <2>1, Exchanges
  <2>3. QED
    BY <1>1, <1>5, <2>1, <2>2 DEF CodeActReply, sweVars
<1>6. CASE MiniReply
  <2>1. <<Says("assistant"), Says("user")>> \in Seq(Message) /\ <<Says("assistant")>> \in Seq(Message)
    BY Forms DEF Roles
  <2>2. history' \in Seq(Message)
    BY <1>2, <1>6, <2>1 DEF MiniReply, Add
  <2>3. QED
    BY <1>1, <1>6, <2>2 DEF MiniReply, sweVars
<1>7. CASE R2eReply
  BY <1>1, <1>7 DEF R2eReply, sweVars
<1>8. CASE CodeActTool \/ CodeActFinish
  <2>1. turn \in 1 .. MaxCalls /\ history' = history \o <<Answers(turn)>>
    BY <1>8 DEF CodeActTool, CodeActFinish, Add
  <2>2. history' \in Seq(Message)
    BY <1>2, <2>1
  <2>3. QED
    <3>1. TalkTypeOK'
      BY <1>1, <1>8, <2>1, <2>2 DEF CodeActTool, CodeActFinish, sweVars
    <3>2. InTurn'
      BY <1>1, <1>8, <2>1, <2>2 DEF CodeActTool, CodeActFinish, sweVars
    <3>3. SweTypeOK'
      BY <1>1, <1>8, <2>1, <2>2 DEF CodeActTool, CodeActFinish, sweVars
    <3>4. QED
      BY <1>1, <3>1, <3>2, <3>3
<1>9. CASE MiniCommand
  <2>1. history' \in Seq(Message)
    BY <1>2, <1>9 DEF MiniCommand, Add, Roles
  <2>2. QED
    BY <1>1, <1>9, <2>1 DEF MiniCommand, sweVars
<1>10. CASE R2eAction \/ R2eFinish
  <2>1. history' = history \o R2eExchange
    BY <1>10 DEF R2eAction, R2eFinish, Add
  <2>2. R2eExchange \in Seq(Message)
    <3>1. Calls(reply) \in Message /\ Says("user") \in Message /\ Answers(1) \in Message
      BY Forms DEF Roles
    <3>2. QED
      BY <3>1 DEF R2eExchange
  <2>3. history' \in Seq(Message)
    BY <1>2, <2>1, <2>2
  <2>4. QED
    BY <1>1, <1>10, <2>3 DEF R2eAction, R2eFinish, sweVars
<1>11. QED
  BY <1>3, <1>4, <1>5, <1>6, <1>7, <1>8, <1>9, <1>10 DEF SweNext

LEMMA TerminusTypes ==
  ASSUME Typed, TerminusNext, UNCHANGED <<sweVars, cocoaVars, osworldVars>>
  PROVE  Typed'
<1> USE ConversationAssumption DEF Typed, TypeOK, TalkTypeOK, TerminusTypeOK, InTurn, Go, End, Asked, Results, Prompts, CallAnew, SummaryCalls
<1>1. SweTypeOK' /\ CocoaTypeOK' /\ OsworldTypeOK'
  BY DEF SweTypeOK, CocoaTypeOK, OsworldTypeOK, sweVars, cocoaVars, osworldVars
<1>2. agent = "terminus"
  BY DEF TerminusNext
<1>3. /\ Popped \in Seq(Message)
      /\ \A s \in Seq(Message) : history \o s \in Seq(Message)
      /\ \A h \in Seq(Message) : Append(h, Says("assistant")) \in Seq(Message)
      /\ <<Says("assistant")>> \in Seq(Message) /\ <<Says("assistant"), Says("user")>> \in Seq(Message)
  BY Histories, Forms, AppendProperties DEF Roles
<1>4. CASE TerminusIterate
  BY <1>1, <1>4, Loops DEF TerminusIterate, terminusVars
<1>5. CASE TerminusStops \/ TerminusCallFails \/ TerminusEmptyReply \/ TerminusTooLong \/ TerminusRaises
           \/ TerminusStopRaises
  BY SMTT(40), <1>1, <1>3, <1>5 DEF TerminusStops, TerminusCallFails, TerminusEmptyReply, TerminusTooLong,
     TerminusRaises, TerminusStopRaises, terminusVars
<1>6. CASE TerminusChecked
  <2>1. PICK h \in Unwound(history) : Send(prompt, h)
    BY <1>6 DEF TerminusChecked
  <2>2. history' \in Seq(Message)
    BY <2>1, Histories DEF Send
  <2>3. QED
    <3>1. TalkTypeOK'
      BY <1>1, <1>6, <2>1, <2>2 DEF TerminusChecked, Send
    <3>2. InTurn'
      BY <1>1, <1>6, <2>1, <2>2 DEF TerminusChecked, Send
    <3>3. TerminusTypeOK'
      <4>1. /\ prompt' \in Prompts /\ chunks' \in 0 .. 2 /\ answer' \in {"error", "complete", "work"}
            /\ retries' \in 0 .. 2 /\ briefs' \in 0 .. 4
        BY <1>1, <1>6, <2>1, <2>2 DEF TerminusChecked, Send
      <4>2. confirmation' \in {"no", "asked", "lost"}
        BY <1>1, <1>6, <2>1, <2>2 DEF TerminusChecked, Send
      <4>3. pending' \in BOOLEAN /\ fallback' \in BOOLEAN
        BY <1>1, <1>6, <2>1, <2>2 DEF TerminusChecked, Send
      <4>4. QED
        BY <4>1, <4>2, <4>3 DEF TerminusTypeOK
    <3>4. QED
      BY <1>1, <3>1, <3>2, <3>3
<1>7. CASE TerminusSummarises
  <2>1. Summary(history) \in Seq(Message)
    BY <1>7, Histories DEF CutBack, TerminusSummarises
  <2>2. history' \in Seq(Message)
    BY <1>7, <2>1, Histories DEF TerminusSummarises
  <2>3. QED
    <3>1. TalkTypeOK'
      BY <1>1, <1>7, <2>2 DEF TerminusSummarises, Displace
    <3>2. InTurn'
      BY <1>1, <1>7, <2>2 DEF TerminusSummarises, Displace
    <3>3. TerminusTypeOK'
      <4>1. /\ prompt' \in Prompts /\ chunks' \in 0 .. 2 /\ answer' \in {"error", "complete", "work"}
            /\ retries' \in 0 .. 2 /\ briefs' \in 0 .. 4
        BY <1>1, <1>7, <2>2 DEF TerminusSummarises, Displace
      <4>2. confirmation' \in {"no", "asked", "lost"}
        BY <1>1, <1>7, <2>2 DEF TerminusSummarises, Displace
      <4>3. pending' \in BOOLEAN /\ fallback' \in BOOLEAN
        BY <1>1, <1>7, <2>2 DEF TerminusSummarises, Displace
      <4>4. QED
        BY <4>1, <4>2, <4>3 DEF TerminusTypeOK
    <3>4. QED
      BY <1>1, <3>1, <3>2, <3>3
<1>8. CASE TerminusReply \/ TerminusTruncated
  <2>1. history' \in Seq(Message)
    BY <1>3, <1>8 DEF TerminusReply, TerminusTruncated, Add
  <2>2. QED
    <3>1. TalkTypeOK'
      BY SMTT(40), <1>1, <1>8, <2>1 DEF TerminusReply, TerminusTruncated, MayChunk
    <3>2. InTurn'
      BY SMTT(40), <1>1, <1>2, <1>8, <2>1 DEF TerminusReply, TerminusTruncated, MayChunk
    <3>3. TerminusTypeOK'
      <4>1. /\ prompt' \in Prompts /\ chunks' \in 0 .. 2 /\ answer' \in {"error", "complete", "work"}
            /\ retries' \in 0 .. 2 /\ briefs' \in 0 .. 4
        BY SMTT(40), <1>1, <1>8, <2>1 DEF TerminusReply, TerminusTruncated, MayChunk
      <4>2. confirmation' \in {"no", "asked", "lost"}
        BY SMTT(40), <1>1, <1>8, <2>1 DEF TerminusReply, TerminusTruncated, MayChunk
      <4>3. pending' \in BOOLEAN /\ fallback' \in BOOLEAN
        BY SMTT(40), <1>1, <1>8, <2>1 DEF TerminusReply, TerminusTruncated, MayChunk
      <4>4. QED
        BY <4>1, <4>2, <4>3 DEF TerminusTypeOK
    <3>4. QED
      BY <1>1, <3>1, <3>2, <3>3
<1>9. CASE TerminusSynthetic
  <2>1. history' \in Seq(Message)
    BY <1>3, <1>9 DEF TerminusSynthetic
  <2>2. QED
    <3>1. TalkTypeOK'
      BY <1>1, <1>9, <2>1 DEF TerminusSynthetic
    <3>2. InTurn'
      BY <1>1, <1>2, <1>9, <2>1 DEF TerminusSynthetic
    <3>3. TerminusTypeOK'
      <4>1. /\ prompt' \in Prompts /\ chunks' \in 0 .. 2 /\ answer' \in {"error", "complete", "work"}
            /\ retries' \in 0 .. 2 /\ briefs' \in 0 .. 4
        BY <1>1, <1>9, <2>1 DEF TerminusSynthetic
      <4>2. confirmation' \in {"no", "asked", "lost"}
        BY <1>1, <1>9, <2>1 DEF TerminusSynthetic
      <4>3. pending' \in BOOLEAN /\ fallback' \in BOOLEAN
        BY <1>1, <1>9, <2>1 DEF TerminusSynthetic
      <4>4. QED
        BY <4>1, <4>2, <4>3 DEF TerminusTypeOK
    <3>4. QED
      BY <1>1, <3>1, <3>2, <3>3
<1>10. CASE TerminusShrinks
  <2>1. PICK h \in CutBack(history) :
            LET p == IF Len(h) = 1 THEN "brief" ELSE "handoff" IN
                history' = Append(h, Worded(p)) /\ Displace(p)
    BY <1>10 DEF TerminusShrinks
  <2>2. h \in Seq(Message)
    BY <1>10, <2>1, Histories DEF TerminusShrinks
  <2>3. history' \in Seq(Message)
    BY <2>1, <2>2, Histories
  <2>4. QED
    BY <1>1, <1>10, <2>1, <2>3 DEF TerminusShrinks, Displace
<1>11. CASE TerminusShrinkRaises
  <2>1. history' \in Seq(Message)
    BY <1>11, Histories DEF TerminusShrinkRaises
  <2>2. QED
    BY <1>1, <1>11, <2>1 DEF TerminusShrinkRaises, terminusVars
<1>12. CASE TerminusParseError \/ TerminusComplete \/ TerminusWork
  BY ZenonT(60), <1>1, <1>2, <1>12 DEF TerminusParseError, TerminusComplete, TerminusWork, Unpend
<1>13. CASE TerminusBriefs \/ TerminusRetries \/ TerminusShortBrief
  <2>1. /\ asked' = asked + 1
        /\ UNCHANGED <<agent, history, pc, iterations, reply, turn, result>>
        /\ UNCHANGED <<prompt, pending, chunks, fallback, answer, confirmation>>
    BY <1>13 DEF TerminusBriefs, TerminusRetries, TerminusShortBrief
  <2>2. retries' \in 0 .. 2 /\ briefs' \in 0 .. 4
    <3>1. CASE TerminusBriefs
      BY <3>1 DEF TerminusBriefs
    <3>2. CASE TerminusRetries
      BY <3>2 DEF TerminusRetries, MayRetry
    <3>3. CASE TerminusShortBrief
      BY <3>3 DEF TerminusShortBrief
    <3>4. QED
      BY <1>13, <3>1, <3>2, <3>3
  <2>3. TalkTypeOK' /\ InTurn'
    BY <2>1
  <2>4. TerminusTypeOK'
    BY <2>1, <2>2
  <2>5. QED
    BY <1>1, <2>3, <2>4
<1>14. QED
  BY <1>4, <1>5, <1>6, <1>7, <1>8, <1>9, <1>10, <1>11, <1>12, <1>13 DEF TerminusNext

(* Correct, GiveUp and Retry keep the attempts within their number.         *)
LEMMA CocoaTypes ==
  ASSUME Typed, CocoaNext, UNCHANGED <<sweVars, terminusVars, osworldVars>>
  PROVE  Typed'
<1> USE ConversationAssumption, RetriesAssumption DEF Typed, TypeOK, TalkTypeOK, CocoaTypeOK, InTurn, Go, End, Asked, Results,
        CocoaAgents
<1>1. SweTypeOK' /\ TerminusTypeOK' /\ OsworldTypeOK'
  BY DEF SweTypeOK, TerminusTypeOK, OsworldTypeOK, sweVars, terminusVars, osworldVars
<1>2. /\ \A s \in Seq(Message) : history \o s \in Seq(Message)
      /\ \A r \in Roles : <<Says(r)>> \in Seq(Message)
      /\ \A n \in 0 .. MaxCalls : <<Calls(n)>> \in Seq(Message)
      /\ \A k \in 1 .. MaxCalls : <<Answers(k)>> \in Seq(Message)
      /\ <<>> \in Seq(Message) /\ Says("user") \in Message
  BY Histories, Forms DEF Roles
<1>3. \A s \in Seq(Message) : Append(s, Says("user")) \in Seq(Message)
  BY <1>2, AppendProperties
<1>4. ASSUME NEW h, PutAway(h) PROVE images' \subseteq Nat
  BY <1>4 DEF PutAway, Tidy
<1>5. ASSUME NEW s \in Seq(Message), Correct(s) \/ GiveUp(s)
      PROVE  history' \in Seq(Message) /\ depth' \in 1 .. MaxParseRetries /\ images' \subseteq Nat
  <2>1. history' \in Seq(Message)
    BY <1>2, <1>3, <1>5 DEF Correct, GiveUp, Add
  <2>2. images' \subseteq Nat
    BY <1>4, <1>5 DEF Correct, GiveUp
  <2>3. QED
    BY <1>5, <2>1, <2>2 DEF Correct, GiveUp, Deepen
<1>6. CASE CocoaIterate
  <2>1. history' \in Seq(Message)
    BY <1>2, <1>6 DEF CocoaIterate, Add, Roles
  <2>2. images' \subseteq Nat
    <3>1. Len(history) + 1 \in Nat /\ images \subseteq Nat
      OBVIOUS
    <3>2. QED
      BY <1>6, <3>1 DEF CocoaIterate
  <2>3. QED
    BY <1>1, <1>6, <2>1, <2>2, Loops DEF CocoaIterate
<1>7. CASE CocoaExhausted \/ CocoaRefused \/ CocoaSandboxRaises \/ CocoaCallFails
  <2>1. TalkTypeOK' /\ InTurn'
    BY <1>7 DEF CocoaExhausted, CocoaRefused, CocoaSandboxRaises, CocoaCallFails, Retry, cocoaVars
  <2>2. CocoaTypeOK'
    <3>1. CASE CocoaCallFails
      BY <3>1 DEF CocoaCallFails, Retry
    <3>2. CASE ~CocoaCallFails
      <4>1. UNCHANGED cocoaVars
        BY <1>7, <3>2 DEF CocoaExhausted, CocoaRefused, CocoaSandboxRaises
      <4>2. QED
        BY <4>1 DEF cocoaVars
    <3>3. QED
      BY <3>1, <3>2
  <2>3. QED
    BY <1>1, <2>1, <2>2
<1>8. CASE CocoaText \/ CocoaTextRaises
  <2>1. history' \in Seq(Message)
    BY <1>2, <1>8 DEF CocoaText, CocoaTextRaises, Add, Roles
  <2>2. images' \subseteq Nat
    BY <1>4, <1>8 DEF CocoaText, CocoaTextRaises
  <2>3. QED
    BY SMTT(40), <1>1, <1>8, <2>1, <2>2 DEF CocoaText, CocoaTextRaises, Retry
<1>9. CASE CocoaTextCorrected \/ CocoaMalformedCalls \/ CocoaUnknownCalls
  <2>1. PICK s \in Seq(Message) : Correct(s) \/ GiveUp(s)
    BY <1>2, <1>9, Exchanges DEF CocoaTextCorrected, CocoaMalformedCalls, CocoaUnknownCalls, Roles
  <2>2. history' \in Seq(Message) /\ depth' \in 1 .. MaxParseRetries /\ images' \subseteq Nat
    BY <1>5, <2>1
  <2>3. QED
    BY SMTT(40), <1>1, <1>9, <2>1, <2>2 DEF CocoaTextCorrected, CocoaMalformedCalls, CocoaUnknownCalls, Correct, GiveUp
<1>10. CASE CocoaCalls
  <2>1. PICK n \in 1 .. MaxCalls : history' = history \o <<Spoken(n)>> /\ reply' = n /\ PutAway(history \o <<Spoken(n)>>)
    BY <1>10 DEF CocoaCalls, Add
  <2>2. <<Spoken(n)>> \in Seq(Message)
    BY <1>2 DEF Spoken, Roles
  <2>3. history' \in Seq(Message) /\ images' \subseteq Nat
    BY <1>2, <1>4, <2>1, <2>2
  <2>4. QED
    BY <1>1, <1>10, <2>1, <2>3 DEF CocoaCalls, CocoaNext
<1>11. CASE CocoaAction \/ CocoaComplete
  <2>1. turn \in 1 .. MaxCalls
    BY <1>11 DEF CocoaAction, CocoaComplete
  <2>2. Feedback \in Seq(Message)
    <3>1. <<Says("assistant")>> \in Seq(Message) /\ <<Answers(turn)>> \in Seq(Message)
      BY <1>2, <2>1 DEF Roles
    <3>2. QED
      BY <1>2, <3>1 DEF Feedback
  <2>3. history' \in Seq(Message)
    BY <1>2, <1>11, <2>2 DEF CocoaAction, CocoaComplete, Add
  <2>4. TalkTypeOK'
    BY SMTT(40), <1>1, <1>11, <2>1, <2>3 DEF CocoaAction, CocoaComplete, cocoaVars
  <2>5. InTurn'
    BY <1>1, <1>11, <2>1, <2>3 DEF CocoaAction, CocoaComplete, cocoaVars, CocoaNext
  <2>6. CocoaTypeOK'
    <3>1. attempt' \in 1 .. MaxParseRetries /\ depth' \in 1 .. MaxParseRetries /\ images' \subseteq Nat
      BY <1>11 DEF CocoaAction, CocoaComplete, cocoaVars
    <3>2. given' \in BOOLEAN
      BY <1>11 DEF CocoaAction, CocoaComplete, cocoaVars
    <3>3. taskResult' \in BOOLEAN
      BY <1>11 DEF CocoaAction, CocoaComplete, cocoaVars
    <3>4. QED
      BY <3>1, <3>2, <3>3 DEF CocoaTypeOK
  <2>7. QED
    BY <1>1, <2>4, <2>5, <2>6
<1>12. QED
  BY <1>6, <1>7, <1>8, <1>9, <1>10, <1>11 DEF CocoaNext

(* What a prompt of the desktop agent holds: n responses, k screenshots     *)
(* before them and the latest.                                              *)
LEMMA WindowShows ==
  ASSUME NEW n \in Nat, NEW k \in Nat, n = 0 \/ k > 0
  PROVE  /\ Window(n, k) \in Seq(Message) /\ Len(Window(n, k)) = n + k + 2
         /\ \A i \in 1 .. n + k + 2 : Window(n, k)[i].calls = 0 /\ Window(n, k)[i].role # "tool"
         /\ Window(n, k)[2].role = "task"
         /\ Window(n, k)[n + k + 2].role # "assistant"
<1> DEFINE w == Window(n, k)
<1>1. PICK m \in Nat : m = n + k + 2
  OBVIOUS
<1>2. /\ Says("system") \in Message /\ Says("task") \in Message
      /\ Says("user") \in Message /\ Says("assistant") \in Message
  BY Forms DEF Roles
<1>3. w \in [1 .. m -> Message]
  BY <1>1, <1>2 DEF Window
<1>4. w \in Seq(Message) /\ Len(w) = m
  BY <1>1, <1>3, IsASeq, LenProperties
<1>5. \A i \in 1 .. m : w[i] \in {Says("system"), Says("task"), Says("user"), Says("assistant")}
  BY <1>1 DEF Window
<1>6. \A i \in 1 .. m : w[i].calls = 0 /\ w[i].role # "tool"
  BY <1>5 DEF Says
<1>7. w[2] = Says("task") /\ w[m] \in {Says("task"), Says("user")}
  BY <1>1 DEF Window
<1>8. w[2].role = "task" /\ w[m].role # "assistant"
  BY <1>7 DEF Says
<1>9. QED
  BY <1>1, <1>4, <1>6, <1>8

(* The next prompt is such a one.                                           *)
LEMMA PromptShows ==
  ASSUME Typed, OsworldIterate, responses <= screenshots
  PROVE  \E n \in Nat, k \in Nat : history' = Window(n, k) /\ (n = 0 \/ k > 0)
<1>1. responses \in Nat /\ screenshots \in Nat /\ screenshots' = screenshots + 1 /\ HistoryN \in Nat
  BY HistoryNAssumption DEF OsworldIterate, Typed, TypeOK, OsworldTypeOK
<1>2. PICK n \in Nat : n = Least(HistoryN, responses)
  BY <1>1 DEF Least
<1>3. PICK k \in Nat : k = Shown(n) /\ k = Least(n, screenshots)
  BY <1>1 DEF Shown, Least
<1>4. history' = Window(n, k)
  BY <1>2, <1>3 DEF OsworldIterate
<1>5. n = 0 \/ k > 0
  BY <1>1, <1>2, <1>3 DEF Least
<1>6. QED
  BY <1>4, <1>5

LEMMA OsworldTypes ==
  ASSUME Typed, responses <= screenshots, OsworldNext, UNCHANGED <<sweVars, terminusVars, cocoaVars>>
  PROVE  Typed'
<1> USE ConversationAssumption DEF Typed, TypeOK, TalkTypeOK, OsworldTypeOK, InTurn, Go, End, Asked, Results
<1>1. SweTypeOK' /\ TerminusTypeOK' /\ CocoaTypeOK'
  BY DEF SweTypeOK, TerminusTypeOK, CocoaTypeOK, sweVars, terminusVars, cocoaVars
<1>2. agent = "osworld"
  BY DEF OsworldNext
<1>3. CASE OsworldIterate
  <2>1. history' \in Seq(Message)
    BY <1>3, PromptShows, WindowShows
  <2>2. QED
    BY <1>1, <1>3, <2>1, Loops DEF OsworldIterate
<1>4. CASE OsworldRaises \/ OsworldCallFails \/ OsworldLooks \/ OsworldEnds
  BY <1>1, <1>4 DEF OsworldRaises, OsworldCallFails, OsworldLooks, OsworldEnds, osworldVars
<1>5. CASE OsworldGivesUp \/ OsworldReply
  BY <1>1, <1>2, <1>5 DEF OsworldGivesUp, OsworldReply
<1>6. CASE OsworldAction \/ OsworldDone
  <2>1. TalkTypeOK'
    BY <1>6 DEF OsworldAction, OsworldDone
  <2>2. InTurn'
    BY <1>2, <1>6 DEF OsworldAction, OsworldDone
  <2>3. OsworldTypeOK'
    BY <1>6 DEF OsworldAction, OsworldDone, osworldVars
  <2>4. QED
    BY <1>1, <2>1, <2>2, <2>3
<1>7. QED
  BY <1>3, <1>4, <1>5, <1>6 DEF OsworldNext

(* A desktop agent holds a screenshot for every response.                   *)
Paired ==
    agent = "osworld" => responses <= screenshots /\ (pc = "ask" => responses < screenshots)

LEMMA PairedStep ==
  ASSUME Typed, Paired, [Next]_vars
  PROVE  Paired'
<1>1. responses \in Nat /\ screenshots \in Nat
  BY DEF Typed, TypeOK, OsworldTypeOK
<1>2. CASE OsworldNext
  <2>1. responses <= screenshots /\ (pc = "ask" => responses < screenshots)
    BY <1>2 DEF Paired, OsworldNext
  <2>2. CASE OsworldIterate
    BY <1>1, <2>1, <2>2 DEF OsworldIterate, Paired
  <2>3. CASE OsworldGivesUp \/ OsworldReply
    BY <1>1, <2>1, <2>3 DEF OsworldGivesUp, OsworldReply, Asked, Go, Paired
  <2>4. CASE OsworldRaises \/ OsworldLooks \/ OsworldAction \/ OsworldDone \/ OsworldEnds
    BY <2>1, <2>4 DEF OsworldRaises, OsworldLooks, OsworldAction, OsworldDone, OsworldEnds, osworldVars, Go, End, Paired
  <2>5. CASE OsworldCallFails
    BY <2>1, <2>5 DEF OsworldCallFails, osworldVars, Paired
  <2>6. QED
    BY <1>2, <2>2, <2>3, <2>4, <2>5 DEF OsworldNext
<1>3. CASE ~OsworldNext
  <2>1. CASE UNCHANGED vars
    BY <2>1 DEF vars, talkVars, osworldVars, Paired
  <2>2. CASE SweNext \/ TerminusNext \/ CocoaNext
    BY <2>2, OthersKeepAgent DEF Paired
  <2>3. QED
    BY <1>3, <2>1, <2>2 DEF Next
<1>4. QED
  BY <1>2, <1>3

LEMMA TypesAlways == Spec => [](Typed /\ Paired)
<1>1. Init => Typed /\ Paired
  <2>1. SweHistory \in Seq(Message) /\ <<>> \in Seq(Message)
    BY Forms DEF SweHistory, Roles
  <2>2. Init => TalkTypeOK /\ InTurn
    BY <2>1, ConversationAssumption DEF Init, TalkInit, TalkTypeOK, InTurn, Results
  <2>3. Init => SweTypeOK /\ TerminusTypeOK
    <3>1. 0 \in 0 .. 2 /\ 0 \in 0 .. SummaryCalls + 1
      BY DEF SummaryCalls
    <3>2. QED
      BY <3>1, Zenon DEF Init, SweInit, TerminusInit, SweTypeOK, TerminusTypeOK, Prompts
  <2>4. Init => CocoaTypeOK
    <3>1. 1 \in 1 .. MaxParseRetries
      BY RetriesAssumption
    <3>2. QED
      BY <3>1, Zenon DEF Init, CocoaInit, CocoaTypeOK
  <2>5. Init => OsworldTypeOK /\ Paired
    <3>1. Init => screenshots = 0 /\ responses = 0 /\ finishing = FALSE /\ pc = "loop"
      BY DEF Init, TalkInit, OsworldInit
    <3>2. Init => OsworldTypeOK
      <4>1. 0 \in Nat
        OBVIOUS
      <4>2. QED
        BY <3>1, <4>1, Zenon DEF OsworldTypeOK
    <3>3. Init => Paired
      BY <3>1 DEF Paired
    <3>4. QED
      BY <3>2, <3>3
  <2>6. QED
    BY <2>1, <2>2, <2>3, <2>4, <2>5 DEF Init, Typed, TypeOK
<1>2. Typed /\ Paired /\ [Next]_vars => Typed' /\ Paired'
  <2>1. Typed /\ UNCHANGED vars => Typed'
    BY DEF vars, talkVars, sweVars, terminusVars, cocoaVars, osworldVars, Typed, TypeOK, TalkTypeOK, SweTypeOK,
       TerminusTypeOK, CocoaTypeOK, OsworldTypeOK, InTurn
  <2>2. Paired /\ OsworldNext => responses <= screenshots
    BY DEF Paired, OsworldNext
  <2>3. QED
    BY <2>1, <2>2, SweTypes, TerminusTypes, CocoaTypes, OsworldTypes, PairedStep DEF Next
<1>3. QED
  BY <1>1, <1>2, PTL DEF Spec

(* The variables of every agent keep their types, the iterations and the    *)
(* retries stay within their numbers, and no tool is run for a call that    *)
(* the reply does not have.                                                 *)
THEOREM TypeCorrect == Spec => []TypeOK
<1>1. Typed => TypeOK
  BY DEF Typed
<1>2. QED
  BY <1>1, TypesAlways, PTL

-----------------------------------------------------------------------------
(* Calls                                                                    *)

(* What one more attempt may spend, and that the last may end there.        *)
LEMMA Spending ==
  ASSUME NEW a \in 1 .. MaxParseRetries
  PROVE  /\ TwiceSpent(a) \in Int
         /\ TwiceSpent(a + 1) = TwiceSpent(a) + 2 * (MaxParseRetries + 1 - a)
         /\ TwiceSpent(a + 1) <= TwiceSpent(MaxParseRetries + 1)
         /\ TwiceSpent(1) = 0
<1> DEFINE M == MaxParseRetries
           d == M - a
<1>1. a \in Nat /\ M \in Nat /\ d \in Nat /\ a = M - d
  BY RetriesAssumption
<1>2. TwiceSpent(a) = (M - d - 1) * (M + 2 + d)
  BY <1>1 DEF TwiceSpent
<1>3. TwiceSpent(a + 1) = (M - d) * (M + 1 + d)
  BY <1>1 DEF TwiceSpent
<1>4. TwiceSpent(M + 1) = M * (M + 1)
  BY <1>1 DEF TwiceSpent
<1>5. (M - d) * (M + 1 + d) = (M - d - 1) * (M + 2 + d) + 2 * (d + 1)
  BY <1>1
<1>6. M * (M + 1) = (M - d) * (M + 1 + d) + d * (d + 1)
  BY <1>1
<1>7. d * (d + 1) >= 0 /\ d * (d + 1) \in Int
  BY <1>1
<1>8. TwiceSpent(1) = 0
  BY <1>1 DEF TwiceSpent
<1>9. TwiceSpent(a) \in Int /\ (M - d) * (M + 1 + d) \in Int
  BY <1>1, <1>2
<1>10. QED
  BY <1>1, <1>2, <1>3, <1>4, <1>5, <1>6, <1>7, <1>8, <1>9

LEMMA SpentStep ==
  ASSUME Typed, Spent, [Next]_vars
  PROVE  Spent'
<1>1. /\ asked \in Nat /\ MaxParseRetries \in Nat /\ MaxParseRetries >= 1
      /\ attempt \in 1 .. MaxParseRetries /\ depth \in 1 .. MaxParseRetries /\ chunks \in 0 .. 2
      /\ fallback \in BOOLEAN
  BY RetriesAssumption DEF Typed, TypeOK, TalkTypeOK, TerminusTypeOK, CocoaTypeOK
<1>2. CASE SweNext
  <2>1. agent \in SweAgents /\ agent \notin CocoaAgents \cup {"terminus", "osworld"} /\ agent' = agent
    BY <1>2, OthersKeepAgent
  <2>2. asked <= 1 /\ (pc = "ask" => asked = 0)
    BY <2>1 DEF Spent
  <2> SUFFICES asked' <= 1 /\ (pc' = "ask" => asked' = 0)
    BY <2>1 DEF Spent
  <2>3. CASE SweIterate
    BY <2>3 DEF SweIterate, Iterate
  <2>4. CASE SweCallFails \/ SweEmptyReply \/ CodeActReply \/ MiniReply \/ R2eReply
    BY <1>1, <2>2, <2>4 DEF SweCallFails, SweEmptyReply, CodeActReply, MiniReply, R2eReply, Asked, Go, End
  <2>5. CASE SweExhausted \/ CodeActTool \/ CodeActFinish \/ MiniCommand \/ MiniFinish
    BY <2>2, <2>5 DEF SweExhausted, CodeActTool, CodeActFinish, MiniCommand, MiniFinish, Go, End
  <2>6. CASE R2eAction \/ R2eFinish \/ SweToolRaises \/ SweDiffRaises
    BY <2>2, <2>6 DEF R2eAction, R2eFinish, SweToolRaises, SweDiffRaises, Go, End
  <2>7. QED
    BY <1>2, <2>3, <2>4, <2>5, <2>6 DEF SweNext
<1>3. CASE TerminusNext
  <2>1. agent = "terminus" /\ agent' = "terminus"
    BY <1>3, OthersKeepAgent
  <2>2. /\ asked <= 25
        /\ pc = "check" => asked <= briefs /\ briefs <= 3
        /\ pc = "ask" => asked <= (IF fallback THEN 16 ELSE 3) + 3 * chunks + retries
        /\ pc = "shrink" => asked <= 12 + briefs
        /\ pc \in {"loop", "ask", "act"} => briefs = 0
        /\ retries \in 0 .. 2 /\ briefs \in 0 .. 4
    BY <2>1 DEF Spent, Typed, TypeOK, TerminusTypeOK, SummaryCalls
  <2> DEFINE Bounds == /\ asked' <= 25
                       /\ pc' = "check" => asked' <= briefs' /\ briefs' <= 3
                       /\ pc' = "ask" => asked' <= (IF fallback' THEN 16 ELSE 3) + 3 * chunks' + retries'
                       /\ pc' = "shrink" => asked' <= 12 + briefs'
                       /\ pc' \in {"loop", "ask", "act"} => briefs' = 0
  <2> SUFFICES Bounds
    BY <2>1 DEF Spent, SweAgents, CocoaAgents
  <2>3. CASE TerminusIterate
    BY <1>1, <2>2, <2>3 DEF TerminusIterate, Iterate, Go, terminusVars
  <2>4. CASE TerminusChecked \/ TerminusSummarises \/ TerminusShrinks
    <3>1. /\ asked' = asked /\ pc' = "ask" /\ chunks' = 0 /\ retries' = 0 /\ briefs' = 0
          /\ (pc = "check" /\ fallback' = FALSE) \/ (pc = "shrink" /\ fallback' = TRUE)
      BY <2>4 DEF TerminusChecked, Send, TerminusSummarises, TerminusShrinks, Go, CallAnew
    <3>2. asked <= IF pc = "shrink" THEN 16 ELSE 3
      BY <1>1, <2>2, <3>1
    <3>3. QED
      BY <1>1, <3>1, <3>2
  <2>5. CASE TerminusBriefs \/ TerminusShortBrief
    BY <1>1, <2>2, <2>5 DEF TerminusBriefs, TerminusShortBrief, SummaryCalls
  <2>6. CASE TerminusTruncated \/ TerminusRetries
    BY <1>1, <2>2, <2>6 DEF TerminusTruncated, MayChunk, TerminusRetries, MayRetry, Asked
  <2>7. CASE TerminusReply \/ TerminusCallFails \/ TerminusEmptyReply \/ TerminusTooLong \/ TerminusSynthetic
    <3>1. /\ pc = "ask" /\ asked' = asked + 1 /\ briefs' = briefs /\ pc' \in {"act", "done", "shrink"}
          /\ pc' = "shrink" => ~fallback
      BY <2>7 DEF TerminusReply, TerminusCallFails, TerminusEmptyReply, TerminusTooLong, TerminusSynthetic,
         Asked, Go, End, terminusVars
    <3>2. QED
      BY <1>1, <2>2, <3>1
  <2>8. CASE TerminusStops \/ TerminusShrinkRaises \/ TerminusParseError \/ TerminusComplete \/ TerminusWork
             \/ TerminusRaises \/ TerminusStopRaises
    <3>1. asked' = asked /\ briefs' = briefs /\ (pc' = "done" \/ (pc = "act" /\ pc' = "loop"))
      BY <2>8 DEF TerminusStops, TerminusShrinkRaises, TerminusParseError, TerminusComplete,
         TerminusWork, TerminusRaises, TerminusStopRaises, Go, End, terminusVars
    <3>2. QED
      BY <2>2, <3>1
  <2>9. QED
    BY <1>3, <2>3, <2>4, <2>5, <2>6, <2>7, <2>8 DEF TerminusNext
<1>4. CASE CocoaNext
  <2>1. agent \in CocoaAgents /\ agent' = agent /\ agent \notin SweAgents \cup {"terminus", "osworld"}
    BY <1>4, OthersKeepAgent
  <2> DEFINE T == TwiceSpent(MaxParseRetries + 1)
             P == TwiceSpent(attempt)
             N == TwiceSpent(attempt + 1)
  <2>2. /\ P \in Int /\ N = P + 2 * (MaxParseRetries + 1 - attempt) /\ N <= T /\ TwiceSpent(1) = 0
        /\ N \in Int /\ T \in Int /\ 0 <= T
    <3>1. 1 \in 1 .. MaxParseRetries /\ MaxParseRetries \in 1 .. MaxParseRetries
      BY <1>1
    <3>2. TwiceSpent(2) = 2 * MaxParseRetries /\ TwiceSpent(2) <= T
      <4>1. TwiceSpent(1 + 1) = TwiceSpent(1) + 2 * (MaxParseRetries + 1 - 1) /\ TwiceSpent(1 + 1) <= T /\ TwiceSpent(1) = 0
        BY <3>1, Spending
      <4>2. QED
        BY <1>1, <4>1
    <3>3. T \in Int
      BY <3>1, <1>1, Spending
    <3>4. QED
      BY <1>1, <3>1, <3>2, <3>3, Spending
  <2>3. 2 * asked <= T /\ (pc = "ask" => attempt <= depth /\ 2 * asked <= P + 2 * (depth - attempt))
    BY <2>1 DEF Spent
  <2>4. CASE CocoaIterate
    <3>1. attempt' = 1 /\ depth' = 1 /\ asked' = 0
      BY <2>4 DEF CocoaIterate, Iterate
    <3>2. TwiceSpent(attempt') = 0
      BY <2>2, <3>1
    <3>3. QED
      BY <2>1, <2>2, <3>1, <3>2 DEF Spent
  <2>5. CASE pc = "ask" /\ pc' # "ask" /\ asked' = asked + 1
    <3>1. 2 * asked' <= T
      BY <1>1, <2>2, <2>3, <2>5
    <3>2. QED
      BY <2>1, <2>5, <3>1 DEF Spent
  <2>6. CASE /\ pc = "ask" /\ asked' = asked + 1 /\ attempt' = attempt /\ depth' = depth + 1
             /\ depth < MaxParseRetries
    <3>1. 2 * asked' <= T /\ attempt' <= depth' /\ 2 * asked' <= P + 2 * (depth' - attempt')
      BY <1>1, <2>2, <2>3, <2>6
    <3>2. TwiceSpent(attempt') = P
      BY <2>6
    <3>3. QED
      BY <2>1, <3>1, <3>2 DEF Spent
  <2>7. CASE /\ pc = "ask" /\ asked' = asked + 1 /\ attempt' = attempt + 1 /\ depth' = attempt + 1
             /\ attempt < MaxParseRetries
    <3>1. 2 * asked' <= T /\ attempt' <= depth' /\ 2 * asked' <= N + 2 * (depth' - attempt')
      BY <1>1, <2>2, <2>3, <2>7
    <3>2. TwiceSpent(attempt') = N
      BY <2>7
    <3>3. QED
      BY <2>1, <3>1, <3>2 DEF Spent
  <2>8. CASE asked' = asked /\ pc' # "ask"
    BY <2>1, <2>3, <2>8 DEF Spent
  <2>9. CASE \E s : Asked /\ UNCHANGED attempt /\ (Correct(s) \/ GiveUp(s))
    <3>1. CASE depth < MaxParseRetries
      BY <1>1, <2>6, <2>9, <3>1 DEF Asked, Correct, GiveUp, Deepen
    <3>2. CASE ~(depth < MaxParseRetries)
      BY <2>5, <2>9, <3>2 DEF Asked, Correct, GiveUp, Go
    <3>3. QED
      BY <3>1, <3>2
  <2>10. CASE Asked /\ Retry
    <3>1. CASE attempt < MaxParseRetries
      BY <2>7, <2>10, <3>1 DEF Asked, Retry
    <3>2. CASE ~(attempt < MaxParseRetries)
      BY <2>5, <2>10, <3>2 DEF Asked, Retry, End
    <3>3. QED
      BY <3>1, <3>2
  <2>11. CASE CocoaTextCorrected \/ CocoaMalformedCalls \/ CocoaUnknownCalls
    BY <2>9, <2>11 DEF CocoaTextCorrected, CocoaMalformedCalls, CocoaUnknownCalls
  <2>12. CASE CocoaCallFails \/ CocoaTextRaises
    BY <2>10, <2>12 DEF CocoaCallFails, CocoaTextRaises
  <2>13. CASE CocoaRefused \/ CocoaText \/ CocoaCalls
    BY <2>5, <2>13 DEF CocoaRefused, CocoaText, CocoaCalls, Asked, Go, End
  <2>14. CASE CocoaExhausted \/ CocoaAction \/ CocoaComplete \/ CocoaSandboxRaises
    BY <2>8, <2>14 DEF CocoaExhausted, CocoaAction, CocoaComplete, CocoaSandboxRaises, Go, End
  <2>15. QED
    BY <1>4, <2>4, <2>11, <2>12, <2>13, <2>14 DEF CocoaNext
<1>5. CASE OsworldNext
  <2>1. agent = "osworld" /\ agent' = agent /\ agent \notin SweAgents \cup CocoaAgents
    BY <1>5, OthersKeepAgent
  <2>2. asked <= 5 /\ (pc = "ask" => asked < 5)
    BY <2>1 DEF Spent
  <2> SUFFICES asked' <= 5 /\ (pc' = "ask" => asked' < 5)
    BY <2>1 DEF Spent
  <2>3. CASE OsworldIterate
    BY <2>3 DEF OsworldIterate, Iterate
  <2>4. CASE OsworldCallFails \/ OsworldGivesUp \/ OsworldReply
    BY <1>1, <2>2, <2>4 DEF OsworldCallFails, OsworldGivesUp, OsworldReply, MAX_RETRY_TIMES, Asked, Go
  <2>5. CASE OsworldRaises \/ OsworldLooks \/ OsworldAction \/ OsworldDone \/ OsworldEnds
    BY <2>2, <2>5 DEF OsworldRaises, OsworldLooks, OsworldAction, OsworldDone, OsworldEnds, Go, End
  <2>6. QED
    BY <1>5, <2>3, <2>4, <2>5 DEF OsworldNext
<1>6. CASE UNCHANGED vars
  BY <1>6 DEF vars, talkVars, terminusVars, cocoaVars, Spent, TwiceSpent
<1>7. QED
  BY <1>2, <1>3, <1>4, <1>5, <1>6 DEF Next

(* However a model misbehaves, an iteration asks it a bounded number of     *)
(* times, for every number of attempts: although the corrections nest       *)
(* inside the attempts, the sum is that of a triangle.                      *)
THEOREM CallsBounded == Spec => []CallsAreBounded
<1>1. Init => Spent
  <2>1. 0 <= TwiceSpent(MaxParseRetries + 1)
    <3>1. TwiceSpent(MaxParseRetries + 1) = MaxParseRetries * (MaxParseRetries + 1)
      BY RetriesAssumption DEF TwiceSpent
    <3>2. QED
      BY <3>1, RetriesAssumption
  <2>2. QED
    BY <2>1 DEF Init, TalkInit, TerminusInit, Spent
<1>2. Typed /\ Spent => CallsAreBounded
  <2>1. SUFFICES ASSUME Typed, Spent PROVE CallsAreBounded
    OBVIOUS
  <2>2. asked \in Nat /\ MaxParseRetries \in Nat /\ agent \in AgentKinds
    BY <2>1, RetriesAssumption DEF Typed, TypeOK, TalkTypeOK
  <2>3. CASE agent \in CocoaAgents
    <3>1. 2 * asked <= TwiceSpent(MaxParseRetries + 1)
      BY <2>1, <2>3 DEF Spent
    <3>2. TwiceSpent(MaxParseRetries + 1) = MaxParseRetries * (MaxParseRetries + 1)
      BY <2>2 DEF TwiceSpent
    <3>3. MaxParseRetries * (MaxParseRetries + 1) \in Nat
      BY <2>2
    <3>4. asked <= NestedRetries
      BY <2>2, <3>1, <3>2, <3>3 DEF NestedRetries
    <3>5. QED
      BY <2>3, <3>4 DEF CallsAreBounded, CocoaAgents, SweAgents
  <2>4. CASE agent \in SweAgents \cup {"terminus", "osworld"}
    BY <2>1, <2>4 DEF Spent, CallsAreBounded, MAX_RETRY_TIMES, SweAgents
  <2>5. QED
    BY <2>2, <2>3, <2>4 DEF AgentKinds
<1>3. QED
  BY <1>1, <1>2, SpentStep, TypesAlways, PTL DEF Spec

-----------------------------------------------------------------------------
(* Ends                                                                     *)

(* The ways of a run: into an iteration, through a summary, to the model,   *)
(* back from it, through the tools, out of the loop, and out of run() by an *)
(* exception.                                                               *)
Begins == pc = "loop" /\ iterations' = iterations + 1 /\ pc' \in {"ask", "check"}
Briefs == pc \in {"check", "shrink"} /\ pc' = pc /\ asked' = asked + 1
Sends == pc \in {"check", "shrink"} /\ pc' = "ask" /\ asked' = asked
Returns == pc = "ask" /\ asked' = asked + 1 /\ pc' \in {"ask", "shrink", "act", "loop", "done"}
Acts == pc = "act" /\ (pc' \in {"loop", "done"} \/ (pc' = "act" /\ turn' = turn + 1))
Leaves == pc \in {"loop", "check", "shrink"} /\ pc' = "done"
Fails == pc = "done" /\ pc' = "done" /\ result # "raised" /\ result' = "raised"

Continues == iterations' = iterations /\ (Briefs \/ Sends \/ Returns \/ Acts \/ Leaves \/ Fails)

LEMMA SweMoves == SweNext => Begins \/ Continues
<1> USE DEF Begins, Continues, Asked, Go, End
<1>1. SweIterate => Begins
  BY DEF SweIterate, Iterate
<1>2. SweCallFails \/ SweEmptyReply \/ CodeActReply \/ MiniReply \/ R2eReply => Continues
  BY DEF Returns, SweCallFails, SweEmptyReply, CodeActReply, MiniReply, R2eReply
<1>3. SweExhausted \/ SweDiffRaises => Continues
  BY DEF Leaves, Fails, SweExhausted, SweDiffRaises
<1>4. CodeActTool \/ CodeActFinish \/ MiniCommand \/ MiniFinish => Continues
  BY DEF Acts, CodeActTool, CodeActFinish, MiniCommand, MiniFinish
<1>5. R2eAction \/ R2eFinish \/ SweToolRaises => Continues
  BY DEF Acts, R2eAction, R2eFinish, SweToolRaises
<1>6. QED
  BY <1>1, <1>2, <1>3, <1>4, <1>5 DEF SweNext

LEMMA TerminusMoves == TerminusNext => Begins \/ Continues
<1> USE DEF Begins, Continues, Asked, Go, End
<1>1. TerminusIterate => Begins
  BY DEF TerminusIterate, Iterate
<1>2. TerminusChecked \/ TerminusSummarises \/ TerminusShrinks => Continues
  BY DEF Sends, TerminusChecked, Send, TerminusSummarises, TerminusShrinks
<1>3. TerminusReply \/ TerminusTruncated \/ TerminusRetries \/ TerminusCallFails => Continues
  BY DEF Returns, TerminusReply, TerminusTruncated, TerminusRetries, TerminusCallFails
<1>4. TerminusEmptyReply \/ TerminusTooLong \/ TerminusSynthetic => Continues
  BY DEF Returns, TerminusEmptyReply, TerminusTooLong, TerminusSynthetic
<1>5. TerminusParseError \/ TerminusComplete \/ TerminusWork => Continues
  BY DEF Acts, TerminusParseError, TerminusComplete, TerminusWork
<1>6. TerminusStops \/ TerminusShrinkRaises \/ TerminusRaises \/ TerminusStopRaises => Continues
  BY DEF Acts, Leaves, Fails, TerminusStops, TerminusShrinkRaises, TerminusRaises, TerminusStopRaises
<1>7. TerminusBriefs \/ TerminusShortBrief => Continues
  BY DEF Briefs, TerminusBriefs, TerminusShortBrief
<1>8. QED
  BY <1>1, <1>2, <1>3, <1>4, <1>5, <1>6, <1>7 DEF TerminusNext

LEMMA CocoaMoves == CocoaNext => Begins \/ Continues
<1> USE DEF Begins, Continues, Asked, Go, End
<1>1. CocoaIterate => Begins
  BY DEF CocoaIterate, Iterate
<1>2. Asked /\ iterations' = iterations /\ Retry => Continues
  BY DEF Returns, Retry
<1>3. Asked /\ iterations' = iterations /\ (\E s : Correct(s) \/ GiveUp(s)) => Continues
  BY DEF Returns, Correct, GiveUp
<1>4. CocoaCallFails \/ CocoaTextRaises => Continues
  BY <1>2 DEF CocoaCallFails, CocoaTextRaises
<1>5. CocoaTextCorrected \/ CocoaMalformedCalls \/ CocoaUnknownCalls => Continues
  BY <1>3 DEF CocoaTextCorrected, CocoaMalformedCalls, CocoaUnknownCalls
<1>6. CocoaRefused \/ CocoaText \/ CocoaCalls => Continues
  BY DEF Returns, CocoaRefused, CocoaText, CocoaCalls
<1>7. CocoaExhausted \/ CocoaAction \/ CocoaComplete \/ CocoaSandboxRaises => Continues
  BY DEF Leaves, Acts, CocoaExhausted, CocoaAction, CocoaComplete, CocoaSandboxRaises
<1>8. QED
  BY <1>1, <1>4, <1>5, <1>6, <1>7 DEF CocoaNext

LEMMA OsworldMoves == OsworldNext => Begins \/ Continues
<1> USE DEF Begins, Continues, Asked, Go, End
<1>1. OsworldIterate => Begins
  BY DEF OsworldIterate, Iterate
<1>2. OsworldCallFails \/ OsworldGivesUp \/ OsworldReply => Continues
  BY DEF Returns, OsworldCallFails, OsworldGivesUp, OsworldReply
<1>3. OsworldLooks \/ OsworldAction \/ OsworldDone => Continues
  BY DEF Acts, OsworldLooks, OsworldAction, OsworldDone
<1>4. OsworldRaises \/ OsworldEnds => Continues
  BY DEF Acts, Leaves, OsworldRaises, OsworldEnds
<1>5. QED
  BY <1>1, <1>2, <1>3, <1>4 DEF OsworldNext

(* The effort of an iteration is less than its length.                      *)
Measured ==
    /\ MostAsked \in Nat /\ MaxCalls \in Nat /\ IterationLength \in Nat
    /\ asked \in 0 .. MostAsked
    /\ turn \in 1 .. MaxCalls + 1
    /\ iterations \in 0 .. MaxIterations
    /\ Effort \in Nat /\ Effort < IterationLength

LEMMA EffortIsBounded == Typed /\ CallsAreBounded => Measured
<1> SUFFICES ASSUME Typed, CallsAreBounded PROVE Measured
  OBVIOUS
<1>1. /\ asked \in Nat /\ turn \in 1 .. MaxCalls + 1 /\ MaxCalls \in Nat /\ iterations \in 0 .. MaxIterations
      /\ pc \in {"loop", "check", "ask", "shrink", "act", "done"}
  BY ConversationAssumption DEF Typed, TypeOK, TalkTypeOK
<1>2. NestedRetries \in Nat
  <2>1. MaxParseRetries * (MaxParseRetries + 1) \in Nat
    BY RetriesAssumption
  <2>2. QED
    BY <2>1 DEF NestedRetries
<1>3. asked <= MostAsked /\ MostAsked \in Nat
  BY <1>1, <1>2 DEF CallsAreBounded, MostAsked, MAX_RETRY_TIMES
<1>4. IterationLength \in Nat
  BY <1>1, <1>3 DEF IterationLength
<1>5. Effort \in Nat /\ Effort < IterationLength
  BY <1>1, <1>3 DEF Effort, IterationLength
<1>6. QED
  BY <1>1, <1>3, <1>4, <1>5 DEF Measured

(* A step that stays in its iteration comes further in it.                  *)
LEMMA EffortGrows ==
  ASSUME Measured, Measured', Continues
  PROVE  Effort < Effort'
<1>1. /\ asked \in 0 .. MostAsked /\ turn \in 1 .. MaxCalls + 1 /\ MostAsked \in Nat /\ MaxCalls \in Nat
      /\ asked' \in 0 .. MostAsked /\ turn' \in 1 .. MaxCalls + 1
  BY DEF Measured, MostAsked, NestedRetries
<1>2. CASE Briefs \/ Sends
  BY <1>1, <1>2 DEF Briefs, Sends, Effort
<1>3. CASE Returns
  BY <1>1, <1>3 DEF Returns, Effort
<1>4. CASE Acts
  BY <1>1, <1>4 DEF Acts, Effort
<1>5. CASE Leaves
  BY <1>1, <1>5 DEF Leaves, Effort
<1>6. CASE Fails
  BY <1>1, <1>6 DEF Fails, Effort
<1>7. QED
  BY <1>2, <1>3, <1>4, <1>5, <1>6 DEF Continues

LEMMA Further ==
  ASSUME NEW l \in Nat, NEW i \in Nat, NEW j \in Nat, NEW e \in Nat, NEW f \in Nat,
         e < l, j = i + 1 \/ (j = i /\ e < f)
  PROVE  i * l + e < j * l + f
<1>1. i * l \in Nat /\ (i + 1) * l = i * l + l
  OBVIOUS
<1>2. QED
  BY <1>1

(* No run of an agent goes on for ever, whatever the model answers: with    *)
(* every step it comes further, and how far it can come is bounded by the   *)
(* iterations, the attempts at a reply and the calls in one.                *)
THEOREM RunsEnd == Spec => []WorkIsBounded /\ [][Advances]_vars
<1>1. Measured => WorkIsBounded
  <2> SUFFICES ASSUME Measured PROVE WorkIsBounded
    OBVIOUS
  <2> DEFINE L == IterationLength
  <2>1. iterations \in 0 .. MaxIterations /\ MaxIterations \in Nat /\ L \in Nat /\ Effort \in Nat /\ Effort < L
    BY ConversationAssumption DEF Measured
  <2> HIDE DEF L
  <2>2. iterations * L \in Nat /\ MaxIterations * L \in Nat /\ iterations * L <= MaxIterations * L
    BY <2>1
  <2>3. (MaxIterations + 1) * L = MaxIterations * L + L
    BY <2>1
  <2>4. QED
    BY <2>1, <2>2, <2>3 DEF WorkIsBounded, Work, L
<1>2. Measured /\ Measured' /\ [Next]_vars => [Advances]_vars
  <2> SUFFICES ASSUME Measured, Measured', Next, ~UNCHANGED vars PROVE Work < Work'
    BY DEF Advances
  <2> DEFINE L == IterationLength
  <2>1. L' = L
    BY DEF IterationLength, MostAsked, NestedRetries
  <2>2. /\ iterations \in Nat /\ L \in Nat /\ Effort \in Nat /\ Effort < L
        /\ iterations' \in Nat /\ Effort' \in Nat
    BY <2>1 DEF Measured
  <2>3. Work = iterations * L + Effort /\ Work' = iterations' * L + Effort'
    BY <2>1 DEF Work
  <2>4. iterations' = iterations + 1 \/ (iterations' = iterations /\ Effort < Effort')
    <3>1. Begins \/ Continues
      BY SweMoves, TerminusMoves, CocoaMoves, OsworldMoves DEF Next
    <3>2. QED
      BY <3>1, EffortGrows DEF Begins, Continues
  <2> HIDE DEF L
  <2>5. iterations * L + Effort < iterations' * L + Effort'
    BY <2>2, <2>4, Further
  <2>6. QED
    BY <2>3, <2>5
<1>3. QED
  BY <1>1, <1>2, EffortIsBounded, CallsBounded, TypesAlways, PTL DEF Spec

-----------------------------------------------------------------------------
(* Outcomes                                                                 *)

LEMMA SweEarns ==
  ASSUME Typed, Earning, SweNext, UNCHANGED <<terminusVars, cocoaVars, osworldVars>>
  PROVE  Earning'
<1>1. agent \in SweAgents /\ agent \notin CocoaAgents \cup {"terminus", "osworld"} /\ agent' = agent
  BY OthersKeepAgent
<1>2. /\ result = "none" <=> pc # "done"
      /\ pc # "done" => ~finished /\ failure = "none" /\ exitStatus = "unknown"
      /\ pc = "done" /\ result # "raised" => SweOutcome
  BY <1>1 DEF Earning, OutcomesAreEarned
<1>3. iterations \in Nat /\ MaxIterations \in Nat /\ iterations <= MaxIterations
  BY ConversationAssumption DEF Typed, TypeOK, TalkTypeOK
<1> SUFFICES /\ result' = "none" <=> pc' # "done"
             /\ pc' # "done" => ~finished' /\ failure' = "none" /\ exitStatus' = "unknown"
             /\ pc' = "done" /\ result' # "raised" => SweOutcome'
  BY <1>1 DEF Earning, OutcomesAreEarned
<1>4. CASE SweExhausted
  BY <1>2, <1>3, <1>4 DEF SweExhausted, End, SweStatus, SweOutcome, sweVars
<1>5. CASE SweCallFails
  BY <1>2, <1>3, <1>5 DEF SweCallFails, Asked, End, SweStatus, SweOutcome
<1>6. CASE SweEmptyReply \/ SweToolRaises
  BY <1>2, <1>3, <1>6 DEF SweEmptyReply, SweToolRaises, Asked, End, SweOutcome
<1>7. CASE CodeActFinish \/ MiniFinish \/ R2eFinish
  BY <1>2, <1>3, <1>7 DEF CodeActFinish, MiniFinish, R2eFinish, End, SweStatus, SweOutcome
<1>8. CASE SweDiffRaises
  BY <1>2, <1>8 DEF SweDiffRaises
<1>9. CASE \/ SweIterate \/ CodeActReply \/ CodeActTool \/ MiniReply \/ MiniCommand \/ R2eReply \/ R2eAction
  <2>1. pc # "done" /\ pc' # "done" /\ UNCHANGED <<result, finished, failure, exitStatus>>
    BY <1>9 DEF SweIterate, Iterate, CodeActReply, CodeActTool, MiniReply, MiniCommand, R2eReply, R2eAction,
       Asked, Go, sweVars
  <2>2. QED
    BY <1>2, <2>1
<1>10. QED
  BY <1>4, <1>5, <1>6, <1>7, <1>8, <1>9 DEF SweNext

LEMMA TerminusEarns ==
  ASSUME Typed, Earning, TerminusNext, UNCHANGED <<sweVars, cocoaVars, osworldVars>>
  PROVE  Earning'
<1>1. agent = "terminus" /\ agent' = "terminus" /\ agent \notin SweAgents \cup CocoaAgents
  BY OthersKeepAgent
<1>2. /\ result = "none" <=> pc # "done"
      /\ pending => confirmation # "no" \/ (prompt = "confirm" /\ pc \in {"loop", "check", "done"})
      /\ result = "finished" => confirmation # "no"
  BY <1>1 DEF Earning, OutcomesAreEarned
<1> SUFFICES /\ result' = "none" <=> pc' # "done"
             /\ pending' => confirmation' # "no" \/ (prompt' = "confirm" /\ pc' \in {"loop", "check", "done"})
             /\ result' = "finished" => confirmation' # "no"
  BY <1>1 DEF Earning, OutcomesAreEarned
<1>3. CASE TerminusIterate
  BY <1>2, <1>3 DEF TerminusIterate, Iterate, Go, terminusVars
<1>4. CASE TerminusStops \/ TerminusRaises \/ TerminusStopRaises \/ TerminusShrinkRaises
           \/ TerminusCallFails \/ TerminusEmptyReply
  BY <1>2, <1>4 DEF TerminusStops, TerminusRaises, TerminusStopRaises, TerminusShrinkRaises, TerminusCallFails,
     TerminusEmptyReply, Asked, End, terminusVars
<1>5. CASE TerminusTooLong
  BY <1>2, <1>5 DEF TerminusTooLong, Asked, Go, terminusVars
<1>6. CASE TerminusChecked
  BY <1>2, <1>6 DEF TerminusChecked, Send
<1>7. CASE TerminusSummarises \/ TerminusShrinks
  <2>1. /\ pc \in {"check", "shrink"} /\ pc' = "ask" /\ result' = result /\ pending' = pending
        /\ confirmation' = IF prompt = "confirm" THEN "lost" ELSE confirmation
    BY <1>7 DEF TerminusSummarises, TerminusShrinks, Displace, Go
  <2>2. QED
    BY <1>2, <2>1
<1>8. CASE \/ TerminusReply \/ TerminusTruncated \/ TerminusRetries \/ TerminusSynthetic
           \/ TerminusBriefs \/ TerminusShortBrief
  BY <1>2, <1>8 DEF TerminusReply, TerminusTruncated, TerminusRetries, TerminusSynthetic, TerminusBriefs,
     TerminusShortBrief, Asked, Go
<1>9. CASE TerminusParseError \/ TerminusWork
  BY <1>2, <1>9 DEF TerminusParseError, TerminusWork, Unpend, Go
<1>10. CASE TerminusComplete
  BY <1>2, <1>10 DEF TerminusComplete, Go, End
<1>11. QED
  BY <1>3, <1>4, <1>5, <1>6, <1>7, <1>8, <1>9, <1>10 DEF TerminusNext

LEMMA CocoaEarns ==
  ASSUME Typed, Earning, CocoaNext, UNCHANGED <<sweVars, terminusVars, osworldVars>>
  PROVE  Earning'
<1>1. agent \in CocoaAgents /\ agent' = agent /\ agent \notin SweAgents \cup {"terminus", "osworld"}
  BY OthersKeepAgent
<1>2. /\ result = "none" <=> pc # "done"
      /\ pc # "done" => ~given /\ ~taskResult
      /\ taskResult <=> given /\ reply <= 1
  BY <1>1 DEF Earning, OutcomesAreEarned
<1> SUFFICES /\ result' = "none" <=> pc' # "done"
             /\ pc' # "done" => ~given' /\ ~taskResult'
             /\ taskResult' <=> given' /\ reply' <= 1
  BY <1>1 DEF Earning, OutcomesAreEarned
<1>3. CASE CocoaComplete
  BY <1>2, <1>3 DEF CocoaComplete, End
<1>4. CASE ~CocoaComplete
  <2>1. pc # "done" /\ UNCHANGED <<given, taskResult>>
    BY <1>4 DEF CocoaNext, CocoaIterate, Iterate, CocoaExhausted, CocoaCallFails, CocoaRefused, CocoaText,
       CocoaTextCorrected, CocoaTextRaises, CocoaMalformedCalls, CocoaUnknownCalls, CocoaCalls, CocoaAction,
       CocoaSandboxRaises, Asked, cocoaVars
  <2>2. result' = "none" <=> pc' # "done"
    <3>1. CASE \E s : Asked /\ (Correct(s) \/ GiveUp(s))
      BY <1>2, <3>1 DEF Asked, Correct, GiveUp, Go
    <3>2. CASE Asked /\ Retry
      BY <1>2, <3>2 DEF Asked, Retry, End
    <3>3. CASE CocoaIterate \/ CocoaExhausted \/ CocoaRefused \/ CocoaText \/ CocoaCalls \/ CocoaAction
               \/ CocoaSandboxRaises
      BY <1>2, <3>3 DEF CocoaIterate, Iterate, CocoaExhausted, CocoaRefused, CocoaText, CocoaCalls, CocoaAction,
         CocoaSandboxRaises, Asked, Go, End
    <3>4. QED
      BY <1>4, <3>1, <3>2, <3>3 DEF CocoaNext, CocoaCallFails, CocoaTextRaises, CocoaTextCorrected,
         CocoaMalformedCalls, CocoaUnknownCalls
  <2>3. QED
    BY <1>2, <2>1, <2>2
<1>5. QED
  BY <1>3, <1>4

LEMMA OsworldEarns ==
  ASSUME Earning, OsworldNext
  PROVE  Earning'
<1>1. agent = "osworld" /\ agent' = agent /\ agent \notin SweAgents \cup CocoaAgents
  BY OthersKeepAgent
<1>2. (result = "none" <=> pc # "done") /\ (result = "finished" => finishing)
  BY <1>1 DEF Earning, OutcomesAreEarned
<1> SUFFICES (result' = "none" <=> pc' # "done") /\ (result' = "finished" => finishing')
  BY <1>1 DEF Earning, OutcomesAreEarned
<1>3. CASE OsworldIterate \/ OsworldLooks \/ OsworldAction \/ OsworldDone
  BY <1>2, <1>3 DEF OsworldIterate, Iterate, OsworldLooks, OsworldAction, OsworldDone, Go
<1>4. CASE OsworldRaises \/ OsworldEnds
  BY <1>2, <1>4 DEF OsworldRaises, OsworldEnds, osworldVars, End
<1>5. CASE OsworldCallFails \/ OsworldGivesUp \/ OsworldReply
  BY <1>2, <1>5 DEF OsworldCallFails, OsworldGivesUp, OsworldReply, Asked, osworldVars, Go
<1>6. QED
  BY <1>3, <1>4, <1>5 DEF OsworldNext

(* An outcome is never better than the run it ends, for every agent and     *)
(* every number of iterations: no SWE run is "finished" that did not        *)
(* finish, a terminal task is complete only after a confirmation was due.   *)
THEOREM OutcomesEarned == Spec => []OutcomesAreEarned
<1>1. Init => Earning
  BY DEF Init, TalkInit, SweInit, TerminusInit, CocoaInit, OsworldInit, Earning, OutcomesAreEarned, SweAgents, CocoaAgents
<1>2. Typed /\ Earning /\ [Next]_vars => Earning'
  <2>1. Earning /\ UNCHANGED vars => Earning'
    BY DEF vars, talkVars, sweVars, terminusVars, cocoaVars, osworldVars, Earning, OutcomesAreEarned, SweOutcome
  <2>2. QED
    BY <2>1, SweEarns, TerminusEarns, CocoaEarns, OsworldEarns DEF Next
<1>3. Earning => OutcomesAreEarned
  BY DEF Earning
<1>4. QED
  BY <1>1, <1>2, <1>3, TypesAlways, PTL DEF Spec

-----------------------------------------------------------------------------
(* Histories: what messages added to one do to it                           *)

(* A message that calls nothing and answers nothing.                        *)
IsPlain(m) == m.calls = 0 /\ m.role # "tool"

LEMMA PlainIsSettled ==
  ASSUME NEW h, NEW i, IsPlain(h[i])
  PROVE  Settled(h, i)
BY DEF IsPlain, Settled, IsAddressed, IsAnswered

LEMMA PointsBack ==
  ASSUME NEW h, NEW i, NEW k, h[i].of = k, k < i, k <= h[i - k].calls
  PROVE  IsAddressed(h, i)
BY DEF IsAddressed

LEMMA MessageCounts ==
  ASSUME NEW h \in Seq(Message), NEW i \in 1 .. Len(h)
  PROVE  h[i] \in Message /\ h[i].of \in Nat /\ h[i].calls \in Nat
<1>1. h[i] \in Message
  BY ElementOfSeq
<1>2. QED
  BY <1>1, ConversationAssumption DEF Message

(* What is settled stays so, and two histories that are make one that is.   *)
LEMMA Extended ==
  ASSUME NEW h \in Seq(Message), NEW s \in Seq(Message)
  PROVE  /\ h \o s \in Seq(Message)
         /\ Len(h) \in Nat /\ Len(s) \in Nat /\ Len(h \o s) = Len(h) + Len(s)
         /\ \A i \in 1 .. Len(h) : (h \o s)[i] = h[i]
         /\ \A i \in 1 .. Len(s) : (h \o s)[Len(h) + i] = s[i]
         /\ \A i \in 1 .. Len(h) : IsAddressed(h, i) => IsAddressed(h \o s, i)
         /\ \A i \in 1 .. Len(h) : Settled(h, i) => Settled(h \o s, i)
         /\ \A i \in 1 .. Len(s) : Settled(s, i) => Settled(h \o s, Len(h) + i)
<1> DEFINE g == h \o s
<1>1. /\ g \in Seq(Message) /\ Len(h) \in Nat /\ Len(s) \in Nat /\ Len(g) = Len(h) + Len(s)
      /\ \A i \in 1 .. Len(h) : g[i] = h[i]
  BY ConcatProperties
<1>2. ASSUME NEW i \in 1 .. Len(s) PROVE g[Len(h) + i] = s[i]
  BY <1>1, ConcatProperties
<1> HIDE DEF g
<1>3. \A i \in 1 .. Len(h) : h[i].of \in Nat /\ h[i].calls \in Nat
  BY MessageCounts
<1>4. \A i \in 1 .. Len(s) : s[i].of \in Nat /\ s[i].calls \in Nat
  BY MessageCounts
<1>5. ASSUME NEW i \in 1 .. Len(h), IsAddressed(h, i) PROVE IsAddressed(g, i)
  <2>1. CASE h[i].role = "tool"
    <3>1. h[i].of < i /\ h[i].of <= h[i - h[i].of].calls /\ g[i] = h[i] /\ i - h[i].of \in 1 .. Len(h)
      BY <1>1, <1>3, <1>5, <2>1 DEF IsAddressed
    <3>2. QED
      BY <1>1, <3>1 DEF IsAddressed
  <2>2. CASE h[i].role # "tool"
    BY <1>1, <2>2 DEF IsAddressed
  <2>3. QED
    BY <2>1, <2>2
<1>6. ASSUME NEW i \in 1 .. Len(h), Settled(h, i) PROVE Settled(g, i)
  <2>1. g[i] = h[i] /\ IsAddressed(g, i)
    BY <1>1, <1>5, <1>6 DEF Settled
  <2>2. CASE IsAnswered(h, i)
    <3>1. ASSUME NEW k \in 1 .. g[i].calls PROVE i + k <= Len(g) /\ g[i + k] = Answers(k)
      <4>1. i + k <= Len(h) /\ h[i + k] = Answers(k)
        BY <2>1, <2>2, <3>1 DEF IsAnswered
      <4>2. i + k \in 1 .. Len(h)
        BY <1>1, <1>3, <2>1, <4>1
      <4>3. QED
        BY <1>1, <4>1, <4>2
    <3>2. QED
      BY <2>1, <3>1 DEF Settled, IsAnswered
  <2>3. CASE Unread(h, i)
    BY <2>1, <2>3 DEF Settled, Unread
  <2>4. QED
    BY <1>6, <2>2, <2>3 DEF Settled
<1>7. ASSUME NEW i \in 1 .. Len(s), Settled(s, i) PROVE Settled(g, Len(h) + i)
  <2>1. g[Len(h) + i] = s[i] /\ s[i].of \in Nat /\ s[i].calls \in Nat
    BY <1>2, <1>4
  <2>2. IsAddressed(g, Len(h) + i)
    <3>1. CASE s[i].role = "tool"
      <4>1. s[i].of < i /\ s[i].of <= s[i - s[i].of].calls /\ i - s[i].of \in 1 .. Len(s)
        BY <1>1, <1>7, <2>1, <3>1 DEF Settled, IsAddressed
      <4>2. g[Len(h) + (i - s[i].of)] = s[i - s[i].of]
        BY <1>2, <4>1
      <4>3. Len(h) + (i - s[i].of) = Len(h) + i - s[i].of /\ s[i].of < Len(h) + i
        BY <1>1, <2>1, <4>1
      <4>4. PICK j \in Nat, k \in Nat : j = Len(h) + i /\ k = s[i].of
        BY <1>1, <2>1
      <4>5. k < j /\ g[j].of = k
        BY <2>1, <4>3, <4>4
      <4>6. g[j - k] = s[i - k]
        BY <4>2, <4>3, <4>4
      <4>7. k <= g[j - k].calls
        BY <4>1, <4>4, <4>6
      <4>8. QED
        BY <4>4, <4>5, <4>7, PointsBack
    <3>2. CASE s[i].role # "tool"
      BY <2>1, <3>2 DEF IsAddressed
    <3>3. QED
      BY <3>1, <3>2
  <2>3. CASE IsAnswered(s, i)
    <3>1. ASSUME NEW k \in 1 .. s[i].calls PROVE Len(h) + i + k <= Len(g) /\ g[Len(h) + i + k] = Answers(k)
      <4>1. i + k <= Len(s) /\ s[i + k] = Answers(k)
        BY <2>3, <3>1 DEF IsAnswered
      <4>2. i + k \in 1 .. Len(s) /\ Len(h) + (i + k) = Len(h) + i + k
        BY <1>1, <2>1, <4>1
      <4>3. g[Len(h) + (i + k)] = s[i + k]
        BY <1>2, <4>2
      <4>4. QED
        BY <1>1, <4>1, <4>2, <4>3
    <3>2. QED
      BY <2>1, <2>2, <3>1 DEF Settled, IsAnswered
  <2>4. CASE Unread(s, i)
    BY <2>1, <2>2, <2>4 DEF Settled, Unread
  <2>5. QED
    BY <1>7, <2>3, <2>4 DEF Settled
<1>8. QED
  BY <1>1, <1>2, <1>5, <1>6, <1>7 DEF g

LEMMA Joined ==
  ASSUME NEW h \in Seq(Message), NEW s \in Seq(Message), AllSettled(h), AllSettled(s)
  PROVE  AllSettled(h \o s)
<1>1. SUFFICES ASSUME NEW i \in 1 .. Len(h \o s) PROVE Settled(h \o s, i)
  BY DEF AllSettled
<1>2. CASE i \in 1 .. Len(h)
  BY <1>2, Extended DEF AllSettled
<1>3. CASE i \notin 1 .. Len(h)
  <2>1. i - Len(h) \in 1 .. Len(s) /\ i = Len(h) + (i - Len(h))
    BY <1>3, Extended
  <2>2. Settled(h \o s, Len(h) + (i - Len(h)))
    BY <2>1, Extended DEF AllSettled
  <2>3. QED
    BY <2>1, <2>2
<1>4. QED
  BY <1>2, <1>3

(* The exchanges a step appends at once are settled.                        *)
LEMMA ClosedExchanges ==
  ASSUME TypeOK
  PROVE  /\ AllSettled(<<>>)
         /\ \A r \in Roles \ {"tool"} : AllSettled(<<Says(r)>>)
         /\ \A r, q \in Roles \ {"tool"} : AllSettled(<<Says(r), Says(q)>>)
         /\ AllSettled(<<Calls(0), Says("user")>>)
         /\ reply \in {0, 1} => AllSettled(R2eExchange)
         /\ agent \in CocoaAgents => \A n \in 1 .. MaxCalls : AllSettled(Misread(n))
<1>1. AllSettled(<<>>)
  BY DEF AllSettled
<1>2. ASSUME NEW r \in Roles \ {"tool"} PROVE AllSettled(<<Says(r)>>)
  BY PlainIsSettled DEF AllSettled, IsPlain, Says
<1>3. ASSUME NEW r \in Roles \ {"tool"}, NEW q \in Roles \ {"tool"} PROVE AllSettled(<<Says(r), Says(q)>>)
  BY PlainIsSettled DEF AllSettled, IsPlain, Says
<1>4. AllSettled(<<Calls(0), Says("user")>>)
  BY PlainIsSettled DEF AllSettled, IsPlain, Says, Calls
<1>5. ASSUME reply \in {0, 1} PROVE AllSettled(R2eExchange)
  <2>1. CASE reply = 0
    BY <1>4, <2>1 DEF R2eExchange
  <2>2. CASE reply = 1
    <3> DEFINE s == <<Calls(1), Answers(1)>>
    <3>1. R2eExchange = s /\ Len(s) = 2 /\ s[1] = Calls(1) /\ s[2] = Answers(1)
      BY <2>2 DEF R2eExchange
    <3>2. Settled(s, 1)
      BY <3>1 DEF Settled, IsAddressed, IsAnswered, Calls
    <3>3. Settled(s, 2)
      BY <3>1 DEF Settled, IsAddressed, IsAnswered, Calls, Answers
    <3>4. QED
      BY <3>1, <3>2, <3>3 DEF AllSettled
  <2>3. QED
    BY <1>5, <2>1, <2>2
<1>6. ASSUME agent \in CocoaAgents, NEW n \in 1 .. MaxCalls PROVE AllSettled(Misread(n))
  <2> DEFINE a == [k \in 1 .. n |-> Answers(k)]
             s == <<UnreadCalls(n)>> \o a
  <2>1. n \in Nat /\ n >= 1
    BY ConversationAssumption
  <2>2. CASE agent = "openai"
    <3>1. Misread(n) = s
      BY <2>2 DEF Misread
    <3>2. /\ <<UnreadCalls(n)>> \in Seq(Message) /\ a \in Seq(Message) /\ Len(a) = n
          /\ Len(<<UnreadCalls(n)>>) = 1 /\ <<UnreadCalls(n)>>[1] = UnreadCalls(n)
      <4>1. UnreadCalls(n) \in Message /\ \A k \in 1 .. n : Answers(k) \in Message
        BY <2>1, Forms, ConversationAssumption
      <4>2. a \in [1 .. n -> Message]
        BY <4>1
      <4>3. QED
        BY <2>1, <4>1, <4>2, IsASeq, LenProperties
    <3>3. /\ Len(s) = n + 1 /\ s[1] = UnreadCalls(n)
          /\ \A k \in 1 .. n : s[1 + k] = Answers(k)
      BY <2>1, <3>2, Extended
    <3>4. Settled(s, 1)
      BY <2>1, <3>3 DEF Settled, IsAddressed, IsAnswered, UnreadCalls
    <3>5. ASSUME NEW i \in 1 .. n PROVE Settled(s, 1 + i)
      <4>1. s[1 + i] = Answers(i) /\ s[1 + i - i] = UnreadCalls(n) /\ i < 1 + i
        BY <3>3
      <4>2. QED
        BY <4>1 DEF Settled, IsAddressed, IsAnswered, Answers, UnreadCalls
    <3>6. ASSUME NEW i \in 1 .. Len(s) PROVE Settled(s, i)
      <4>1. CASE i = 1
        BY <3>4, <4>1
      <4>2. CASE i # 1
        <5>1. i - 1 \in 1 .. n /\ i = 1 + (i - 1)
          BY <2>1, <3>3, <4>2
        <5>2. QED
          BY <3>5, <5>1
      <4>3. QED
        BY <4>1, <4>2
    <3>7. QED
      BY <3>1, <3>6 DEF AllSettled
  <2>3. CASE agent \in {"claude", "gemini"}
    <3>1. Misread(n) = <<UnreadCalls(n)>>
      <4>1. <<UnreadCalls(n)>> \in Seq(Message)
        BY <2>1, Forms, ConversationAssumption
      <4>2. QED
        BY <2>3, <4>1, ConcatEmptySeq DEF Misread
    <3>2. QED
      BY <2>3, <3>1 DEF AllSettled, Settled, IsAddressed, Unread, UnreadCalls
  <2>4. CASE agent = "qwen"
    BY <1>2, <2>4 DEF Misread, Roles
  <2>5. QED
    BY <1>6, <2>2, <2>3, <2>4 DEF CocoaAgents
<1>7. QED
  BY <1>1, <1>2, <1>3, <1>4, <1>5, <1>6

-----------------------------------------------------------------------------
(* Histories: the steps                                                     *)

(* The first message and the last of a history that grows.                  *)
LEMMA Ends ==
  ASSUME NEW h \in Seq(Message), NEW s \in Seq(Message)
  PROVE  /\ h # <<>> => h \o s # <<>> /\ (h \o s)[1] = h[1]
         /\ Len(h) >= 2 => Len(h \o s) >= 2 /\ (h \o s)[2] = h[2]
         /\ s # <<>> => h \o s # <<>> /\ (h \o s)[Len(h \o s)] = s[Len(s)]
         /\ h = <<>> /\ s # <<>> => (h \o s)[1] = s[1]
<1>1. /\ Len(h) \in Nat /\ Len(s) \in Nat /\ Len(h \o s) = Len(h) + Len(s) /\ h \o s \in Seq(Message)
      /\ \A i \in 1 .. Len(h) : (h \o s)[i] = h[i]
      /\ \A i \in 1 .. Len(s) : (h \o s)[Len(h) + i] = s[i]
  BY Extended
<1>2. h # <<>> => Len(h) >= 1
  BY <1>1, EmptySeq
<1>3. s # <<>> => Len(s) >= 1
  BY <1>1, EmptySeq
<1>4. Len(h \o s) >= 1 => h \o s # <<>>
  BY <1>1
<1>5. h # <<>> => h \o s # <<>> /\ (h \o s)[1] = h[1]
  BY <1>1, <1>2, <1>4
<1>6. Len(h) >= 2 => Len(h \o s) >= 2 /\ (h \o s)[2] = h[2]
  BY <1>1
<1>7. s # <<>> => h \o s # <<>> /\ (h \o s)[Len(h \o s)] = s[Len(s)]
  <2>1. ASSUME s # <<>> PROVE Len(s) \in 1 .. Len(s)
    BY <1>1, <1>3, <2>1
  <2>2. QED
    BY <1>1, <1>3, <1>4, <2>1
<1>8. h = <<>> /\ s # <<>> => (h \o s)[1] = s[1]
  BY <1>1, <1>3, ConcatEmptySeq
<1>9. QED
  BY <1>5, <1>6, <1>7, <1>8

(* A history whose every message is settled satisfies Kept, wherever the    *)
(* agent stands.                                                            *)
LEMMA SettledIsKept ==
  ASSUME agent' = agent, agent # "terminus", AllSettled(history'),
         pc' = "act" => IF agent = "codeact" THEN FALSE
                        ELSE reply' = 0 \/ agent \in Closed
  PROVE  Kept'
<1>1. \A i \in 1 .. Len(history') : Settled(history, i)'
  BY DEF AllSettled, Settled, Unread
<1>2. QED
  BY <1>1 DEF Kept

(* A message with calls was just appended.                                  *)
LEMMA CallsAppended ==
  ASSUME Typed, NEW n \in 1 .. MaxCalls, AllSettled(history),
         history' = history \o <<Calls(n)>>, agent' = agent, agent \in {"codeact", "openai", "claude"},
         reply' = n, turn' = 1, pc' = "act"
  PROVE  Kept'
<1>1. n \in Nat /\ n >= 1 /\ history \in Seq(Message) /\ <<Calls(n)>> \in Seq(Message)
  BY Forms, ConversationAssumption DEF Typed, TypeOK, TalkTypeOK
<1>a. PICK s \in Seq(Message) : s = <<Calls(n)>> /\ Len(s) = 1 /\ s[1] = Calls(n)
  BY <1>1
<1>b. history' = history \o s
  BY <1>a
<1>c. PICK m \in Nat : m = Len(history')
  BY <1>1, <1>b, Extended
<1>2. /\ Len(history) \in Nat /\ m = Len(history) + 1 /\ history'[m] = Calls(n)
      /\ \A i \in 1 .. Len(history) : Settled(history', i)
  <2>1. Len(history) \in Nat /\ Len(history') = Len(history) + 1 /\ history'[Len(history) + 1] = s[1]
    BY <1>1, <1>a, <1>b, Extended
  <2>2. \A i \in 1 .. Len(history) : Settled(history', i)
    <3>1. \A i \in 1 .. Len(history) : Settled(history \o s, i)
      BY <1>1, Extended DEF AllSettled
    <3>2. QED
      BY <1>b, <3>1, Zenon
  <2>3. QED
    BY <1>a, <1>c, <2>1, <2>2
<1>3. m \in 1 .. Len(history') /\ m = Len(history') - turn' + 1
  BY <1>2, <1>c
<1>4. Answering(history, m)'
  BY <1>1, <1>2, <1>3 DEF Answering, Calls
<1>5. IsAddressed(history', m)
  BY <1>2 DEF IsAddressed, Calls
<1>6. \A i \in 1 .. Len(history') : i # m => Settled(history, i)'
  <2>1. \A i \in 1 .. Len(history') : i # m => Settled(history', i)
    BY <1>2, <1>c
  <2>2. QED
    BY <2>1 DEF Settled, Unread
<1>7. QED
  <2>1. agent' \notin Closed /\ agent' # "terminus" /\ reply' > 0 /\ reply' # 0
    BY <1>1 DEF Closed
  <2>2. \E k \in 1 .. Len(history') :
            /\ Answering(history, k)'
            /\ IsAddressed(history', k)
            /\ \A i \in 1 .. Len(history') : i # k => Settled(history, i)'
    BY <1>3, <1>4, <1>5, <1>6
  <2>3. QED
    BY <2>1, <2>2 DEF Kept

(* A call of the message under way was answered: the next one is due, or    *)
(* all of them are.                                                         *)
LEMMA CallAnswered ==
  ASSUME Typed, Kept, pc = "act", agent \in {"codeact", "openai", "claude"}, agent' = agent, reply > 0,
         history' = history \o <<Answers(turn)>>, turn' = turn + 1, reply' = reply,
         pc' = IF turn < reply THEN "act" ELSE "loop"
  PROVE  Kept'
<1>1. /\ turn \in Nat /\ reply \in Nat /\ 1 <= turn /\ turn <= reply /\ reply <= MaxCalls /\ MaxCalls \in Nat
      /\ history \in Seq(Message)
      /\ agent # "terminus" /\ agent \notin Closed
  BY ConversationAssumption DEF Typed, TypeOK, TalkTypeOK, InTurn, Closed
<1>2. PICK n \in 1 .. Len(history) :
        /\ n = Len(history) - turn + 1
        /\ history[n].role = "assistant" /\ history[n].calls = reply
        /\ \A k \in 1 .. turn - 1 : history[n + k] = Answers(k)
        /\ IsAddressed(history, n)
        /\ \A i \in 1 .. Len(history) : i # n => Settled(history, i)
  BY <1>1 DEF Kept, Answering
<1> DEFINE L == Len(history)
<1>3. PICK s \in Seq(Message) : s = <<Answers(turn)>> /\ Len(s) = 1 /\ s[1] = Answers(turn)
  <2>1. Answers(turn) \in Message
    BY <1>1, Forms
  <2>2. <<Answers(turn)>> \in Seq(Message) /\ Len(<<Answers(turn)>>) = 1 /\ <<Answers(turn)>>[1] = Answers(turn)
    BY <2>1
  <2>3. QED
    BY <2>2
<1>4. /\ L \in Nat /\ Len(history') = L + 1 /\ history'[L + 1] = Answers(turn)
      /\ \A i \in 1 .. L : history'[i] = history[i]
      /\ \A i \in 1 .. L : IsAddressed(history, i) => IsAddressed(history', i)
      /\ \A i \in 1 .. L : Settled(history, i) => Settled(history', i)
  <2> DEFINE g == history \o s
  <2>1. history' = g
    BY <1>3
  <2>2. /\ L \in Nat /\ Len(g) = L + Len(s)
        /\ \A i \in 1 .. L : g[i] = history[i]
        /\ \A i \in 1 .. Len(s) : g[L + i] = s[i]
        /\ \A i \in 1 .. L : IsAddressed(history, i) => IsAddressed(g, i)
        /\ \A i \in 1 .. L : Settled(history, i) => Settled(g, i)
    BY <1>1, Extended
  <2> HIDE DEF g, L
  <2>3. Len(g) = L + 1 /\ g[L + 1] = Answers(turn)
    BY <1>3, <2>2
  <2>4. QED
    BY <2>1, <2>2, <2>3
<1>5. Settled(history', L + 1)
  <2>1. L + 1 - turn = n /\ turn < L + 1
    BY <1>1, <1>2, <1>4
  <2>2. history'[n].calls = reply
    BY <1>2, <1>4
  <2>3. IsAddressed(history', L + 1)
    <3>1. PICK j \in Nat : j = L + 1
      BY <1>4
    <3>2. history'[j].of = turn /\ turn < j
      BY <1>4, <2>1, <3>1 DEF Answers
    <3>3. turn <= history'[j - turn].calls
      <4>1. j - turn = n
        BY <1>1, <1>2, <1>4, <3>1
      <4>2. QED
        BY <1>1, <2>2, <4>1
    <3>4. IsAddressed(history', j)
      BY <3>2, <3>3, PointsBack
    <3>5. QED
      BY <3>1, <3>4
  <2>4. IsAnswered(history', L + 1)
    BY <1>4 DEF IsAnswered, Answers
  <2>5. QED
    BY <2>3, <2>4 DEF Settled
<1>6. \A i \in 1 .. Len(history') : i # n => Settled(history', i)
  BY <1>2, <1>4, <1>5
<1>7. IsAddressed(history', n) /\ n \in 1 .. Len(history')
  BY <1>2, <1>4
<1>8. \A k \in 1 .. turn : history'[n + k] = Answers(k)
  <2>1. SUFFICES ASSUME NEW k \in 1 .. turn PROVE history'[n + k] = Answers(k)
    OBVIOUS
  <2>2. CASE k = turn
    <3>1. n + k = L + 1
      BY <1>1, <1>2, <1>4, <2>2
    <3>2. QED
      BY <1>4, <2>2, <3>1
  <2>3. CASE k # turn
    <3>1. k \in 1 .. turn - 1 /\ n + k \in 1 .. L
      BY <1>1, <1>2, <1>4, <2>3
    <3>2. QED
      BY <1>2, <1>4, <3>1
  <2>4. QED
    BY <2>2, <2>3
<1>9. history'[n].role = "assistant" /\ history'[n].calls = reply
  BY <1>2, <1>4
<1>10. CASE turn < reply
  <2>1. Answering(history, n)'
    BY <1>1, <1>2, <1>4, <1>8, <1>9 DEF Answering
  <2>2. \A i \in 1 .. Len(history') : i # n => Settled(history, i)'
    BY <1>6 DEF Settled, Unread
  <2>3. QED
    BY <1>1, <1>7, <1>10, <2>1, <2>2 DEF Kept
<1>11. CASE ~(turn < reply)
  <2>1. turn = reply
    BY <1>1, <1>11
  <2>2. IsAnswered(history', n)
    <3>1. \A k \in 1 .. reply : n + k <= Len(history')
      BY <1>1, <1>2, <1>4, <2>1
    <3>2. QED
      BY <1>8, <1>9, <2>1, <3>1 DEF IsAnswered
  <2>3. AllSettled(history')
    BY <1>6, <1>7, <2>2 DEF AllSettled, Settled
  <2>4. QED
    BY <1>1, <1>11, <2>3, SettledIsKept
<1>12. QED
  BY <1>10, <1>11

LEMMA SweKeeps ==
  ASSUME Typed, Kept, Opened, SweNext
  PROVE  Kept' /\ Opened'
<1>1. /\ agent \in SweAgents /\ agent' = agent /\ agent \notin CocoaAgents \cup {"terminus", "osworld"}
      /\ pc \in {"loop", "ask", "act", "done"}
  <2>1. pc \in {"loop", "ask", "act", "done"}
    BY DEF SweNext, SweIterate, Iterate, SweExhausted, SweCallFails, SweEmptyReply,
       CodeActReply, CodeActTool, CodeActFinish, MiniReply, MiniCommand, MiniFinish, R2eReply, R2eAction,
       R2eFinish, SweToolRaises, SweDiffRaises, Asked
  <2>2. QED
    BY <2>1, OthersKeepAgent
<1>2. /\ history \in Seq(Message) /\ Len(history) >= 2 /\ history[2].role = "task"
      /\ pc \in {"loop", "ask"} => history[Len(history)].role # "assistant"
  BY <1>1 DEF Typed, TypeOK, TalkTypeOK, Opened
<1>3. pc \in {"loop", "ask"} \/ (pc = "act" /\ agent # "codeact") => AllSettled(history)
  BY <1>1 DEF Kept, AllSettled, SweAgents, Closed
<1>4. ASSUME Len(history') >= 2, history'[2].role = "task",
             pc' \in {"loop", "ask"} => history'[Len(history')].role # "assistant"
      PROVE  Opened'
  BY <1>1, <1>4 DEF Opened
<1>5. ASSUME NEW s \in Seq(Message), s # <<>>, history' = history \o s,
             pc' \in {"loop", "ask"} => s[Len(s)].role # "assistant"
      PROVE  Opened'
  <2>1. /\ Len(history') >= 2 /\ history'[2] = history[2]
        /\ history'[Len(history')] = s[Len(s)]
    BY <1>2, <1>5, Ends
  <2>2. QED
    BY <1>2, <1>4, <1>5, <2>1
<1>6. ASSUME pc' = "done" PROVE Kept'
  BY <1>1, <1>6 DEF Kept
<1>7. ASSUME NEW s \in Seq(Message), AllSettled(s), AllSettled(history), history' = history \o s,
             pc' = "act" => agent \in {"mini", "r2e", "r2e_text"}
      PROVE  Kept'
  <2>1. AllSettled(history')
    BY <1>2, <1>7, Joined
  <2>2. QED
    BY <1>1, <1>7, <2>1, SettledIsKept DEF Closed
<1>8. /\ Says("user") \in Message /\ Says("assistant") \in Message /\ Says("user").role = "user"
  BY Forms DEF Roles, Says
<1>9. CASE SweIterate \/ R2eReply
  <2>1. history' = history /\ pc \in {"loop", "ask"} /\ (pc' = "ask" \/ (pc' = "act" /\ agent \in {"r2e", "r2e_text"}))
    BY <1>9 DEF SweIterate, Iterate, R2eReply, Asked, Go
  <2>2. AllSettled(history')
    BY <1>3, <2>1
  <2>3. Kept'
    BY <1>1, <2>1, <2>2, SettledIsKept DEF Closed
  <2>4. QED
    BY <1>2, <1>4, <2>1, <2>3
<1>10. CASE SweExhausted \/ SweCallFails \/ SweEmptyReply \/ SweToolRaises \/ SweDiffRaises \/ MiniFinish
  <2>1. history' = history /\ pc' = "done"
    BY <1>10 DEF SweExhausted, SweCallFails, SweEmptyReply, SweToolRaises, SweDiffRaises, MiniFinish, End
  <2>2. QED
    BY <1>2, <1>4, <1>6, <2>1
<1>11. CASE CodeActReply
  <2>1. PICK n \in 0 .. MaxCalls : /\ history' = history \o CodeActMessage(n) /\ reply' = n
                                  /\ pc' = IF n = 0 THEN "loop" ELSE "act"
    BY <1>11 DEF CodeActReply, Add, Go
  <2>2. agent = "codeact" /\ turn' = 1 /\ AllSettled(history)
    BY <1>3, <1>11 DEF CodeActReply, Asked
  <2>3. CASE n = 0
    <3>1. PICK s \in Seq(Message) : /\ s = CodeActMessage(0) /\ s = <<Calls(0), Says("user")>>
                                     /\ s # <<>> /\ s[Len(s)] = Says("user")
      <4>1. <<Calls(0), Says("user")>> = CodeActMessage(0)
        BY DEF CodeActMessage
      <4>2. CodeActMessage(0) \in Seq(Message)
        BY <2>1, <2>3, Exchanges DEF Typed
      <4>3. CodeActMessage(0) # <<>> /\ CodeActMessage(0)[Len(CodeActMessage(0))] = Says("user")
        <5>1. Len(<<Calls(0), Says("user")>>) = 2 /\ <<Calls(0), Says("user")>>[2] = Says("user")
          OBVIOUS
        <5>2. QED
          BY <4>1, <5>1
      <4>4. QED
        BY <4>1, <4>2, <4>3
    <3>2. AllSettled(s)
      BY <3>1, ClosedExchanges DEF Typed
    <3>3. QED
      BY <1>5, <1>7, <1>8, <2>1, <2>2, <2>3, <3>1, <3>2
  <2>4. CASE n # 0
    <3>1. n \in 1 .. MaxCalls /\ CodeActMessage(n) = <<Calls(n)>>
      BY <2>4, ConversationAssumption DEF CodeActMessage
    <3>2. Kept'
      BY <1>1, <2>1, <2>2, <2>4, <3>1, CallsAppended
    <3>3. <<Calls(n)>> \in Seq(Message) /\ <<Calls(n)>> # <<>>
      BY <3>1, Forms, ConversationAssumption
    <3>4. QED
      BY <1>5, <2>1, <2>4, <3>1, <3>2, <3>3
  <2>5. QED
    BY <2>3, <2>4
<1>12. CASE MiniReply \/ MiniCommand
  <2>1. PICK s \in Seq(Message) : /\ s \in {<<Says("assistant"), Says("user")>>, <<Says("assistant")>>, <<Says("user")>>}
                                  /\ history' = history \o s
                                  /\ pc' = "loop" => s # <<Says("assistant")>>
    <3>1. /\ <<Says("assistant"), Says("user")>> \in Seq(Message) /\ <<Says("assistant")>> \in Seq(Message)
          /\ <<Says("user")>> \in Seq(Message) /\ <<Says("user")>> # <<Says("assistant")>>
          /\ <<Says("assistant"), Says("user")>> # <<Says("assistant")>>
      <4>1. Says("user") # Says("assistant")
        BY DEF Says
      <4>2. QED
        BY <1>8, <4>1
    <3>2. QED
      BY <1>12, <3>1 DEF MiniReply, MiniCommand, Add, Go
  <2>2. agent = "mini" /\ pc' \in {"loop", "act"} /\ AllSettled(history)
    BY <1>3, <1>12 DEF MiniReply, MiniCommand, Asked, Go
  <2>3. AllSettled(s)
    BY <2>1, ClosedExchanges DEF Typed, Roles
  <2>4. s # <<>> /\ (s = <<Says("assistant")>> \/ s[Len(s)] = Says("user"))
    <3>1. CASE s = <<Says("assistant"), Says("user")>>
      <4>1. Len(s) = 2 /\ s[2] = Says("user")
        BY <3>1
      <4>2. QED
        BY <4>1
    <3>2. CASE s = <<Says("user")>> \/ s = <<Says("assistant")>>
      BY <3>2
    <3>3. QED
      BY <2>1, <3>1, <3>2
  <2>5. QED
    BY <1>5, <1>7, <1>8, <2>1, <2>2, <2>3, <2>4
<1>13. CASE CodeActTool
  <2>1. /\ agent = "codeact" /\ pc = "act" /\ history' = history \o <<Answers(turn)>> /\ turn' = turn + 1
        /\ reply' = reply /\ pc' = IF turn < reply THEN "act" ELSE "loop"
    BY <1>13 DEF CodeActTool, Add, Go
  <2>2. reply > 0
    BY <2>1 DEF Kept
  <2>3. Kept'
    BY <1>1, <2>1, <2>2, CallAnswered
  <2>4. turn \in 1 .. MaxCalls
    BY <2>1, <2>2, ConversationAssumption DEF Typed, TypeOK, TalkTypeOK, InTurn
  <2>5. PICK s \in Seq(Message) : s = <<Answers(turn)>> /\ s # <<>> /\ s[Len(s)].role = "tool"
    <3>1. Answers(turn) \in Message /\ Answers(turn).role = "tool"
      BY <2>4, Forms DEF Answers
    <3>2. <<Answers(turn)>> \in Seq(Message) /\ <<Answers(turn)>>[Len(<<Answers(turn)>>)] = Answers(turn)
      BY <3>1
    <3>3. QED
      BY <3>1, <3>2
  <2>6. QED
    BY <1>5, <2>1, <2>3, <2>5
<1>14. CASE CodeActFinish
  <2>1. history' = history \o <<Answers(turn)>> /\ pc' = "done" /\ pc = "act"
    BY <1>14 DEF CodeActFinish, Add, End
  <2>2. turn \in 1 .. MaxCalls
    BY <2>1, ConversationAssumption DEF Typed, TypeOK, TalkTypeOK, InTurn
  <2>3. <<Answers(turn)>> \in Seq(Message) /\ <<Answers(turn)>> # <<>>
    BY <2>2, Forms
  <2>4. QED
    BY <1>5, <1>6, <2>1, <2>3
<1>15. CASE R2eAction \/ R2eFinish
  <2>1. /\ agent \in {"r2e", "r2e_text"} /\ pc = "act" /\ history' = history \o R2eExchange /\ pc' \in {"loop", "done"}
    BY <1>15 DEF R2eAction, R2eFinish, Add, Go, End
  <2>2. AllSettled(history)
    BY <1>3, <2>1
  <2>3. R2eExchange \in Seq(Message) /\ AllSettled(R2eExchange)
    <3>1. reply \in {0, 1}
      BY <2>1 DEF Typed, TypeOK, TalkTypeOK, InTurn
    <3>2. QED
      BY <3>1, Exchanges, ClosedExchanges DEF Typed
  <2>4. R2eExchange # <<>> /\ R2eExchange[Len(R2eExchange)].role # "assistant"
    BY DEF R2eExchange, Says, Answers
  <2>5. QED
    BY <1>5, <1>7, <2>1, <2>2, <2>3, <2>4
<1>16. QED
  BY <1>9, <1>10, <1>11, <1>12, <1>13, <1>14, <1>15 DEF SweNext

(* The terminal agent's history: no tools, the task first.                  *)
Bare(h) ==
    /\ h \in Seq(Message)
    /\ \A i \in 1 .. Len(h) : IsPlain(h[i])

(* Cutting it back leaves its first message.                                *)
LEMMA CutBare ==
  ASSUME NEW h, Bare(h)
  PROVE  /\ \A n \in 0 .. Len(h) : Bare(SubSeq(h, 1, n)) /\ (n > 0 => SubSeq(h, 1, n) # <<>> /\ SubSeq(h, 1, n)[1] = h[1])
         /\ \A g \in Unwound(h) : Bare(g) /\ (h = <<>> => g = <<>>) /\ (h # <<>> => g # <<>> /\ g[1] = h[1])
         /\ h # <<>> => \A g \in CutBack(h) : Bare(g) /\ g # <<>> /\ g[1] = h[1]
<1>1. h \in Seq(Message) /\ Len(h) \in Nat /\ \A i \in 1 .. Len(h) : h[i] \in Message /\ IsPlain(h[i])
  BY ElementOfSeq DEF Bare
<1>2. ASSUME NEW n \in 0 .. Len(h)
      PROVE  Bare(SubSeq(h, 1, n)) /\ (n > 0 => SubSeq(h, 1, n) # <<>> /\ SubSeq(h, 1, n)[1] = h[1])
  <2>1. /\ SubSeq(h, 1, n) \in Seq(Message)
        /\ Len(SubSeq(h, 1, n)) = n
        /\ \A i \in 1 .. n : SubSeq(h, 1, n)[i] = h[i]
    <3>1. \A i \in 1 .. n : h[i] \in Message
      BY <1>1
    <3>2. /\ SubSeq(h, 1, n) \in Seq(Message)
          /\ Len(SubSeq(h, 1, n)) = IF 1 <= n THEN n - 1 + 1 ELSE 0
          /\ \A i \in 1 .. n - 1 + 1 : SubSeq(h, 1, n)[i] = h[1 + i - 1]
      BY <3>1, SubSeqProperties
    <3>3. QED
      BY <3>2
  <2>2. Bare(SubSeq(h, 1, n))
    BY <1>1, <2>1 DEF Bare
  <2>3. ASSUME n > 0 PROVE SubSeq(h, 1, n) # <<>> /\ SubSeq(h, 1, n)[1] = h[1]
    BY <2>1, <2>3
  <2>4. QED
    BY <2>2, <2>3
<1>3. ASSUME NEW g \in Unwound(h)
      PROVE  Bare(g) /\ (h = <<>> => g = <<>>) /\ (h # <<>> => g # <<>> /\ g[1] = h[1])
  <2>1. CASE g = h
    BY <2>1
  <2>2. CASE g # h
    <3>1. PICK n \in 1 .. Len(h) : g = SubSeq(h, 1, n)
      BY <1>3, <2>2 DEF Unwound
    <3>2. n \in 0 .. Len(h) /\ n > 0 /\ h # <<>>
      BY <1>1, <3>1
    <3>3. QED
      BY <1>2, <3>1, <3>2
  <2>3. QED
    BY <2>1, <2>2
<1>4. ASSUME h # <<>>, NEW g \in CutBack(h) PROVE Bare(g) /\ g # <<>> /\ g[1] = h[1]
  <2>1. h[1] \in Message /\ IsPlain(h[1])
    BY <1>1, <1>4, EmptySeq
  <2>2. /\ Says("user") \in Message /\ Says("assistant") \in Message
        /\ IsPlain(Says("user")) /\ IsPlain(Says("assistant"))
    BY Forms DEF Roles, IsPlain, Says
  <2>3. CASE g = <<h[1]>>
    BY <2>1, <2>3 DEF Bare
  <2>4. CASE g = <<h[1], Says("user"), Says("assistant")>>
    BY <2>1, <2>2, <2>4 DEF Bare
  <2>5. QED
    BY <1>4, <2>3, <2>4 DEF CutBack, Summary
<1>5. QED
  BY <1>2, <1>3, <1>4

(* Adding to it leaves its first message, too.                              *)
LEMMA AddBare ==
  ASSUME NEW h, Bare(h), NEW r \in Roles \ {"tool"}
  PROVE  /\ Bare(Append(h, Says(r))) /\ Append(h, Says(r)) # <<>>
         /\ Len(Append(h, Says(r))) = Len(h) + 1
         /\ Append(h, Says(r))[Len(Append(h, Says(r)))] = Says(r)
         /\ h # <<>> => Len(Append(h, Says(r))) >= 2 /\ Append(h, Says(r))[1] = h[1]
         /\ h = <<>> => Append(h, Says(r))[1] = Says(r)
<1>1. Says(r) \in Message /\ IsPlain(Says(r))
  BY Forms DEF IsPlain, Says
<1>2. h \in Seq(Message) /\ Len(h) \in Nat /\ (h # <<>> => Len(h) >= 1)
  BY EmptySeq DEF Bare
<1> DEFINE g == Append(h, Says(r))
<1>3. /\ g \in Seq(Message) /\ g # <<>> /\ Len(g) = Len(h) + 1
      /\ \A i \in 1 .. Len(h) : g[i] = h[i]
      /\ g[Len(h) + 1] = Says(r)
  BY <1>1, <1>2, AppendProperties
<1> HIDE DEF g
<1>4. \A i \in 1 .. Len(g) : IsPlain(g[i])
  BY <1>1, <1>2, <1>3 DEF Bare
<1>5. Bare(g)
  BY <1>3, <1>4 DEF Bare
<1>6. h # <<>> => Len(g) >= 2 /\ g[1] = h[1]
  BY <1>2, <1>3
<1>7. h = <<>> => g[1] = Says(r)
  BY <1>3
<1>8. g[Len(g)] = Says(r)
  BY <1>3
<1>9. QED
  BY <1>3, <1>5, <1>6, <1>7, <1>8 DEF g

LEMMA TerminusKeeps ==
  ASSUME Typed, Kept, Opened, TerminusNext
  PROVE  Kept' /\ Opened'
<1>1. agent = "terminus" /\ agent' = "terminus" /\ agent \notin SweAgents \cup CocoaAgents
  BY OthersKeepAgent
<1>2. Bare(history)
  BY <1>1 DEF Bare, IsPlain, Kept, Typed, TypeOK, TalkTypeOK
<1>3. /\ history # <<>> => history[1].role = "task"
      /\ history = <<>> /\ pc \in {"loop", "check"} => prompt = "task"
      /\ pc \in {"ask", "act"} => history # <<>>
      /\ pc = "ask" => history[Len(history)].role # "assistant" /\ (fallback => Len(history) >= 2)
  BY <1>1 DEF Opened
<1>4. ASSUME Bare(history') PROVE Kept'
  <2>1. \A i \in 1 .. Len(history') : IsPlain(history'[i])
    BY <1>4 DEF Bare
  <2>2. \A i \in 1 .. Len(history') : Settled(history, i)'
    BY <1>1, <2>1, PlainIsSettled DEF Settled, Unread
  <2>3. QED
    BY <1>1, <2>1, <2>2 DEF Kept, IsPlain, Closed
<1>5. ASSUME Bare(history'),
             history' # <<>> => history'[1].role = "task",
             history' = <<>> /\ pc' \in {"loop", "check"} => prompt' = "task",
             pc' \in {"ask", "act"} => history' # <<>>,
             pc' = "ask" => history'[Len(history')].role # "assistant" /\ (fallback' => Len(history') >= 2)
      PROVE  Kept' /\ Opened'
  BY <1>1, <1>4, <1>5 DEF Opened
<1>6. Says("assistant").role = "assistant" /\ Says("user").role = "user" /\ Says("task").role = "task"
  BY DEF Says
<1>7. ASSUME NEW h, Bare(h), NEW p \in Prompts, h # <<>> => h[1].role = "task", h = <<>> => p = "task",
             history' = Append(h, Worded(p)), pc' = "ask", fallback' => h # <<>>
      PROVE  Kept' /\ Opened'
  <2>1. PICK r \in {"task", "user"} : Worded(p) = Says(r) /\ (p = "task" => r = "task")
    BY DEF Worded
  <2>2. r \in Roles \ {"tool"}
    BY DEF Roles
  <2>3. /\ Bare(history') /\ history' # <<>> /\ history'[Len(history')] = Says(r)
        /\ h # <<>> => Len(history') >= 2 /\ history'[1] = h[1]
        /\ h = <<>> => history'[1] = Says(r)
    BY <1>7, <2>1, <2>2, AddBare
  <2>4. history'[1].role = "task"
    BY <1>6, <1>7, <2>1, <2>3
  <2>5. Says(r).role # "assistant"
    BY <1>6
  <2>6. QED
    BY <1>5, <1>7, <2>3, <2>4, <2>5
<1>8. prompt \in Prompts
  BY DEF Typed, TypeOK, TerminusTypeOK
<1>9. /\ Bare(Popped) /\ (Popped # <<>> => Popped[1].role = "task")
      /\ Len(history) >= 2 => Popped # <<>>
  <2>1. CASE history = <<>>
    <3>1. Len(history) = 0 /\ Len(history) - 1 \in Int /\ Len(history) - 1 < 1
      BY <2>1
    <3>2. Popped = <<>>
      BY <3>1, SubSeqEmpty DEF Popped
    <3>3. QED
      BY <1>2, <2>1, <3>1, <3>2
  <2>2. CASE history # <<>>
    <3>1. Len(history) - 1 \in 0 .. Len(history) /\ Len(history) \in Nat
      BY <1>2, <2>2, EmptySeq DEF Bare
    <3>2. /\ Bare(Popped)
          /\ Len(history) - 1 > 0 => Popped # <<>> /\ Popped[1] = history[1]
      BY <1>2, <3>1, CutBare DEF Popped
    <3>3. CASE Len(history) = 1
      <4>1. Len(history) - 1 \in Int /\ Len(history) - 1 < 1 /\ ~(Len(history) >= 2)
        BY <3>3
      <4>2. Popped = <<>>
        BY <4>1, SubSeqEmpty DEF Popped
      <4>3. QED
        BY <3>2, <4>1, <4>2
    <3>4. QED
      BY SMTT(40), <1>3, <2>2, <3>1, <3>2, <3>3
  <2>3. QED
    BY <2>1, <2>2
<1>10. CASE \/ TerminusIterate \/ TerminusStops \/ TerminusEmptyReply \/ TerminusRaises \/ TerminusStopRaises
            \/ TerminusParseError \/ TerminusComplete \/ TerminusWork
  <2>1. /\ history' = history
        /\ pc' \in {"check", "done"} \/ (pc = "act" /\ pc' = "loop")
        /\ pc' = "check" => pc = "loop" /\ prompt' = prompt
    BY <1>10 DEF TerminusIterate, Iterate, TerminusStops, TerminusEmptyReply, TerminusRaises, TerminusStopRaises,
       TerminusParseError, TerminusComplete, TerminusWork, Go, End, terminusVars
  <2>2. pc' # "done" \/ pc' = "done"
    OBVIOUS
  <2>3. QED
    BY <1>2, <1>3, <1>5, <2>1
<1>11. CASE TerminusChecked
  <2>1. PICK h \in Unwound(history) : history' = Append(h, Worded(prompt)) /\ pc' = "ask" /\ ~fallback' /\ pc = "check"
    BY <1>11 DEF TerminusChecked, Send, CallAnew
  <2>2. Bare(h) /\ (history = <<>> => h = <<>>) /\ (history # <<>> => h # <<>> /\ h[1] = history[1])
    BY <1>2, <2>1, CutBare
  <2>3. QED
    BY <1>3, <1>7, <1>8, <2>1, <2>2
<1>12. CASE TerminusSummarises \/ TerminusShrinks
  <2>1. PICK h \in CutBack(history), p \in Prompts : history' = Append(h, Worded(p)) /\ pc' = "ask" /\ history # <<>>
    BY <1>12 DEF TerminusSummarises, TerminusShrinks, CutBack, Displace, Go, Prompts
  <2>2. Bare(h) /\ h # <<>> /\ h[1] = history[1]
    BY <1>2, <2>1, CutBare
  <2>3. QED
    BY <1>3, <1>7, <2>1, <2>2
<1>13. CASE TerminusReply \/ TerminusTruncated
  <2>1. history \in Seq(Message) /\ Bare(history) /\ history # <<>> /\ history[1].role = "task"
    BY <1>2, <1>3, <1>13 DEF Bare, TerminusReply, TerminusTruncated, Asked
  <2> DEFINE g == Append(history, Says("assistant"))
  <2>2. Bare(g) /\ Len(g) >= 2 /\ g # <<>> /\ g[1].role = "task"
    BY <2>1, AddBare DEF Roles
  <2>3. CASE TerminusReply
    <3>1. history' = g
      <4>1. Says("assistant") \in Message
        BY Forms DEF Roles
      <4>2. QED
        BY <2>1, <2>3, <4>1, AppendIsConcat DEF TerminusReply, Add
    <3>2. pc' = "act"
      BY <2>3 DEF TerminusReply, Go
    <3>3. QED
      BY <1>5, <2>2, <3>1, <3>2
  <2>4. CASE TerminusTruncated
    <3>1. history' = Append(g, Says("user"))
      <4>1. history' = history \o <<Says("assistant"), Says("user")>>
        BY <2>4 DEF TerminusTruncated, Add
      <4>2. Says("assistant") \in Message /\ Says("user") \in Message
        BY Forms DEF Roles
      <4>3. <<Says("assistant"), Says("user")>> = Append(<<Says("assistant")>>, Says("user"))
        OBVIOUS
      <4>4. QED
        BY <2>1, <4>1, <4>2
    <3>2. Bare(history') /\ Len(history') >= 2 /\ history' # <<>> /\ history'[1] = g[1] /\ history'[Len(history')] = Says("user")
      BY <2>2, <3>1, AddBare DEF Roles
    <3>3. pc' = "ask"
      BY <2>4 DEF TerminusTruncated, Asked
    <3>4. QED
      BY <1>5, <1>6, <2>2, <3>2, <3>3
  <2>5. QED
    BY <1>13, <2>3, <2>4
<1>14. CASE TerminusCallFails \/ TerminusTooLong
  <2>1. history' = Popped /\ pc' \in {"done", "shrink"}
    BY <1>14 DEF TerminusCallFails, TerminusTooLong, End, Go
  <2>2. QED
    BY <1>5, <1>9, <2>1
<1>15. CASE TerminusSynthetic
  <2>1. PICK h \in {history, Popped} : history' = Append(h, Says("assistant")) /\ pc' = "act" /\ pc = "ask" /\ fallback
    BY <1>15 DEF TerminusSynthetic, Asked, Go
  <2>2. Bare(h) /\ h # <<>> /\ h[1].role = "task"
    BY <1>2, <1>3, <1>9, <2>1
  <2>3. Bare(history') /\ history' # <<>> /\ history'[1] = h[1]
    BY <2>1, <2>2, AddBare DEF Roles
  <2>4. QED
    BY <1>5, <2>1, <2>2, <2>3
<1>16. CASE TerminusShrinkRaises
  <2>1. PICK h \in Unwound(history) : history' = h /\ pc' = "done"
    BY <1>16 DEF TerminusShrinkRaises, End
  <2>2. Bare(h) /\ (history = <<>> => h = <<>>) /\ (history # <<>> => h # <<>> /\ h[1] = history[1])
    BY <1>2, <2>1, CutBare
  <2>3. QED
    BY <1>3, <1>5, <2>1, <2>2
<1>17. CASE TerminusBriefs \/ TerminusRetries \/ TerminusShortBrief
  <2>1. /\ history' = history /\ pc' = pc /\ prompt' = prompt /\ fallback' = fallback
        /\ pc \in {"check", "ask", "shrink"}
    BY <1>17 DEF TerminusBriefs, TerminusRetries, TerminusShortBrief, Asked
  <2>2. QED
    BY <1>2, <1>3, <1>5, <2>1
<1>18. QED
  BY <1>10, <1>11, <1>12, <1>13, <1>14, <1>15, <1>16, <1>17 DEF TerminusNext

LEMMA CocoaKeeps ==
  ASSUME Typed, Kept, Opened, CocoaNext
  PROVE  Kept' /\ Opened'
<1>1. /\ agent \in CocoaAgents /\ agent' = agent /\ agent \notin SweAgents \cup {"terminus", "osworld"}
      /\ agent # "codeact" /\ (agent \in Closed <=> agent \in {"qwen", "gemini"})
      /\ pc \in {"loop", "ask", "act"}
  <2>1. pc \in {"loop", "ask", "act"}
    BY DEF CocoaNext, CocoaIterate, Iterate, CocoaExhausted, CocoaCallFails,
       CocoaRefused, CocoaText, CocoaTextCorrected, CocoaTextRaises, CocoaMalformedCalls, CocoaUnknownCalls,
       CocoaCalls, CocoaAction, CocoaComplete, CocoaSandboxRaises, Asked
  <2>2. QED
    BY <2>1, OthersKeepAgent DEF CocoaAgents, SweAgents, Closed
<1>2. /\ history \in Seq(Message) /\ iterations \in Nat /\ attempt \in Nat /\ attempt >= 1
  BY ConversationAssumption, RetriesAssumption DEF Typed, TypeOK, TalkTypeOK, CocoaTypeOK
<1>3. /\ iterations > 0 \/ pc # "loop" => history # <<>> /\ history[1].role = "task"
      /\ iterations = 0 => history = <<>>
      /\ pc = "ask" => AsksAgain \/ history[Len(history)].role # "assistant"
  BY <1>1 DEF Opened
<1>4. pc # "act" \/ reply = 0 \/ agent \in Closed => AllSettled(history)
  BY <1>1 DEF Kept, AllSettled
<1>5. ASSUME pc' # "done" => history' # <<>> /\ history'[1].role = "task",
             iterations' = 0 => history' = <<>>,
             pc' = "ask" => AsksAgain' \/ history'[Len(history')].role # "assistant"
      PROVE  Opened'
  BY <1>1, <1>5 DEF Opened
<1>6. ASSUME pc' = "done" PROVE Kept'
  BY <1>1, <1>6 DEF Kept
<1>7. ASSUME NEW s \in Seq(Message), history' = history \o s, iterations' = iterations, pc # "loop",
             pc' = "ask" => AsksAgain' \/ (s # <<>> /\ s[Len(s)].role # "assistant")
      PROVE  Opened'
  <2>1. history # <<>> /\ history[1].role = "task" /\ iterations # 0
    BY <1>3, <1>7
  <2>2. history' # <<>> /\ history'[1] = history[1]
    BY <1>2, <1>7, <2>1, Ends
  <2>3. s # <<>> => history'[Len(history')] = s[Len(s)]
    BY <1>2, <1>7, Ends
  <2>4. QED
    BY <1>5, <1>7, <2>1, <2>2, <2>3
<1>8. ASSUME NEW s \in Seq(Message), AllSettled(s), AllSettled(history), history' = history \o s,
             pc' = "act" => reply' = 0 \/ agent \in Closed
      PROVE  Kept'
  <2>1. AllSettled(history')
    BY <1>2, <1>8, Joined
  <2>2. QED
    BY <1>1, <1>8, <2>1, SettledIsKept
<1>9. ASSUME history' = history, iterations' = iterations, pc # "loop",
             pc' # "ask" \/ AsksAgain', pc' # "act", pc # "act" \/ pc' = "done"
      PROVE  Kept' /\ Opened'
  <2>1. history' = history \o <<>> /\ <<>> \in Seq(Message) /\ AllSettled(<<>>)
    BY <1>2, <1>9, ConcatEmptySeq, ClosedExchanges DEF Typed
  <2>2. Opened'
    BY <1>7, <1>9, <2>1
  <2>3. Kept'
    BY <1>4, <1>6, <1>8, <1>9, <2>1
  <2>4. QED
    BY <2>2, <2>3
<1>10. /\ Says("user") \in Message /\ Says("assistant") \in Message /\ Says("task") \in Message
       /\ Says("user").role = "user" /\ Says("task").role = "task"
       /\ AllSettled(<<>>) /\ AllSettled(<<Says("user")>>) /\ AllSettled(<<Says("assistant")>>)
       /\ AllSettled(<<Says("task")>>)
  <2>1. "user" \in Roles \ {"tool"} /\ "assistant" \in Roles \ {"tool"} /\ "task" \in Roles \ {"tool"}
    BY DEF Roles
  <2>2. Says("user").role = "user" /\ Says("task").role = "task"
    BY DEF Says
  <2>3. QED
    BY <2>1, <2>2, Forms, ClosedExchanges DEF Typed
<1>11. /\ <<Says("assistant")>> \in Seq(Message) /\ <<Says("user")>> \in Seq(Message) /\ <<Says("task")>> \in Seq(Message)
       /\ <<>> \in Seq(Message)
  BY <1>10
<1>12. ASSUME Asked, Retry PROVE pc' \in {"ask", "done"} /\ (pc' = "ask" => AsksAgain')
  BY <1>1, <1>2, <1>12 DEF Asked, Retry, End, AsksAgain
<1>13. ASSUME NEW s \in Seq(Message), AllSettled(s), Asked, Correct(s) \/ GiveUp(s), iterations' = iterations
       PROVE  Kept' /\ Opened'
  <2>1. CASE Correct(s)
    <3> DEFINE t == Append(s, Says("user"))
    <3>1. history' = history \o t /\ pc = "ask" /\ pc' = "ask"
      BY <1>13, <2>1 DEF Correct, Add, Asked
    <3>2. t \in Seq(Message) /\ t # <<>> /\ t[Len(t)] = Says("user")
      BY <1>10, AppendProperties
    <3>3. AllSettled(t)
      <4>1. t = s \o <<Says("user")>>
        BY <1>10, AppendIsConcat
      <4>2. QED
        BY <1>10, <1>11, <1>13, <4>1, Joined
    <3> HIDE DEF t
    <3>4. Opened'
      BY <1>7, <1>10, <1>13, <3>1, <3>2
    <3>5. Kept'
      BY <1>4, <1>8, <3>1, <3>2, <3>3
    <3>6. QED
      BY <3>4, <3>5
  <2>2. CASE GiveUp(s)
    <3>1. history' = history \o s /\ pc = "ask" /\ pc' = "loop"
      BY <1>13, <2>2 DEF GiveUp, Add, Asked, Go
    <3>2. QED
      BY <1>4, <1>7, <1>8, <1>13, <3>1
  <2>3. QED
    BY <1>13, <2>1, <2>2
<1>14. CASE CocoaIterate
  <2>1. PICK r \in {"task", "user"} : history' = history \o <<Says(r)>> /\ (iterations = 0 => r = "task")
    BY <1>14 DEF CocoaIterate, Add
  <2>2. pc = "loop" /\ pc' = "ask" /\ iterations' = iterations + 1
    BY <1>14 DEF CocoaIterate, Iterate, Go
  <2>3. PICK s \in Seq(Message) : /\ s = <<Says(r)>> /\ s # <<>> /\ s[1] = Says(r) /\ s[Len(s)] = Says(r)
                                   /\ AllSettled(s) /\ Says(r).role = r
    <3>1. <<Says(r)>> \in Seq(Message) /\ AllSettled(<<Says(r)>>) /\ Says(r).role = r
      BY <1>10, <1>11
    <3>2. <<Says(r)>> # <<>> /\ <<Says(r)>>[1] = Says(r) /\ <<Says(r)>>[Len(<<Says(r)>>)] = Says(r)
      OBVIOUS
    <3>3. QED
      BY <3>1, <3>2
  <2>4. Kept'
    BY <1>4, <1>8, <2>1, <2>2, <2>3
  <2>5. history' # <<>> /\ history'[Len(history')] = Says(r)
    BY <1>2, <2>1, <2>3, Ends
  <2>6. history'[1].role = "task"
    <3>1. CASE iterations = 0
      <4>1. history = <<>> /\ r = "task"
        BY <1>3, <2>1, <3>1
      <4>2. history'[1] = s[1]
        BY <1>2, <2>1, <2>3, <4>1, Ends
      <4>3. QED
        BY <2>3, <4>1, <4>2
    <3>2. CASE iterations # 0
      <4>1. history # <<>> /\ history[1].role = "task"
        BY <1>2, <1>3, <3>2
      <4>2. history'[1] = history[1]
        BY <1>2, <2>1, <2>3, <4>1, Ends
      <4>3. QED
        BY <4>1, <4>2
    <3>3. QED
      BY <3>1, <3>2
  <2>7. QED
    BY <1>2, <1>5, <2>2, <2>3, <2>4, <2>5, <2>6
<1>15. CASE CocoaExhausted
  <2>1. history' = history /\ iterations' = iterations /\ pc' = "done"
    BY <1>15 DEF CocoaExhausted, End
  <2>2. QED
    BY <1>3, <1>5, <1>6, <2>1
<1>16. CASE CocoaRefused \/ CocoaSandboxRaises
  <2>1. history' = history /\ iterations' = iterations /\ pc # "loop" /\ pc' = "done"
    BY <1>16 DEF CocoaRefused, CocoaSandboxRaises, Asked, End
  <2>2. QED
    BY <1>9, <2>1
<1>17. CASE CocoaCallFails
  <2>1. history' = history /\ iterations' = iterations /\ pc = "ask"
    BY <1>17 DEF CocoaCallFails, Asked
  <2>2. QED
    BY <1>9, <1>12, <1>17, <2>1 DEF CocoaCallFails
<1>18. CASE CocoaText
  <2>1. /\ history' = history \o <<Says("assistant")>> /\ pc = "ask" /\ pc' = "act" /\ reply' = 0
        /\ iterations' = iterations
    BY <1>18 DEF CocoaText, Add, Asked, Go
  <2>2. QED
    BY <1>4, <1>7, <1>8, <1>10, <1>11, <2>1
<1>19. CASE CocoaTextRaises
  <2>1. history' = history \o <<Says("assistant")>> /\ pc = "ask" /\ iterations' = iterations
    BY <1>19 DEF CocoaTextRaises, Add, Asked
  <2>2. pc' \in {"ask", "done"} /\ (pc' = "ask" => AsksAgain')
    BY <1>12, <1>19 DEF CocoaTextRaises
  <2>3. QED
    BY <1>4, <1>7, <1>8, <1>10, <1>11, <2>1, <2>2
<1>20. CASE CocoaTextCorrected \/ CocoaMalformedCalls
  <2>1. PICK s \in {<<>>, <<Says("assistant")>>} : Asked /\ (Correct(s) \/ GiveUp(s)) /\ iterations' = iterations
    BY <1>20 DEF CocoaTextCorrected, CocoaMalformedCalls
  <2>2. s \in Seq(Message) /\ AllSettled(s)
    BY <1>10, <1>11, <2>1
  <2>3. QED
    BY <1>13, <2>1, <2>2
<1>21. CASE CocoaUnknownCalls
  <2>1. PICK n \in 1 .. MaxCalls : Asked /\ (Correct(Misread(n)) \/ GiveUp(Misread(n))) /\ iterations' = iterations
    BY <1>21 DEF CocoaUnknownCalls
  <2>2. Misread(n) \in Seq(Message) /\ AllSettled(Misread(n))
    BY <1>1, Exchanges, ClosedExchanges DEF Typed
  <2>3. QED
    BY <1>13, <2>1, <2>2
<1>22. CASE CocoaCalls
  <2>1. PICK n \in 1 .. MaxCalls : history' = history \o <<Spoken(n)>> /\ reply' = n
    BY <1>22 DEF CocoaCalls, Add
  <2>2. turn' = 1 /\ pc = "ask" /\ pc' = "act" /\ iterations' = iterations
    BY <1>22 DEF CocoaCalls, Asked, Go
  <2>3. Calls(n) \in Message /\ <<Calls(n)>> \in Seq(Message)
    BY Forms, ConversationAssumption
  <2>4. CASE agent \in {"openai", "claude"}
    <3>1. Spoken(n) = Calls(n)
      BY <2>4 DEF Spoken
    <3>2. Kept'
      BY <1>1, <1>4, <2>1, <2>2, <2>4, <3>1, CallsAppended
    <3>3. QED
      BY <1>7, <2>1, <2>2, <2>3, <3>1, <3>2
  <2>5. CASE agent = "gemini"
    <3>1. Spoken(n) = Calls(n)
      BY <2>5 DEF Spoken
    <3>2. AllSettled(<<Calls(n)>>)
      BY <2>5 DEF AllSettled, Settled, IsAddressed, Unread, Calls
    <3>3. QED
      BY <1>1, <1>4, <1>7, <1>8, <2>1, <2>2, <2>3, <2>5, <3>1, <3>2
  <2>6. CASE agent = "qwen"
    <3>1. Spoken(n) = Says("assistant")
      BY <2>6 DEF Spoken
    <3>2. QED
      BY <1>1, <1>4, <1>7, <1>8, <1>10, <1>11, <2>1, <2>2, <2>6, <3>1
  <2>7. QED
    BY <1>1, <2>4, <2>5, <2>6 DEF CocoaAgents
<1>23. CASE CocoaAction \/ CocoaComplete
  <2>1. pc = "act" /\ history' = history \o Feedback /\ iterations' = iterations
    BY <1>23 DEF CocoaAction, CocoaComplete, Add
  <2>2. turn \in 1 .. MaxCalls
    BY <2>1, ConversationAssumption DEF Typed, TypeOK, TalkTypeOK, InTurn
  <2>3. Feedback \in Seq(Message)
    BY <1>11, <2>2, Forms DEF Feedback
  <2>4. pc' # "ask"
    BY <1>23 DEF CocoaAction, CocoaComplete, Go, End
  <2>5. Opened'
    BY <1>7, <2>1, <2>3, <2>4
  <2>6. CASE CocoaComplete
    BY <1>6, <2>5, <2>6 DEF CocoaComplete, End
  <2>7. CASE CocoaAction
    <3>1. turn' = turn + 1 /\ reply' = reply /\ pc' = IF turn < reply THEN "act" ELSE "loop"
      BY <2>7 DEF CocoaAction, Go
    <3>2. CASE reply = 0 \/ agent \in Closed
      <4>1. reply = 0 => pc' = "loop"
        BY <2>2, <3>1, ConversationAssumption
      <4>2. AllSettled(Feedback)
        BY <1>1, <1>10, <3>2 DEF Feedback
      <4>3. Kept'
        BY <1>4, <1>8, <2>1, <2>3, <3>2, <4>1, <4>2
      <4>4. QED
        BY <2>5, <4>3
    <3>3. CASE reply # 0 /\ agent \notin Closed
      <4>1. reply > 0 /\ Feedback = <<Answers(turn)>> /\ agent \in {"openai", "claude"}
        BY <1>1, <3>3, ConversationAssumption DEF Feedback, Typed, TypeOK, TalkTypeOK, CocoaAgents
      <4>2. Kept'
        BY <1>1, <2>1, <3>1, <4>1, CallAnswered
      <4>3. QED
        BY <2>5, <4>2
    <3>4. QED
      BY <3>2, <3>3
  <2>8. QED
    BY <1>23, <2>6, <2>7
<1>24. QED
  BY <1>14, <1>15, <1>16, <1>17, <1>18, <1>19, <1>20, <1>21, <1>22, <1>23 DEF CocoaNext

LEMMA OsworldKeeps ==
  ASSUME Typed, Paired, Kept, Opened, OsworldNext
  PROVE  Kept' /\ Opened'
<1>1. agent = "osworld" /\ agent' = agent /\ agent \notin SweAgents \cup CocoaAgents /\ agent \in Closed
  BY OthersKeepAgent DEF Closed
<1>2. ASSUME AllSettled(history') PROVE Kept'
  BY <1>1, <1>2, SettledIsKept
<1>3. CASE OsworldIterate
  <2>1. PICK n \in Nat, k \in Nat : history' = Window(n, k) /\ (n = 0 \/ k > 0)
    BY <1>1, <1>3, PromptShows DEF Paired
  <2>2. PICK m \in Nat : m = n + k + 2
    OBVIOUS
  <2>3. /\ Len(history') = m /\ m >= 2
        /\ \A i \in 1 .. m : IsPlain(history'[i])
        /\ history'[2].role = "task" /\ history'[m].role # "assistant"
    <3>1. /\ Len(Window(n, k)) = m /\ \A i \in 1 .. m : IsPlain(Window(n, k)[i])
          /\ Window(n, k)[2].role = "task" /\ Window(n, k)[m].role # "assistant"
      <4>1. /\ Len(Window(n, k)) = n + k + 2
            /\ \A i \in 1 .. n + k + 2 : Window(n, k)[i].calls = 0 /\ Window(n, k)[i].role # "tool"
            /\ Window(n, k)[2].role = "task"
            /\ Window(n, k)[n + k + 2].role # "assistant"
        BY <2>1, WindowShows
      <4>2. QED
        BY <2>2, <4>1 DEF IsPlain
    <3>2. QED
      BY <2>1, <2>2, <3>1
  <2>4. AllSettled(history')
    BY <2>3, PlainIsSettled DEF AllSettled
  <2>5. QED
    BY <1>1, <1>2, <2>3, <2>4 DEF Opened
<1>4. CASE OsworldCallFails
  <2>1. history' = history /\ pc = "ask" /\ pc' = "ask"
    BY <1>4 DEF OsworldCallFails, Asked
  <2>2. AllSettled(history')
    BY <1>1, <2>1 DEF Kept, AllSettled
  <2>3. QED
    BY <1>1, <1>2, <2>1, <2>2 DEF Opened
<1>5. CASE OsworldRaises \/ OsworldEnds
  <2>1. pc' = "done"
    BY <1>5 DEF OsworldRaises, OsworldEnds, End
  <2>2. QED
    BY <1>1, <2>1 DEF Kept, Opened
<1>6. CASE OsworldGivesUp \/ OsworldReply \/ OsworldLooks \/ OsworldAction \/ OsworldDone
  <2>1. history' = history /\ pc # "done" /\ pc' \in {"act", "loop"}
    BY <1>6 DEF OsworldGivesUp, OsworldReply, OsworldLooks, OsworldAction, OsworldDone, Asked, Go
  <2>2. AllSettled(history')
    BY <1>1, <2>1 DEF Kept, AllSettled
  <2>3. QED
    BY <1>1, <1>2, <2>1, <2>2 DEF Opened
<1>7. QED
  BY <1>3, <1>4, <1>5, <1>6 DEF OsworldNext

(* Whenever a model is asked, for every number of iterations and calls, the *)
(* history it is sent is one its interface takes: the calls of each message *)
(* are answered right after it and in order, no answer is without its call, *)
(* the task is still there, and the model does not have the last word.      *)
THEOREM HistoriesWellFormed == Spec => []HistoryIsWellFormed
<1>1. Init => Kept /\ Opened
  <2>1. SUFFICES ASSUME Init PROVE Kept /\ Opened
    OBVIOUS
  <2>2. /\ history = IF agent \in SweAgents THEN SweHistory ELSE <<>>
        /\ pc = "loop" /\ iterations = 0 /\ prompt = "task"
    BY <2>1 DEF Init, TalkInit, TerminusInit
  <2>3. CASE agent \in SweAgents
    <3>1. /\ history = <<Says("system"), Says("task")>> /\ agent # "terminus" /\ agent \notin CocoaAgents
          /\ Len(history) = 2 /\ history[1] = Says("system") /\ history[2] = Says("task")
      BY <2>2, <2>3 DEF SweHistory, SweAgents, CocoaAgents
    <3>2. \A i \in 1 .. Len(history) : IsPlain(history[i])
      BY <3>1 DEF IsPlain, Says
    <3>3. \A i \in 1 .. Len(history) : Settled(history, i)
      BY <3>2, PlainIsSettled
    <3>4. Says("task").role = "task"
      BY DEF Says
    <3>5. QED
      BY <2>2, <3>1, <3>3, <3>4 DEF Kept, Opened
  <2>4. CASE agent \notin SweAgents
    BY <2>2, <2>4 DEF Kept, Opened
  <2>5. QED
    BY <2>3, <2>4
<1>2. Typed /\ Paired /\ Kept /\ Opened /\ [Next]_vars => Kept' /\ Opened'
  <2>1. Kept /\ Opened /\ UNCHANGED vars => Kept' /\ Opened'
    BY DEF vars, talkVars, sweVars, terminusVars, cocoaVars, Kept, Opened, Settled, Unread, Answering, AsksAgain
  <2>2. QED
    BY <2>1, SweKeeps, TerminusKeeps, CocoaKeeps, OsworldKeeps DEF Next
<1>3. Typed /\ Kept /\ Opened => HistoryIsWellFormed
  <2>1. SUFFICES ASSUME Typed, Kept, Opened, pc = "ask" PROVE HistoryIsWellFormed
    BY DEF HistoryIsWellFormed
  <2>2. \A i \in 1 .. Len(history) : IsAddressed(history, i) /\ (IsAnswered(history, i) \/ Unread(history, i))
    BY <2>1 DEF Kept, Settled
  <2>3. history \in Seq(Message) /\ agent \in AgentKinds
    BY <2>1 DEF Typed, TypeOK, TalkTypeOK
  <2>4. HasTask(history)
    <3>1. CASE agent \in SweAgents
      <4>1. 2 \in 1 .. Len(history) /\ history[2].role = "task"
        BY <2>1, <2>3, <3>1 DEF Opened
      <4>2. QED
        BY <4>1 DEF HasTask
    <3>2. CASE agent \in CocoaAgents \cup {"terminus"}
      <4>1. history # <<>> /\ history[1].role = "task"
        BY <2>1, <3>2 DEF Opened
      <4>2. 1 \in 1 .. Len(history)
        BY <2>3, <4>1, EmptySeq
      <4>3. QED
        BY <4>1, <4>2 DEF HasTask
    <3>3. CASE agent = "osworld"
      <4>1. 2 \in 1 .. Len(history) /\ history[2].role = "task"
        BY <2>1, <2>3, <3>3 DEF Opened
      <4>2. QED
        BY <4>1 DEF HasTask
    <3>4. QED
      BY <2>3, <3>1, <3>2, <3>3 DEF AgentKinds
  <2>5. history[Len(history)].role # "assistant" \/ AsksAgain
    BY <2>1, <2>3 DEF Opened, AgentKinds
  <2>6. QED
    BY <2>2, <2>4, <2>5 DEF HistoryIsWellFormed
<1>4. QED
  BY <1>1, <1>2, <1>3, TypesAlways, PTL DEF Spec

-----------------------------------------------------------------------------
(* Images                                                                   *)

(* Messages with images are the user's, and while no call is under way at   *)
(* most one is left, if old ones are put away.                              *)
Pictures ==
    /\ agent \notin CocoaAgents => images = {}
    /\ agent \in CocoaAgents => images \subseteq Users(history)
    /\ ImagesDoNotPileUp

(* A CocoaBench agent takes nothing back.                                   *)
LEMMA CocoaGrows ==
  ASSUME Typed, CocoaNext
  PROVE  \E s \in Seq(Message) : history' = history \o s
<1>1. /\ history \in Seq(Message) /\ <<>> \in Seq(Message) /\ history = history \o <<>>
      /\ Says("user") \in Message /\ \A r \in Roles : <<Says(r)>> \in Seq(Message)
      /\ \A n \in 1 .. MaxCalls : <<Calls(n)>> \in Seq(Message)
      /\ \A k \in 1 .. MaxCalls : <<Answers(k)>> \in Seq(Message)
  BY Histories, Forms, ConcatEmptySeq, ConversationAssumption DEF Typed, TypeOK, TalkTypeOK, Roles
<1>2. ASSUME NEW s \in Seq(Message), Correct(s) \/ GiveUp(s) PROVE \E t \in Seq(Message) : history' = history \o t
  <2>1. Append(s, Says("user")) \in Seq(Message)
    BY <1>1, AppendProperties
  <2>2. QED
    BY <1>2, <2>1 DEF Correct, GiveUp, Add
<1>3. CASE CocoaIterate \/ CocoaText \/ CocoaTextRaises
  BY <1>1, <1>3 DEF CocoaIterate, CocoaText, CocoaTextRaises, Add, Roles
<1>4. CASE CocoaExhausted \/ CocoaRefused \/ CocoaSandboxRaises \/ CocoaCallFails
  BY <1>1, <1>4 DEF CocoaExhausted, CocoaRefused, CocoaSandboxRaises, CocoaCallFails
<1>5. CASE CocoaTextCorrected \/ CocoaMalformedCalls \/ CocoaUnknownCalls
  <2>1. PICK s \in Seq(Message) : Correct(s) \/ GiveUp(s)
    BY <1>1, <1>5, Exchanges DEF CocoaTextCorrected, CocoaMalformedCalls, CocoaUnknownCalls, Roles, Typed
  <2>2. QED
    BY <1>2, <2>1
<1>6. CASE CocoaCalls
  <2>1. PICK n \in 1 .. MaxCalls : history' = history \o <<Spoken(n)>>
    BY <1>6 DEF CocoaCalls, Add
  <2>2. QED
    BY <1>1, <2>1 DEF Spoken, Roles
<1>7. CASE CocoaAction \/ CocoaComplete
  <2>1. history' = history \o Feedback /\ turn \in 1 .. MaxCalls
    BY <1>7, ConversationAssumption DEF CocoaAction, CocoaComplete, Add, Typed, TypeOK, TalkTypeOK, InTurn
  <2>2. <<Says("assistant")>> \in Seq(Message) /\ <<Answers(turn)>> \in Seq(Message)
    BY <1>1, <2>1 DEF Roles
  <2>3. QED
    BY <1>1, <2>1, <2>2 DEF Feedback
<1>8. QED
  BY <1>3, <1>4, <1>5, <1>6, <1>7 DEF CocoaNext

(* What a step does to the images: a prompt brings some, an action puts     *)
(* them away, all else leaves them alone.                                   *)
LEMMA CocoaPictured ==
  ASSUME CocoaNext
  PROVE  \/ CocoaIterate
         \/ PutAway(history') /\ pc' \in {"act", "loop"}
         \/ /\ images' = images
            /\ pc' = "done" \/ (pc = "ask" /\ pc' = "ask") \/ (pc = "act" /\ pc' \in {"act", "loop"})
<1> USE DEF Go, End, Asked
<1>1. ASSUME NEW s, Correct(s) \/ GiveUp(s), Asked
      PROVE  (PutAway(history') /\ pc' = "loop") \/ (images' = images /\ pc' = pc)
  BY <1>1 DEF Correct, GiveUp, Add
<1>2. CASE CocoaTextCorrected \/ CocoaMalformedCalls \/ CocoaUnknownCalls
  <2>1. PICK s : Asked /\ (Correct(s) \/ GiveUp(s))
    BY <1>2 DEF CocoaTextCorrected, CocoaMalformedCalls, CocoaUnknownCalls
  <2>2. QED
    BY <1>1, <2>1
<1>3. CASE CocoaText \/ CocoaCalls
  BY <1>3 DEF CocoaText, CocoaCalls, Add
<1>4. CASE CocoaExhausted \/ CocoaRefused \/ CocoaSandboxRaises \/ CocoaAction \/ CocoaComplete
  BY <1>4 DEF CocoaExhausted, CocoaRefused, CocoaSandboxRaises, CocoaAction, CocoaComplete, cocoaVars
<1>5. CASE CocoaCallFails \/ CocoaTextRaises
  BY <1>5 DEF CocoaCallFails, CocoaTextRaises, Retry
<1>6. QED
  BY <1>2, <1>3, <1>4, <1>5 DEF CocoaNext

LEMMA PicturesStep ==
  ASSUME Typed, Pictures, [Next]_vars
  PROVE  Pictures'
<1>1. CASE CocoaNext
  <2>1. agent \in CocoaAgents /\ agent' = agent /\ images \subseteq Users(history)
    BY <1>1, OthersKeepAgent DEF Pictures
  <2>2. PICK s \in Seq(Message) : history' = history \o s
    BY <1>1, CocoaGrows
  <2>3. /\ history \in Seq(Message) /\ Len(history) \in Nat /\ Len(history') \in Nat
        /\ Len(history) <= Len(history')
        /\ \A i \in 1 .. Len(history) : history'[i] = history[i]
    BY <2>2, Extended DEF Typed, TypeOK, TalkTypeOK
  <2>4. Users(history) \subseteq Users(history')
    BY <2>3 DEF Users
  <2>5. CASE CocoaIterate
    <3>1. PICK r \in {"task", "user"} : history' = history \o <<Says(r)>>
      BY <2>5 DEF CocoaIterate, Add
    <3>2. <<Says(r)>> \in Seq(Message) /\ Len(<<Says(r)>>) = 1 /\ <<Says(r)>>[1] = Says(r) /\ Says(r).role = r
      <4>1. Says(r) \in Message /\ Says(r).role = r
        BY Forms DEF Roles, Says
      <4>2. QED
        BY <4>1
    <3>3. Len(history') = Len(history) + 1 /\ history'[Len(history) + 1] = Says(r)
      BY <2>3, <3>1, <3>2, ConcatProperties
    <3>4. Len(history) + 1 \in Users(history')
      BY <2>3, <3>2, <3>3 DEF Users
    <3>5. /\ images' \subseteq images \cup {Len(history) + 1} /\ pc' = "ask" /\ pc = "loop"
      BY <2>5 DEF CocoaIterate, Iterate, Go
    <3>6. CleansUp => \A i, j \in images : i = j
      BY <3>5 DEF Pictures, ImagesDoNotPileUp
    <3>7. CleansUp => \A i, j, k \in images' : i = j \/ j = k \/ i = k
      BY <3>5, <3>6
    <3>8. QED
      BY <2>1, <2>4, <3>4, <3>5, <3>7 DEF Pictures, ImagesDoNotPileUp
  <2>6. CASE PutAway(history') /\ pc' \in {"act", "loop"}
    <3>1. images' \subseteq images
      BY <2>6 DEF PutAway, Tidy
    <3>2. ASSUME CleansUp, NEW i \in images', NEW j \in images' PROVE i = j
      <4>1. i \in Users(history') /\ j \in Users(history') /\ i \in Nat /\ j \in Nat
        BY <2>1, <2>4, <3>1 DEF Typed, TypeOK, CocoaTypeOK
      <4>2. i <= j /\ j <= i
        BY <2>6, <3>2, <4>1 DEF PutAway, Tidy
      <4>3. QED
        BY <4>1, <4>2
    <3>3. QED
      BY <2>1, <2>4, <2>6, <3>1, <3>2 DEF Pictures, ImagesDoNotPileUp
  <2>7. CASE /\ images' = images
             /\ pc' = "done" \/ (pc = "ask" /\ pc' = "ask") \/ (pc = "act" /\ pc' \in {"act", "loop"})
    BY <2>1, <2>4, <2>7 DEF Pictures, ImagesDoNotPileUp
  <2>8. QED
    BY <1>1, <2>5, <2>6, <2>7, CocoaPictured
<1>2. CASE SweNext \/ TerminusNext \/ OsworldNext
  <2>1. agent \notin CocoaAgents /\ agent' = agent
    BY <1>2, OthersKeepAgent
  <2>2. images = {}
    BY <2>1 DEF Pictures
  <2>3. CASE CocoaNext
    BY <1>1, <2>3
  <2>4. CASE ~CocoaNext /\ UNCHANGED cocoaVars
    BY <2>1, <2>2, <2>4 DEF Pictures, ImagesDoNotPileUp, cocoaVars
  <2>5. QED
    BY <1>2, <2>3, <2>4 DEF Next, vars
<1>3. CASE UNCHANGED vars
  BY <1>3 DEF vars, talkVars, cocoaVars, Pictures, ImagesDoNotPileUp, Users
<1>4. QED
  BY <1>1, <1>2, <1>3 DEF Next

(* Although corrections and failures put further messages of the user into  *)
(* the history of a CocoaBench agent, a call never sends the images of more *)
(* than two of them, whatever the number of iterations and attempts.        *)
THEOREM ImagesBounded == Spec => []ImagesDoNotPileUp
<1>1. Init => Pictures
  BY DEF Init, TalkInit, CocoaInit, Pictures, ImagesDoNotPileUp
<1>2. Pictures => ImagesDoNotPileUp
  BY DEF Pictures
<1>3. QED
  BY <1>1, <1>2, PicturesStep, TypesAlways, PTL DEF Spec
=============================================================================
