---------------------------- MODULE OsworldAgent ----------------------------
(***************************************************************************)
(* The loop of harness/runner/osworld/run.py with its agent, Qwen3VLAgent   *)
(* of harness/agents/osworld: one prediction and the actions it holds in an *)
(* iteration.  The agent keeps no messages: it builds them for each call    *)
(* from its lists of screenshots and responses, the latest of them only.    *)
(***************************************************************************)
EXTENDS Conversation

CONSTANT HistoryN       \* history_n

ASSUME HistoryNAssumption == HistoryN \in Nat

VARIABLES
    screenshots, responses,     \* how many there are
    finishing                   \* an action was DONE

osworldVars == <<screenshots, responses, finishing>>

OsworldTypeOK ==
    /\ screenshots \in Nat
    /\ responses \in Nat
    /\ finishing \in BOOLEAN

OsworldInit ==
    /\ screenshots = 0
    /\ responses = 0
    /\ finishing = FALSE

MAX_RETRY_TIMES == 5

-----------------------------------------------------------------------------

Least(a, b) == IF a <= b THEN a ELSE b

(* Seeded fault: the slice starts at the latest responses, one late.        *)
ShownLate(n) == Least(n, screenshots' - 1) - (IF n > 0 THEN 1 ELSE 0)

(* self.screenshots[-n - 1:-1]: those before the latest, at most n.         *)
Shown(n) == Least(n, screenshots' - 1)

(* A system message, n responses, k of them after a screenshot, and the     *)
(* latest screenshot.  The task goes with the first of the screenshots.     *)
Window(n, k) ==
    [i \in 1 .. n + k + 2 |->
        IF i = 1 THEN Says("system")
        ELSE IF i = 2 /\ (n = 0 \/ k > 0) THEN Says("task")
        ELSE IF i = n + k + 2 \/ (i <= 2 * k /\ i % 2 = 0) THEN Says("user")
        ELSE Says("assistant")]

(* predict() up to its call.                                                *)
OsworldIterate ==
    /\ Iterate("ask")
    /\ ~finishing
    /\ screenshots' = screenshots + 1
    /\ LET n == Least(HistoryN, responses) IN history' = Window(n, Shown(n))
    /\ UNCHANGED <<responses, finishing>>

(* The desktop gave no screenshot, or a picture that is none: predict()     *)
(* raises, as a parser may and the evaluation after the loop.               *)
OsworldRaises ==
    /\ pc \in {"loop", "act"}
    /\ End("error")
    /\ UNCHANGED <<agent, history, iterations, reply, turn, asked, osworldVars>>

(* A call that fails is repeated, whatever it failed of.                    *)
OsworldCallFails ==
    /\ Asked
    /\ asked' < MAX_RETRY_TIMES
    /\ UNCHANGED <<agent, history, pc, iterations, reply, turn, result, osworldVars>>

(* The last failure makes an empty response, one without an action.         *)
OsworldGivesUp ==
    /\ Asked
    /\ asked' = MAX_RETRY_TIMES
    /\ responses' = responses + 1
    /\ reply' = 0
    /\ turn' = 1
    /\ Go("act")
    /\ UNCHANGED <<agent, history, iterations, screenshots, finishing>>

(* Every call in the text that can be read is an action.                    *)
OsworldReply ==
    /\ Asked
    /\ responses' = responses + 1
    /\ reply' \in 0 .. MaxCalls
    /\ turn' = 1
    /\ Go("act")
    /\ UNCHANGED <<agent, history, iterations, screenshots, finishing>>

(* No action: another look at the desktop.                                  *)
OsworldLooks ==
    /\ pc = "act"
    /\ reply = 0
    /\ Go("loop")
    /\ UNCHANGED <<agent, history, iterations, reply, turn, asked, osworldVars>>

(* env.step of an action, or of WAIT.                                       *)
OsworldAction ==
    /\ pc = "act"
    /\ turn <= reply
    /\ turn' = turn + 1
    /\ Go(IF turn < reply THEN "act" ELSE "loop")
    /\ UNCHANGED <<agent, history, iterations, reply, asked, osworldVars>>

(* DONE: the actions that follow are dropped.                               *)
OsworldDone ==
    /\ pc = "act"
    /\ turn <= reply
    /\ finishing' = TRUE
    /\ Go("loop")
    /\ UNCHANGED <<agent, history, iterations, reply, turn, asked, screenshots, responses>>

(* The loop is over and the task evaluated.                                 *)
OsworldEnds ==
    /\ pc = "loop"
    /\ finishing \/ iterations = MaxIterations
    /\ End(IF finishing THEN "finished" ELSE "max_iterations")
    /\ UNCHANGED <<agent, history, iterations, reply, turn, asked, osworldVars>>

OsworldNext ==
    /\ agent = "osworld"
    /\ \/ OsworldIterate \/ OsworldRaises \/ OsworldCallFails \/ OsworldGivesUp
       \/ OsworldReply \/ OsworldLooks \/ OsworldAction \/ OsworldDone \/ OsworldEnds
=============================================================================
