----------------------------- MODULE TrialRunner -----------------------------
(***************************************************************************)
(* harness/runner/swe and harness/runner/terminal: what a worker does with  *)
(* a rollout.  All seven runners are one straight line: find the task,      *)
(* start an environment, run the agent, evaluate, and in the finally clause *)
(* stop the environment; then write the artifacts and return.  A step may   *)
(* raise; the worker may be interrupted (a soft cancel) or killed between   *)
(* any two of them, and Ray may then run the trial again in the same        *)
(* output directory.  Terminal trials share one clone of the task           *)
(* repository.  A runner differs from the next in its labels and in how it  *)
(* words its exit status.                                                   *)
(***************************************************************************)
EXTENDS ShellEnvironment

CONSTANTS
    Trials,
    Kind,           \* the runner's family
    Revision,       \* repo_revision, or "none"; the default branch is "default"
    Refresh,        \* the trials with refresh_repo
    Batches,        \* sets of trials that may be submitted together
    Mortal,         \* trials that may be cancelled, or whose worker may die
    MaxAttempts     \* 1 + the retries Ray may make of a trial

Kinds == {"swe", "terminal", "installed"}

ASSUME TrialAssumption ==
    /\ MaxAttempts \in [Trials -> Nat \ {0}]
    /\ Attempts = UNION {{<<t, n>> : n \in 1 .. MaxAttempts[t]} : t \in Trials}
    /\ Kind \in [Trials -> Kinds]
    /\ Revision \in [Trials -> STRING \ {"absent", "partial"}]
    /\ Refresh \subseteq Trials
    /\ Batches \subseteq SUBSET Trials
    /\ Mortal \subseteq Trials

VARIABLES
    batch,          \* the trials submitted
    pc, attempt,    \* where the worker of a trial is, in which attempt
    error,          \* error_msg; "interrupt" while a soft cancel unwinds
    agent,          \* agent_result
    verdict,        \* eval_payload
    answer,         \* the exit_status returned
    disk,           \* which attempt last wrote a file whole, 0 for none
    tree,           \* the working tree of the shared clone, "partial" if not whole
    fetched,        \* the revisions the clone can check out
    posed, graded,  \* the tree a trial took its task, its tests from
    cut             \* how and where an attempt was cut short

workerVars == <<pc, attempt, error, agent, verdict, answer>>
taskVars == <<tree, fetched, posed, graded>>
vars == <<envVars, batch, workerVars, disk, taskVars, cut>>

-----------------------------------------------------------------------------

CacheLabels == {"find", "clone", "cloning", "fetch", "checkout"}
TryLabels == {"resolve", "create", "launch", "watch", "mkdir", "prepare", "agent", "eval"}
StopLabels == {"unwatch", "halt", "remove"}
Files == {"trajectory", "reward", "patch", "report", "eval_output"}
Active == CacheLabels \cup TryLabels \cup StopLabels \cup Files \cup {"answer"}

Revisions == {"default"} \cup ({Revision[t] : t \in Trials} \ {"none"})
Trees == {"absent", "partial"} \cup Revisions
NotCut == [how |-> "not", at |-> "none"]

TypeOK ==
    /\ EnvTypeOK
    /\ batch \subseteq Trials
    /\ pc \in [Trials -> Active \cup {"idle", "returned", "raised", "dead"}]
    /\ attempt \in [Trials -> Nat] /\ \A t \in Trials : attempt[t] \in 1 .. MaxAttempts[t]
    /\ error \in [Trials -> {"none", "text", "blank", "interrupt"}]
    /\ agent \in [Trials -> {"none", "finished", "error"}]
    /\ verdict \in [Trials -> {"none", "broken", "failed", "passed"}]
    /\ answer \in [Trials -> {"none", "error", "agent", "resolved", "completed"}]
    /\ disk \in [Trials -> [Files -> Nat]]
    /\ tree \in Trees
    /\ fetched \subseteq Revisions
    /\ posed \in [Trials -> Trees \cup {"none"}]
    /\ graded \in [Trials -> Trees \cup {"none"}]
    /\ cut \in [Attempts -> [how : {"not", "interrupt", "kill"}, at : Active \cup {"none"}]]

(* There is no clone, or one that an earlier batch has left at a revision   *)
(* it knows.  A batch of SWE trials does not look at it.                    *)
CacheBefore ==
    \/ tree = "absent" /\ fetched = {}
    \/ /\ \E t \in batch : Kind[t] # "swe"
       /\ fetched \in SUBSET Revisions
       /\ tree \in fetched

Init ==
    /\ EnvInit
    /\ batch \in Batches
    /\ pc = [t \in Trials |-> "idle"]
    /\ attempt = [t \in Trials |-> 1]
    /\ error = [t \in Trials |-> "none"]
    /\ agent = [t \in Trials |-> "none"]
    /\ verdict = [t \in Trials |-> "none"]
    /\ answer = [t \in Trials |-> "none"]
    /\ disk = [t \in Trials |-> [f \in Files |-> 0]]
    /\ CacheBefore
    /\ posed = [t \in Trials |-> "none"]
    /\ graded = [t \in Trials |-> "none"]
    /\ cut = [o \in Attempts |-> NotCut]

Current(t) == <<t, attempt[t]>>
EnvOf(t) == Env[Current(t)]

-----------------------------------------------------------------------------
(* Control: where a worker goes next                                        *)

(* Terminal runners find the clone of their tasks before the try statement. *)
FirstLabel(t) == IF Kind[t] = "swe" THEN "resolve" ELSE "find"

AfterStart(t) == IF Kind[t] = "swe" THEN "prepare" ELSE "agent"

AfterCreate(t) ==
    CASE EnvOf(t) = "enroot" -> "launch"
      [] EnvOf(t) = "modal" -> "mkdir"
      [] EnvOf(t) = "docker" -> AfterStart(t)

(* Past the finally clause, artifacts are written unless an exception that  *)
(* is no Exception goes on unwinding.                                       *)
AfterStop(e) == IF e = "interrupt" THEN "raised" ELSE "trajectory"

(* The finally clause: stop() of an environment that knows no container     *)
(* does nothing.                                                            *)
Finally(t, k, e) ==
    IF ~k THEN AfterStop(e) ELSE IF EnvOf(t) = "enroot" THEN "unwatch" ELSE "halt"

Goto(t, l) == pc' = [pc EXCEPT ![t] = l]

(* One step of the try statement went well.                                 *)
Advance(t, l) == Goto(t, l) /\ UNCHANGED <<batch, attempt, error, disk, cut>>

(* Seeded fault: only an error with a message leads to the finally clause.  *)
RaiseInTryEarly(t) ==
    /\ \E e \in {"text", "blank"} :
        /\ error' = [error EXCEPT ![t] = e]
        /\ Goto(t, IF e = "blank" THEN AfterStop(e) ELSE Finally(t, known'[Current(t)], e))
    /\ UNCHANGED <<batch, attempt, agent, verdict, answer, disk, taskVars, cut>>

(* except Exception as exc: error_msg = str(exc), which may be empty.       *)
RaiseInTry(t) ==
    /\ \E e \in {"text", "blank"} :
        /\ error' = [error EXCEPT ![t] = e]
        /\ Goto(t, Finally(t, known'[Current(t)], e))
    /\ UNCHANGED <<batch, attempt, agent, verdict, answer, disk, taskVars, cut>>

(* An exception outside the try statement.                                  *)
Escape(t) ==
    /\ error' = [error EXCEPT ![t] = "text"]
    /\ Goto(t, "raised")
    /\ UNCHANGED <<batch, attempt, agent, verdict, answer, cut>>

-----------------------------------------------------------------------------
(* The shared clone                                                         *)

Begin(t) ==
    /\ pc[t] = "idle"
    /\ Advance(t, FirstLabel(t))
    /\ UNCHANGED <<envVars, agent, verdict, answer, taskVars>>

FindClone(t) ==
    /\ pc[t] = "find"
    /\ Advance(t, IF tree = "absent" THEN "clone" ELSE IF t \in Refresh THEN "fetch" ELSE "checkout")
    /\ UNCHANGED <<envVars, agent, verdict, answer, taskVars>>

(* git clone makes the directory, which is all that later trials look at;   *)
(* it refuses one that another clone has begun.                             *)
CloneBegins(t) ==
    /\ pc[t] = "clone"
    /\ tree = "absent"
    /\ tree' = "partial"
    /\ Advance(t, "cloning")
    /\ UNCHANGED <<envVars, agent, verdict, answer, fetched, posed, graded>>

CloneRefused(t) ==
    /\ pc[t] = "clone"
    /\ tree # "absent"
    /\ Escape(t)
    /\ UNCHANGED <<envVars, disk, taskVars>>

(* A clone of depth 1 knows one revision.                                   *)
CloneTakes(t) ==
    LET cloned == IF Revision[t] = "none" THEN "default" ELSE Revision[t] IN
        /\ pc[t] = "cloning"
        /\ tree' = cloned
        /\ fetched' = fetched \cup {cloned}

CloneEnds(t) ==
    /\ CloneTakes(t)
    /\ Advance(t, "checkout")
    /\ UNCHANGED <<envVars, agent, verdict, answer, posed, graded>>

(* Git removes what it began, unless it is killed by the 600 s timeout.     *)
CloneFails(t) ==
    /\ pc[t] = "cloning"
    /\ \/ tree' = "absent" /\ fetched' = {}
       \/ tree' = "partial" /\ fetched' = fetched
    /\ Escape(t)
    /\ UNCHANGED <<envVars, disk, posed, graded>>

(* The head of the branch that was cloned may be new by now, and with it    *)
(* come the tags that name it: a trial's revision may be among them.  The   *)
(* working tree, and the branch it is on, stay as they are.                 *)
FetchTakes(t) ==
    /\ pc[t] = "fetch"
    /\ tree # "absent"
    /\ \E news \in SUBSET (Revisions \ {"default"}) : fetched' = fetched \cup news
    /\ tree' = tree

Fetch(t) ==
    /\ FetchTakes(t)
    /\ Advance(t, "checkout")
    /\ UNCHANGED <<envVars, agent, verdict, answer, posed, graded>>

(* A checkout that moves the tree, under whichever trials are there.        *)
Moves(t) ==
    /\ pc[t] = "checkout"
    /\ Revision[t] \in fetched
    /\ tree \notin {"absent", "partial", Revision[t]}

(* Seeded fault: without a revision the default branch is checked out.      *)
CheckoutDefault(t) ==
    /\ pc[t] = "checkout"
    /\ tree' = IF tree \in {"absent", "partial"} THEN tree
               ELSE IF Revision[t] = "none" THEN "default" ELSE Revision[t]
    /\ tree' \in fetched \cup {"absent", "partial"}
    /\ Advance(t, "resolve")
    /\ UNCHANGED <<envVars, agent, verdict, answer, fetched, posed, graded>>

(* No revision, or no directory any more, and nothing is checked out; files *)
(* that an unfinished clone lacks are not restored.                         *)
Checkout(t) ==
    /\ pc[t] = "checkout"
    /\ Revision[t] = "none" \/ tree \in {"absent", "partial"} \/ Revision[t] \in fetched
    /\ tree' = IF Moves(t) THEN Revision[t] ELSE tree
    /\ Advance(t, "resolve")
    /\ UNCHANGED <<envVars, agent, verdict, answer, fetched, posed, graded>>

(* A git command that dies, or outlives its worker, does its work, half of  *)
(* it, or nothing.                                                          *)
GitCutShort(t) ==
    \/ UNCHANGED <<tree, fetched>>
    \/ CloneTakes(t)
    \/ FetchTakes(t)
    \/ Moves(t) /\ tree' \in {"partial", Revision[t]} /\ fetched' = fetched

(* The fetch or the checkout fails, or runs into its timeout.               *)
CheckoutFails(t) ==
    /\ pc[t] \in {"fetch", "checkout"}
    /\ GitCutShort(t)
    /\ Escape(t)
    /\ UNCHANGED <<envVars, disk, posed, graded>>

(* What a trial finds in the clone: its tree, or some of each while another *)
(* trial's checkout is at work.                                             *)
Found == {tree} \cup {"partial" : u \in {u \in batch : Moves(u)}}

-----------------------------------------------------------------------------
(* The try statement                                                        *)

(* The instance, its image and the environment object.  A task directory    *)
(* may be there although the clone is not whole.                            *)
Resolve(t) ==
    /\ pc[t] = "resolve"
    /\ Kind[t] # "swe" => tree # "absent"
    /\ \E f \in Found : posed' = [posed EXCEPT ![t] = IF Kind[t] = "swe" THEN @ ELSE f]
    /\ Advance(t, "create")
    /\ UNCHANGED <<envVars, agent, verdict, answer, tree, fetched, graded>>

ResolveRaises(t) ==
    /\ pc[t] = "resolve"
    /\ UNCHANGED envVars
    /\ RaiseInTry(t)

StartStep(t) ==
    /\ \/ pc[t] = "create" /\ Create(Current(t)) /\ Advance(t, AfterCreate(t))
       \/ pc[t] = "launch" /\ Launch(Current(t)) /\ Advance(t, "watch")
       \/ pc[t] = "watch" /\ Watch(Current(t)) /\ Advance(t, AfterStart(t))
       \/ pc[t] = "mkdir" /\ UNCHANGED envVars /\ Advance(t, AfterStart(t))
    /\ UNCHANGED <<agent, verdict, answer, taskVars>>

(* When enroot's start() fails it calls stop() itself, and the finally      *)
(* clause repeats it to no effect.                                          *)
StartRaises(t) ==
    /\ \/ pc[t] = "create" /\ CreateFails(Current(t))
       \/ pc[t] = "launch" /\ LaunchFails(Current(t))
       \/ pc[t] = "mkdir" /\ UNCHANGED envVars
    /\ RaiseInTry(t)

(* git configuration, the R2E-Gym setup and the SWE-smith checkout.         *)
Prepare(t) ==
    /\ pc[t] = "prepare"
    /\ Advance(t, "agent")
    /\ UNCHANGED <<envVars, agent, verdict, answer, taskVars>>

(* Only terminal/installed looks at how its agent ended.                    *)
Endings(t) == IF Kind[t] = "installed" THEN {"finished", "error"} ELSE {"finished"}

RunAgent(t) ==
    /\ pc[t] = "agent"
    /\ \E r \in Endings(t) : agent' = [agent EXCEPT ![t] = r]
    /\ Advance(t, "eval")
    /\ UNCHANGED <<envVars, verdict, answer, taskVars>>

(* An evaluation that raises is an evaluation with reward 0, with or        *)
(* without an output.  Terminal tests are read from the clone now.          *)
Evaluate(t) ==
    /\ pc[t] = "eval"
    /\ \E v \in {"broken", "failed", "passed"} :
        /\ Kind[t] # "swe" /\ tree = "absent" => v = "broken"
        /\ verdict' = [verdict EXCEPT ![t] = v]
    /\ \E f \in Found : graded' = [graded EXCEPT ![t] = IF Kind[t] = "swe" THEN @ ELSE f]
    /\ Advance(t, Finally(t, known[Current(t)], error[t]))
    /\ UNCHANGED <<envVars, agent, answer, tree, fetched, posed>>

StepRaises(t) ==
    /\ pc[t] \in {"prepare", "agent", "eval"}
    /\ UNCHANGED envVars
    /\ RaiseInTry(t)

-----------------------------------------------------------------------------
(* The finally clause                                                       *)

StopStep(t) ==
    /\ \/ pc[t] = "unwatch" /\ Unwatch(Current(t)) /\ Advance(t, "halt")
       \/ pc[t] = "halt" /\ Halt(Current(t)) /\ Advance(t, "remove")
       \/ /\ pc[t] = "remove"
          /\ Remove(Current(t)) \/ RemoveFails(Current(t))
          /\ Advance(t, AfterStop(error[t]))
    /\ UNCHANGED <<agent, verdict, answer, taskVars>>

(* Docker: container.stop raises, and the remove is skipped.                *)
HaltFails(t) ==
    /\ pc[t] = "halt"
    /\ EnvOf(t) = "docker"
    /\ RemoveFails(Current(t))
    /\ Advance(t, AfterStop(error[t]))
    /\ UNCHANGED <<agent, verdict, answer, taskVars>>

-----------------------------------------------------------------------------
(* Artifacts and answer                                                     *)

HasOutput(t) == verdict[t] \in {"failed", "passed"}

(* Seeded fault: the reward is written by successful trials only.           *)
AfterFileEarly(t, f) == IF f = "trajectory" /\ error[t] # "none" THEN "answer" ELSE "reward"

(* SWE trials also leave a patch and a report.                              *)
AfterFile(t, f) ==
    CASE f = "trajectory" -> "reward"
      [] f = "reward" /\ Kind[t] = "swe" -> "patch"
      [] f = "patch" -> "report"
      [] (f = "reward" /\ Kind[t] # "swe") \/ f = "report" -> IF HasOutput(t) THEN "eval_output" ELSE "answer"
      [] f = "eval_output" -> "answer"

WriteFile(t) ==
    /\ pc[t] \in Files
    /\ disk' = [disk EXCEPT ![t][pc[t]] = attempt[t]]
    /\ Goto(t, AfterFile(t, pc[t]))
    /\ UNCHANGED <<envVars, batch, attempt, error, agent, verdict, answer, taskVars, cut>>

WriteFails(t) ==
    /\ pc[t] \in Files
    /\ disk' = [disk EXCEPT ![t][pc[t]] = 0]
    /\ Escape(t)
    /\ UNCHANGED <<envVars, taskVars>>

(* Seeded fault: a trial without an error is taken to have an agent result. *)
StatusByError(t) == IF error[t] = "text" THEN "error" ELSE "agent"

(* agent_result.exit_status if not error_msg else "error"; an AttributeError *)
(* if neither is there.                                                     *)
SweStatus(t) ==
    IF error[t] = "text" THEN "error" ELSE IF agent[t] = "none" THEN "none" ELSE "agent"

Resolved(t) == IF verdict[t] = "passed" THEN "resolved" ELSE "completed"

TerminalStatus(t) ==
    IF error[t] = "text" THEN "error"
    ELSE IF Kind[t] = "installed" /\ agent[t] = "error" THEN "agent"
    ELSE Resolved(t)

StatusOf(t) == IF Kind[t] = "swe" THEN SweStatus(t) ELSE TerminalStatus(t)

Answer(t) ==
    /\ pc[t] = "answer"
    /\ StatusOf(t) # "none"
    /\ answer' = [answer EXCEPT ![t] = StatusOf(t)]
    /\ Advance(t, "returned")
    /\ UNCHANGED <<envVars, agent, verdict, taskVars>>

AnswerRaises(t) ==
    /\ pc[t] = "answer"
    /\ StatusOf(t) = "none"
    /\ Escape(t)
    /\ UNCHANGED <<envVars, disk, taskVars>>

-----------------------------------------------------------------------------
(* Cancels, crashes, retries                                                *)

CutShort(t, how) == cut' = [cut EXCEPT ![Current(t)] = [how |-> how, at |-> pc[t]]]

(* The call under way may have taken effect.                                *)
Abandon(t) ==
    IF pc[t] = "create" THEN CreateFails(Current(t)) ELSE UNCHANGED envVars

(* A file being written is left cut short.                                  *)
Spoil(t) == disk' = IF pc[t] \in Files THEN [disk EXCEPT ![t][pc[t]] = 0] ELSE disk

(* KeyboardInterrupt, delivered once.  It passes the except clause; the     *)
(* finally clause runs, unless it is the one interrupted: then only enroot  *)
(* is stopped again, by __del__.                                            *)
Interrupt(t) ==
    /\ t \in Mortal
    /\ pc[t] \in Active
    /\ error[t] # "interrupt"
    /\ error' = [error EXCEPT ![t] = "interrupt"]
    /\ Abandon(t)
    /\ Goto(t, IF pc[t] \in TryLabels \/ (pc[t] \in StopLabels /\ EnvOf(t) = "enroot")
               THEN Finally(t, known'[Current(t)], "interrupt") ELSE "raised")
    /\ Spoil(t)
    /\ CutShort(t, "interrupt")
    /\ GitCutShort(t)
    /\ UNCHANGED <<batch, attempt, agent, verdict, answer, posed, graded>>

(* A forced cancel or a crash.                                              *)
Kill(t) ==
    /\ t \in Mortal
    /\ pc[t] \in Active
    /\ Goto(t, "dead")
    /\ Abandon(t)
    /\ Spoil(t)
    /\ CutShort(t, "kill")
    /\ GitCutShort(t)
    /\ UNCHANGED <<batch, attempt, error, agent, verdict, answer, posed, graded>>

(* Seeded fault: Ray retries without a limit.                               *)
RetryForever(t) ==
    /\ pc[t] = "dead"
    /\ attempt' = [attempt EXCEPT ![t] = @ + 1]
    /\ Goto(t, FirstLabel(t))
    /\ error' = [error EXCEPT ![t] = "none"]
    /\ UNCHANGED <<envVars, batch, agent, verdict, answer, disk, taskVars, cut>>

(* Ray's retry of a trial whose worker died.                                *)
Retry(t) ==
    /\ pc[t] = "dead"
    /\ attempt[t] < MaxAttempts[t]
    /\ attempt' = [attempt EXCEPT ![t] = @ + 1]
    /\ Goto(t, FirstLabel(t))
    /\ error' = [error EXCEPT ![t] = "none"]
    /\ agent' = [agent EXCEPT ![t] = "none"]
    /\ verdict' = [verdict EXCEPT ![t] = "none"]
    /\ posed' = [posed EXCEPT ![t] = "none"]
    /\ graded' = [graded EXCEPT ![t] = "none"]
    /\ UNCHANGED <<envVars, batch, answer, disk, tree, fetched, cut>>

(* The worker process of an attempt is gone.                                *)
Gone(o) == o[2] < attempt[o[1]] \/ pc[o[1]] = "dead"

Outlive(o) ==
    /\ \/ Gone(o) /\ Reap(o)
       \/ SandboxExpires(o)
    /\ UNCHANGED <<batch, workerVars, disk, taskVars, cut>>

-----------------------------------------------------------------------------

Work(t) ==
    \/ FindClone(t) \/ CloneBegins(t) \/ CloneRefused(t) \/ CloneEnds(t) \/ CloneFails(t)
    \/ Fetch(t) \/ Checkout(t) \/ CheckoutFails(t)
    \/ Resolve(t) \/ ResolveRaises(t) \/ StartStep(t) \/ StartRaises(t)
    \/ Prepare(t) \/ RunAgent(t) \/ Evaluate(t) \/ StepRaises(t)
    \/ StopStep(t) \/ HaltFails(t)
    \/ WriteFile(t) \/ WriteFails(t) \/ Answer(t) \/ AnswerRaises(t)

Done == (\A t \in batch : pc[t] \in {"returned", "raised", "dead"}) /\ UNCHANGED vars

Next ==
    \/ \E t \in batch : Begin(t) \/ Work(t) \/ Interrupt(t) \/ Kill(t) \/ Retry(t)
    \/ \E o \in Attempts : Outlive(o)
    \/ Done

Spec == Init /\ [][Next]_vars

(* Watchers run, and modal counts the lifetime of a sandbox; nothing does    *)
(* either for docker.                                                       *)
Tended == {o \in Attempts : Env[o] # "docker"}

Tending(o) == WF_vars(Outlive(o))

FairSpec == Spec /\ \A o \in Tended : Tending(o)

-----------------------------------------------------------------------------
(* Safety                                                                   *)

(* What the code can do for a container: its worker is still to stop it, or *)
(* to learn of it; or the worker is gone and a watcher is left.             *)
Attended(o) ==
    \/ /\ o = Current(o[1])
       /\ pc[o[1]] \in TryLabels \cup StopLabels
       /\ known[o] \/ pc[o[1]] = "create" \/ (Env[o] = "modal" /\ pc[o[1]] = "remove")
    \/ reaper[o] /\ Gone(o)

(* start() before the watcher is there, and stop().                         *)
Unwatched == {"create", "launch", "watch"} \cup StopLabels

(* Where a kill leaves a container without a watcher, and an interrupt one  *)
(* without a second stop().                                                 *)
Exposed(o) ==
    \/ cut[o].how = "kill" /\ (Env[o] # "enroot" \/ cut[o].at \in Unwatched)
    \/ cut[o].how = "interrupt" /\ Env[o] # "enroot" /\ cut[o].at \in {"create", "halt", "remove"}

(* However a trial goes, by errors in any of its steps, a cancel or the     *)
(* death of its worker, its container is attended to, with these exceptions *)
(* only: a failed removal, a watcher that could not be spawned and a lost   *)
(* answer, which the code ignores; the death of a worker that has no        *)
(* watcher (docker, modal, or enroot outside the span it watches); an       *)
(* interrupt inside docker's or modal's calls.                              *)
NoContainerForgotten ==
    \A o \in Attempts : container[o] # "none" => Attended(o) \/ lapse[o] \/ Exposed(o)

(* An answer is backed by the directory: each file a trial always writes,   *)
(* and the evaluation's output if there is one, is whole and of the attempt *)
(* that answers, whatever attempts before it left there.                    *)
AnswersAreOnDisk ==
    \A t \in Trials : pc[t] = "returned" =>
        /\ disk[t]["trajectory"] = attempt[t]
        /\ disk[t]["reward"] = attempt[t]
        /\ Kind[t] = "swe" => disk[t]["patch"] = attempt[t] /\ disk[t]["report"] = attempt[t]
        /\ HasOutput(t) => disk[t]["eval_output"] = attempt[t]

(* A trial that answers anything but an error ran its agent and graded what *)
(* it did; a trial with an error answers no success.  One case escapes: a   *)
(* terminal trial that failed with an empty message.                        *)
AnswersAreEarned ==
    \A t \in Trials : answer[t] \notin {"none", "error"} =>
        \/ agent[t] # "none" /\ (verdict[t] # "none" \/ error[t] = "blank")
        \/ Kind[t] # "swe" /\ error[t] = "blank"

(* Trials that share a clone do not spoil it for one another: an attempt    *)
(* that took its task from a whole clone takes its tests from the same      *)
(* revision.  One way is open: another trial of the batch asks for a        *)
(* revision that a refresh, or an earlier batch, brought into the clone;    *)
(* its checkout moves the one tree, whoever works there.                    *)
GradedAsPosed ==
    \A t \in Trials :
        posed[t] \notin {"none", "partial"} /\ graded[t] # "none" =>
            \/ graded[t] = posed[t]
            \/ \E u \in batch \ {t} : Revision[u] \in fetched \ {posed[t]}

-----------------------------------------------------------------------------
(* Liveness                                                                 *)

OrphanIsReaped(o) ==
    (Gone(o) /\ (reaper[o] \/ Env[o] = "modal")) ~> (container[o] = "none" \/ lapse[o])

(* The watcher does its work: the container of an enroot worker that was    *)
(* killed under its watch is removed, unless the removal fails; and modal's *)
(* sandboxes do not outlive their lifetime.                                 *)
OrphansAreReaped == \A o \in Tended : OrphanIsReaped(o)

(* What Outlive waits for, spelled out, since the provers cannot look into  *)
(* ENABLED.                                                                 *)
OutliveIsDue(o) == (Gone(o) /\ reaper[o]) \/ (Env[o] = "modal" /\ container[o] # "none")
CanOutlive(o) == ENABLED <<Outlive(o)>>_vars
DueIsEnabled == \A o \in Attempts : OutliveIsDue(o) => CanOutlive(o)
=============================================================================
