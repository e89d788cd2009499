# NanoRollout: specification, model checking and proofs

NanoRollout runs *rollouts*: an agent works on a benchmark instance in an
environment, and the trajectory, reward and exit status come back. `nro serve`
does so behind `POST /run` with Ray as its engine, `nro run` does so for a local
batch with child processes. This directory specifies the parts of the program
that own requests, processes and machines, the trials they run and the loops of
the agents in them, checks them with TLC and proves the main results with TLAPS.
Paths below are relative to `src/nanorollout/`.

## 1. The system

| Component | Code | State | Operations | Talks to |
|---|---|---|---|---|
| Rollout server | `core/server.py`, `core/scheduler.py` | semaphore, thread pool, one coroutine, one blocking call and one Ray task per request, `{instance_id}.json` | `handle_run`, `Scheduler.run`, `_run_blocking`, `_ray_worker`, `close` | clients over HTTP, Ray, the disk |
| Local runner | `core/local.py` | `pending`, `active`, `responses`, child processes with a queue of capacity one | `run_many`, `_start`, `_poll`, `save_response`, the `finally` clause | children, the disk, Ctrl-C |
| GCE worker pool | `envs/shell_env/_pool.py`, `gce.py`, `gce_worker/` | `_free_vms`, `_active`, two locks; per environment the VM, channel and container; per daemon its containers | `claim`, `release`, `_refresh_from_gcp`, `start`, `stop`, `StartContainer`, `StopContainer` | GCP's instance group, one daemon per VM |
| Registry, models, configuration, CLI | `core/runners.py`, `core/config.py`, `core/models.py`, `cli.py` | a table of runners | `resolve_request_runner`, configuration merging, instance selection | everything above |
| Trial runners | `harness/runner/{swe,terminal,osworld,cocoa_bench}` | one environment per trial, shared caches of repositories and ports | start, agent, evaluate, stop | environments, agents, `eval/` |
| Shell environments | `envs/shell_env/{docker,enroot,modal}.py` | a container, an orphan reaper | `start`, `stop`, `execute` | a container engine |
| File editors | `envs/shell_env/base.py`, `harness/agents/swe/r2egym/r2egym_scripts/file_editor.py` | histories of files, in the environment or in a file | `create`, `str_replace`, `insert`, `undo_edit` | the files of a container |
| Desktop environment, providers | `envs/desktop_env/` | used flag, VM path, files of VMs and ports shared between processes | `reset`, `step`, `close`, `get_vm_path`, `start_emulator` | hypervisors, cloud APIs |
| Desktop server, controllers, evaluators | `envs/desktop_env/{server,controllers,evaluators}` | none of their own | HTTP handlers, metrics | the desktop |
| Cocoa environment | `envs/cocoa_env/` | a browser session | tool calls | a sandbox service |
| Agents | `harness/agents/` | a conversation | prompt and tool loops | a model, an environment |
| Evaluation | `eval/` | tables | log parsing, grading | trial runners |

A request travels from the server (or the local runner) through the registry to
a trial runner, which starts an environment, runs an agent in it, evaluates and
stops it. What comes back is a dict; what the caller gets is a `RunResponse`.

What makes these parts correct, and what is hard in them:

- **Server.** Three kinds of actor interleave: coroutines that are atomic
  between awaits, pool threads inside `ray.get`, and Ray, which starts, retries
  and kills tasks on its own. A permit must be given back on each of the exits
  of `async with reserve()`; a call whose request timed out is cancelled softly,
  waited for, and cancelled by force without waiting; an answer can come in at
  every point of that. Saving can fail half-way.
- **Local runner.** The parent looks at a child with several system calls, and
  the child puts, exits, crashes or hangs between any two of them. Ctrl-C can
  strike at any of them too.
- **GCE pool.** Threads claim and release under one lock while another
  refreshes over the network under a second one; remote calls fail before or
  after they took effect; an interrupt (the way a soft cancel of Ray arrives)
  strikes between any two steps of `claim()`, `start()`, `stop()` and `release()`.
- **Trial runners and shell environments.** A trial is one straight line of
  steps, any of which may raise, be interrupted or be killed, and be run again by
  Ray in the same output directory; a container must not outlive whoever could
  remove it, and concurrent terminal trials share one clone of their tasks.
- **Desktops.** Worker processes find, install, occupy and release local VMs
  through a file; a process may die at any point of it. `reset()` decides by a
  flag whether a desktop is reverted before a task is set up on it.
- **File editors.** An edit is a read, a write and an entry in a history, and a
  call may end between them; other tools write the same files; a read drops line
  breaks that a write may add again.
- **Agents.** A model may answer anything, badly or not at all. Corrections,
  retries, summaries and the results of tools all edit the one history that
  every call sends; the interfaces refuse a history in which they do not match.

`PROJECT.json` lists under `hazards` each such point at its line, with the
properties that cover it or the reason none does yet.

## 2. The modules

| Module | What it is |
|---|---|
| `RolloutService` | the abstract specification: what both engines promise a caller |
| `RolloutServer` | the server, its thread pool, and Ray as they see it |
| `LocalRunner` | the local runner and its children |
| `GcePool` | the pool's coordinator, its environments and the daemons' containers |
| `WorkerLeases` | the abstract specification of the pool: what it promises the environments that share it |
| `ShellEnvironment` | what `start()`, `stop()` and the orphan reaper do to a container of docker, enroot or modal |
| `TrialRunner` | the SWE and terminal trial runners on such environments, composed with `ShellEnvironment` |
| `VmRegistry` | the file in which processes keep which local VM is whose |
| `DesktopEnv` | OSWorld trials in several worker processes, composed with `VmRegistry` |
| `FileEditor` | the two file editors the agents use, on one file |
| `Conversation` | what the agent loops share: history, iterations, and what an interface asks of a history |
| `SweAgent`, `TerminusAgent`, `CocoaAgent`, `OsworldAgent` | the loops of the agents |
| `AgentLoops` | one run of any of them, and the properties they share |
| `RolloutServiceProofs`, `RolloutServerProofs`, `LocalRunnerProofs`, `GcePoolProofs`, `TrialRunnerProofs`, `DesktopEnvProofs`, `FileEditorProofs`, `AgentLoopsProofs` | theorems and proofs |
| `MCRolloutServer`, `MCLocalRunner`, `MCGcePool`, `MCTrialRunner`, `MCDesktopEnv`, `MCFileEditor`, `MCAgentLoops` | small instances for TLC, with their `.cfg` files |

### RolloutService

Each request has a `phase` (idle, queued, running, decided, saved, answered,
dropped) and a `verdict` that is fixed once, when it is decided. At most `Slots`
requests run; only a request that runs can produce a result or a timeout, and a
timeout only if it carries one; an answer is handed out only after it was saved.
A request the engine gives up on is dropped, never after it was saved. The
module ends with what a caller may rely on: `SlotsAreBounded`,
`VerdictsAreSound`, `FatesAreFinal`. These are proved of the service, once, and
so of both engines.

### RolloutServer

| Variables | Code |
|---|---|
| `waiters`, `permits` | the `asyncio.Semaphore` of `ResourceManager`, which is fair |
| `handler`, `response`, `record`, `reply` | where the coroutine of `handle_run` is, what it built, saved and sent |
| `call`, `outcome` | where `_run_blocking` is on its pool thread, and what its future holds |
| `task`, `value`, `cancel`, `retries` | the Ray task (external) |
| `server` | serving, stopping, closed |

The coroutine's actions are cut at its awaits: `Arrive`, `Admit` (semaphore
acquired, call submitted), `RejectUnknown`, `Resume` (future done, permit
released, response built), `ResumeInvalid` (the response cannot be built),
`Save` or `SaveRaises`, `Reply`. The thread's are cut at its calls of Ray:
`SubmitTask`, `GetReturns`, `GetTimesOut`, `CancelSoftly`, `GraceEnds`,
`ForceCancel`. Ray's are `RayStart`, `RayReturn`, `RayUnwind` (a soft cancel
becomes an exception that `_ray_worker` may catch and return as a failure),
`RayRetry`, `RayCrash`, `RayKill`. Time is not counted: a timed `ray.get` may
time out at any moment before the task is over. Outcomes are abstracted to
`result`, `failure` and `blank`; the last stands for a failure whose message is
empty and for a result that is no `RunResponse`.

### LocalRunner

`pc` is where the parent is in `_run_many` and `_poll`; `pending`, `active`,
`responses` are its lists, `todo` is what is left of the copy it iterates over.
`Fork` and `Register` are the two halves of `_start`: a Ctrl-C between them
leaves a child on no list. `PollTimeout`, `PollTakes`, `PollEmpty`,
`CheckAlive`, `CheckDead`, `LastGetTakes`, `LastGetEmpty` and `Join` are the
calls of `_poll`; `GetWaits` and `GetEnds` are a `get` that finds the beginning of
a message and waits for its rest, which may not come; `Save` and `SaveRaises` the rest of the pass; `Interrupt`,
`StartRaises` and `SaveRaises` lead to `AbortNext` and `Raise`, the `finally`
clause. A child's steps are `ChildWrites` (part of a long message is in the
pipe), `ChildPuts`, `ChildExits`, `ChildCrashes`.

### GcePool

`free`, `active` and `refresher` are the coordinator's queue, the keys of
`_active` and the holder of `_refresh_lock`; `candidates` is what a refresh has
listed and not yet probed. `env`, `vm` and `start` are each environment's;
`calls` and `container` say which `StartContainer` calls were made and what the
daemon did about them. `claim` is cut where it gives up a lock (`ClaimFast`,
`ClaimSlow`, `ClaimSecondLook`, `RefreshBegins`, one `Probe...` per VM,
`RefreshTakes`, `RefreshFails`), `start` and `stop` at their remote calls (`Take`
ends with the VM stored, `Call` opens the channel and sends `StartContainer`) and
in the clean-up after a failed start (`StartRaises`, `StartCleansUp`). The
daemon carries out a call whether or not its caller still waits. `Faults` says
what may fail: the answer of a start, a stop, and interrupts.

An interrupt may strike between any two steps, and what it leaves depends on
where. `stop()` returns early when the environment has neither channel nor
container (`gce.py:73`), so there are five cases:

| Action | Where the interrupt strikes | What is left |
|---|---|---|
| `InterruptClaim` | while a claim waits or probes | nothing |
| `InterruptPop` | between `popleft` and the entry in `_active` | a VM the coordinator has forgotten, until a refresh lists it |
| `InterruptOpen` | while the channel is open | `stop()` can still release the VM (`StopInterrupted`) |
| `InterruptLease` | before the channel is set, or after it was forgotten in `start()`'s clean-up or in `stop()` | the VM stays in `_active` for good: it is in `lost` |
| `InterruptRelease` | between the halves of `release()`'s critical section | a VM the coordinator has forgotten |

`lost` is a history variable, and so is `stray`: the calls whose container nobody
will stop, because the start was not answered, the stop failed or an interrupt
struck.

### WorkerLeases

Each VM is unknown, free, leased or lost; each environment leases at most one.
A lease begins with a free VM where no container is tended, and ends with a VM
that is free again, lost, or unknown: one that the pool forgets may be enrolled
again, one that is lost may not. In `GcePool`, a VM is free when it is queued, lost
when it is in `lost`, leased when it is in `_active` otherwise; it is tended when
it has a container that runs or may come and is not `stray`. Refreshes, probes,
the locks and the daemons' own steps are stutters.

### ShellEnvironment and TrialRunner

The seven runners of `harness/runner/swe` and `harness/runner/terminal` are the
same line of steps, so `pc[t]` is a label on it: finding or making the clone
(terminal only, outside the `try`), the `try` statement, the `finally` clause,
one label per artifact, the answer. `AfterCreate`, `AfterStart`, `Finally`,
`AfterStop` and `AfterFile` say where it goes next; `RaiseInTry` is `except
Exception`, with an error message that may be empty, `Escape` an exception
outside the `try`. `Interrupt` is a soft cancel, which passes the `except` and
runs the `finally`; `Kill` a forced cancel or a crash, `Retry` Ray's second
attempt in the same directory. `container`, `known`, `reaper` and `lapse` are
kept per attempt: what the engine has, whether the object knows it, whether the
watcher runs, and whether a call failed in a way the code ignores. The shared
clone is a working tree (`tree`) and the revisions it knows (`fetched`; those that
name one commit count as one): `CloneEnds` brings the first, `Fetch` what a trial
that refreshes finds new, and `Checkout` moves the tree whenever the revision it
asks for is known, whoever works in it. `Found` is what another trial sees of a
checkout at work. `posed` and `graded` are what the clone was when a trial took
its task and its tests from it. `ShellEnvironment` says what each call of an environment
does, `TrialRunner` when a worker makes it.

Running a terminal trial of Terminus 2 ends in an error whatever the model does:
`harness/runner/terminal/terminus2.py:157` passes `ubuntu_mirror` and
`ubuntu_mirror_apt_update` to `Terminus2Agent`, whose `__init__`
(`harness/agents/terminal/terminus2.py:62`) takes neither. `StepRaises` at
`"agent"` is that step; no property is violated by it.

### VmRegistry and DesktopEnv

`lines` is the registry, a line per VM with its holder; `there` the VMs whose
files exist; what one `with` block of the file lock does is one action
(`CheckAndClean`, `TakeFree`, `NoneFree`, `RegisterVm`), while a VM is named,
unpacked and booted without the lock (`NameVm`, `LayFiles`, `BootVm`). `provider`
says whose manager it is: VMware's picks the first name not in use, VirtualBox's
looks for the names in use one directory too deep (`virtualbox/manager.py:40`), so
that it finds none (`NamesInUse`) and names Ubuntu0 again for every process that
meets no free VM. `BootVm` then fails while that VM runs, and succeeds between two
runs of it. `again` is a history variable: the VMs that were named although they
were there. Each
worker runs one trial after another: `BeginTrial`, the acquisition, `StartVm`,
`Revert` or VMware's `OrderRevert`, which nobody waits for, `SetUp` or
`SetUpUnanswered`, `Act`, `EndTrial`; `Exit` is its end at any point, also in
the middle of a write of the registry. `marks` are the trials whose setup or
agent touched a desktop since its last revert, `used` the flag by which
`reset()` decides to revert. `spoiled` is a history variable: the VMs that one
of three accidents befell, named in the module, which the code does not prevent.
No accident is needed for two processes to share a VM of VirtualBox's that was
named again: with it, exclusiveness holds until a process finds no VM free.

### FileEditor

`file` is a file of the container, a sequence of words and line breaks, and
`history` its entry in `_editor_history`, or in the file where R2E-Gym's script,
a process for each call, keeps its histories. `editor` says which of them it is,
and how the tool writes: by a here-document, which adds a line break, or through
modal's API, which does not. `Read`, `Written`, `NumLines` and `Spliced` are the
conversions as the code makes them: a command's output loses the line breaks at
its end, `splitlines` and `split` count lines differently. `Create`,
`StrReplace`, `Insert` and `Undo` are whole calls; `...Fails` and `Killed` are
calls that end with a write torn (`Torn`) or the script's histories not stored
(`Outlived`); `Bash` is what the agent's other tools do to the file. `trail` is
a history variable: what the file was before each edit not undone, as long as
no call ended half-way in its history (`intact`).

### Conversation, the agents, AgentLoops

A message is known by its role, the number of calls in it, and for the result of
a tool the call it answers. `pc` is where the loop is, `reply` and `turn` are
the calls of the last reply and the next one to run, `asked` counts what the
model answered in this iteration. Each agent adds its own variables and a
disjunct per outcome of a call: an answer, one without a call, one that does not
parse, a refusal, a failure, an empty response.

- `SweAgent`: `BaseAgent.run`, with CodeAct, mini-SWE-agent and both modes of
  R2E-Gym. Every `BadRequestError` sets the status `max_length`
  (`swe/base.py:166`), a refused length, an unknown parameter or a content policy
  alike: `SweOutcome` says no more of that status than that a request was
  rejected before the last iteration.
- `TerminusAgent`: the double confirmation, the unwinding and summarising of a
  long history, and the fall-backs when a call is too long. A completion is
  attempted three times (`TerminusRetries`), the calls for a summary
  (`TerminusBriefs`, `TerminusShortBrief`) count like the others. A confirmation
  prompt can be displaced by a summary's hand-over while the flag stays set; the
  fall-back named ultimate cannot run when the first call is the one that is too
  long, since there is no first message.
- `CocoaAgent`: `TaskExecutor.run_task` and `call()` with its two nested
  retries, for OpenAI's, Qwen's, Claude's and Gemini's controllers (GLM and Kimi
  inherit from OpenAI's). A reply that never parses stays the last message when
  `call()` asks again; Claude's controller leaves calls it cannot read without an
  answer; Gemini's puts a tool's result into the model's mouth. `images` are the
  messages that carry pictures.
- `OsworldAgent`: `run_osworld`'s loop with `Qwen3VLAgent`, which builds its
  messages anew for each call from a window of its screenshots and responses.

Definitions commented as a seeded fault (`TakePeeking`, `SaveRaisesListed`, ...)
are no part of any specification: each is a plausible mistake in the definition
below it, and putting it in that definition's place makes the property named
with it in `PROJECT.json` fail. They document what the properties can see.

## 3. What TLC checks

| Run | Instance | Properties | Shows |
|---|---|---|---|
| `server` | 3 requests (timed, endless, unknown runner), 1 slot, 1 retry | `TypeOK`, `SlotAccounting`, `PoolNeverBacklogged`, `OrphansAreDoomed`, `RepliesAreOnDisk`, `ResultsAreGenuine`, `CancelledIsTimeout`, `NoLateAttempt`, `RefinesService` | permits and pool threads add up on every exit, an answered request leaves no worker that nothing will stop, answers are genuine and on disk, a cancelled request is answered Timeout whatever its rollout still returns, no retry begins after its request left its slot, the server implements the service |
| `server_hang` | the same with 2 slots, fair | `TimedRequestsAnswered` | rollouts may hang: as long as a slot is left, each timed request is answered |
| `server_blank` | as `server` | `FailuresAreReported` violated | finding 1 |
| `local` | 3 requests, 2 slots, one request without a timeout, fair | `TypeOK`, `LiveChildrenBounded`, `NoListedChildLeftBehind`, `ReturnedBatchIsComplete`, `NoOutcomeOverlooked`, `RefinesService`, `BatchEnds` | children are bounded and left behind in one case only, no outcome is overlooked, a returned batch is complete and on disk, the runner implements the service; the batch ends though children with a timeout hang, unless it is stuck in the join of a child that delivered and does not exit, or in a `get` from one that hangs or died in the middle of its message |
| `gce` | 2 environments, 2 VMs, 3 starts, every fault | `TypeOK`, `ExclusiveLease`, `QueuedAreClean`, `OneContainerTended`, `RefinesLeases` | whatever fails and wherever an interrupt strikes, no VM is shared or queued twice, one that an interrupt left claimed is never leased again, a worker that waits runs no container but those of failed or interrupted calls, and the pool implements `WorkerLeases` |
| `gce_stop` | the same, stops fail | `OneContainerPerWorker` violated | finding 2 |
| `trial` | an SWE trial on enroot with a retry, on docker, on modal, an installed terminal agent, and two terminal trials together, one of which refreshes the clone and asks for a revision | `TypeOK`, `NoContainerForgotten`, `AnswersAreOnDisk`, `AnswersAreEarned`, `GradedAsPosed`, `OrphansAreReaped` | containers are left behind in the listed cases only and watchers remove what killed workers leave, an answer has its files and is no better than the trial, a trial is graded by the revision its task came from unless another asks for a revision the clone knows |
| `desktop` | 3 processes with one trial each, or two of which one runs two; 3 VMs, 2 attempts of a setup, both providers | `TypeOK`, `VmsAreExclusive`, `VmsInUseExist`, `DesktopsAreAsPosed` | but for the accidents named and a VM that VirtualBox's manager names again, no VM is shared or removed in use, and an agent acts on a desktop nobody else has touched |
| `agent` | every agent, 3 iterations, 2 calls in a message, 2 attempts at a reply, a window of 2, old images put away | `TypeOK`, `HistoryIsWellFormed`, `OutcomesAreEarned`, `CallsAreBounded`, `ImagesDoNotPileUp` | each history sent is one an interface takes, outcomes are no better than runs, nested retries and the calls for summaries are bounded, images do not pile up |
| `editor` | the tool on both kinds of environment and the script; 2 texts to pass, files of up to 5 signs, 2 edits, a history of 1 | `TypeOK`, `UndoReverts`, `InsertsKeepLines` | undo gives back the file before the last edit not undone, whatever other tools do and the history forgets, until a call ends half-way; an insertion before the last line keeps all lines |
| `editor_end` | the same | `InsertsGoAfterLine` violated | finding 4 |
| `agent_images` | the CocoaBench agents of `agent` | `OnlyCurrentImages` violated | finding 3 |

**Bounds, and why they are enough.** One slot and three requests make a request
wait behind another and a queue of two; two slots leave one to move on while the
other hangs. `MaxRetries` is Ray's own limit, set to 1 so that a task runs twice.
Three requests on two slots of the local runner let one wait while one is polled
and another goes on. Ctrl-C strikes once. Two environments and two VMs let one
refresh, start or stop at any point of the other's claim; `MaxStarts` bounds the
`StartContainer` calls of a behaviour and is the reason these configurations
turn deadlock checking off; with three, a VM is leased again after it was
released and while another start is under way. Symmetry (environments, VMs, and processes in `desktop`) is used in runs that
check safety only. The trials of `trial` interact through the shared clone alone,
so those that do not use it run one at a time (`Batches`), and two that do run
together; the second attempt of the one with a retry meets what the first left
behind, in its directory and of its container. Three VMs and three processes let
one install while a second cleans up and a third takes a free VM; `MaxVms` and
the number of trials are bounds of the instance. A file of two lines has a line to
insert after that is not its last, and five signs hold it with one more; with a
history of one, the second edit makes it forget the first (`MaxEdits`); a write
that is cut off leaves the old text, nothing, or all of the new (`Cuts`). Three
iterations let an agent go
wrong, be corrected and go on; two calls in a message make a second call whose
predecessor failed or finished the run. Two attempts are enough for one
correction inside an attempt and one attempt after it. With three iterations no
call could send the images of three messages: in `agent`, `ImagesDoNotPileUp`
is about the one message whose images are left between calls, and the theorem
below about any number of iterations. Every invariant proved below holds without
these bounds.

**Fairness.** Liveness is checked under weak fairness of what the code runs by
itself: the event loop's and the threads' next steps, and for the local runner
the parent's step and the passing of time. Of Ray, only the delivery of a forced
cancel is fair; starting, answering, unwinding after a soft cancel are not, and
neither is anything a child does: rollouts may hang. Arrivals, crashes and
interrupts are never fair. For trials, the orphan reaper of an enroot container
and modal's limit on a sandbox's lifetime are fair, for they run when no worker
does; workers are not. Fair threads are justified by `GetTimesOut` being the
clock of a timed `ray.get`, which goes off if nothing else happens, and by the
loop never blocking: saving happens in `asyncio.to_thread`.

**Findings.**

1. `core/scheduler.py:109` tests the *truth* of `result["error"]`. A rollout
   that raises an exception with an empty message (`_ray_worker` returns its
   `str()`) is taken for a success; building the response raises in the `else`
   clause of `handle_run`, outside its handlers, and the client gets HTTP 500
   with nothing saved. The README and the server tests promise a response.
   It is the only way to lose one: `FailuresReported`, below.
2. `envs/shell_env/gce.py:152` logs a failed `StopContainer` and releases the VM
   all the same. The next environment starts a second container on it, against
   "at most one active container per worker" (`gce_worker/docker_runtime.py:38`);
   `ReleaseAll`, which `worker.proto` says the coordinator calls, is not called.
3. `harness/agents/cocoa/controller.py:1186` puts old images away after a call
   and not before it. With clean-up on, each call from the second iteration on
   sends the images of its own prompt and of the one before, against "only the
   current iteration's images should be included in the API call" (line 1458).
   Clean-up is off by default, and then all images are kept.
4. `envs/shell_env/base.py:740` joins the lines of a text that was read without
   its last line break, so what `insert` puts after the last line is glued to it,
   against "The `new_str` will be inserted AFTER the line `insert_line` of
   `path`" (`harness/agents/swe/openhands/tools/str_replace_editor.py:132`).
   R2E-Gym's script, which joins lines with line breaks, is not affected
   (`ScriptInsertsAfterLine`, below).

## 4. What TLAPS proves

For every value of the constants that satisfies the named assumptions
(`ServerAssumption` and its like for the local runner: finitely many requests, at
least one slot; `GceAssumption`: finitely many environments and VMs;
`TrialAssumption` and `EnvAssumption`: any trials, retries and revisions, each
attempt in an environment of a known type; `DesktopAssumption`: any processes,
trials and number of VMs, and no process named as the two words the registry
uses for nobody; `EditorAssumption`: any words and texts, a line break that is no
word, and a history of at least one;
`ConversationAssumption`, `RetriesAssumption` and the like: at least one call in a
message and one attempt, any number of iterations and any window):

| Module | Theorem | States |
|---|---|---|
| `RolloutServiceProofs` | `ServiceIsSafe`, `ServiceIsFinal` | what a caller may rely on, of any engine that implements the service |
| `RolloutServerProofs` | `Invariance` | `Spec => []Inv` |
| | `TypeCorrect`, `SlotsAccounted`, `StagesCohere`, `PoolKeepsUp`, `OrphansDoomed`, `AnswersAreOnDisk`, `ResultsGenuine`, `CancelsAreTimeouts` | the invariants of run `server`, `Coherence`, that no call waits for a thread (`PoolNeverBacklogged`), and that a cancelled request is answered Timeout (`CancelledIsTimeout`) |
| | `AttemptsHaveSlots` | `NoLateAttempt` |
| | `FailuresReported` | `FailuresAreReported` (finding 1), while no rollout fails without a message |
| | `ServerRefinesService` | the server implements `RolloutService` |
| | `ServerKeepsPromise`, `ServerFatesFinal` | so it keeps the service's promises |
| | `TimedCallsAnswered` | a timed request that got a slot is answered |
| | `FirstsAnswered` | the first in the queue gets a slot and is answered, if fewer requests than slots have no timeout |
| | `WaitersMoveUp` | under the same condition, who waits in the queue gets to the place before its own |
| `GcePoolProofs` | `Invariance` | `Spec => []Inv` |
| | `TypeCorrect`, `LeasesExclusive`, `ClaimsAreHeld`, `QueueIsClean`, `OneTended` | the invariants of run `gce`, and that only an interrupt that leaves an environment without channel leaks its VM, which is then leased to nobody (`ClaimedAreLeased`) |
| | `PoolRefinesLeases` | the pool implements `WorkerLeases` |
| | `PoolLeasesExclusive`, `PoolLivesOrderly` | so its leases are exclusive, begin from the queue only, and never with a VM that was lost |
| | `EnrolmentLasts` | no VM is forgotten (`WorkersStayEnrolled`), while nothing is interrupted |
| | `RefreshesAlone` | `OneRefresh`: one claim at a time refreshes |
| | `OneContainer` | `OneContainerPerWorker`, if nothing fails |
| `LocalRunnerProofs` | `Invariance` | `Spec => []Inv` |
| | `TypeCorrect`, `ChildrenBounded`, `NoneLeftBehind`, `BatchesAreComplete`, `NoneOverlooked` | the invariants of run `local` |
| | `ListsDisjoint` | a request is on at most one of the lists, at most once |
| | `LocalRefinesService` | the local runner implements `RolloutService` |
| | `LocalKeepsPromise`, `LocalFatesFinal` | so it keeps the service's promises |
| `TrialRunnerProofs` | `TypeCorrect`, `NoneForgotten`, `AnswersBacked`, `AnswersEarned`, `TestsAreAsPosed` | the safety invariants of run `trial` |
| | `OrphansReaped` | `OrphansAreReaped` |
| `DesktopEnvProofs` | `TypeCorrect`, `VmsExclusive`, `VmsExist`, `DesktopsPosed` | the invariants of run `desktop` |
| `FileEditorProofs` | `TypeCorrect`, `UndoIsFaithful`, `InsertsKeepTheLines` | the properties of run `editor` |
| | `ScriptInsertsAfterLine` | `InsertsGoAfterLine` (finding 4) of R2E-Gym's script |
| `AgentLoopsProofs` | `TypeCorrect`, `CallsBounded`, `OutcomesEarned`, `HistoriesWellFormed`, `ImagesBounded` | the invariants of run `agent` |
| | `RunsEnd` | every step of an agent's run brings it further, and how far it can come is bounded |

**Server.** No property of an answer is inductive by itself: that a saved
response is genuine depends on the future's outcome, that on the task's value,
and that on which cancellations can have reached the task at that stage of the
call. `Inv` therefore conjoins `TypeOK`, `SlotAccounting` and `Coherence`, which
relates the coroutine, the call and the task of a request stage by stage, with
the three properties of answers. Each conjunct has a lemma that every action
keeps it. `PoolNeverBacklogged` follows because calls under way belong to
distinct permit holders, `OrphansAreDoomed` because a live task without a slot
is under a forced cancel. The refinement maps each step to one step of the
service or to a stutter; the permits bound the running requests.
`FailuresReported` follows the empty message back from the response to the
task's value (`BlankBehind`).

**The service.** Its own invariants are short inductions, made once in
`RolloutServiceProofs`. An engine inherits them through its refinement:
`SameService` says that the service it implements is the one proved about.

**The server goes on.** From its slot to its answer a request climbs the eight
stages of `Stage`: no step takes it back (`StageRises`), each step of its own
handler or thread takes it further, and weak fairness makes them step. So a
timed request that holds a slot is answered whatever its rollout does
(`TimedCallsAnswered`); a rollout without a timeout may hold its slot for ever.
If these are fewer than the slots, then whenever no permit is free a timed
request holds one (`TimedHoldsSlot`), and it leaves a permit behind
(`LeavesPermit`); only the first in the queue takes a permit, so it is not
overtaken while it waits (`FirstWaits`), and is admitted (`FirstsAnswered`). Who
stands further back keeps its place until then (`PlaceWaits`) and moves up as the
first leaves: `MovesUp(r, k)`, that a request at place k + 1 gets to place k, is
`WaitersMoveUp`, for every request and place.

**Pool.** `ExclusiveLease` is inductive with `OneRefresh`: a popped VM was
leased by nobody because the queue and `_active` are disjoint and the queue has
no duplicates, and a probed VM joins the queue as one the pool does not know.
For the daemons, `ContainersAreTracked` says that a container which runs or may
come, and is not `stray`, belongs to the last call of an environment on lease, so
two of them on one VM would be two leases of it. If nothing fails nothing is
stray, and a daemon has one container at most (`OneContainer`).

`ClaimedAreLeased` needs no more than that an environment's VM is in `_active`
and not in `lost`: `InterruptLease` is the only action that ends a lease and leaves
its VM in `_active`, and what is in `_active` is never taken from the queue.
`EnrolmentLasts` has to exclude interrupts: one inside a critical section
(`InterruptPop`, `InterruptRelease`) makes the coordinator forget a VM.

For `RefinesLeases`, `Views` says what each stage of a VM is in the pool's
variables, and `Kept` conjoins it with the invariants above. Each step then
changes the stage of one VM at most: a claim begins a lease, for what is queued
is clean; `Call` is `Attend`; each end of `start` and `stop` is `Settle`, `End` or a
stutter, and each interrupt `Forget`, `Settle`, `End` or a stutter.

**Local runner.** The parent's loop is one thread, but its lists change while it
walks through a copy of one of them. `Inv` conjoins `TypeOK`, `Lists` (each
request once on the lists, `todo` a suffix of what is active), `Children` (which
child states fit which `pc`), `Owned` (a child that lives is on a list, or is
the one being started, or was left by an interrupt there), `Accounted` (what is
on no list has its answer) and `LiveChildrenBounded`. For the refinement
`Recorded` adds that what is listed was saved.

**Trials.** A trial is a line of labels, so its invariants say what is known at
each of them: `Earned` of agent, grading and error, `Written` of the files, from
which `AnswersAreEarned` and `AnswersAreOnDisk` follow at the last one. The
shared clone relates trials to each other: `Settled` says that one worker clones
at a time and that what a trial took its task from is the clone as it still is,
or that another trial of the batch asks for a revision the clone knows (`Astray`),
which, once so, stays so while the trial runs.
Containers outlive their attempt: `Housed` conjoins, per trial, `Sheltered` for
the attempt its worker is at, `Behind` for those before it, whose containers
were left as `NoContainerForgotten` allows, and `Ahead` for those to come, which
nothing has touched. `OrphansReaped` is about what comes after: a worker
that is gone stays gone and its watcher keeps watching (`OrphanWaits`) until the
container is removed or the removal has failed, which fairness brings about.

**Desktops.** That two processes never use one VM rests on what a third does to
the registry between two of their steps. `Register` conjoins `Owned` (who uses a
VM holds every line of it, and it is there), `Foreign` (who installs a VM is
alone with it, and it is in no line) and `Filed` (what is in a line has its
files), each for the VMs none of the accidents befell; that lines and installers
exclude each other is said only of VMs never named again. `Posed` then follows one
process from its VM to its agent: a VM just acquired counts as used, so it is
reverted before a setup, and a setup marks what a revert had cleared.

**File editors.** That an edit yields a text rests on its choices being possible:
a first match, the end of a text without its line breaks, the break after the
k-th line. Each is the least or greatest of some positions (`Least`, `Greatest`,
from the well-foundedness of finite sets; no induction over texts). `UndoReverts`
follows from `Aligned`: counted from their ends, history and trail agree as far
as the history reaches, which neither a forgotten entry nor another tool's write
disturbs; that reading, writing and reading again changes no text but for the
line breaks at its end is `ChompOnce`. `InsertsKeepLines` compares the lines of a
text before and after a splice: where a line begins and ends in a text made of
two parts is settled by the least place at which the two would differ.

**Agents.** Every agent leaves the variables of the others alone, so each
invariant is proved per agent and the lemma `OthersKeepAgent` puts them together.
`HistoryIsWellFormed` is about the moments at which a model is asked; between
them a reply may be half answered. `Kept` says so: up to the last assistant
message all is answered, after it as many results as calls were run; `Opened`
adds how each agent's history begins, and `Paired` relates the desktop agent's
screenshots to its responses. Terminus'
cuts keep a first message that is the task, and remove pairs, which hold no
results. `CallsAreBounded` for CocoaBench is the sum over attempts of what is
left in each: `Spent` bounds what was asked by a triangle number of the attempt
and its depth. For Terminus it counts, place by place in the iteration, the
summary before the call (3), the three attempts at each of three parts of an
answer (9), the summary after a refused length (4) and the attempts at the call
that follows it (9): 25, which run `agent` reaches. `Pictures` says that images sit in messages of the user, of which
a clean-up leaves the last.

`RunsEnd` is about all the loops at once, retries inside retries included. Each
action of an agent is one of six moves (`Begins` an iteration, or `Continues` it:
`Sends`, `Returns`, `Acts`, `Leaves`, `Fails`); a move inside an iteration raises
`Effort`, which is less than `IterationLength` because the model's answers are
bounded (`CallsBounded`); a new iteration raises the number of iterations. So
`Work`, a whole number, grows with every step and stays below
(`MaxIterations` + 1) * `IterationLength`: that is how long a run can be, whatever
the model answers, and it needs no fairness. That the run is then at its end, not
stuck before it, is the check for deadlock of run `agent`. The formula stands in
the proof module only.

**Fairness in the proofs.** Fairness is stated with `ENABLED`, into which the
prover does not look. The four liveness theorems therefore have `[]DueIsEnabled`
as a hypothesis and use nothing else of `ENABLED`: that a handler, a thread or a
watcher whose wait is over can take its step. It restates the guards of those
actions, so it holds in every state of the right types by their definitions, and
no run spends a property on it.

**Only model-checked.** `TimedRequestsAnswered`: `FirstsAnswered` is its first place in the queue and
`WaitersMoveUp` the step from a place to the one before it; the induction over
the places that joins them is over a temporal formula, and cannot be stated to
this prover. `BatchEnds`, for the same reason: the parent's loop walks
through lists of any length. `FirstsAnswered` and `WaitersMoveUp` assume `[]Fairness`, which is
no more than `Fairness`: weak fairness of a behaviour is weak fairness of each of
its suffixes, but the prover does not know it of a formula with a quantifier.

## 5. What is not modelled

- Ray itself, GCP and docker: only what this code can observe of them. A daemon
  that restarts, a VM the group replaces, and health that changes after the
  probe are not covered.
- After an interrupted `start()`, the environment's event loop still holds the
  start coroutine, which `stop()` may resume; the model ends the call there. An
  environment object that is started again after an interrupted `stop()` is a new
  one to the model.
- Of a second Ctrl-C, and a child that survives SIGTERM: see the hazards.
- `explicit_ip`, the test bypass of the pool; `Exec` and the file operations.
- The health endpoint, request decoding, logging and the progress display.
- In `TrialRunner`: what an evaluation computes, the commands run inside a
  container, and the third-party agents that `harness/agents/shared` starts: each
  is a step that succeeds or raises.
- In `DesktopEnv`: cloud providers and docker desktops, whose VMs no two
  processes share, and the proxy pool. The VM tools' loops without an exit
  (`start_emulator` and `get_ip` of VMware wait for ever for a VM that does not
  come up) are where a process stays; `Exit` ends it.
- In the agents: prompts, parsers, costs and the accessibility-tree observations;
  agents of `mm_agents` other than `Qwen3VLAgent`; a CocoaBench text that holds a
  list of actions; the human controller.
- `CocoaBench`'s runner: it picks ports by binding and closing them and names a
  compose project by its task, so that two trials may collide; nothing in the
  code detects or limits that, and no property is left to state.
- The registry's merging of configurations and the selection of instances:
  sequential code, in reach of unit tests.
- In `FileEditor`: the editors' views, which change nothing; linting in R2E-Gym's
  script, off by default; encodings; line breaks other than the usual one; and
  docker's and enroot's own `undo_edit()`, which nothing calls.
- `eval/`, the evaluators of `envs/desktop_env`, the desktop's HTTP server and
  controllers: tables, log parsers, metrics and handlers over input devices.
  They are most of the repository's lines (the profiles and constants of
  `eval/swebench` alone are about twelve thousand, the getters and metrics of the
  desktop as many) and hold no state that outlives a call, so a large part of
  the source is data to this project and stays out of its map.

## 6. State of the plan

Done, in this order: `RolloutService`, `RolloutServer` and its proofs,
`LocalRunner`, `GcePool` and its proofs; then the proofs of `LocalRunner`,
`TrialRunner` with `ShellEnvironment`, `DesktopEnv` with `VmRegistry`, the agents
and their proofs. The proofs of the trials and of the
desktops came next, then the file editors with theirs. Last came the promises of
the service and of the pool (`WorkerLeases`), the lines of an edited text, and
what could be proved of liveness. Every invariant, action property and refinement
that a passing run checks is proved.

What could follow, by how much depends on it:

- the ports of docker desktops and the proxy pool, which worker processes share
  through files;
- the CocoaBench runner's choice of ports, if the code comes to agree on them;
- the merging of configurations, as operators.
