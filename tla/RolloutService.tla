--------------------------- MODULE RolloutService ---------------------------
(***************************************************************************)
(* What the rollout service promises its callers, whichever engine runs    *)
(* the rollouts: `nro serve` (RolloutServer) or `nro run` (LocalRunner).   *)
(* A request waits for a slot, runs in it, gets one verdict, the verdict is *)
(* saved to disk and only then handed to the caller.  A request the engine  *)
(* has to give up on (a batch aborted, a response that cannot be built or   *)
(* saved) is dropped without an answer; it is never dropped once saved.     *)
(***************************************************************************)
EXTENDS Naturals, FiniteSets

CONSTANTS
    Requests,       \* the requests that may be made
    Timed,          \* those that carry a positive task_timeout_s
    Slots           \* how many rollouts the engine owns at once

VARIABLES
    phase,          \* where each request is
    verdict         \* the exit status decided for it, "none" before that

vars == <<phase, verdict>>

Phases == {"idle", "queued", "running", "decided", "saved", "answered", "dropped"}
Verdicts == {"Result", "Error", "Timeout"}

Running == {r \in Requests : phase[r] = "running"}

Init ==
    /\ phase \in [Requests -> {"idle", "queued"}]
    /\ verdict = [r \in Requests |-> "none"]

Submit(r) ==
    /\ phase[r] = "idle"
    /\ phase' = [phase EXCEPT ![r] = "queued"]
    /\ UNCHANGED verdict

Start(r) ==
    /\ phase[r] = "queued"
    /\ Cardinality(Running) < Slots
    /\ phase' = [phase EXCEPT ![r] = "running"]
    /\ UNCHANGED verdict

(* The one moment the outcome of a request is fixed.  Only a rollout that   *)
(* has started can produce a result or overrun its time.                    *)
Decide(r, v) ==
    /\ \/ phase[r] = "running"
       \/ phase[r] = "queued" /\ v = "Error"
    /\ v = "Timeout" => r \in Timed
    /\ phase' = [phase EXCEPT ![r] = "decided"]
    /\ verdict' = [verdict EXCEPT ![r] = v]

Save(r) ==
    /\ phase[r] = "decided"
    /\ phase' = [phase EXCEPT ![r] = "saved"]
    /\ UNCHANGED verdict

(* A batch hands over all its responses when it returns.                    *)
Answer(R) ==
    /\ \A r \in R : phase[r] = "saved"
    /\ phase' = [r \in Requests |-> IF r \in R THEN "answered" ELSE phase[r]]
    /\ UNCHANGED verdict

(* An aborted batch drops several requests at once.                         *)
Drop(R) ==
    /\ \A r \in R : phase[r] \in {"queued", "running", "decided"}
    /\ phase' = [r \in Requests |-> IF r \in R THEN "dropped" ELSE phase[r]]
    /\ UNCHANGED verdict

Next ==
    \/ \E r \in Requests :
        \/ Submit(r) \/ Start(r) \/ Save(r)
        \/ \E v \in Verdicts : Decide(r, v)
    \/ \E R \in SUBSET Requests : Answer(R) \/ Drop(R)

Spec == Init /\ [][Next]_vars

-----------------------------------------------------------------------------
(* What a caller may rely on, of either engine                              *)

TypeOK ==
    /\ phase \in [Requests -> Phases]
    /\ verdict \in [Requests -> Verdicts \cup {"none"}]

(* No more rollouts run than there are slots.                               *)
SlotsAreBounded == Cardinality(Running) <= Slots

(* Whoever is answered has a verdict and is on disk with it; there is none  *)
(* before the rollout ran or was turned away, and a timeout is reported     *)
(* only to those who asked for one.                                         *)
VerdictsAreSound ==
    \A r \in Requests :
        /\ phase[r] \in {"decided", "saved", "answered"} => verdict[r] # "none"
        /\ phase[r] \in {"idle", "queued", "running"} => verdict[r] = "none"
        /\ verdict[r] = "Timeout" => r \in Timed

(* Nothing that happens later changes a verdict, or takes back an answer;   *)
(* what is saved is answered or stays saved, and what is dropped is dropped. *)
FatesAreFinal ==
    [][\A r \in Requests :
        /\ verdict[r] # "none" => verdict'[r] = verdict[r]
        /\ phase[r] = "saved" => phase'[r] \in {"saved", "answered"}
        /\ phase[r] \in {"answered", "dropped"} => phase'[r] = phase[r]]_vars
=============================================================================
