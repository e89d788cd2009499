-------------------------- MODULE ShellEnvironment --------------------------
(***************************************************************************)
(* The containers of envs/shell_env: what start() and stop() do to the      *)
(* container of one attempt at a trial, for docker, enroot and modal, and   *)
(* the watcher that enroot leaves behind for the case that its worker is    *)
(* killed.  Every attempt has a container of its own (a fresh name), so     *)
(* containers are identified with attempts.  The operations below say what  *)
(* one call does; TrialRunner says when a worker makes it.                  *)
(***************************************************************************)
EXTENDS Naturals

CONSTANTS
    Attempts,       \* attempts at trials
    Env             \* the environment type of an attempt

VARIABLES
    container,      \* "none", "created" (exists, runs nothing), "up"
    known,          \* self.container, container_name, _sandbox is set
    reaper,         \* the orphan reaper of an attempt watches its worker
    lapse           \* a call whose failure or lost answer the code ignores

envVars == <<container, known, reaper, lapse>>

EnvTypes == {"docker", "enroot", "modal"}

ASSUME EnvAssumption == Env \in [Attempts -> EnvTypes]

EnvTypeOK ==
    /\ container \in [Attempts -> {"none", "created", "up"}]
    /\ known \in [Attempts -> BOOLEAN]
    /\ reaper \in [Attempts -> BOOLEAN]
    /\ lapse \in [Attempts -> BOOLEAN]

EnvInit ==
    /\ container = [o \in Attempts |-> "none"]
    /\ known = [o \in Attempts |-> FALSE]
    /\ reaper = [o \in Attempts |-> FALSE]
    /\ lapse = [o \in Attempts |-> FALSE]

-----------------------------------------------------------------------------
(* start()                                                                  *)

(* What the engine has made of a request to create a container: docker and  *)
(* modal start it at once.                                                  *)
Made(o) == IF Env[o] = "enroot" THEN "created" ELSE "up"

Create(o) ==
    /\ container' = [container EXCEPT ![o] = Made(o)]
    /\ known' = [known EXCEPT ![o] = TRUE]
    /\ UNCHANGED <<reaper, lapse>>

(* The call fails or is cut short before or after it took effect.  Only     *)
(* enroot chooses the name first, and can remove what it never saw.         *)
CreateFails(o) ==
    /\ \E c \in {"none", "created", Made(o)} :
        /\ container' = [container EXCEPT ![o] = c]
        /\ lapse' = [lapse EXCEPT ![o] = Env[o] # "enroot" /\ c # "none"]
    /\ known' = [known EXCEPT ![o] = Env[o] = "enroot"]
    /\ UNCHANGED reaper

(* enroot: Popen of `enroot start`, and the wait for the pid it prints.     *)
Launch(o) ==
    /\ container' = [container EXCEPT ![o] = "up"]
    /\ UNCHANGED <<known, reaper, lapse>>

LaunchFails(o) ==
    /\ \E c \in {"created", "up"} : container' = [container EXCEPT ![o] = c]
    /\ UNCHANGED <<known, reaper, lapse>>

(* enroot: spawning the watcher; a failure is logged and start() goes on.   *)
Watch(o) ==
    /\ \E spawned \in BOOLEAN :
        /\ reaper' = [reaper EXCEPT ![o] = spawned]
        /\ lapse' = [lapse EXCEPT ![o] = ~spawned]
    /\ UNCHANGED <<container, known>>

-----------------------------------------------------------------------------
(* stop(), in the order the labels "unwatch", "halt", "remove" name         *)

Unwatch(o) ==
    /\ reaper' = [reaper EXCEPT ![o] = FALSE]
    /\ UNCHANGED <<container, known, lapse>>

(* enroot terminates the process group and docker stops the container; modal *)
(* forgets its sandbox before it terminates it.                             *)
Halt(o) ==
    /\ IF Env[o] = "modal"
       THEN known' = [known EXCEPT ![o] = FALSE] /\ UNCHANGED container
       ELSE /\ container' = [container EXCEPT ![o] = IF @ = "up" THEN "created" ELSE @]
            /\ UNCHANGED known
    /\ UNCHANGED <<reaper, lapse>>

Remove(o) ==
    /\ container' = [container EXCEPT ![o] = "none"]
    /\ known' = [known EXCEPT ![o] = FALSE]
    /\ UNCHANGED <<reaper, lapse>>

(* A failure is swallowed and the container forgotten all the same.  With   *)
(* docker, a stop that fails also skips the remove.                         *)
RemoveFails(o) ==
    /\ known' = [known EXCEPT ![o] = FALSE]
    /\ lapse' = [lapse EXCEPT ![o] = container[o] # "none"]
    /\ UNCHANGED <<container, reaper>>

-----------------------------------------------------------------------------
(* Without the worker                                                       *)

(* Seeded fault: the watcher ends the processes and leaves the container.   *)
ReapProcesses(o) ==
    /\ reaper[o]
    /\ container' = [container EXCEPT ![o] = IF @ = "up" THEN "created" ELSE @]
    /\ reaper' = [reaper EXCEPT ![o] = FALSE]
    /\ UNCHANGED <<known, lapse>>

(* The watcher found its worker dead: it signals the processes, then makes  *)
(* one attempt to remove the container.                                     *)
Reap(o) ==
    /\ reaper[o]
    /\ reaper' = [reaper EXCEPT ![o] = FALSE]
    /\ \/ container' = [container EXCEPT ![o] = "none"] /\ UNCHANGED lapse
       \/ lapse' = [lapse EXCEPT ![o] = TRUE] /\ UNCHANGED container
    /\ UNCHANGED known

(* Modal ends a sandbox after sandbox_timeout, whoever owns it.             *)
SandboxExpires(o) ==
    /\ Env[o] = "modal"
    /\ container[o] # "none"
    /\ container' = [container EXCEPT ![o] = "none"]
    /\ UNCHANGED <<known, reaper, lapse>>
=============================================================================
