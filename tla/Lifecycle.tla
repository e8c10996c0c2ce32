------------------------------ MODULE Lifecycle ------------------------------
(***************************************************************************)
(* The life of an Application: providers are registered, boot takes each   *)
(* through register_services, boot and ready, listen serves, and shutdown  *)
(* undoes what was registered.  Any hook may throw.                        *)
(*                                                                         *)
(* shutdown is called by the owner between two calls, by boot when a hook  *)
(* throws, by the destructor, and, when HandlersShutdown holds, by a       *)
(* request handler while listen runs (listen returns once the handler has  *)
(* finished).                                                              *)
(***************************************************************************)
EXTENDS Naturals

CONSTANTS
    MaxProviders,      \* bound on provider calls
    Hooks,             \* number of on_shutdown hooks
    HandlersShutdown

ASSUME LifecycleAssumption ==
    MaxProviders \in Nat /\ Hooks \in Nat /\ HandlersShutdown \in BOOLEAN

VARIABLES
    stage,         \* Lifecycle::stage_
    booted,
    providers,     \* how many providers were added
    registered,    \* Impl::registered_providers
    reached,       \* last hook of each provider that returned or, for
                   \* register_services, was entered
    shut,          \* calls of each provider's shutdown
    ran,           \* calls of each on_shutdown hook
    errors,        \* Impl::shutdown_errors
    pc,            \* the call under way
    at,            \* its loop variable
    caller         \* who called shutdown

lifevars == <<stage, booted, providers, registered, reached, shut, ran, errors, pc, at, caller>>

Stages == {"created", "registering", "booting", "ready", "running", "stopping", "stopped"}
Range(n) == 1..n

LifeInit ==
    /\ stage = "created" /\ booted = FALSE
    /\ providers = 0 /\ registered = 0
    /\ reached = [p \in Range(MaxProviders) |-> "none"]
    /\ shut = [p \in Range(MaxProviders) |-> 0]
    /\ ran = [h \in Range(Hooks) |-> 0]
    /\ errors = 0
    /\ pc = "idle" /\ at = 0 /\ caller = "none"

provider ==
    /\ pc = "idle" /\ stage = "created" /\ providers < MaxProviders
    /\ providers' = providers + 1
    /\ UNCHANGED <<stage, booted, registered, reached, shut, ran, errors, pc, at, caller>>

(* boot, also called by listen: from "created" only.                       *)
boot ==
    /\ pc = "idle" /\ stage = "created"
    /\ stage' = "registering" /\ pc' = "register" /\ at' = 1 /\ errors' = 0
    /\ UNCHANGED <<booted, providers, registered, reached, shut, ran, caller>>

(* The provider is counted before its hook runs, so that one that fails    *)
(* halfway is shut down too.                                               *)
Count(p) == registered' = registered + 1 /\ reached' = [reached EXCEPT ![p] = "register"]

(* Mutant of RegisterServices: the provider is counted when it succeeds. *)
RegisterThenCount ==
    /\ pc = "register" /\ at <= providers
    /\ \/ Count(at) /\ at' = at + 1 /\ UNCHANGED <<pc, caller>>
       \/ /\ reached' = [reached EXCEPT ![at] = "register"]
          /\ pc' = "shutdown" /\ caller' = "boot" /\ UNCHANGED <<registered, at>>
    /\ UNCHANGED <<stage, booted, providers, shut, ran, errors>>

RegisterServices ==
    /\ pc = "register" /\ at <= providers
    /\ Count(at)
    /\ \/ at' = at + 1 /\ UNCHANGED <<pc, caller>>
       \/ pc' = "shutdown" /\ caller' = "boot" /\ UNCHANGED at
    /\ UNCHANGED <<stage, booted, providers, shut, ran, errors>>

(* configure_database may throw as well.                                   *)
BeginBooting ==
    /\ pc = "register" /\ at > providers
    /\ stage' = "booting" /\ at' = 1
    /\ (pc' = "boot" /\ UNCHANGED caller) \/ (pc' = "shutdown" /\ caller' = "boot")
    /\ UNCHANGED <<booted, providers, registered, reached, shut, ran, errors>>

BootProvider ==
    /\ pc = "boot" /\ at <= providers
    /\ \/ /\ at' = at + 1 /\ reached' = [reached EXCEPT ![at] = "boot"]
          /\ UNCHANGED <<pc, caller>>
       \/ pc' = "shutdown" /\ caller' = "boot" /\ UNCHANGED <<at, reached>>
    /\ UNCHANGED <<stage, booted, providers, registered, shut, ran, errors>>

(* The on_boot hooks, then the providers' ready, then the on_ready hooks.  *)
FireBoot ==
    /\ pc = "boot" /\ at > providers
    /\ \/ pc' = "ready" /\ at' = 1 /\ UNCHANGED caller
       \/ pc' = "shutdown" /\ caller' = "boot" /\ UNCHANGED at
    /\ UNCHANGED <<stage, booted, providers, registered, reached, shut, ran, errors>>

ReadyProvider ==
    /\ pc = "ready" /\ at <= providers
    /\ \/ /\ at' = at + 1 /\ reached' = [reached EXCEPT ![at] = "ready"]
          /\ UNCHANGED <<pc, caller>>
       \/ pc' = "shutdown" /\ caller' = "boot" /\ UNCHANGED <<at, reached>>
    /\ UNCHANGED <<stage, booted, providers, registered, shut, ran, errors>>

FireReady ==
    /\ pc = "ready" /\ at > providers
    /\ \/ pc' = "idle" /\ booted' = TRUE /\ stage' = "ready" /\ UNCHANGED caller
       \/ pc' = "shutdown" /\ caller' = "boot" /\ UNCHANGED <<booted, stage>>
    /\ UNCHANGED <<providers, registered, reached, shut, ran, errors, at>>

(* listen on a booted application; on one that is not, boot throws unless  *)
(* the stage is "created", where boot and listen are two steps here.       *)
listen ==
    /\ pc = "idle" /\ booted
    /\ stage' = "running" /\ pc' = "listening"
    /\ UNCHANGED <<booted, providers, registered, reached, shut, ran, errors, at, caller>>

(* The server returns or throws: the stage is "ready" either way.          *)
ListenReturns ==
    /\ pc = "listening"
    /\ stage' = "ready" /\ pc' = "idle"
    /\ UNCHANGED <<booted, providers, registered, reached, shut, ran, errors, at, caller>>

(* shutdown called by the owner or the destructor, or by a handler.        *)
shutdown ==
    /\ \/ pc = "idle" /\ caller' = "owner"
       \/ pc = "listening" /\ HandlersShutdown /\ caller' = "handler"
    /\ pc' = "shutdown"
    /\ UNCHANGED <<stage, booted, providers, registered, reached, shut, ran, errors, at>>

Return == pc' = IF caller = "handler" THEN "listening" ELSE "idle"

(* Mutant of Refuses: a stopped application is shut down again. *)
RefusesStopping == stage = "stopping"

Refuses == stage \in {"stopping", "stopped"}

(* shutdown does nothing when it is under way or done.                           *)
ShutdownAgain ==
    /\ pc = "shutdown" /\ Refuses
    /\ Return /\ caller' = "none"
    /\ UNCHANGED <<stage, booted, providers, registered, reached, shut, ran, errors, at>>

(* The on_shutdown hooks, last one first, are for an application that was  *)
(* started.                                                                *)
BeginShutdown ==
    /\ pc = "shutdown" /\ ~Refuses
    /\ at' = IF stage = "created" THEN 0 ELSE Hooks
    /\ stage' = "stopping" /\ pc' = "undo"
    /\ UNCHANGED <<booted, providers, registered, reached, shut, ran, errors, caller>>

Attempt == errors' \in {errors, errors + 1}

(* Mutant of ShutProvider: the provider stays counted when its shutdown    *)
(* throws, and is shut down again. *)
ShutUntilClean ==
    /\ pc = "undo" /\ registered > 0
    /\ Attempt
    /\ registered' = IF errors' > errors THEN registered ELSE registered - 1
    /\ shut' = [shut EXCEPT ![registered] = @ + 1]
    /\ UNCHANGED <<stage, booted, providers, reached, ran, pc, at, caller>>

ShutProvider ==
    /\ pc = "undo" /\ registered > 0
    /\ registered' = registered - 1
    /\ shut' = [shut EXCEPT ![registered] = @ + 1]
    /\ Attempt
    /\ UNCHANGED <<stage, booted, providers, reached, ran, pc, at, caller>>

FireShutdown ==
    /\ pc = "undo" /\ registered = 0 /\ at > 0
    /\ ran' = [ran EXCEPT ![at] = @ + 1]
    /\ Attempt
    /\ at' = at - 1
    /\ UNCHANGED <<stage, booted, providers, registered, reached, shut, pc, caller>>

EndShutdown ==
    /\ pc = "undo" /\ registered = 0 /\ at = 0
    /\ booted' = FALSE /\ stage' = "stopped"
    /\ Return /\ caller' = "none"
    /\ UNCHANGED <<providers, registered, reached, shut, ran, errors, at>>

LifeNext ==
    \/ provider \/ boot \/ RegisterServices \/ BeginBooting \/ BootProvider \/ FireBoot
    \/ ReadyProvider \/ FireReady \/ listen \/ ListenReturns
    \/ shutdown \/ ShutdownAgain \/ BeginShutdown \/ ShutProvider \/ FireShutdown \/ EndShutdown

LifeSpec == LifeInit /\ [][LifeNext]_lifevars

(* A hook that is called returns or throws.                                *)
LifeFairness ==
    WF_lifevars(RegisterServices \/ BeginBooting \/ BootProvider \/ FireBoot
                \/ ReadyProvider \/ FireReady \/ ShutdownAgain \/ BeginShutdown
                \/ ShutProvider \/ FireShutdown \/ EndShutdown)

FairLifeSpec == LifeSpec /\ LifeFairness

----------------------------------------------------------------------------
(* The variables hold values of their types. *)
LifeTypeOK ==
    /\ stage \in Stages /\ booted \in BOOLEAN
    /\ providers \in 0..MaxProviders /\ registered \in 0..providers
    /\ reached \in [Range(MaxProviders) -> {"none", "register", "boot", "ready"}]
    /\ shut \in [Range(MaxProviders) -> 0..1]
    /\ ran \in [Range(Hooks) -> Nat]
    /\ errors \in Nat
    /\ pc \in {"idle", "register", "boot", "ready", "listening", "shutdown", "undo"}
    /\ at \in 0..(MaxProviders + Hooks + 1)
    /\ caller \in {"none", "boot", "owner", "handler"}

(* docs/application-lifecycle.md: "A startup failure shuts down registered *)
(* providers in reverse order, including a partially registered provider"; *)
(* a provider is shut down only after every later one that was touched,    *)
(* and a stopped application has shut down every one.                      *)
UndoneInReverse ==
    /\ \A p, q \in Range(MaxProviders) :
        p < q /\ shut[p] > 0 /\ reached[q] # "none" => shut[q] > 0
    /\ stage = "stopped" => \A p \in Range(MaxProviders) : shut[p] > 0 <=> reached[p] # "none"

(* A second call of shutdown calls nothing (tests/priority3_runtime.cpp):  *)
(* no cleanup hook runs twice.                                             *)
HooksOnce == \A h \in Range(Hooks) : ran[h] <= 1

=============================================================================
