----------------------------- MODULE RuntimeHost -----------------------------
(***************************************************************************)
(* RuntimeHost::run: the HTTP server on the main thread, a thread for each *)
(* queue worker or scheduler, the Supervisor that stops them all, and what *)
(* asks for the stop: a signal, a service that fails, a listener that      *)
(* fails or returns.                                                       *)
(*                                                                         *)
(* Supervisor::request_stop is taken apart: the compare-exchange that one  *)
(* caller wins, the cancellation flag, its callbacks, the stop requests to *)
(* each runtime.  A service thread checks for a stop, then sleeps; nothing *)
(* makes the two one step, because wake() notifies without the mutex.      *)
(***************************************************************************)
EXTENDS Naturals, FiniteSets

CONSTANTS
    Services,      \* supervised worker and scheduler loops
    MayFail,       \* services whose loop may throw
    Limited,       \* workers with max_jobs or max_runtime
    Late,          \* a runtime that another thread registers, at any time
    None

ASSUME HostAssumption ==
    /\ MayFail \subseteq Services /\ Limited \subseteq Services
    /\ {"main", "signal", "http", Late, None} \cap Services = {}

VARIABLES
    main,          \* the thread in run, shutdown and ~RuntimeHost
    svc,           \* service threads
    signal,        \* the SignalWatcher's thread
    http,          \* Server::Impl::listen: its progress while active
    running,       \* Server::Impl::running
    stop,          \* services whose stop_requested_ is set
    hooked,        \* runtimes with a callback on the supervisor's token
    cancelled,     \* the token
    stopping,      \* Supervisor::stopping_
    asker,         \* the caller that won request_stop, and its progress
    ask,
    calls,         \* callbacks taken by cancel and not called yet
    todo,          \* runtimes still to be asked
    known,         \* Supervisor::runtimes_
    register,      \* the thread that registers Late
    asked,         \* runtimes whose request_stop was called
    failure,       \* RuntimeHost::failure_
    failed,        \* services that threw
    app,           \* the application: "up" or "shut"
    result

threads == <<main, svc, signal, register>>
server == <<http, running>>
supervisor == <<stopping, asker, ask, calls, todo, known, asked>>
hostvars == <<threads, server, supervisor, stop, hooked, cancelled, failure, failed, app, result>>

Runtimes == Services \cup {"http"}
Looping(s) == svc[s] \in {"entering", "loop", "dozing", "asleep"}

HostBegins(where) ==
    /\ main = where /\ svc = [s \in Services |-> "none"] /\ signal = "watching"
    /\ http = "off" /\ running = FALSE
    /\ stop = {} /\ hooked = {} /\ cancelled = FALSE
    /\ stopping = FALSE /\ asker = None /\ ask = "no" /\ calls = {} /\ todo = {}
    /\ known = Runtimes /\ register = "idle" /\ asked = {}
    /\ failure = None /\ failed = {} /\ app = "up" /\ result = "none"

HostInit == HostBegins("spawning")

----------------------------------------------------------------------------
(* Main thread *)

(* start: a thread for each service; creating one may throw.               *)
Spawn(s) ==
    /\ main = "spawning" /\ svc[s] = "none"
    /\ svc' = [svc EXCEPT ![s] = "starting"]
    /\ UNCHANGED <<main, signal, register, server, supervisor, stop, hooked, cancelled,
                   failure, failed, app, result>>

SpawnThrows ==
    /\ main = "spawning" /\ \E s \in Services : svc[s] = "none"
    /\ main' = "asking" /\ result' = "threw"
    /\ UNCHANGED <<svc, signal, register, server, supervisor, stop, hooked, cancelled,
                   failure, failed, app>>

(* listen: active and running are set, then the token's callback is        *)
(* registered (or called, if it is cancelled already).                     *)
Listen ==
    /\ main = "spawning" /\ \A s \in Services : svc[s] # "none"
    /\ main' = "listening" /\ http' = "opening" /\ running' = TRUE
    /\ UNCHANGED <<svc, signal, register, supervisor, stop, hooked, cancelled,
                   failure, failed, app, result>>

(* Mutant of HookServer: a token that is cancelled already is missed. *)
HookServerBlind ==
    /\ http = "opening"
    /\ http' = "up"
    /\ hooked' = hooked \cup {"http"} /\ UNCHANGED running
    /\ UNCHANGED <<threads, supervisor, stop, cancelled, failure, failed, app, result>>

HookServer ==
    /\ http = "opening"
    /\ http' = "up"
    /\ IF cancelled THEN running' = FALSE /\ UNCHANGED hooked
                    ELSE hooked' = hooked \cup {"http"} /\ UNCHANGED running
    /\ UNCHANGED <<threads, supervisor, stop, cancelled, failure, failed, app, result>>

(* The reactor has drained, or the listener could not be opened.           *)
ServerReturns ==
    /\ http = "up" /\ ~running
    /\ http' = "off" /\ hooked' = hooked \ {"http"} /\ main' = "asking"
    /\ UNCHANGED <<running, svc, signal, register, supervisor, stop, cancelled,
                   failure, failed, app, result>>

ServerThrows ==
    /\ http = "up" /\ running
    /\ http' = "off" /\ running' = FALSE /\ hooked' = hooked \ {"http"} /\ main' = "asking"
    /\ result' = "threw"
    /\ UNCHANGED <<svc, signal, register, supervisor, stop, cancelled, failure, failed, app>>

(* Mutant of Report: a failure of a service is not rethrown. *)
ReportOutcome(outcome) == result' = IF result = "threw" THEN "threw" ELSE outcome

(* rethrow_failure, unless the listener's own exception is on its way.     *)
Report(outcome) ==
    result' = IF result = "threw" \/ failure # None THEN "threw" ELSE outcome

(* Supervisor::wait: graceful when no runtime reports running, given up at *)
(* the deadline.                                                           *)
Pending == {s \in Services : Looping(s)} \cup (IF http # "off" THEN {"http"} ELSE {})

WaitGraceful ==
    /\ main = "waiting" /\ Pending = {}
    /\ main' = "joining"
    /\ UNCHANGED <<svc, signal, register, server, supervisor, stop, hooked, cancelled,
                   failure, failed, app, result>>

WaitTimesOut ==
    /\ main = "waiting" /\ Pending # {}
    /\ main' = "destroying"
    /\ Report("timeout")
    /\ UNCHANGED <<svc, signal, register, server, supervisor, stop, hooked, cancelled,
                   failure, failed, app>>

Joined == \A s \in Services : svc[s] \in {"none", "ended"}

(* Mutant of Join: the application is shut down once nothing reports       *)
(* running. *)
JoinNobody ==
    /\ main = "joining"
    /\ main' = "destroying"
    /\ Report("graceful")
    /\ app' = "shut"
    /\ UNCHANGED <<svc, signal, register, server, supervisor, stop, hooked, cancelled,
                   failure, failed>>

(* Join the threads, shut the application down, rethrow a service's        *)
(* failure.                                                                *)
Join ==
    /\ main = "joining" /\ Joined
    /\ main' = "destroying"
    /\ Report("graceful")
    /\ app' = "shut"
    /\ UNCHANGED <<svc, signal, register, server, supervisor, stop, hooked, cancelled,
                   failure, failed>>

(* ~RuntimeHost joins what is left; ~SignalWatcher joins its thread.       *)
Destroy ==
    /\ main = "destroying" /\ Joined /\ signal # "asking" /\ asker # "signal"
    /\ main' = "gone" /\ signal' = "ended"
    /\ UNCHANGED <<svc, register, server, supervisor, stop, hooked, cancelled,
                   failure, failed, app, result>>

----------------------------------------------------------------------------
(* Service threads: Worker::run and Scheduler::run *)

Move(s, p) == svc' = [svc EXCEPT ![s] = p]
StopSeen(s) == s \in stop \/ cancelled

(* running_ is set; the callback is registered, or called for nobody.      *)
Enter(s) ==
    /\ svc[s] = "starting"
    /\ Move(s, "entering")
    /\ UNCHANGED <<main, signal, register, server, supervisor, stop, hooked, cancelled,
                   failure, failed, app, result>>

HookService(s) ==
    /\ svc[s] = "entering"
    /\ Move(s, "loop")
    /\ hooked' = IF cancelled THEN hooked ELSE hooked \cup {s}
    /\ UNCHANGED <<main, signal, register, server, supervisor, stop, cancelled,
                   failure, failed, app, result>>

(* A turn of the loop that sees no stop works, and then goes to sleep; or  *)
(* a limit ends the loop; or the loop throws.  A loop that is left has     *)
(* reset running_, so that the supervisor no longer waits for it.          *)
Turn(s) ==
    /\ svc[s] = "loop" /\ ~StopSeen(s)
    /\ \/ Move(s, "dozing") /\ UNCHANGED <<failed, hooked>>
       \/ s \in Limited /\ Move(s, "ended") /\ hooked' = hooked \ {s} /\ UNCHANGED failed
       \/ /\ s \in MayFail
          /\ Move(s, "threw") /\ failed' = failed \cup {s} /\ hooked' = hooked \ {s}
    /\ UNCHANGED <<main, signal, register, server, supervisor, stop, cancelled,
                   failure, app, result>>

(* The catch of the service thread: remember_failure keeps the first       *)
(* failure, then the stop is requested.                                    *)
Remember(s) ==
    /\ svc[s] = "threw"
    /\ failure' = IF failure = None THEN s ELSE failure
    /\ Move(s, "asking")
    /\ UNCHANGED <<main, signal, register, server, supervisor, stop, hooked, cancelled,
                   failed, app, result>>

(* wait_for: the predicate is read, then the thread sleeps until the       *)
(* timeout or a notification.                                              *)
Doze(s) ==
    /\ svc[s] = "dozing"
    /\ Move(s, IF StopSeen(s) THEN "loop" ELSE "asleep")
    /\ UNCHANGED <<main, signal, register, server, supervisor, stop, hooked, cancelled,
                   failure, failed, app, result>>

TimerWakes(s) ==
    /\ svc[s] = "asleep"
    /\ Move(s, "loop")
    /\ UNCHANGED <<main, signal, register, server, supervisor, stop, hooked, cancelled,
                   failure, failed, app, result>>

Leave(s) ==
    /\ svc[s] = "loop" /\ StopSeen(s)
    /\ Move(s, "ended") /\ hooked' = hooked \ {s}
    /\ UNCHANGED <<main, signal, register, server, supervisor, stop, cancelled,
                   failure, failed, app, result>>

(* SignalWatcher::loop sees a signal and calls the handler.                *)
Signal ==
    /\ signal = "watching" /\ main # "gone"
    /\ signal' = "asking"
    /\ UNCHANGED <<main, svc, register, server, supervisor, stop, hooked, cancelled,
                   failure, failed, app, result>>

----------------------------------------------------------------------------
(* Supervisor::request_stop *)

Asking(t) == (t = "main" /\ main = "asking") \/ (t = "signal" /\ signal = "asking")
             \/ (t \in Services /\ svc[t] = "asking")

(* What each caller does when request_stop returns. *)
Returned(t) ==
    /\ IF t = "main" THEN main' = (IF \E s \in Services : svc[s] = "none" THEN "destroying" ELSE "waiting")
                     ELSE UNCHANGED main
    /\ IF t = "signal" THEN signal' = "ended" ELSE UNCHANGED signal
    /\ IF t \in Services THEN Move(t, "ended") ELSE UNCHANGED svc

(* Only the first caller goes on.                                          *)
AskAgain(t) ==
    /\ Asking(t) /\ stopping /\ asker # t
    /\ Returned(t)
    /\ UNCHANGED <<register, server, supervisor, stop, hooked, cancelled, failure, failed, app, result>>

RequestStop(t) ==
    /\ Asking(t) /\ ~stopping
    /\ stopping' = TRUE /\ asker' = t /\ ask' = "cancel"
    /\ UNCHANGED <<threads, server, calls, todo, known, asked, stop, hooked, cancelled,
                   failure, failed, app, result>>

(* cancellation_.cancel(): the flag, the callbacks taken, each called.     *)
SetCancelled ==
    /\ ask = "cancel"
    /\ cancelled' = TRUE /\ ask' = "take"
    /\ UNCHANGED <<threads, server, stopping, asker, calls, todo, known, asked, stop, hooked,
                   failure, failed, app, result>>

TakeCallbacks ==
    /\ ask = "take"
    /\ calls' = hooked /\ hooked' = {} /\ ask' = "call"
    /\ UNCHANGED <<threads, server, stopping, asker, todo, known, asked, stop, cancelled,
                   failure, failed, app, result>>

Wake(r) ==
    /\ IF r \in Services /\ svc[r] = "asleep" THEN Move(r, "loop") ELSE UNCHANGED svc
    /\ IF r = "http" /\ http # "off" THEN running' = FALSE ELSE UNCHANGED running
    /\ UNCHANGED http

Call(r) ==
    /\ ask = "call" /\ r \in calls
    /\ calls' = calls \ {r}
    /\ Wake(r)
    /\ UNCHANGED <<main, signal, register, stopping, asker, ask, todo, known, asked, stop, hooked,
                   cancelled, failure, failed, app, result>>

(* Mutant of Snapshot: the list of runtimes is read without the mutex. *)
SnapshotUnlocked ==
    /\ ask = "call" /\ calls = {}
    /\ todo' = known /\ ask' = "ask"
    /\ UNCHANGED <<threads, server, stopping, asker, calls, known, asked, stop, hooked, cancelled,
                   failure, failed, app, result>>

(* The list of runtimes is read under the mutex, which a registration that *)
(* has begun still holds.                                                  *)
Snapshot ==
    /\ ask = "call" /\ calls = {} /\ register # "checked"
    /\ todo' = known /\ ask' = "ask"
    /\ UNCHANGED <<threads, server, stopping, asker, calls, known, asked, stop, hooked, cancelled,
                   failure, failed, app, result>>

StopRuntime(r) ==
    /\ ask = "ask" /\ r \in todo
    /\ todo' = todo \ {r} /\ asked' = asked \cup {r}
    /\ stop' = IF r \in Services THEN stop \cup {r} ELSE stop
    /\ Wake(r)
    /\ UNCHANGED <<main, signal, register, stopping, asker, ask, calls, known, hooked, cancelled,
                   failure, failed, app, result>>

AskReturns ==
    /\ ask = "ask" /\ todo = {}
    /\ ask' = "done" /\ asker' = None
    /\ Returned(asker)
    /\ UNCHANGED <<register, server, stopping, calls, todo, known, asked, stop, hooked, cancelled,
                   failure, failed, app, result>>

(* Supervisor::runtime, under the mutex: refused once stopping_ is set.    *)
CheckStopping ==
    /\ register = "idle"
    /\ register' = IF stopping THEN "refused" ELSE "checked"
    /\ UNCHANGED <<main, svc, signal, server, supervisor, stop, hooked, cancelled,
                   failure, failed, app, result>>

Push ==
    /\ register = "checked"
    /\ register' = "done" /\ known' = known \cup {Late}
    /\ UNCHANGED <<main, svc, signal, server, stopping, asker, ask, calls, todo, asked, stop, hooked,
                   cancelled, failure, failed, app, result>>

HostNext ==
    \/ \E s \in Services : Spawn(s) \/ Enter(s) \/ HookService(s) \/ Turn(s) \/ Doze(s)
                           \/ TimerWakes(s) \/ Leave(s) \/ Remember(s)
    \/ SpawnThrows \/ Listen \/ HookServer \/ ServerReturns \/ ServerThrows
    \/ WaitGraceful \/ WaitTimesOut \/ Join \/ Destroy \/ Signal
    \/ \E t \in Services \cup {"main", "signal"} : AskAgain(t) \/ RequestStop(t)
    \/ SetCancelled \/ TakeCallbacks \/ Snapshot \/ AskReturns
    \/ \E r \in Runtimes \cup {Late} : Call(r) \/ StopRuntime(r)
    \/ CheckStopping \/ Push

HostSpec == HostInit /\ [][HostNext]_hostvars

(* Threads keep running and sleeps end; nobody has to send a signal or     *)
(* fail.                                                                   *)
HostFairness ==
    /\ \A s \in Services :
        /\ WF_hostvars(Spawn(s)) /\ WF_hostvars(Enter(s)) /\ WF_hostvars(HookService(s))
        /\ WF_hostvars(Turn(s)) /\ WF_hostvars(Doze(s)) /\ WF_hostvars(TimerWakes(s))
        /\ WF_hostvars(Leave(s)) /\ WF_hostvars(Remember(s))
    /\ WF_hostvars(Listen) /\ WF_hostvars(HookServer) /\ WF_hostvars(ServerReturns)
    /\ WF_hostvars(WaitGraceful) /\ WF_hostvars(Join) /\ WF_hostvars(Destroy)
    /\ \A t \in Services \cup {"main", "signal"} : WF_hostvars(AskAgain(t) \/ RequestStop(t))
    /\ WF_hostvars(SetCancelled \/ TakeCallbacks \/ Snapshot \/ AskReturns)
    /\ \A r \in Runtimes \cup {Late} : WF_hostvars(Call(r) \/ StopRuntime(r))
    /\ WF_hostvars(Push)

FairHostSpec == HostSpec /\ HostFairness

----------------------------------------------------------------------------
(* The variables hold values of their types; a callback is registered or   *)
(* taken to be called, never both. *)
HostTypeOK ==
    /\ main \in {"spawning", "listening", "asking", "waiting", "joining", "destroying", "gone"}
    /\ svc \in [Services -> {"none", "starting", "entering", "loop", "dozing", "asleep", "threw",
                         "asking", "ended"}]
    /\ signal \in {"watching", "asking", "ended"}
    /\ http \in {"off", "opening", "up"} /\ running \in BOOLEAN
    /\ stop \subseteq Services /\ hooked \subseteq Runtimes /\ cancelled \in BOOLEAN
    /\ stopping \in BOOLEAN /\ asker \in Services \cup {"main", "signal", None}
    /\ ask \in {"no", "cancel", "take", "call", "ask", "done"}
    /\ calls \subseteq Runtimes \ hooked /\ todo \subseteq known /\ asked \subseteq known
    /\ known \subseteq Runtimes \cup {Late}
    /\ register \in {"idle", "checked", "done", "refused"}
    /\ failure \in Services \cup {None} /\ failed \subseteq Services
    /\ app \in {"up", "shut"} /\ result \in {"none", "graceful", "timeout", "threw"}

(* The application is shut down only when nothing of the host still uses   *)
(* it: every service thread has ended and the server is inactive, even if  *)
(* a service had not begun to run when wait() looked.                      *)
ShutdownLast == app = "shut" => Joined /\ http = "off"

(* A graceful result hides no failure: a service that threw is reported.   *)
FailureReported == result = "graceful" => failed = {}

(* Whoever wins request_stop asks every runtime there is: one that another *)
(* thread registers meanwhile is either asked too or refused.              *)
RegisteredAreAsked == ask = "done" => known \subseteq asked

(* A signal or a failure ends the host, although notifications may be lost *)
(* between the check and the sleep of a service.                           *)
StopCompletes == stopping \/ signal = "asking" \/ failed # {} ~> main = "gone"

=============================================================================
