--------------------------- MODULE MCApplication ---------------------------
(* The life of an application, the host that runs its services and the     *)
(* HTTP server that is stopped, each on its own: up to three providers and *)
(* two shutdown hooks; a worker, a scheduler and the listener; a server    *)
(* with one client that sends up to two units.                             *)
EXTENDS Lifecycle, RuntimeHost
CONSTANTS worker, scheduler, a, Conns, MaxConnections, MaxRequests, MaxActive, Budgets
VARIABLES part, phase, serving, drain, conn, revents, net, left, client, got

MCServices == {worker, scheduler}
MCBudgets == {[c \in {a} |-> 2]}

Http == INSTANCE HttpServer WITH running <- serving
servervars == <<phase, serving, drain, conn, revents, net, left, client, got>>

(* Beside the other parts the host is over and the server has not begun to *)
(* listen, so that their fairness asks for nothing.                        *)
MCInit ==
    /\ LifeInit /\ Http!HttpInit
    /\ \/ part \in {"lifecycle", "http"} /\ HostBegins("gone")
       \/ part = "host" /\ HostInit
MCNext ==
    \/ part = "lifecycle" /\ LifeNext /\ UNCHANGED <<part, hostvars, servervars>>
    \/ part = "host" /\ HostNext /\ UNCHANGED <<part, lifevars, servervars>>
    \/ part = "http" /\ Http!HttpNext /\ UNCHANGED <<part, lifevars, hostvars>>
MCSpec ==
    /\ MCInit /\ [][MCNext]_<<part, lifevars, hostvars, servervars>>
    /\ LifeFairness /\ HostFairness /\ Http!HttpFairness

(* The fields of the application and of the host have their types.         *)
ApplicationTypeOK == LifeTypeOK /\ HostTypeOK

(* StopReturns of HttpServer: once the server is stopped, listen returns.  *)
StopReturns == Http!StopReturns
=============================================================================
