--------------------------- MODULE ConnectionPool ---------------------------
(***************************************************************************)
(* The database connection pool: acquire with its deadline and its         *)
(* cancellation callback, the lease that returns an entry, validation of   *)
(* idle entries, and the condition variable they share.                    *)
(*                                                                         *)
(* Sections under the pool mutex are single steps.  A client that waits is *)
(* "asleep" until notified, its deadline passes or a spurious wake-up; it  *)
(* is then "awake" until it gets the mutex back.  The reply of wait_until  *)
(* is read from the clock on return, so a client that was notified but     *)
(* runs after its deadline gives up without looking at the entries.        *)
(***************************************************************************)
EXTENDS Naturals, FiniteSets

CONSTANTS
    Clients,       \* threads that acquire connections
    Validator,     \* the thread that runs validate_idle
    Size,          \* PoolOptions::size
    MayExpire,     \* clients whose acquire_timeout may pass while they wait
    MayCancel,     \* clients whose token may be cancelled
    None           \* no entry

ASSUME PoolAssumption ==
    /\ Size \in Nat \ {0}
    /\ Validator \notin Clients
    /\ MayExpire \subseteq Clients /\ MayCancel \subseteq Clients
    /\ None \notin Nat

VARIABLES
    leased,        \* Entry::leased
    next,          \* Impl::next
    pc,            \* where each thread is
    mine,          \* the entry a thread has reserved
    expired,       \* the client's deadline has passed
    cancelled,     \* the client's token is cancelled
    hooked,        \* the client's callback is registered with its token
    canceller,     \* progress of CancellationSource::cancel for the client
    index          \* the loop variable of validate_idle

poolvars == <<leased, next, pc, mine, expired, cancelled, hooked, canceller, index>>

Entries == 0..(Size - 1)
Threads == Clients \cup {Validator}
Free == {e \in Entries : ~leased[e]}
Asleep == {c \in Clients : pc[c] = "asleep"}

PoolInit ==
    /\ leased = [e \in Entries |-> FALSE]
    /\ next = 0
    /\ pc = [t \in Threads |-> "idle"]
    /\ mine = [t \in Threads |-> None]
    /\ expired = [c \in Clients |-> FALSE]
    /\ cancelled = [c \in Clients |-> FALSE]
    /\ hooked = [c \in Clients |-> FALSE]
    /\ canceller = [c \in Clients |-> "idle"]
    /\ index = 0

PoolGoto(t, p) == pc' = [pc EXCEPT ![t] = p]

(* notify_all. *)
NotifyAll == [t \in Threads |-> IF t \in Asleep THEN "awake" ELSE pc[t]]

(* acquire: compute the deadline and register the wake callback; for a     *)
(* token already cancelled it is called at once and wakes the others.      *)
acquire(c) ==
    /\ pc[c] = "idle"
    /\ pc' = [(IF cancelled[c] THEN NotifyAll ELSE pc) EXCEPT ![c] = "scan"]
    /\ hooked' = [hooked EXCEPT ![c] = ~cancelled[c]]
    /\ UNCHANGED <<leased, next, mine, expired, cancelled, canceller, index>>

(* The loop over the offsets from next: entry f is visited before e, and   *)
(* e is the first one visited that is free.                                *)
Before(f, e) == IF next <= e THEN next <= f /\ f < e ELSE next <= f \/ f < e
FirstFree(e) == ~leased[e] /\ \A f \in Entries : Before(f, e) => leased[f]

(* acquire returns or throws: the registration is dropped, and the next    *)
(* call of this client starts with a new deadline.                         *)
Leave(c, p) ==
    /\ PoolGoto(c, p)
    /\ hooked' = [hooked EXCEPT ![c] = FALSE]
    /\ expired' = [expired EXCEPT ![c] = FALSE]

(* Mutant of reserve_entry: the entry is taken but not marked. *)
ReserveUnmarked(t, e) ==
    /\ mine' = [mine EXCEPT ![t] = e]
    /\ UNCHANGED leased

reserve_entry(t, e) ==
    /\ leased' = [leased EXCEPT ![e] = TRUE]
    /\ mine' = [mine EXCEPT ![t] = e]

(* One turn of the loop of acquire, under the mutex.                       *)
ScanCancelled(c) ==
    /\ pc[c] = "scan" /\ cancelled[c]
    /\ Leave(c, "idle")
    /\ UNCHANGED <<leased, next, mine, cancelled, canceller, index>>

Following(e) == (e + 1) % Size

ScanFinds(c) ==
    /\ pc[c] = "scan" /\ ~cancelled[c]
    /\ \E e \in Entries :
        /\ FirstFree(e)
        /\ reserve_entry(c, e)
        /\ next' = Following(e)
    /\ PoolGoto(c, "validating")
    /\ UNCHANGED <<expired, cancelled, hooked, canceller, index>>

ScanWaits(c) ==
    /\ pc[c] = "scan" /\ ~cancelled[c] /\ Free = {}
    /\ PoolGoto(c, "asleep")
    /\ UNCHANGED <<leased, next, mine, expired, cancelled, hooked, canceller, index>>

(* The deadline passes; a sleeper wakes for it, or for nothing.            *)
Expire(c) ==
    /\ c \in MayExpire
    /\ pc[c] \in {"scan", "asleep", "awake"} /\ ~expired[c]
    /\ expired' = [expired EXCEPT ![c] = TRUE]
    /\ UNCHANGED <<leased, next, pc, mine, cancelled, hooked, canceller, index>>

Wake(c) ==
    /\ pc[c] = "asleep"
    /\ PoolGoto(c, "awake")
    /\ UNCHANGED <<leased, next, mine, expired, cancelled, hooked, canceller, index>>

(* wait_until returns with the mutex held: a timeout throws, cancellation  *)
(* having the last word on which exception; otherwise scan again.          *)
Resume(c) ==
    /\ pc[c] = "awake"
    /\ IF expired[c] THEN Leave(c, "idle") ELSE PoolGoto(c, "scan") /\ UNCHANGED <<hooked, expired>>
    /\ UNCHANGED <<leased, next, mine, cancelled, canceller, index>>

(* The rest of acquire without the mutex: the client's token is checked,   *)
(* the entry is validated and, if broken, reconnected; the connection is   *)
(* handed out, or an exception returns the lease.                          *)
Validated(c) ==
    /\ pc[c] = "validating" /\ ~cancelled[c]
    /\ Leave(c, "holding")
    /\ UNCHANGED <<leased, next, mine, cancelled, canceller, index>>

ValidationFails(c) ==
    /\ pc[c] = "validating"
    /\ PoolGoto(c, "returning")
    /\ UNCHANGED <<leased, next, mine, expired, cancelled, hooked, canceller, index>>

(* The last copy of the connection goes away.                              *)
Finish(c) ==
    /\ pc[c] = "holding"
    /\ PoolGoto(c, "returning")
    /\ UNCHANGED <<leased, next, mine, expired, cancelled, hooked, canceller, index>>

(* ~EntryLease: the entry is marked free under the mutex ...               *)
Unlease(t) ==
    /\ pc[t] = "returning"
    /\ leased' = [leased EXCEPT ![mine[t]] = FALSE]
    /\ mine' = [mine EXCEPT ![t] = None]
    /\ PoolGoto(t, "notifying")
    /\ UNCHANGED <<next, expired, cancelled, hooked, canceller, index>>

(* What a thread does once its lease is gone: a client leaves acquire or   *)
(* the use of its connection; validate_idle goes on to the next entry, or  *)
(* ends with the exception of ensure_healthy.                              *)
After(t) == IF t = Validator THEN {"checking", "idle"} ELSE {"idle"}

Done(t, woken) ==
    /\ \E p \in After(t) :
        pc' = [u \in Threads |-> IF u = t THEN p ELSE IF u \in woken THEN "awake" ELSE pc[u]]
    /\ hooked' = [c \in Clients |-> hooked[c] /\ c # t]
    /\ expired' = [c \in Clients |-> expired[c] /\ c # t]

(* ... and then, without it, one waiting client is notified.               *)
Notify(t) ==
    /\ pc[t] = "notifying"
    /\ IF Asleep = {} THEN Done(t, {}) ELSE \E c \in Asleep : Done(t, {c})
    /\ UNCHANGED <<leased, next, mine, cancelled, canceller, index>>

(* validate_idle: each entry in turn, if free, is reserved and validated.  *)
BeginPass ==
    /\ pc[Validator] = "idle"
    /\ PoolGoto(Validator, "checking")
    /\ index' = 0
    /\ UNCHANGED <<leased, next, mine, expired, cancelled, hooked, canceller>>

CheckIdle ==
    /\ pc[Validator] = "checking" /\ index < Size
    /\ index' = index + 1
    /\ IF leased[index] THEN UNCHANGED <<leased, mine, pc>>
       ELSE reserve_entry(Validator, index) /\ PoolGoto(Validator, "returning")
    /\ UNCHANGED <<next, expired, cancelled, hooked, canceller>>

EndPass ==
    /\ pc[Validator] = "checking" /\ index = Size
    /\ PoolGoto(Validator, "idle")
    /\ UNCHANGED <<leased, next, mine, expired, cancelled, hooked, canceller, index>>

(* CancellationSource::cancel: set the flag, take the callbacks, call them.*)
Cancel(c) ==
    /\ c \in MayCancel /\ ~cancelled[c]
    /\ cancelled' = [cancelled EXCEPT ![c] = TRUE]
    /\ canceller' = [canceller EXCEPT ![c] = "set"]
    /\ UNCHANGED <<leased, next, pc, mine, expired, hooked, index>>

TakeCallbacks(c) ==
    /\ canceller[c] = "set"
    /\ canceller' = [canceller EXCEPT ![c] = IF hooked[c] THEN "calling" ELSE "idle"]
    /\ hooked' = [hooked EXCEPT ![c] = FALSE]
    /\ UNCHANGED <<leased, next, pc, mine, expired, cancelled, index>>

(* Mutant of WakeAll: the callback notifies one waiter, as a return does. *)
WakeOne(c) ==
    /\ canceller[c] = "calling"
    /\ canceller' = [canceller EXCEPT ![c] = "idle"]
    /\ IF Asleep = {} THEN UNCHANGED pc ELSE \E d \in Asleep : PoolGoto(d, "awake")
    /\ UNCHANGED <<leased, next, mine, expired, cancelled, hooked, index>>

(* The wake callback takes the mutex and notifies every waiting client.    *)
WakeAll(c) ==
    /\ canceller[c] = "calling"
    /\ canceller' = [canceller EXCEPT ![c] = "idle"]
    /\ pc' = NotifyAll
    /\ UNCHANGED <<leased, next, mine, expired, cancelled, hooked, index>>

PoolNext ==
    \/ \E c \in Clients :
        \/ acquire(c) \/ ScanCancelled(c) \/ ScanFinds(c) \/ ScanWaits(c)
        \/ Expire(c) \/ Wake(c) \/ Resume(c)
        \/ Validated(c) \/ ValidationFails(c) \/ Finish(c)
        \/ Cancel(c) \/ TakeCallbacks(c) \/ WakeAll(c)
    \/ \E t \in Threads : Unlease(t) \/ Notify(t)
    \/ BeginPass \/ CheckIdle \/ EndPass

PoolSpec == PoolInit /\ [][PoolNext]_poolvars

(* Every thread that runs keeps running, a holder gives its connection     *)
(* back, and a deadline that may pass does.                                *)
PoolFairness ==
    /\ \A c \in Clients :
        /\ WF_poolvars(ScanCancelled(c) \/ ScanFinds(c) \/ ScanWaits(c))
        /\ WF_poolvars(Expire(c)) /\ WF_poolvars(expired[c] /\ Wake(c)) /\ WF_poolvars(Resume(c))
        /\ WF_poolvars(Validated(c) \/ ValidationFails(c)) /\ WF_poolvars(Finish(c))
        /\ WF_poolvars(TakeCallbacks(c)) /\ WF_poolvars(WakeAll(c))
    /\ \A t \in Threads : WF_poolvars(Unlease(t)) /\ WF_poolvars(Notify(t))

FairPoolSpec == PoolSpec /\ PoolFairness

----------------------------------------------------------------------------
(* The variables hold values of their types. *)
PoolTypeOK ==
    /\ leased \in [Entries -> BOOLEAN]
    /\ next \in Entries
    /\ pc \in [Threads -> {"idle", "scan", "asleep", "awake", "validating", "holding",
                           "returning", "notifying", "checking"}]
    /\ mine \in [Threads -> Entries \cup {None}]
    /\ expired \in [Clients -> BOOLEAN]
    /\ cancelled \in [Clients -> BOOLEAN]
    /\ hooked \in [Clients -> BOOLEAN]
    /\ canceller \in [Clients -> {"idle", "set", "calling"}]
    /\ index \in 0..Size

(* src/database/pool.cpp: "The entry remains exclusive while driver        *)
(* callbacks run without the pool mutex."  A leased entry has one owner,   *)
(* an entry without one is not leased, and a thread that uses a connection *)
(* owns an entry.                                                          *)
Exclusive ==
    /\ \A e \in Entries : leased[e] <=> \E t \in Threads : mine[t] = e
    /\ \A t, u \in Threads : t # u /\ mine[t] # None => mine[t] # mine[u]
    /\ \A t \in Threads : pc[t] \in {"validating", "holding", "returning"} <=> mine[t] # None

(* src/database/pool.cpp: "cancellation cannot be lost just before         *)
(* wait_until()".  A call of acquire that is cancelled leaves its wait     *)
(* without the help of a deadline or of a returned connection, and one     *)
(* whose deadline passes returns or throws.                                *)
AcquireReturns ==
    /\ \A c \in Clients : cancelled[c] /\ pc[c] \in {"scan", "asleep", "awake"}
        ~> pc[c] \notin {"scan", "asleep", "awake"}
    /\ \A c \in MayExpire : pc[c] \in {"scan", "asleep", "awake", "validating"}
        ~> pc[c] \in {"holding", "idle"}

=============================================================================
