------------------------------ MODULE CacheLease ------------------------------
(***************************************************************************)
(* Repository::remember_locked for one key: callers that share a value     *)
(* store and a lock store, a factory that may throw, values and leases     *)
(* that expire or are removed, commands that fail with or without effect,  *)
(* and callers that die.                                                   *)
(*                                                                         *)
(* The clock is left out: a value or a lease may expire at any time.       *)
(***************************************************************************)
EXTENDS Naturals

CONSTANTS
    Users,        \* callers of remember_locked
    MaxCalls,     \* how many calls they make
    MaxLapses,    \* how often a value goes, or a lease expires
    MaxErrors,    \* failing commands, failing factories and deaths
    NoLease

ASSUME CacheAssumption == MaxCalls \in Nat /\ MaxLapses \in Nat /\ MaxErrors \in Nat

VARIABLES
    cached,     \* the value store has the key
    holder,     \* owner token in the lock store, NoLease when there is none
    leases,     \* owner tokens handed out so far
    user,       \* each caller: where it is, and the lease of its Lock
    calls,
    errors,
    starts,     \* how often the factory was started
    excused     \* reasons for one more start: a value gone, a lease expired
                \* under its owner, a call that came to nothing

cachevars == <<cached, holder, leases, user, calls, errors, starts, excused>>

Steps == {"idle", "get", "acquire", "again", "factory", "renew", "put", "release", "unwind"}

(* The variables hold values of their types, and every lease was handed    *)
(* out.                                                                    *)
CacheTypeOK ==
    /\ cached \in BOOLEAN /\ leases \in 0..MaxCalls /\ holder \in (1..leases) \cup {NoLease}
    /\ user \in [Users -> [at : Steps, lease : (1..leases) \cup {NoLease}]]
    /\ calls \in 0..MaxCalls /\ errors \in 0..MaxErrors
    /\ starts \in 0..leases /\ excused \in 0..(MaxLapses + MaxErrors)

CacheInit ==
    /\ cached = FALSE /\ holder = NoLease /\ leases = 0
    /\ user = [c \in Users |-> [at |-> "idle", lease |-> NoLease]]
    /\ calls = 0 /\ errors = 0 /\ starts = 0 /\ excused = 0

At(c, step) == user[c].at = step
GoOn(c, step) == user' = [user EXCEPT ![c].at = step]
Mistake == errors < MaxErrors /\ errors' = errors + 1
Excuse == excused' = excused + 1

-----------------------------------------------------------------------------
(* The lock store, for the lease a caller holds.                           *)

(* release deletes the key only while it carries the caller's token.       *)
DropLease(c) == holder' = IF holder = user[c].lease THEN NoLease ELSE holder

-----------------------------------------------------------------------------
Begin(c) ==
    /\ At(c, "idle") /\ calls < MaxCalls /\ calls' = calls + 1 /\ GoOn(c, "get")
    /\ UNCHANGED <<cached, holder, leases, errors, starts, excused>>

(* A hit returns it.                                                       *)
get(c) ==
    /\ At(c, "get")
    /\ GoOn(c, IF cached THEN "idle" ELSE "acquire")
    /\ UNCHANGED <<cached, holder, leases, calls, errors, starts, excused>>

(* SET NX: a lock that is held throws LockUnavailable.                     *)
acquire(c) ==
    /\ At(c, "acquire")
    /\ IF holder # NoLease
       THEN GoOn(c, "idle") /\ UNCHANGED <<holder, leases>>
       ELSE /\ leases' = leases + 1 /\ holder' = leases'
            /\ user' = [user EXCEPT ![c] = [at |-> "again", lease |-> leases']]
    /\ UNCHANGED <<cached, calls, errors, starts, excused>>

(* Mutant of GetAgain: the factory runs without a second look. *)
GetOnce(c) ==
    /\ At(c, "again") /\ GoOn(c, "factory") /\ starts' = starts + 1
    /\ UNCHANGED <<cached, holder, leases, calls, errors, excused>>

(* A value put between the first look and the lock is returned, and the    *)
(* Lock's destructor releases; on a miss the factory starts.               *)
GetAgain(c) ==
    /\ At(c, "again")
    /\ GoOn(c, IF cached THEN "unwind" ELSE "factory")
    /\ starts' = IF cached THEN starts ELSE starts + 1
    /\ UNCHANGED <<cached, holder, leases, calls, errors, excused>>

factory(c) ==
    /\ At(c, "factory") /\ GoOn(c, "renew")
    /\ UNCHANGED <<cached, holder, leases, calls, errors, starts, excused>>

(* A lease that is lost is forgotten and LockLost is thrown.               *)
renew(c) ==
    /\ At(c, "renew")
    /\ IF holder = user[c].lease THEN GoOn(c, "put")
       ELSE user' = [user EXCEPT ![c] = [at |-> "idle", lease |-> NoLease]]
    /\ UNCHANGED <<cached, holder, leases, calls, errors, starts, excused>>

put(c) ==
    /\ At(c, "put") /\ cached' = TRUE /\ GoOn(c, "release")
    /\ UNCHANGED <<holder, leases, calls, errors, starts, excused>>

(* The explicit release, and the one of ~State when the call unwinds.      *)
ReleaseLease(c) ==
    /\ At(c, "release") \/ At(c, "unwind")
    /\ DropLease(c)
    /\ user' = [user EXCEPT ![c] = [at |-> "idle", lease |-> NoLease]]
    /\ UNCHANGED <<cached, leases, calls, errors, starts, excused>>

-----------------------------------------------------------------------------
(* The factory throws, or a command does before or after it had its        *)
(* effect: the call unwinds.  A release that throws leaves the lease with  *)
(* ~State, which tries once more and ignores the error.                    *)
Fail(c) ==
    /\ Mistake
    /\ ~At(c, "idle")
    /\ IF At(c, "acquire")
       THEN /\ \/ UNCHANGED <<holder, leases>>
               \/ holder = NoLease /\ leases' = leases + 1 /\ holder' = leases'
            /\ UNCHANGED cached
       ELSE /\ cached' \in {cached, cached \/ At(c, "put")}
            /\ \/ UNCHANGED holder
               \/ (At(c, "release") \/ At(c, "unwind")) /\ DropLease(c)
            /\ UNCHANGED leases
    /\ user' = [user EXCEPT ![c] =
         IF @.lease = NoLease \/ At(c, "unwind") THEN [at |-> "idle", lease |-> NoLease]
         ELSE [@ EXCEPT !.at = "unwind"]]
    /\ IF At(c, "factory") \/ At(c, "renew") \/ (At(c, "put") /\ ~cached')
       THEN Excuse ELSE UNCHANGED excused
    /\ UNCHANGED <<calls, starts>>

(* The caller's process dies; its lease stays in the store.                *)
Die(c) ==
    /\ Mistake /\ ~At(c, "idle")
    /\ user' = [user EXCEPT ![c] = [at |-> "idle", lease |-> NoLease]]
    /\ IF At(c, "factory") \/ At(c, "renew") \/ At(c, "put")
       THEN Excuse ELSE UNCHANGED excused
    /\ UNCHANGED <<cached, holder, leases, calls, starts>>

(* The value expires, or forget or flush removes it.                       *)
ValueGoes ==
    /\ cached /\ excused < MaxLapses
    /\ cached' = FALSE /\ Excuse
    /\ UNCHANGED <<holder, leases, user, calls, errors, starts>>

(* A lease expires, in its owner's hands or after its owner's death.       *)
LeaseExpires ==
    /\ holder # NoLease /\ excused < MaxLapses
    /\ holder' = NoLease
    /\ IF \E c \in Users : user[c].lease = holder THEN Excuse ELSE UNCHANGED excused
    /\ UNCHANGED <<cached, leases, user, calls, errors, starts>>

-----------------------------------------------------------------------------
CacheNext ==
    \/ ValueGoes \/ LeaseExpires
    \/ \E c \in Users :
        \/ Begin(c) \/ get(c) \/ acquire(c) \/ GetAgain(c) \/ factory(c) \/ renew(c)
        \/ put(c) \/ ReleaseLease(c) \/ Fail(c) \/ Die(c)

CacheSpec == CacheInit /\ [][CacheNext]_cachevars

(* docs/cache.md: remember_locked "invokes the synchronous factory only on *)
(* a remaining miss".  The factory is started once, and once more only for *)
(* a value that went, a lease that expired under its owner, or a start     *)
(* that failed: never because callers met, or because a caller whose lease *)
(* expired released late.                                                  *)
OneStartPerMiss == starts <= 1 + excused
====
