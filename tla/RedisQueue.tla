----------------------------- MODULE RedisQueue -----------------------------
(***************************************************************************)
(* The Redis queue driver: six Redis keys and the Lua scripts that change   *)
(* them.  Redis runs a script to the end before it starts another one, so   *)
(* every script is one action.  Next lets any client call any script with   *)
(* any reservation token, also a token that was never issued or that has    *)
(* been superseded; module QueueWorker restricts the calls to the ones a    *)
(* worker makes.                                                            *)
(*                                                                          *)
(* A sorted-set score is a point in time; it is kept here as the time that  *)
(* is left until the score is reached, so that "score <= now" is "nothing   *)
(* left" and Tick lets one unit of the Redis clock pass.  The order among   *)
(* entries that are already due is left open.                               *)
(***************************************************************************)
EXTENDS Naturals, Sequences, FiniteSets

CONSTANTS
    Ids,          \* job identifiers
    Tokens,       \* reservation tokens (security::random_token)
    None,         \* an absent hash field or sorted-set member
    MaxAttempts,  \* Envelope::max_attempts, the same for every job
    Visibility,   \* RedisSettings::visibility_timeout
    Delays        \* the delays that callers pass

ASSUME QueueAssumption ==
    /\ IsFiniteSet(Ids)
    /\ None \notin Nat /\ None \notin Tokens
    /\ MaxAttempts \in Nat \ {0}
    /\ Visibility \in Nat \ {0}
    /\ Delays \subseteq Nat

VARIABLES
    jobs,      \* hash  id -> payload, of which attempts is kept
    ready,     \* list  of ids
    delayed,   \* zset  id -> time left until the job is due
    reserved,  \* zset  id -> time left until the lease runs out
    leases,    \* hash  id -> token of the current reservation
    failed     \* hash  id -> payload, of which attempts is kept

store == <<jobs, ready, delayed, reserved, leases, failed>>

Attempts == 0..MaxAttempts

InReady(id) == \E i \in 1..Len(ready) : ready[i] = id

(* The orders in which the members of S can come out of ZRANGEBYSCORE. *)
Orders(S) ==
    {s \in [1..Cardinality(S) -> S] :
        /\ \A i, j \in 1..Cardinality(S) : s[i] = s[j] => i = j
        /\ \A id \in S : \E i \in 1..Cardinality(S) : s[i] = id}

Known(S) == {id \in S : jobs[id] # None}

Clear(zset, S) == [id \in Ids |-> IF id \in S THEN None ELSE zset[id]]

-----------------------------------------------------------------------------

QInit ==
    /\ jobs = [id \in Ids |-> None]
    /\ ready = << >>
    /\ delayed = [id \in Ids |-> None]
    /\ reserved = [id \in Ids |-> None]
    /\ leases = [id \in Ids |-> None]
    /\ failed = [id \in Ids |-> None]

(* The tail shared by push_later and release_after: a positive delay goes   *)
(* to the sorted set, anything else straight to the list.                   *)
Enqueue(id, delay) ==
    \/ /\ delay = 0
       /\ ready' = Append(ready, id)
       /\ UNCHANGED delayed
    \/ /\ delay > 0
       /\ delayed' = [delayed EXCEPT ![id] = delay]
       /\ UNCHANGED ready

(* An id that is active or failed is refused: the script returns 0 and the  *)
(* driver throws.                                                           *)
Push(id) ==
    /\ jobs[id] = None /\ failed[id] = None
    /\ jobs' = [jobs EXCEPT ![id] = 0]
    /\ ready' = Append(ready, id)
    /\ UNCHANGED <<delayed, reserved, leases, failed>>

PushLater(id, delay) ==
    /\ jobs[id] = None /\ failed[id] = None
    /\ jobs' = [jobs EXCEPT ![id] = 0]
    /\ Enqueue(id, delay)
    /\ UNCHANGED <<reserved, leases, failed>>

(* Mutants of Expired: leases taken back one unit early; never taken back. *)
ExpiredEarly == {id \in Ids : reserved[id] \in {0, 1}}
ExpiredNever == {}

(* The two sweeps at the start of pop: due delayed jobs, then jobs whose    *)
(* lease ran out, are appended to the ready list in that order.             *)
Due == {id \in Ids : delayed[id] = 0}

Expired == {id \in Ids : reserved[id] = 0}

Swept == {ready \o d \o e : d \in Orders(Known(Due)), e \in Orders(Known(Expired))}

(* The script takes ids off the list until one still has a payload, and     *)
(* leases that one under the caller's token.                                *)
Pop(id, token) ==
    \E r \in Swept : \E i \in 1..Len(r) :
        /\ r[i] = id /\ jobs[id] # None
        /\ \A j \in 1..(i - 1) : jobs[r[j]] = None
        /\ ready' = SubSeq(r, i + 1, Len(r))
        /\ delayed' = Clear(delayed, Due)
        /\ reserved' = [Clear(reserved, Expired) EXCEPT ![id] = Visibility]
        /\ leases' = [Clear(leases, Expired) EXCEPT ![id] = token]
        /\ UNCHANGED <<jobs, failed>>

PopNil ==
    \E r \in Swept :
        /\ \A i \in 1..Len(r) : jobs[r[i]] = None
        /\ ready' = << >>
        /\ delayed' = Clear(delayed, Due)
        /\ reserved' = Clear(reserved, Expired)
        /\ leases' = Clear(leases, Expired)
        /\ UNCHANGED <<jobs, failed>>

(* Mutants of Holds: a missing lease passes; any lease passes. *)
HoldsOrNone(id, token) == leases[id] = token \/ leases[id] = None
HoldsAny(id, token) == leases[id] # None /\ token # None

(* A call with any other token than the one of the current lease returns 0  *)
(* and changes nothing: see Refused.                                        *)
Holds(id, token) == leases[id] = token

Refused(id, token) == ~ Holds(id, token) /\ UNCHANGED store

(* Mutant of Acknowledge: the deadline stays in the sorted set. *)
AcknowledgeKeepsDeadline(id, token) ==
    /\ Holds(id, token)
    /\ leases' = [leases EXCEPT ![id] = None]
    /\ jobs' = [jobs EXCEPT ![id] = None]
    /\ UNCHANGED <<ready, delayed, reserved, failed>>

Acknowledge(id, token) ==
    /\ Holds(id, token)
    /\ leases' = [leases EXCEPT ![id] = None]
    /\ reserved' = [reserved EXCEPT ![id] = None]
    /\ jobs' = [jobs EXCEPT ![id] = None]
    /\ UNCHANGED <<ready, delayed, failed>>

ReleaseAfter(id, token, attempts, delay) ==
    /\ Holds(id, token)
    /\ jobs' = [jobs EXCEPT ![id] = attempts]
    /\ leases' = [leases EXCEPT ![id] = None]
    /\ reserved' = [reserved EXCEPT ![id] = None]
    /\ Enqueue(id, delay)
    /\ UNCHANGED failed

(* Mutant of Fail: counts the attempt a second time. *)
FailCountsTwice(id, token, attempts) ==
    /\ Holds(id, token)
    /\ failed' = [failed EXCEPT ![id] = attempts + 1]
    /\ jobs' = [jobs EXCEPT ![id] = None]
    /\ leases' = [leases EXCEPT ![id] = None]
    /\ reserved' = [reserved EXCEPT ![id] = None]
    /\ UNCHANGED <<ready, delayed>>

(* The score is not compared with the clock: a lease that ran out but was   *)
(* not swept yet is alive again.                                            *)
Renew(id, token) ==
    /\ Holds(id, token)
    /\ reserved' = [reserved EXCEPT ![id] = Visibility]
    /\ UNCHANGED <<jobs, ready, delayed, leases, failed>>

Fail(id, token, attempts) ==
    /\ Holds(id, token)
    /\ failed' = [failed EXCEPT ![id] = attempts]
    /\ jobs' = [jobs EXCEPT ![id] = None]
    /\ leases' = [leases EXCEPT ![id] = None]
    /\ reserved' = [reserved EXCEPT ![id] = None]
    /\ UNCHANGED <<ready, delayed>>

(* retry_failed reads the record with HGET and passes what it read to the   *)
(* script, which compares it with the record of that moment.                *)
RetryFailed(id, persisted) ==
    /\ failed[id] # None /\ failed[id] = persisted
    /\ jobs[id] = None
    /\ failed' = [failed EXCEPT ![id] = None]
    /\ jobs' = [jobs EXCEPT ![id] = 0]
    /\ ready' = Append(ready, id)
    /\ UNCHANGED <<delayed, reserved, leases>>

ForgetFailed(id) ==
    /\ failed[id] # None
    /\ failed' = [failed EXCEPT ![id] = None]
    /\ UNCHANGED <<jobs, ready, delayed, reserved, leases>>

Flush ==
    /\ jobs' = [id \in Ids |-> None]
    /\ ready' = << >>
    /\ delayed' = [id \in Ids |-> None]
    /\ reserved' = [id \in Ids |-> None]
    /\ leases' = [id \in Ids |-> None]
    /\ failed' = [id \in Ids |-> None]

(* One unit of the Redis clock. *)
Pass(zset) ==
    [id \in Ids |-> IF zset[id] \in Nat \ {0} THEN zset[id] - 1 ELSE zset[id]]

Tick ==
    /\ delayed' = Pass(delayed)
    /\ reserved' = Pass(reserved)
    /\ UNCHANGED <<jobs, ready, leases, failed>>

-----------------------------------------------------------------------------

QNext ==
    \/ \E id \in Ids : Push(id)
    \/ \E id \in Ids, delay \in Delays : PushLater(id, delay)
    \/ \E id \in Ids, token \in Tokens : Pop(id, token)
    \/ PopNil
    \/ \E id \in Ids, token \in Tokens : Acknowledge(id, token)
    \/ \E id \in Ids, token \in Tokens, n \in Attempts, delay \in Delays :
          ReleaseAfter(id, token, n, delay)
    \/ \E id \in Ids, token \in Tokens : Renew(id, token)
    \/ \E id \in Ids, token \in Tokens, n \in Attempts : Fail(id, token, n)
    \/ \E id \in Ids, n \in Attempts : RetryFailed(id, n)
    \/ \E id \in Ids : ForgetFailed(id)
    \/ Flush
    \/ Tick

QSpec == QInit /\ [][QNext]_store

-----------------------------------------------------------------------------

(* Every key holds values of its kind. *)
QTypeOK ==
    /\ jobs \in [Ids -> Attempts \cup {None}]
    /\ ready \in Seq(Ids)
    /\ delayed \in [Ids -> Nat \cup {None}]
    /\ reserved \in [Ids -> Nat \cup {None}]
    /\ leases \in [Ids -> Tokens \cup {None}]
    /\ failed \in [Ids -> Attempts \cup {None}]

(* No id is on the ready list twice, so one pop cannot lead to two          *)
(* deliveries of the same push (push, release, retry and the two sweeps of  *)
(* pop all append to that list).                                            *)
ReadyOnce ==
    \A i, j \in 1..Len(ready) : ready[i] = ready[j] => i = j

(* A job whose payload is stored is reachable: it is on the ready list,     *)
(* waits for its delay or is leased; and nothing else is in those places.   *)
(* A payload in none of them would never be delivered again.                *)
ActiveIsPlaced ==
    \A id \in Ids :
        jobs[id] # None <=>
            InReady(id) \/ delayed[id] # None \/ reserved[id] # None

(* The three places exclude each other. *)
OnePlace ==
    \A id \in Ids :
        /\ ~ (InReady(id) /\ delayed[id] # None)
        /\ ~ (InReady(id) /\ reserved[id] # None)
        /\ ~ (delayed[id] # None /\ reserved[id] # None)

(* A job has a lease token exactly while it has a lease deadline: without   *)
(* the deadline the sweep of pop would never take the lease back, without   *)
(* the token its holder could not settle it.                                *)
LeaseHasDeadline ==
    \A id \in Ids : leases[id] # None <=> reserved[id] # None

(* A job is never both active and in the failed record: pushes test both    *)
(* hashes, fail and retry move between them.                                *)
ActiveOrFailed ==
    \A id \in Ids : ~ (jobs[id] # None /\ failed[id] # None)

(* The six keys agree with each other after every script. *)
KeysAgree ==
    /\ ReadyOnce
    /\ ActiveIsPlaced
    /\ OnePlace
    /\ LeaseHasDeadline
    /\ ActiveOrFailed

-----------------------------------------------------------------------------

(* What the keys say about a job, in the terms of module JobLedger. *)
Status(id) ==
    IF leases[id] # None THEN "leased"
    ELSE IF jobs[id] # None THEN "waiting"
    ELSE IF failed[id] # None THEN "failed"
    ELSE "absent"

Statuses == [id \in Ids |-> Status(id)]

Ledger == INSTANCE JobLedger WITH status <- Statuses

(* The driver implements the ledger: a waiting job is never dropped or      *)
(* declared failed, only a leased job is completed, retried or failed, and  *)
(* only a failed one is revived or forgotten.                               *)
ImplementsLedger == Ledger!LedgerSpec
=============================================================================
