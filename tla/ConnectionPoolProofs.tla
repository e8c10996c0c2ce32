------------------------ MODULE ConnectionPoolProofs ------------------------
(***************************************************************************)
(* Proofs about ConnectionPool, for any pool size and any set of clients.  *)
(* Exclusive is inductive together with the types: reserve_entry is called *)
(* only for an entry that is not leased, and a thread gives back the entry *)
(* it owns.                                                                *)
(***************************************************************************)
EXTENDS ConnectionPool, TLAPS

(* Types of what a lease touches. *)
LeaseTypes ==
    /\ leased \in [Entries -> BOOLEAN]
    /\ pc \in [Threads -> {"idle", "scan", "asleep", "awake", "validating", "holding",
                           "returning", "notifying", "checking"}]
    /\ mine \in [Threads -> Entries \cup {None}]
    /\ index \in Nat

LeaseInv == LeaseTypes /\ Exclusive

(* Where a thread owns an entry. *)
Owning == {"validating", "holding", "returning"}

LEMMA EntriesNat == Entries \subseteq Nat /\ None \notin Entries
BY PoolAssumption DEF Entries

(* A thread that owns nothing takes an entry that nobody owns. *)
LEMMA ReserveKeeps ==
    ASSUME LeaseInv, NEW t \in Threads, NEW e \in Entries, NEW p \in Owning \ {"holding"},
           ~leased[e], mine[t] = None, reserve_entry(t, e), PoolGoto(t, p), index' \in Nat
    PROVE  LeaseInv'
<1>1. LeaseTypes'
  BY DEF LeaseInv, LeaseTypes, reserve_entry, PoolGoto, Owning
<1>2. e # None
  BY EntriesNat
<1>3. /\ mine'[t] = e /\ \A u \in Threads : u # t => mine'[u] = mine[u]
      /\ leased'[e] /\ \A f \in Entries : f # e => leased'[f] = leased[f]
      /\ pc'[t] \in Owning /\ \A u \in Threads : u # t => pc'[u] = pc[u]
  BY DEF LeaseInv, LeaseTypes, reserve_entry, PoolGoto, Owning
<1>4. \A u \in Threads : mine[u] # e
  BY DEF LeaseInv, Exclusive
<1>5. \A f \in Entries : leased'[f] <=> \E u \in Threads : mine'[u] = f
  <2> SUFFICES ASSUME NEW f \in Entries PROVE leased'[f] <=> \E u \in Threads : mine'[u] = f
    OBVIOUS
  <2>1. CASE f = e
    BY <1>3, <2>1
  <2>2. CASE f # e
    <3>1. leased'[f] = leased[f] /\ (leased[f] <=> \E u \in Threads : mine[u] = f)
      BY <1>3, <2>2 DEF LeaseInv, Exclusive
    <3>2. f # None
      BY EntriesNat
    <3>3. \A u \in Threads : mine'[u] = f <=> mine[u] = f
      BY <1>3, <2>2, <3>2
    <3> QED
      BY <3>1, <3>3
  <2> QED
    BY <2>1, <2>2
<1>6. \A u, w \in Threads : u # w /\ mine'[u] # None => mine'[u] # mine'[w]
  BY <1>3, <1>4 DEF LeaseInv, Exclusive
<1>7. \A u \in Threads : pc'[u] \in Owning <=> mine'[u] # None
  BY <1>2, <1>3 DEF LeaseInv, Exclusive, Owning
<1>8. Exclusive'
  BY <1>5, <1>6, <1>7 DEF Exclusive, Owning
<1> QED
  BY <1>1, <1>8 DEF LeaseInv

(* A thread moves while leases stay as they are. *)
LEMMA MoveKeeps ==
    ASSUME LeaseInv, UNCHANGED <<leased, mine>>, index' \in Nat,
           pc' \in [Threads -> {"idle", "scan", "asleep", "awake", "validating", "holding",
                                "returning", "notifying", "checking"}],
           \A t \in Threads : pc'[t] \in Owning <=> pc[t] \in Owning
    PROVE  LeaseInv'
BY DEF LeaseInv, LeaseTypes, Exclusive, Owning

LEMMA ThreadsHold == Clients \subseteq Threads /\ Validator \in Threads
BY DEF Threads

(* Every step keeps the lease invariant. *)
LEMMA NextLeaseInv == LeaseInv /\ [PoolNext]_poolvars => LeaseInv'
<1> SUFFICES ASSUME LeaseInv, [PoolNext]_poolvars PROVE LeaseInv'
  OBVIOUS
<1>0. Clients \subseteq Threads /\ Validator \in Threads /\ index \in Nat
  BY ThreadsHold DEF LeaseInv, LeaseTypes
<1>1. ASSUME NEW c \in Clients, acquire(c) PROVE LeaseInv'
  BY <1>0, <1>1, MoveKeeps DEF acquire, NotifyAll, Asleep, LeaseInv, LeaseTypes, Owning
<1>2. ASSUME NEW c \in Clients, ScanCancelled(c) \/ ScanWaits(c) \/ Wake(c) \/ Resume(c) \/ Validated(c)
                                \/ ValidationFails(c) \/ Finish(c)
      PROVE LeaseInv'
  BY <1>0, <1>2, MoveKeeps
     DEF ScanCancelled, ScanWaits, Wake, Resume, Validated, ValidationFails, Finish, Leave, PoolGoto,
         LeaseInv, LeaseTypes, Owning
<1>3. ASSUME NEW c \in Clients, ScanFinds(c) PROVE LeaseInv'
  <2>1. PICK e \in Entries : ~leased[e] /\ reserve_entry(c, e)
    BY <1>3 DEF ScanFinds, FirstFree
  <2>2. c \in Threads /\ mine[c] = None /\ PoolGoto(c, "validating") /\ index' \in Nat
    BY <1>0, <1>3 DEF ScanFinds, LeaseInv, Exclusive
  <2> QED
    BY <2>1, <2>2, ReserveKeeps DEF Owning
<1>4. ASSUME NEW c \in Clients, Expire(c) \/ Cancel(c) \/ TakeCallbacks(c) PROVE LeaseInv'
  BY <1>0, <1>4, MoveKeeps DEF Expire, Cancel, TakeCallbacks, LeaseInv, LeaseTypes
<1>5. ASSUME NEW c \in Clients, WakeAll(c) PROVE LeaseInv'
  BY <1>0, <1>5, MoveKeeps DEF WakeAll, NotifyAll, Asleep, LeaseInv, LeaseTypes, Owning
<1>6. ASSUME NEW t \in Threads, Unlease(t) PROVE LeaseInv'
  <2>1. mine[t] \in Entries /\ mine[t] # None /\ None \notin Entries
    BY <1>6, EntriesNat DEF Unlease, LeaseInv, LeaseTypes, Exclusive
  <2>2. LeaseTypes'
    BY <1>0, <1>6, <2>1 DEF Unlease, PoolGoto, LeaseInv, LeaseTypes
  <2>3. Exclusive'
    BY <1>6, <2>1 DEF Unlease, PoolGoto, LeaseInv, LeaseTypes, Exclusive
  <2> QED
    BY <2>2, <2>3 DEF LeaseInv
<1>7. ASSUME NEW t \in Threads, Notify(t) PROVE LeaseInv'
  <2>1. PICK woken \in SUBSET Asleep : Done(t, woken)
    BY <1>7 DEF Notify
  <2>2. PICK p \in After(t) :
            pc' = [u \in Threads |-> IF u = t THEN p ELSE IF u \in woken THEN "awake" ELSE pc[u]]
    BY <2>1 DEF Done
  <2>3. p \in {"checking", "idle"}
    BY <2>2 DEF After
  <2>4. pc[t] = "notifying" /\ UNCHANGED <<leased, mine>> /\ index' \in Nat
    BY <1>0, <1>7 DEF Notify
  <2> QED
    BY <2>1, <2>2, <2>3, <2>4, MoveKeeps DEF Asleep, LeaseInv, LeaseTypes, Owning
<1>8. ASSUME BeginPass \/ EndPass PROVE LeaseInv'
  BY <1>0, <1>8, MoveKeeps DEF BeginPass, EndPass, PoolGoto, LeaseInv, LeaseTypes, Owning
<1>9. ASSUME CheckIdle PROVE LeaseInv'
  <2>1. CASE leased[index]
    BY <1>0, <1>9, <2>1, MoveKeeps DEF CheckIdle, LeaseInv, LeaseTypes
  <2>2. CASE ~leased[index]
    <3>1. index \in Entries /\ mine[Validator] = None /\ index' \in Nat
      BY <1>0, <1>9, PoolAssumption DEF CheckIdle, Entries, LeaseInv, Exclusive
    <3> QED
      BY <1>0, <1>9, <2>2, <3>1, ReserveKeeps DEF CheckIdle, Owning
  <2> QED
    BY <2>1, <2>2
<1>10. CASE UNCHANGED poolvars
  BY <1>0, <1>10, MoveKeeps DEF poolvars, LeaseInv, LeaseTypes
<1> QED
  BY <1>1, <1>2, <1>3, <1>4, <1>5, <1>6, <1>7, <1>8, <1>9, <1>10 DEF PoolNext

LEMMA InitLeaseInv == PoolInit => LeaseInv
BY EntriesNat DEF PoolInit, LeaseInv, LeaseTypes, Exclusive

(* An entry has one owner from its reservation until its lease is given    *)
(* back, and only owned entries are leased, whatever runs without the pool *)
(* mutex meanwhile (src/database/pool.cpp, EntryLease and reserve_entry).  *)
THEOREM LeasesExclusive == PoolSpec => []Exclusive
<1>1. LeaseInv => Exclusive
  BY DEF LeaseInv
<1> QED
  BY <1>1, InitLeaseInv, NextLeaseInv, PTL DEF PoolSpec
=============================================================================
