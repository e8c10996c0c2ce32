-------------------------- MODULE RedisQueueProofs --------------------------
(* Proofs about module RedisQueue, for any sets of job ids and tokens. *)
EXTENDS RedisQueue, FiniteSetTheorems, TLAPS

(* A sequence in which no element occurs twice. *)
Injective(s) == \A i, j \in 1..Len(s) : s[i] = s[j] => i = j

(* x occurs in s. *)
Occurs(x, s) == \E i \in 1..Len(s) : s[i] = x

(* Append adds one occurrence at the end (RPUSH). *)
LEMMA AppendFacts ==
    ASSUME NEW S, NEW s \in Seq(S), NEW x \in S
    PROVE  /\ Append(s, x) \in Seq(S)
           /\ \A y : Occurs(y, Append(s, x)) <=> Occurs(y, s) \/ y = x
           /\ Injective(s) /\ ~ Occurs(x, s) => Injective(Append(s, x))
<1> DEFINE a == Append(s, x)
<1>1. a \in Seq(S) /\ Len(a) = Len(s) + 1 /\ Len(s) \in Nat
  OBVIOUS
<1>2. \A i \in 1..Len(s) : a[i] = s[i]
  OBVIOUS
<1>3. a[Len(s) + 1] = x
  OBVIOUS
<1> HIDE DEF a
<1>4. ASSUME NEW y
      PROVE  Occurs(y, a) <=> Occurs(y, s) \/ y = x
  BY <1>1, <1>2, <1>3 DEF Occurs
<1>5. ASSUME Injective(s), ~ Occurs(x, s)
      PROVE  Injective(a)
  BY <1>1, <1>2, <1>3, <1>5 DEF Injective, Occurs
<1> QED
  BY <1>1, <1>4, <1>5 DEF a

(* Concatenation holds the elements of both parts. *)
LEMMA ConcatFacts ==
    ASSUME NEW S, NEW s \in Seq(S), NEW t \in Seq(S)
    PROVE  /\ s \o t \in Seq(S)
           /\ \A y : Occurs(y, s \o t) <=> Occurs(y, s) \/ Occurs(y, t)
           /\ Injective(s) /\ Injective(t) /\ (\A y : ~ (Occurs(y, s) /\ Occurs(y, t)))
                => Injective(s \o t)
<1> DEFINE c == s \o t
<1>1. c \in Seq(S) /\ Len(c) = Len(s) + Len(t) /\ Len(s) \in Nat /\ Len(t) \in Nat
  OBVIOUS
<1>2. \A i \in 1..Len(s) : c[i] = s[i]
  OBVIOUS
<1>3. \A i \in 1..Len(t) : c[Len(s) + i] = t[i]
  OBVIOUS
<1> HIDE DEF c
<1>4. \A i \in 1..Len(c) : i \in 1..Len(s) \/ (i - Len(s) \in 1..Len(t) /\ c[i] = t[i - Len(s)])
  <2> TAKE i \in 1..Len(c)
  <2>1. CASE i <= Len(s)
    BY <1>1, <2>1
  <2>2. CASE i > Len(s)
    <3>1. i - Len(s) \in 1..Len(t) /\ i = Len(s) + (i - Len(s))
      BY <1>1, <2>2
    <3> QED
      BY <1>3, <3>1
  <2> QED
    BY <1>1, <2>1, <2>2
<1>5. ASSUME NEW y
      PROVE  Occurs(y, c) <=> Occurs(y, s) \/ Occurs(y, t)
  <2>1. ASSUME Occurs(y, t)
        PROVE  Occurs(y, c)
    <3>1. PICK i \in 1..Len(t) : t[i] = y
      BY <2>1 DEF Occurs
    <3>2. Len(s) + i \in 1..Len(c)
      BY <1>1
    <3> QED
      BY <1>3, <3>1, <3>2 DEF Occurs
  <2>2. ASSUME Occurs(y, s)
        PROVE  Occurs(y, c)
    BY <1>1, <1>2, <2>2 DEF Occurs
  <2>3. ASSUME Occurs(y, c)
        PROVE  Occurs(y, s) \/ Occurs(y, t)
    BY <1>2, <1>4, <2>3 DEF Occurs
  <2> QED
    BY <2>1, <2>2, <2>3
<1>6. ASSUME Injective(s), Injective(t), \A y : ~ (Occurs(y, s) /\ Occurs(y, t))
      PROVE  Injective(c)
  <2> SUFFICES ASSUME NEW i \in 1..Len(c), NEW j \in 1..Len(c), c[i] = c[j]
               PROVE  i = j
    BY DEF Injective
  <2>1. CASE i \in 1..Len(s) /\ j \in 1..Len(s)
    BY <1>2, <1>6, <2>1 DEF Injective
  <2>2. CASE i \notin 1..Len(s) /\ j \notin 1..Len(s)
    <3>1. i - Len(s) = j - Len(s)
      BY <1>4, <1>6, <2>2 DEF Injective
    <3> QED
      BY <1>1, <3>1
  <2>3. CASE i \in 1..Len(s) /\ j \notin 1..Len(s)
    BY <1>2, <1>4, <1>6, <2>3 DEF Occurs
  <2>4. CASE i \notin 1..Len(s) /\ j \in 1..Len(s)
    BY <1>2, <1>4, <1>6, <2>4 DEF Occurs
  <2> QED
    BY <2>1, <2>2, <2>3, <2>4
<1> QED
  BY <1>1, <1>5, <1>6 DEF c

(* The rest of a sequence after position i. *)
LEMMA SuffixFacts ==
    ASSUME NEW S, NEW s \in Seq(S), NEW i \in 1..Len(s)
    PROVE  /\ SubSeq(s, i + 1, Len(s)) \in Seq(S)
           /\ \A y : Occurs(y, SubSeq(s, i + 1, Len(s))) <=> \E j \in (i + 1)..Len(s) : s[j] = y
           /\ Injective(s) => Injective(SubSeq(s, i + 1, Len(s)))
<1> DEFINE u == SubSeq(s, i + 1, Len(s))
<1>1. u \in Seq(S) /\ Len(u) = Len(s) - i /\ Len(s) \in Nat
  OBVIOUS
<1>2. \A j \in 1..(Len(s) - i) : u[j] = s[i + j]
  OBVIOUS
<1> HIDE DEF u
<1>3. ASSUME NEW y
      PROVE  Occurs(y, u) <=> \E j \in (i + 1)..Len(s) : s[j] = y
  <2>1. ASSUME Occurs(y, u)
        PROVE  \E j \in (i + 1)..Len(s) : s[j] = y
    <3>1. PICK k \in 1..Len(u) : u[k] = y
      BY <2>1 DEF Occurs
    <3>2. i + k \in (i + 1)..Len(s)
      BY <1>1
    <3> QED
      BY <1>1, <1>2, <3>1, <3>2
  <2>2. ASSUME NEW j \in (i + 1)..Len(s), s[j] = y
        PROVE  Occurs(y, u)
    <3>1. j - i \in 1..Len(u) /\ i + (j - i) = j
      BY <1>1
    <3> QED
      BY <1>1, <1>2, <2>2, <3>1 DEF Occurs
  <2> QED
    BY <2>1, <2>2
<1>4. ASSUME Injective(s)
      PROVE  Injective(u)
  <2> SUFFICES ASSUME NEW j \in 1..Len(u), NEW k \in 1..Len(u), u[j] = u[k]
               PROVE  j = k
    BY DEF Injective
  <2>1. i + j \in 1..Len(s) /\ i + k \in 1..Len(s)
    BY <1>1
  <2>2. i + j = i + k
    BY <1>1, <1>2, <1>4, <2>1 DEF Injective
  <2> QED
    BY <2>2
<1> QED
  BY <1>1, <1>3, <1>4 DEF u

(* An order of S lists every member of S once. *)
LEMMA OrderFacts ==
    ASSUME NEW S \in SUBSET Ids, NEW s \in Orders(S)
    PROVE  /\ s \in Seq(Ids)
           /\ Injective(s)
           /\ \A y : Occurs(y, s) <=> y \in S
<1>1. Cardinality(S) \in Nat
  BY QueueAssumption, FS_Subset, FS_CardinalityType
<1>2. s \in [1..Cardinality(S) -> S]
  BY DEF Orders
<1>3. s \in Seq(Ids) /\ Len(s) = Cardinality(S)
  BY <1>1, <1>2
<1> QED
  BY <1>2, <1>3 DEF Orders, Injective, Occurs

-----------------------------------------------------------------------------

(* The typed state in which the six keys agree. *)
QInv == QTypeOK /\ KeysAgree

(* InReady and ReadyOnce in the terms of the lemmas on sequences. *)
LEMMA ReadyFacts ==
    /\ \A id : InReady(id) <=> Occurs(id, ready)
    /\ ReadyOnce <=> Injective(ready)
BY DEF InReady, Occurs, ReadyOnce, Injective

(* The list that pop scans holds the ready jobs, the due ones and the ones  *)
(* whose lease ran out, each once.                                          *)
LEMMA SweptFacts ==
    ASSUME QInv, NEW r \in Swept
    PROVE  /\ r \in Seq(Ids)
           /\ Injective(r)
           /\ \A id \in Ids : Occurs(id, r) <=> InReady(id) \/ id \in Due \/ id \in Expired
<1>1. PICK d \in Orders(Known(Due)), e \in Orders(Known(Expired)) : r = (ready \o d) \o e
  BY DEF Swept
<1>2. Known(Due) \in SUBSET Ids /\ Known(Expired) \in SUBSET Ids
  BY DEF Known, Due, Expired
<1>3. /\ d \in Seq(Ids) /\ Injective(d) /\ \A y : Occurs(y, d) <=> y \in Known(Due)
      /\ e \in Seq(Ids) /\ Injective(e) /\ \A y : Occurs(y, e) <=> y \in Known(Expired)
  BY <1>2, OrderFacts
<1>4. ready \in Seq(Ids) /\ Injective(ready) /\ \A y : Occurs(y, ready) <=> InReady(y)
  BY ReadyFacts DEF QInv, QTypeOK, KeysAgree
<1>5. \A id \in Ids : /\ id \in Due => delayed[id] # None
                      /\ id \in Expired => reserved[id] # None
  BY QueueAssumption DEF Due, Expired
<1>6. /\ Known(Due) = Due /\ Known(Expired) = Expired
      /\ \A id \in Ids : ~ (id \in Due /\ InReady(id))
      /\ \A id \in Ids : ~ (id \in Expired /\ InReady(id))
      /\ \A id \in Ids : ~ (id \in Expired /\ id \in Due)
  BY <1>5 DEF Known, Due, Expired, QInv, KeysAgree, ActiveIsPlaced, OnePlace
<1>7. /\ ready \o d \in Seq(Ids)
      /\ \A y : Occurs(y, ready \o d) <=> Occurs(y, ready) \/ Occurs(y, d)
      /\ Injective(ready \o d)
  <2>1. \A y : ~ (Occurs(y, ready) /\ Occurs(y, d))
    BY <1>2, <1>3, <1>4, <1>6
  <2> QED
    BY <1>3, <1>4, <2>1, ConcatFacts
<1>8. \A y : ~ (Occurs(y, ready \o d) /\ Occurs(y, e))
  BY <1>2, <1>3, <1>4, <1>6, <1>7
<1>9. /\ (ready \o d) \o e \in Seq(Ids)
      /\ \A y : Occurs(y, (ready \o d) \o e) <=> Occurs(y, ready \o d) \/ Occurs(y, e)
      /\ Injective((ready \o d) \o e)
  BY <1>3, <1>7, <1>8, ConcatFacts
<1> QED
  BY <1>1, <1>3, <1>4, <1>6, <1>7, <1>9

(* The effect of the common tail of push_later and release_after on the     *)
(* ready list and the delayed set, for a job that is in neither.            *)
LEMMA EnqueueFacts ==
    ASSUME QTypeOK, ReadyOnce, NEW id \in Ids, NEW delay \in Nat, Enqueue(id, delay),
           ~ InReady(id), delayed[id] = None
    PROVE  /\ ready' \in Seq(Ids) /\ ReadyOnce'
           /\ delayed' \in [Ids -> Nat \cup {None}]
           /\ \A x \in Ids \ {id} : (InReady(x)' <=> InReady(x)) /\ delayed'[x] = delayed[x]
           /\ (InReady(id)' /\ delayed'[id] = None) \/ (~ InReady(id)' /\ delayed'[id] # None)
<1>0. (\A x : InReady(x)' <=> Occurs(x, ready')) /\ (ReadyOnce' <=> Injective(ready'))
  BY DEF InReady, Occurs, ReadyOnce, Injective
<1>1. CASE delay = 0
  <2>1. ready' = Append(ready, id) /\ delayed' = delayed
    BY <1>1 DEF Enqueue
  <2>2. ready \in Seq(Ids) /\ Injective(ready) /\ ~ Occurs(id, ready)
    BY ReadyFacts DEF QTypeOK
  <2>3. /\ Append(ready, id) \in Seq(Ids)
        /\ \A y : Occurs(y, Append(ready, id)) <=> Occurs(y, ready) \/ y = id
        /\ Injective(Append(ready, id))
    BY <2>2, AppendFacts
  <2> QED
    BY <1>0, <2>1, <2>3, ReadyFacts DEF QTypeOK
<1>2. CASE delay > 0
  <2>1. ready' = ready /\ delayed' = [delayed EXCEPT ![id] = delay]
    BY <1>2 DEF Enqueue
  <2>2. delay # None
    BY QueueAssumption
  <2> QED
    BY <1>0, <2>1, <2>2, ReadyFacts DEF QTypeOK
<1> QED
  BY <1>1, <1>2

-----------------------------------------------------------------------------

(* The empty queue satisfies the invariant. *)
LEMMA InitQInv == QInit => QInv
BY QueueAssumption
   DEF QInit, QInv, QTypeOK, Attempts, KeysAgree, ReadyOnce, ActiveIsPlaced, OnePlace,
       LeaseHasDeadline, ActiveOrFailed, InReady

(* The scripts that put a job in, or back, without touching its lease:      *)
(* push, push_later, retry_failed.                                          *)
LEMMA EnterQInv ==
    ASSUME QInv, NEW id \in Ids, NEW delay \in Nat,
           jobs[id] = None, failed'[id] = None,
           jobs' = [jobs EXCEPT ![id] = 0],
           Enqueue(id, delay),
           UNCHANGED <<reserved, leases>>,
           failed' \in [Ids -> Attempts \cup {None}],
           \A x \in Ids \ {id} : failed'[x] = failed[x]
    PROVE  QInv'
<1>1. ~ InReady(id) /\ delayed[id] = None /\ reserved[id] = None
  BY DEF QInv, KeysAgree, ActiveIsPlaced
<1>2. /\ ready' \in Seq(Ids) /\ ReadyOnce'
      /\ delayed' \in [Ids -> Nat \cup {None}]
      /\ \A x \in Ids \ {id} : (InReady(x)' <=> InReady(x)) /\ delayed'[x] = delayed[x]
      /\ (InReady(id)' /\ delayed'[id] = None) \/ (~ InReady(id)' /\ delayed'[id] # None)
  BY <1>1, EnqueueFacts DEF QInv, KeysAgree
<1>3. 0 \in Attempts /\ 0 # None
  BY QueueAssumption DEF Attempts
<1>4. QTypeOK'
  BY <1>2, <1>3 DEF QInv, QTypeOK
<1>5. jobs'[id] # None /\ \A x \in Ids \ {id} : jobs'[x] = jobs[x]
  BY <1>3 DEF QInv, QTypeOK
<1>6. ActiveIsPlaced'
  BY <1>2, <1>5 DEF QInv, KeysAgree, ActiveIsPlaced
<1>7. OnePlace'
  BY <1>1, <1>2 DEF QInv, KeysAgree, OnePlace
<1>8. LeaseHasDeadline' /\ ActiveOrFailed'
  BY <1>5 DEF QInv, KeysAgree, LeaseHasDeadline, ActiveOrFailed
<1> QED
  BY <1>2, <1>4, <1>6, <1>7, <1>8 DEF QInv, KeysAgree

(* pop, with or without a result: Taken is the set of jobs it leases.       *)
LEMMA PopQInv ==
    ASSUME QInv, NEW token \in Tokens, NEW Taken \in SUBSET Ids, NEW r \in Swept,
           ready' \in Seq(Ids), Injective(ready'),
           \A x \in Ids : Occurs(x, ready') <=> Occurs(x, r) /\ x \notin Taken,
           \A x \in Taken : Occurs(x, r),
           delayed' = Clear(delayed, Due),
           reserved' = [x \in Ids |-> IF x \in Taken THEN Visibility
                                      ELSE Clear(reserved, Expired)[x]],
           leases' = [x \in Ids |-> IF x \in Taken THEN token
                                    ELSE Clear(leases, Expired)[x]],
           UNCHANGED <<jobs, failed>>
    PROVE  QInv'
<1>1. \A x \in Ids : Occurs(x, r) <=> InReady(x) \/ x \in Due \/ x \in Expired
  BY SweptFacts
<1>2. \A x \in Ids : InReady(x)' <=> (InReady(x) \/ x \in Due \/ x \in Expired) /\ x \notin Taken
  BY <1>1 DEF InReady, Occurs
<1>3. /\ \A x \in Ids : delayed'[x] = IF x \in Due THEN None ELSE delayed[x]
      /\ \A x \in Ids : reserved'[x] = IF x \in Taken THEN Visibility
                                       ELSE IF x \in Expired THEN None ELSE reserved[x]
      /\ \A x \in Ids : leases'[x] = IF x \in Taken THEN token
                                     ELSE IF x \in Expired THEN None ELSE leases[x]
  BY DEF Clear
<1>4. /\ \A x \in Ids : x \in Due => delayed[x] # None
      /\ \A x \in Ids : x \in Expired => reserved[x] # None
      /\ Visibility # None /\ Visibility \in Nat /\ token # None
  BY QueueAssumption DEF Due, Expired
<1>5. QTypeOK'
  BY <1>4 DEF QInv, QTypeOK, Clear
<1>6. ReadyOnce'
  BY DEF ReadyOnce, Injective
<1>7. ActiveIsPlaced'
  BY <1>1, <1>2, <1>3, <1>4 DEF QInv, KeysAgree, ActiveIsPlaced
<1>8. OnePlace'
  BY <1>1, <1>2, <1>3, <1>4 DEF QInv, KeysAgree, OnePlace, Due, Expired
<1>9. LeaseHasDeadline' /\ ActiveOrFailed'
  BY <1>3, <1>4 DEF QInv, KeysAgree, LeaseHasDeadline, ActiveOrFailed
<1> QED
  BY <1>5, <1>6, <1>7, <1>8, <1>9 DEF QInv, KeysAgree

(* Every script preserves the invariant. *)
LEMMA NextQInv == QInv /\ [QNext]_store => QInv'
<1> SUFFICES ASSUME QInv, [QNext]_store
             PROVE  QInv'
  OBVIOUS
<1> USE DEF QInv
<1>1. ASSUME NEW id \in Ids, Push(id)
      PROVE  QInv'
  <2>1. Enqueue(id, 0)
    BY <1>1 DEF Push, Enqueue
  <2> QED
    BY <1>1, <2>1, EnterQInv DEF Push, QTypeOK
<1>2. ASSUME NEW id \in Ids, NEW delay \in Delays, PushLater(id, delay)
      PROVE  QInv'
  <2>1. delay \in Nat
    BY QueueAssumption
  <2> QED
    BY <1>2, <2>1, EnterQInv DEF PushLater, QTypeOK
<1>3. ASSUME NEW id \in Ids, NEW token \in Tokens, Pop(id, token)
      PROVE  QInv'
  <2>0. PICK r \in Swept : \E i \in 1..Len(r) :
            /\ r[i] = id
            /\ \A j \in 1..(i - 1) : jobs[r[j]] = None
            /\ ready' = SubSeq(r, i + 1, Len(r))
    BY <1>3 DEF Pop
  <2>1. PICK i \in 1..Len(r) :
            /\ r[i] = id
            /\ \A j \in 1..(i - 1) : jobs[r[j]] = None
            /\ ready' = SubSeq(r, i + 1, Len(r))
    BY <2>0
  <2>2. /\ delayed' = Clear(delayed, Due)
        /\ reserved' = [Clear(reserved, Expired) EXCEPT ![id] = Visibility]
        /\ leases' = [Clear(leases, Expired) EXCEPT ![id] = token]
        /\ UNCHANGED <<jobs, failed>>
    BY <1>3 DEF Pop
  <2>3. /\ r \in Seq(Ids) /\ Injective(r)
        /\ \A x \in Ids : Occurs(x, r) <=> InReady(x) \/ x \in Due \/ x \in Expired
    BY SweptFacts
  <2>4. \A j \in 1..Len(r) : jobs[r[j]] # None
    <3> TAKE j \in 1..Len(r)
    <3>1. r[j] \in Ids /\ Occurs(r[j], r)
      BY <2>3 DEF Occurs
    <3> QED
      BY <2>3, <3>1, QueueAssumption DEF Due, Expired, KeysAgree, ActiveIsPlaced
  <2>5. i = 1
    BY <2>1, <2>3, <2>4
  <2>6. /\ SubSeq(r, i + 1, Len(r)) \in Seq(Ids)
        /\ \A y : Occurs(y, SubSeq(r, i + 1, Len(r))) <=> \E j \in (i + 1)..Len(r) : r[j] = y
        /\ Injective(SubSeq(r, i + 1, Len(r)))
    BY <2>3, SuffixFacts
  <2>7. \A y : (\E j \in (i + 1)..Len(r) : r[j] = y) <=> Occurs(y, r) /\ y # id
    BY <2>1, <2>3, <2>5 DEF Occurs, Injective
  <2> DEFINE Taken == {id}
  <2>8. /\ ready' \in Seq(Ids) /\ Injective(ready')
        /\ \A x \in Ids : Occurs(x, ready') <=> Occurs(x, r) /\ x \notin Taken
    BY <2>1, <2>6, <2>7
  <2>9. /\ reserved' = [x \in Ids |-> IF x \in Taken THEN Visibility
                                      ELSE Clear(reserved, Expired)[x]]
        /\ leases' = [x \in Ids |-> IF x \in Taken THEN token
                                    ELSE Clear(leases, Expired)[x]]
    BY <2>2 DEF Clear
  <2>10. Taken \in SUBSET Ids /\ \A x \in Taken : Occurs(x, r)
    BY <2>1 DEF Occurs
  <2> HIDE DEF QInv, Taken
  <2> QED
    BY <2>2, <2>8, <2>9, <2>10, PopQInv
<1>4. ASSUME PopNil
      PROVE  QInv'
  <2>1. PICK r \in Swept : \A i \in 1..Len(r) : jobs[r[i]] = None
    BY <1>4 DEF PopNil
  <2>2. /\ ready' = << >>
        /\ delayed' = Clear(delayed, Due)
        /\ reserved' = Clear(reserved, Expired)
        /\ leases' = Clear(leases, Expired)
        /\ UNCHANGED <<jobs, failed>>
    BY <1>4 DEF PopNil
  <2>3. /\ r \in Seq(Ids)
        /\ \A x \in Ids : Occurs(x, r) <=> InReady(x) \/ x \in Due \/ x \in Expired
    BY SweptFacts
  <2>4. \A x \in Ids : ~ InReady(x) /\ x \notin Due /\ x \notin Expired
    <3> TAKE x \in Ids
    <3>1. Occurs(x, r) => jobs[x] = None
      BY <2>1 DEF Occurs
    <3> QED
      BY <2>3, <3>1, QueueAssumption DEF Due, Expired, KeysAgree, ActiveIsPlaced
  <2>5. delayed' = delayed /\ reserved' = reserved /\ leases' = leases
    BY <2>2, <2>4 DEF Clear, QTypeOK, Due, Expired
  <2>6. \A x \in Ids : ~ InReady(x)'
    BY <2>2 DEF InReady
  <2> QED
    BY <2>2, <2>4, <2>5, <2>6
       DEF QTypeOK, KeysAgree, ReadyOnce, ActiveIsPlaced, OnePlace, LeaseHasDeadline,
           ActiveOrFailed
<1>5. ASSUME NEW id \in Ids, NEW token \in Tokens, Acknowledge(id, token)
      PROVE  QInv'
  <2>1. leases[id] # None
    BY <1>5, QueueAssumption DEF Acknowledge, Holds
  <2> QED
    BY <1>5, <2>1
       DEF Acknowledge, QTypeOK, KeysAgree, ReadyOnce, ActiveIsPlaced, OnePlace,
           LeaseHasDeadline, ActiveOrFailed, InReady
<1>6. ASSUME NEW id \in Ids, NEW token \in Tokens, NEW n \in Attempts, NEW delay \in Delays,
             ReleaseAfter(id, token, n, delay)
      PROVE  QInv'
  <2>1. leases[id] # None /\ delay \in Nat
    BY <1>6, QueueAssumption DEF ReleaseAfter, Holds
  <2>2. reserved[id] # None /\ ~ InReady(id) /\ delayed[id] = None /\ failed[id] = None
    BY <2>1 DEF KeysAgree, LeaseHasDeadline, OnePlace, ActiveIsPlaced, ActiveOrFailed
  <2>3. /\ ready' \in Seq(Ids) /\ ReadyOnce'
        /\ delayed' \in [Ids -> Nat \cup {None}]
        /\ \A x \in Ids \ {id} : (InReady(x)' <=> InReady(x)) /\ delayed'[x] = delayed[x]
        /\ (InReady(id)' /\ delayed'[id] = None) \/ (~ InReady(id)' /\ delayed'[id] # None)
    BY <1>6, <2>1, <2>2, EnqueueFacts DEF KeysAgree, ReleaseAfter
  <2>4. n # None
    BY QueueAssumption DEF Attempts
  <2>5. /\ jobs' = [jobs EXCEPT ![id] = n]
        /\ leases' = [leases EXCEPT ![id] = None]
        /\ reserved' = [reserved EXCEPT ![id] = None]
        /\ failed' = failed
    BY <1>6 DEF ReleaseAfter
  <2>6. QTypeOK'
    BY <2>3, <2>5 DEF QTypeOK
  <2>7. ActiveIsPlaced' /\ OnePlace' /\ LeaseHasDeadline' /\ ActiveOrFailed'
    BY <2>2, <2>3, <2>4, <2>5
       DEF QTypeOK, KeysAgree, ActiveIsPlaced, OnePlace, LeaseHasDeadline, ActiveOrFailed
  <2> QED
    BY <2>3, <2>6, <2>7 DEF KeysAgree
<1>7. ASSUME NEW id \in Ids, NEW token \in Tokens, Renew(id, token)
      PROVE  QInv'
  <2>1. leases[id] # None /\ Visibility # None /\ Visibility \in Nat
    BY <1>7, QueueAssumption DEF Renew, Holds
  <2> QED
    BY <1>7, <2>1
       DEF Renew, QTypeOK, KeysAgree, ReadyOnce, ActiveIsPlaced, OnePlace,
           LeaseHasDeadline, ActiveOrFailed, InReady
<1>8. ASSUME NEW id \in Ids, NEW token \in Tokens, NEW n \in Attempts, Fail(id, token, n)
      PROVE  QInv'
  <2>1. leases[id] # None
    BY <1>8, QueueAssumption DEF Fail, Holds
  <2> QED
    BY <1>8, <2>1
       DEF Fail, QTypeOK, KeysAgree, ReadyOnce, ActiveIsPlaced, OnePlace,
           LeaseHasDeadline, ActiveOrFailed, InReady
<1>9. ASSUME NEW id \in Ids, NEW n \in Attempts, RetryFailed(id, n)
      PROVE  QInv'
  <2>1. Enqueue(id, 0)
    BY <1>9 DEF RetryFailed, Enqueue
  <2> QED
    BY <1>9, <2>1, EnterQInv DEF RetryFailed, QTypeOK
<1>10. ASSUME NEW id \in Ids, ForgetFailed(id)
       PROVE  QInv'
  BY <1>10
     DEF ForgetFailed, QTypeOK, KeysAgree, ReadyOnce, ActiveIsPlaced, OnePlace,
         LeaseHasDeadline, ActiveOrFailed, InReady
<1>11. CASE Flush
  BY <1>11, InitQInv
     DEF Flush, QTypeOK, KeysAgree, ReadyOnce, ActiveIsPlaced, OnePlace,
         LeaseHasDeadline, ActiveOrFailed, InReady
<1>12. CASE Tick
  <2>1. /\ delayed' \in [Ids -> Nat \cup {None}]
        /\ reserved' \in [Ids -> Nat \cup {None}]
        /\ \A x \in Ids : delayed'[x] # None <=> delayed[x] # None
        /\ \A x \in Ids : reserved'[x] # None <=> reserved[x] # None
    BY <1>12, QueueAssumption DEF Tick, Pass, QTypeOK
  <2> QED
    BY <1>12, <2>1
       DEF Tick, QTypeOK, KeysAgree, ReadyOnce, ActiveIsPlaced, OnePlace,
           LeaseHasDeadline, ActiveOrFailed, InReady
<1>13. CASE UNCHANGED store
  BY <1>13
     DEF store, QTypeOK, KeysAgree, ReadyOnce, ActiveIsPlaced, OnePlace,
         LeaseHasDeadline, ActiveOrFailed, InReady
<1> QED
  BY <1>1, <1>2, <1>3, <1>4, <1>5, <1>6, <1>7, <1>8, <1>9, <1>10, <1>11, <1>12, <1>13
     DEF QNext

(* Whatever scripts the clients run, in whatever order and with whatever    *)
(* tokens, the keys keep their types (redis_driver.cpp, all scripts).       *)
THEOREM QueueTyped == QSpec => []QTypeOK
<1>1. QInv => QTypeOK
  BY DEF QInv
<1> QED
  BY InitQInv, NextQInv, <1>1, PTL DEF QSpec

(* Whatever scripts the clients run, the six keys of the Redis queue agree  *)
(* with each other: every stored job is in exactly one of the ready list,   *)
(* the delayed set and the reserved set, once, and leases have deadlines.   *)
THEOREM QueueKeysAgree == QSpec => []KeysAgree
<1>1. QInv => KeysAgree
  BY DEF QInv
<1> QED
  BY InitQInv, NextQInv, <1>1, PTL DEF QSpec

-----------------------------------------------------------------------------

(* A script that changes the keys of one job moves that job in the ledger.  *)
LEMMA MoveFacts ==
    ASSUME NEW id \in Ids, NEW from, NEW to,
           Status(id) = from, Status(id)' = to,
           \A x \in Ids \ {id} : Status(x)' = Status(x)
    PROVE  Ledger!Move(id, from, to)
BY DEF Ledger!Move, Statuses

(* Both outcomes of pop: the leases that ran out are taken back, and the    *)
(* returned job is leased.                                                  *)
LEMMA PopMoves ==
    ASSUME QInv, NEW Taken \in SUBSET Ids,
           \A x \in Taken : jobs[x] # None /\ (leases[x] = None \/ x \in Expired),
           \A x \in Taken : leases'[x] # None,
           \A x \in Ids \ Taken : leases'[x] = IF x \in Expired THEN None ELSE leases[x],
           UNCHANGED <<jobs, failed>>
    PROVE  /\ Expired \in SUBSET Ledger!Leased
           /\ \A x \in Taken : Ledger!TakeBack(Expired)[x] = "waiting" /\ Status(x)' = "leased"
           /\ \A x \in Ids \ Taken : Status(x)' = Ledger!TakeBack(Expired)[x]
<1>1. \A x \in Expired : x \in Ids /\ leases[x] # None /\ jobs[x] # None
  BY QueueAssumption DEF Expired, QInv, KeysAgree, LeaseHasDeadline, ActiveIsPlaced
<1>2. Expired \in SUBSET Ledger!Leased
  BY <1>1 DEF Ledger!Leased, Statuses, Status
<1>3. \A x \in Ids : Ledger!TakeBack(Expired)[x] = IF x \in Expired THEN "waiting" ELSE Status(x)
  BY DEF Ledger!TakeBack, Statuses
<1>4. \A x \in Taken : Ledger!TakeBack(Expired)[x] = "waiting" /\ Status(x)' = "leased"
  BY <1>3 DEF Status
<1>5. \A x \in Ids \ Taken : Status(x)' = Ledger!TakeBack(Expired)[x]
  BY <1>1, <1>3 DEF Status
<1> QED
  BY <1>2, <1>4, <1>5

(* Every script is a step of the ledger or leaves it alone. *)
LEMMA NextLedger ==
    QInv /\ [QNext]_store => [Ledger!LedgerNext]_Statuses
<1> SUFFICES ASSUME QInv, QNext
             PROVE  [Ledger!LedgerNext]_Statuses
  BY DEF store, Statuses, Status
<1>t. /\ jobs \in [Ids -> Attempts \cup {None}] /\ failed \in [Ids -> Attempts \cup {None}]
      /\ leases \in [Ids -> Tokens \cup {None}] /\ 0 # None /\ None \notin Attempts
      /\ \A id \in Ids : leases[id] # None => jobs[id] # None /\ failed[id] = None
      /\ \A id \in Ids : ~ (jobs[id] # None /\ failed[id] # None)
  BY QueueAssumption DEF QInv, QTypeOK, KeysAgree, LeaseHasDeadline, ActiveIsPlaced,
                         ActiveOrFailed, Attempts
<1>1. ASSUME NEW id \in Ids, jobs[id] = None, failed[id] = None,
             jobs' = [jobs EXCEPT ![id] = 0], UNCHANGED <<leases, failed>>
      PROVE  Ledger!Accept(id)
  <2>1. Status(id) = "absent" /\ Status(id)' = "waiting"
    BY <1>t, <1>1 DEF Status
  <2>2. \A x \in Ids \ {id} : Status(x)' = Status(x)
    BY <1>t, <1>1 DEF Status
  <2> QED
    BY <2>1, <2>2, MoveFacts DEF Ledger!Accept
<1>2. ASSUME NEW id \in Ids, NEW token \in Tokens, Pop(id, token)
      PROVE  Ledger!Deliver(id)
  <2>1. /\ jobs[id] # None
        /\ leases' = [Clear(leases, Expired) EXCEPT ![id] = token]
        /\ UNCHANGED <<jobs, failed>>
    BY <1>2 DEF Pop
  <2>2. leases'[id] # None /\ \A x \in Ids \ {id} :
            leases'[x] = IF x \in Expired THEN None ELSE leases[x]
    BY <2>1, QueueAssumption DEF Clear
  <2>3. leases[id] = None \/ id \in Expired
    <3>1. PICK r \in Swept : Occurs(id, r)
      BY <1>2 DEF Pop, Occurs
    <3>2. InReady(id) \/ id \in Due \/ id \in Expired
      BY <3>1, SweptFacts
    <3> QED
      BY <3>2, QueueAssumption DEF QInv, KeysAgree, OnePlace, LeaseHasDeadline, Due
  <2> DEFINE Taken == {id}
  <2>4. /\ Taken \in SUBSET Ids
        /\ \A x \in Taken : jobs[x] # None /\ (leases[x] = None \/ x \in Expired)
        /\ \A x \in Taken : leases'[x] # None
        /\ \A x \in Ids \ Taken : leases'[x] = IF x \in Expired THEN None ELSE leases[x]
    BY <2>1, <2>2, <2>3
  <2>5. id \in Taken /\ \A x \in Ids : x \in Taken <=> x = id
    OBVIOUS
  <2> HIDE DEF Taken
  <2>6. /\ Expired \in SUBSET Ledger!Leased
        /\ \A x \in Taken : Ledger!TakeBack(Expired)[x] = "waiting" /\ Status(x)' = "leased"
        /\ \A x \in Ids \ Taken : Status(x)' = Ledger!TakeBack(Expired)[x]
    BY <2>1, <2>4, PopMoves
  <2>7. Ledger!TakeBack(Expired)[id] = "waiting"
    BY <2>5, <2>6
  <2>8. Statuses' = [Ledger!TakeBack(Expired) EXCEPT ![id] = "leased"]
    BY <2>5, <2>6 DEF Statuses, Ledger!TakeBack
  <2> QED
    BY <2>6, <2>7, <2>8 DEF Ledger!Deliver
<1>3. ASSUME PopNil
      PROVE  Ledger!Sweep
  <2>1. leases' = Clear(leases, Expired) /\ UNCHANGED <<jobs, failed>>
    BY <1>3 DEF PopNil
  <2> DEFINE Taken == {}
  <2>2. /\ Taken \in SUBSET Ids
        /\ \A x \in Taken : jobs[x] # None /\ (leases[x] = None \/ x \in Expired)
        /\ \A x \in Taken : leases'[x] # None
        /\ \A x \in Ids \ Taken : leases'[x] = IF x \in Expired THEN None ELSE leases[x]
    BY <2>1 DEF Clear
  <2>3. \A x \in Ids : x \notin Taken
    OBVIOUS
  <2> HIDE DEF Taken
  <2>4. /\ Expired \in SUBSET Ledger!Leased
        /\ \A x \in Ids \ Taken : Status(x)' = Ledger!TakeBack(Expired)[x]
    BY <2>1, <2>2, PopMoves
  <2>5. Statuses' = Ledger!TakeBack(Expired)
    BY <2>3, <2>4 DEF Statuses, Ledger!TakeBack
  <2> QED
    BY <2>4, <2>5 DEF Ledger!Sweep
<1>4. ASSUME NEW id \in Ids, NEW token \in Tokens, Acknowledge(id, token)
      PROVE  Ledger!Complete(id)
  <2>1. Status(id) = "leased" /\ Status(id)' = "absent"
    BY <1>t, <1>4, QueueAssumption DEF Acknowledge, Holds, Status
  <2>2. \A x \in Ids \ {id} : Status(x)' = Status(x)
    BY <1>t, <1>4 DEF Acknowledge, Status
  <2> QED
    BY <2>1, <2>2, MoveFacts DEF Ledger!Complete
<1>5. ASSUME NEW id \in Ids, NEW token \in Tokens, NEW n \in Attempts, NEW delay \in Delays,
             ReleaseAfter(id, token, n, delay)
      PROVE  Ledger!Retry(id)
  <2>1. Status(id) = "leased" /\ Status(id)' = "waiting"
    BY <1>t, <1>5, QueueAssumption DEF ReleaseAfter, Holds, Status
  <2>2. \A x \in Ids \ {id} : Status(x)' = Status(x)
    BY <1>t, <1>5 DEF ReleaseAfter, Status
  <2> QED
    BY <2>1, <2>2, MoveFacts DEF Ledger!Retry
<1>6. ASSUME NEW id \in Ids, NEW token \in Tokens, NEW n \in Attempts, Fail(id, token, n)
      PROVE  Ledger!Bury(id)
  <2>1. Status(id) = "leased" /\ Status(id)' = "failed"
    BY <1>t, <1>6, QueueAssumption DEF Fail, Holds, Status
  <2>2. \A x \in Ids \ {id} : Status(x)' = Status(x)
    BY <1>t, <1>6 DEF Fail, Status
  <2> QED
    BY <2>1, <2>2, MoveFacts DEF Ledger!Bury
<1>7. ASSUME NEW id \in Ids, NEW n \in Attempts, RetryFailed(id, n)
      PROVE  Ledger!Revive(id)
  <2>1. Status(id) = "failed" /\ Status(id)' = "waiting"
    BY <1>t, <1>7 DEF RetryFailed, Status
  <2>2. \A x \in Ids \ {id} : Status(x)' = Status(x)
    BY <1>t, <1>7 DEF RetryFailed, Status
  <2> QED
    BY <2>1, <2>2, MoveFacts DEF Ledger!Revive
<1>8. ASSUME NEW id \in Ids, ForgetFailed(id)
      PROVE  Ledger!Forget(id)
  <2>1. Status(id) = "failed" /\ Status(id)' = "absent"
    BY <1>t, <1>8 DEF ForgetFailed, Status
  <2>2. \A x \in Ids \ {id} : Status(x)' = Status(x)
    BY <1>t, <1>8 DEF ForgetFailed, Status
  <2> QED
    BY <2>1, <2>2, MoveFacts DEF Ledger!Forget
<1>9. CASE Flush
  <2>1. Ledger!Flush
    BY <1>9 DEF Flush, Ledger!Flush, Statuses, Status
  <2> QED
    BY <2>1 DEF Ledger!LedgerNext
<1>10. ASSUME UNCHANGED <<jobs, leases, failed>>
       PROVE  UNCHANGED Statuses
  BY <1>10 DEF Statuses, Status
<1> QED
  BY <1>1, <1>2, <1>3, <1>4, <1>5, <1>6, <1>7, <1>8, <1>9, <1>10
     DEF QNext, Push, PushLater, Renew, Tick, Ledger!LedgerNext

(* The Redis driver implements the job ledger for every client: an accepted *)
(* job is never dropped while it waits, and only a leased job is completed, *)
(* retried or declared failed.                                              *)
THEOREM QueueImplementsLedger == QSpec => ImplementsLedger
<1>1. QInit => Ledger!LedgerInit
  BY DEF QInit, Ledger!LedgerInit, Statuses, Status
<1> QED
  BY <1>1, InitQInv, NextQInv, NextLedger, PTL
     DEF QSpec, ImplementsLedger, Ledger!LedgerSpec
=============================================================================
