------------------------- MODULE TransactionsProofs -------------------------
(***************************************************************************)
(* Proofs about Transactions, for any set of guards, any of the servers,   *)
(* any number of faults and either order of finishing guards.              *)
(***************************************************************************)
EXTENDS Transactions, SequenceTheorems, TLAPS

(* Every scope id and callback comes from the sequence, and a callback     *)
(* that waits with a scope is older than every scope opened above it.      *)
Older ==
    \A i \in 1..depth : \A c \in callbacks[i] :
        c <= sequence /\ \A j \in 1..depth : i < j => c < scopeIds[j]

(* No two guards hold the token of one scope.                              *)
TokensDiffer ==
    \A g, h \in Guards : g # h /\ token[g].id # 0 => token[g].id # token[h].id

(* What was taken out to be called belongs to no open scope. *)
TakenClosed ==
    /\ \A c \in published : c <= sequence /\ \A i \in 1..depth : c # scopeIds[i]
    /\ \A g \in Guards : \A c \in pending[g] :
        c <= sequence /\ \A i \in 1..depth : c # scopeIds[i]

(* CalledOnce, one callback at a time. *)
OnceEach ==
    /\ \A i \in 1..Len(callbacks) : \A c \in callbacks[i] :
        c \notin published /\ \A g \in Guards : c \notin pending[g]
    /\ \A i, j \in 1..Len(callbacks) : \A c \in callbacks[i] : i # j => c \notin callbacks[j]
    /\ \A g \in Guards : \A c \in pending[g] : c \notin published
    /\ \A g, h \in Guards : \A c \in pending[g] : g # h => c \notin pending[h]

(* What was taken out to be called is durable. *)
TakenDurable ==
    /\ published \subseteq durable
    /\ \A g \in Guards : pending[g] \subseteq durable

(* An open guard has its scope on the stack. *)
OpenOnStack ==
    \A g \in Guards : phase[g] = "open" => \E i \in 1..depth : scopeIds[i] = token[g].id

(* Nobody will commit the i-th scope any more. *)
Orphaned(i) == \A g \in Guards : token[g].id = scopeIds[i] => phase[g] # "open"

(* While a scope is open, a working session either still has the root's    *)
(* transaction, with the rows of every open scope and of every waiting     *)
(* callback, or lost it: then some scope is orphaned and has no savepoint  *)
(* to go back to, so that nothing below it is ever committed.  A doomed    *)
(* transaction has an orphaned scope as well.                              *)
SessionHolds ==
    /\ aborted => \E i \in 1..depth : Orphaned(i)
    /\ alive /\ depth # 0 =>
        \/ /\ tx = scopeIds[1]
           /\ \A i \in 1..depth : scopeIds[i] \in live /\ callbacks[i] \subseteq live
        \/ \E i \in 1..depth : Orphaned(i) /\ (tx = 0 \/ scopeIds[i] < tx)

(* The scope stack of Connection. *)
ScopesOK ==
    /\ depth \in Nat
    /\ sequence \in Nat
    /\ callbacks \in Seq(SUBSET Ids)
    /\ scopeIds \in Seq(Ids)
    /\ StacksAgree
    /\ Older

TInv == TTypeOK /\ StacksAgree /\ Older /\ TokensDiffer

CInv == TInv /\ TakenClosed /\ OnceEach

PInv == CInv /\ TakenDurable /\ OpenOnStack /\ SessionHolds

(* The sequence operations the scope stack uses. *)
LEMMA FrontFacts ==
    ASSUME NEW S, NEW s \in Seq(S), Len(s) > 0
    PROVE  /\ Front(s) \in Seq(S)
           /\ Len(Front(s)) = Len(s) - 1
           /\ \A i \in 1..(Len(s) - 1) : Front(s)[i] = s[i]
<1> DEFINE n == Len(s) - 1
           u == SubSeq(s, 1, n)
<1>1. n \in Nat /\ n = Len(s) - 1 /\ \A i \in 1..n : s[i] \in S
  OBVIOUS
<1>2. Front(s) = u
  BY DEF Front
<1> HIDE DEF n
<1>3. u \in Seq(S) /\ Len(u) = n /\ \A i \in 1..n : u[i] = s[i]
  <2>1. /\ u \in Seq(S)
        /\ Len(u) = IF 1 <= n THEN n - 1 + 1 ELSE 0
        /\ \A i \in 1..(n - 1 + 1) : u[i] = s[1 + i - 1]
    BY <1>1, SubSeqProperties
  <2> QED
    BY <1>1, <2>1
<1> HIDE DEF u
<1> QED
  BY <1>1, <1>2, <1>3

(* Merged has one level less, and the last one holds what the two did. *)
LEMMA MergedFacts ==
    ASSUME ScopesOK, depth > 1
    PROVE  /\ Merged \in Seq(SUBSET Ids)
           /\ Len(Merged) = depth - 1
           /\ \A i \in 1..(depth - 1) : Merged[i] =
                IF i = depth - 1 THEN callbacks[i] \cup callbacks[depth] ELSE callbacks[i]
<1> DEFINE f == Front(callbacks)
           x == f[depth - 1] \cup callbacks[depth]
           T == SUBSET Ids
<1>1. callbacks \in Seq(T) /\ Len(callbacks) = depth /\ depth \in Nat
  BY DEF ScopesOK, StacksAgree
<1>2. f \in Seq(T) /\ Len(f) = depth - 1 /\ \A i \in 1..(depth - 1) : f[i] = callbacks[i]
  BY <1>1, FrontFacts
<1>3. depth - 1 \in 1..Len(f) /\ callbacks[depth] \in T /\ f[depth - 1] = callbacks[depth - 1]
      /\ callbacks[depth - 1] \in T
  BY <1>1, <1>2
<1>4. x \in T
  BY <1>3
<1>5. Merged = [f EXCEPT ![depth - 1] = x]
  BY DEF Merged
<1> HIDE DEF f, x, T
<1>6. /\ Merged \in Seq(T)
      /\ Len(Merged) = Len(f)
      /\ \A i \in 1..Len(f) : Merged[i] = IF i = depth - 1 THEN x ELSE f[i]
  BY <1>2, <1>3, <1>4, <1>5, ExceptSeq
<1> QED
  BY <1>2, <1>3, <1>6 DEF x, T

(* Opening a scope keeps the stack in order. *)
LEMMA PushScopes ==
    ASSUME ScopesOK, NEW g \in Guards, PushScope(g)
    PROVE  /\ ScopesOK'
           /\ depth' = depth + 1 /\ sequence' = sequence + 1
           /\ \A i \in 1..depth : callbacks'[i] = callbacks[i] /\ scopeIds'[i] = scopeIds[i]
           /\ callbacks'[depth + 1] = {} /\ scopeIds'[depth + 1] = sequence + 1
<1> USE DEF ScopesOK, StacksAgree, PushScope
<1>1. /\ Len(callbacks') = depth + 1
      /\ callbacks' \in Seq(SUBSET Ids)
      /\ callbacks'[depth + 1] = {}
      /\ \A i \in 1..depth : callbacks'[i] = callbacks[i]
  OBVIOUS
<1>2. /\ Len(scopeIds') = depth + 1
      /\ scopeIds' \in Seq(Ids)
      /\ scopeIds'[depth + 1] = sequence + 1
      /\ \A i \in 1..depth : scopeIds'[i] = scopeIds[i]
  BY DEF Ids
<1>3. depth' = depth + 1 /\ sequence' = sequence + 1
  OBVIOUS
<1>4. \A i \in 1..(depth + 1) : i \in 1..depth \/ i = depth + 1
  OBVIOUS
<1>5. \A i \in 1..depth : scopeIds[i] \in Nat /\ scopeIds[i] <= sequence
  BY DEF Ids
<1> QED
  BY <1>1, <1>2, <1>3, <1>4, <1>5 DEF Older, Ids

(* Ending a nested scope keeps the stack in order, whether its callbacks   *)
(* move to the parent or are discarded.                                    *)
LEMMA PopScopes ==
    ASSUME ScopesOK, depth > 1, NEW levels,
           levels \in {Merged, Front(callbacks)}, PopScope(levels)
    PROVE  /\ ScopesOK'
           /\ depth' = depth - 1 /\ sequence' = sequence
           /\ \A i \in 1..(depth - 1) : scopeIds'[i] = scopeIds[i]
           /\ callbacks' = levels
<1>1. /\ depth \in Nat /\ sequence \in Nat
      /\ callbacks \in Seq(SUBSET Ids) /\ Len(callbacks) = depth
      /\ scopeIds \in Seq(Ids) /\ Len(scopeIds) = depth
  BY DEF ScopesOK, StacksAgree
<1>2. /\ scopeIds' \in Seq(Ids) /\ Len(scopeIds') = depth - 1
      /\ \A i \in 1..(depth - 1) : scopeIds'[i] = scopeIds[i]
  BY <1>1, FrontFacts DEF PopScope
<1>3. /\ levels \in Seq(SUBSET Ids) /\ Len(levels) = depth - 1
      /\ \A i \in 1..(depth - 1) : levels[i] \subseteq
            IF i = depth - 1 THEN callbacks[i] \cup callbacks[depth] ELSE callbacks[i]
  <2>1. CASE levels = Merged
    BY <2>1, MergedFacts
  <2>2. CASE levels = Front(callbacks)
    BY <1>1, <2>2, FrontFacts
  <2> QED
    BY <2>1, <2>2
<1>4. depth' = depth - 1 /\ sequence' = sequence /\ callbacks' = levels
  BY DEF PopScope
<1>5. StacksAgree'
  BY <1>1, <1>2, <1>3, <1>4 DEF ScopesOK, StacksAgree
<1>6. Older'
  BY <1>1, <1>2, <1>3, <1>4 DEF ScopesOK, Older
<1> QED
  BY <1>1, <1>2, <1>3, <1>4, <1>5, <1>6 DEF ScopesOK

(* Ending the root scope empties the stack. *)
LEMMA EndScopes ==
    ASSUME ScopesOK, EndRoot
    PROVE  ScopesOK' /\ depth' = 0 /\ sequence' = sequence
BY DEF ScopesOK, EndRoot, StacksAgree, Older

(* Registering a callback touches only the level on top. *)
LEMMA RegisterScopes ==
    ASSUME ScopesOK, depth # 0, UNCHANGED <<depth, scopeIds, sequence>>,
           callbacks' = [callbacks EXCEPT ![depth] = @ \cup {Top}]
    PROVE  /\ ScopesOK'
           /\ \A i \in 1..depth : callbacks'[i] =
                IF i = depth THEN callbacks[i] \cup {Top} ELSE callbacks[i]
<1>1. /\ depth \in 1..Len(callbacks) /\ depth \in Nat
      /\ callbacks \in Seq(SUBSET Ids) /\ Len(callbacks) = depth
      /\ Top = scopeIds[depth] /\ Top \in Ids
  BY DEF ScopesOK, StacksAgree, Top
<1> DEFINE x == callbacks[depth] \cup {Top}
           T == SUBSET Ids
<1>2. x \in T /\ callbacks \in Seq(T)
  BY <1>1
<1>3. callbacks' = [callbacks EXCEPT ![depth] = x]
  OBVIOUS
<1> HIDE DEF x, T
<1>4. /\ callbacks' \in Seq(T) /\ Len(callbacks') = Len(callbacks)
      /\ \A i \in 1..Len(callbacks) : callbacks'[i] = IF i = depth THEN x ELSE callbacks[i]
  <2> DEFINE c == [callbacks EXCEPT ![depth] = x]
  <2>1. /\ c \in Seq(T) /\ Len(c) = Len(callbacks)
        /\ \A i \in 1..Len(callbacks) : c[i] = IF i = depth THEN x ELSE callbacks[i]
    BY ONLY <1>1, <1>2, ExceptSeq
  <2> HIDE DEF c
  <2> QED
    BY ONLY <1>3, <2>1 DEF c
<1>5. StacksAgree'
  BY <1>1, <1>4 DEF ScopesOK, StacksAgree
<1>6. Older'
  <2>1. Top <= sequence
    BY <1>1 DEF ScopesOK, StacksAgree
  <2>2. \A i \in 1..depth : \A c \in callbacks'[i] : c \in callbacks[i] \/ (i = depth /\ c = Top)
    BY <1>1, <1>4 DEF x
  <2>3. \A j \in 1..depth : ~ (depth < j)
    BY <1>1
  <2> QED
    BY <1>1, <2>1, <2>2, <2>3 DEF ScopesOK, Older
<1> QED
  BY <1>1, <1>4, <1>5, <1>6 DEF ScopesOK, T, x

----------------------------------------------------------------------------
(* A program state with no guard opened satisfies the whole invariant. *)
LEMMA InitPInv == TInit => PInv
<1> SUFFICES ASSUME TInit PROVE PInv
  OBVIOUS
<1> USE DEF TInit
<1>1. TTypeOK
  <2>1. alive \in BOOLEAN /\ aborted \in BOOLEAN /\ engine \in Engines
    BY Zenon
  <2>2. tx \in Nat /\ depth \in Nat /\ sequence \in Nat /\ callbacks \in Seq(SUBSET Ids) /\ scopeIds \in Seq(Ids)
    OBVIOUS
  <2>3. token \in [Guards -> [depth : Nat, id : 0..sequence]]
    OBVIOUS
  <2>4. /\ active \in [Guards -> BOOLEAN]
        /\ thrown \in [Guards -> BOOLEAN]
        /\ pending \in [Guards -> SUBSET Ids]
        /\ phase \in [Guards -> Over \cup {"open", "publishing", "failing", "dying"}]
    BY Zenon DEF Over
  <2>5. published \in SUBSET Ids /\ live \in SUBSET Ids /\ durable \in SUBSET Ids /\ faults \in 0..MaxFaults
    BY TransactionsAssumption
  <2>6. stacked \in BOOLEAN
    BY Zenon
  <2> QED
    BY <2>1, <2>2, <2>3, <2>4, <2>5, <2>6 DEF TTypeOK
<1>2. StacksAgree /\ Older /\ TokensDiffer
  BY DEF StacksAgree, Older, TokensDiffer
<1>3. TakenDurable /\ OpenOnStack /\ SessionHolds
  BY DEF TakenDurable, OpenOnStack, SessionHolds
<1>4. TakenClosed /\ OnceEach
  BY DEF TakenClosed, OnceEach
<1> QED
  BY <1>1, <1>2, <1>3, <1>4 DEF PInv, CInv, TInv

(* The conjuncts of TTypeOK that are not about the scope stack. *)
TokensTyped ==
    /\ token \in [Guards -> [depth : Nat, id : 0..sequence]]
    /\ active \in [Guards -> BOOLEAN]

GuardsTyped ==
    /\ TokensTyped
    /\ phase \in [Guards -> Over \cup {"open", "publishing", "failing", "dying"}]
    /\ pending \in [Guards -> SUBSET Ids]
    /\ thrown \in [Guards -> BOOLEAN]
    /\ published \in SUBSET Ids

Flags == alive \in BOOLEAN /\ aborted \in BOOLEAN

SessionTyped ==
    /\ Flags
    /\ tx \in Nat
    /\ live \in SUBSET Ids /\ durable \in SUBSET Ids
    /\ faults \in 0..MaxFaults

(* The server's state keeps its type under every driver call. *)
LEMMA SessionStep ==
    ASSUME SessionTyped, NEW id \in Ids,
           \/ DriverThrows \/ DriverBegin(id) \/ DriverSavepoint(id) \/ SavepointRefused
           \/ DriverRelease(id) \/ DriverReleaseThrows(id)
           \/ DriverRollbackTo(id) \/ DriverRollbackToThrows(id)
           \/ DriverCommit \/ DriverCommitThrows \/ DriverRollback \/ DriverRollbackThrows
           \/ UNCHANGED <<session, faults>>
    PROVE  SessionTyped'
<1> USE TransactionsAssumption DEF SessionTyped, Drop, Ended, session
<1>fault. Fault => faults' \in 0..MaxFaults
  BY DEF Fault
<1>same. ASSUME UNCHANGED <<session, faults>> PROVE SessionTyped'
  BY <1>same DEF Flags
<1>throws. ASSUME DriverThrows PROVE SessionTyped'
  <2>1. Flags'
    BY <1>throws, Zenon DEF DriverThrows, Flags
  <2>2. tx' \in Nat /\ live' \in SUBSET Ids /\ durable' \in SUBSET Ids /\ faults' \in 0..MaxFaults
    BY <1>throws, <1>fault DEF DriverThrows
  <2> QED
    BY <2>1, <2>2
<1>1. CASE DriverBegin(id) \/ DriverSavepoint(id)
  <2>1. /\ alive' = alive /\ aborted' \in {aborted, FALSE} /\ faults' = faults
        /\ tx' \in {tx, id} /\ live' \subseteq live \cup {id} /\ durable' \subseteq durable \cup {id}
    BY <1>1, Zenon DEF DriverBegin, DriverSavepoint
  <2>2. Flags'
    BY <2>1, Zenon DEF Flags
  <2>3. id \in Nat
    BY DEF Ids
  <2> QED
    BY <2>1, <2>2, <2>3
<1>2. CASE SavepointRefused \/ DriverReleaseThrows(id) \/ DriverRollbackToThrows(id)
  BY <1>2, <1>same, <1>throws
     DEF SavepointRefused, DriverReleaseThrows, DriverRollbackToThrows, Refused
<1>3. CASE DriverRelease(id)
  <2>1. CASE UNCHANGED <<session, faults>>
    BY <1>same, <2>1
  <2>2. CASE alive' = alive /\ faults' = faults /\ Ended /\ durable' = durable \cup live
    BY <2>2, Zenon DEF Flags
  <2> QED
    BY <1>3, <2>1, <2>2, Zenon DEF DriverRelease
<1>4. CASE DriverRollbackTo(id) \/ DriverRollback
  <2>1. alive' = alive /\ aborted' = FALSE /\ durable' = durable /\ faults' = faults /\ tx' \in {tx, 0}
    BY <1>4 DEF DriverRollbackTo, DriverRollback
  <2>2. live' \subseteq live
    BY <1>4 DEF DriverRollbackTo, DriverRollback
  <2>3. Flags'
    BY <2>1, Zenon DEF Flags
  <2> QED
    BY <2>1, <2>2, <2>3
<1>5. CASE DriverCommit
  BY <1>5, Zenon DEF DriverCommit, Flags
<1>6. CASE DriverCommitThrows \/ DriverRollbackThrows
  <2>1. CASE DriverThrows \/ EndRefused
    BY <1>same, <1>throws, <2>1 DEF EndRefused, Refused
  <2>2. CASE /\ Fault /\ tx' = 0 /\ live' = {} /\ aborted' = FALSE
             /\ alive' = FALSE \/ alive' = alive
             /\ durable' = durable \/ durable' = durable \cup live
    <3>1. Flags'
      BY <2>2, Zenon DEF Flags
    <3>2. tx' \in Nat /\ live' \in SUBSET Ids /\ durable' \in SUBSET Ids /\ faults' \in 0..MaxFaults
      BY <1>fault, <2>2
    <3> QED
      BY <3>1, <3>2
  <2> QED
    BY <1>6, <2>1, <2>2, Zenon DEF DriverCommitThrows, DriverRollbackThrows
<1> QED
  BY <1>same, <1>throws, <1>1, <1>2, <1>3, <1>4, <1>5, <1>6

(* Every step is one of a few changes of the scope stack. *)
LEMMA TInvSplit ==
    TInv => ScopesOK /\ GuardsTyped /\ SessionTyped /\ TokensDiffer
BY DEF TInv, TTypeOK, ScopesOK, GuardsTyped, TokensTyped, SessionTyped, Flags

(* While a scope is open, the one on top has an id of the sequence. *)
LEMMA TopTyped ==
    ASSUME ScopesOK, depth # 0
    PROVE  Top = scopeIds[depth] /\ Top \in Ids /\ Top <= sequence /\ depth \in 1..depth
BY DEF ScopesOK, StacksAgree, Top

LEMMA NextTInv ==
    ASSUME TInv, [TNext]_vars
    PROVE  TInv'
<1>0. ScopesOK /\ GuardsTyped /\ SessionTyped /\ TokensDiffer
  BY TInvSplit
<1>seq. sequence \in Nat /\ depth \in Nat
  BY <1>0 DEF ScopesOK
<1>id. 1 \in Ids
  BY DEF Ids
<1> USE DEF Over
<1>st. stacked' \in BOOLEAN /\ engine' \in Engines
  BY Zenon DEF TInv, TTypeOK, TNext, vars
<1>same. ASSUME UNCHANGED connection PROVE ScopesOK'
  BY <1>0, <1>same DEF connection, ScopesOK, StacksAgree, Older
<1>tokens. ASSUME UNCHANGED sequence,
                  \/ UNCHANGED <<token, active>>
                  \/ \E g \in Guards : UNCHANGED token /\ (Deactivate(g) \/ KeepUnlessEnded(g))
           PROVE  /\ TokensDiffer'
                  /\ TokensTyped'
  BY <1>0, <1>tokens, Zenon DEF TokensDiffer, TokensTyped, GuardsTyped, Deactivate, KeepUnlessEnded
<1>1. CASE UNCHANGED vars
  <2>1. ScopesOK' /\ SessionTyped'
    BY <1>0, <1>1, <1>same, <1>id, SessionStep DEF vars
  <2>2. TokensDiffer' /\ GuardsTyped'
    BY <1>0, <1>1 DEF vars, connection, guards, TokensDiffer, GuardsTyped, TokensTyped
  <2> QED
    BY <1>st, <2>1, <2>2 DEF TInv, TTypeOK, ScopesOK, GuardsTyped, TokensTyped, SessionTyped, Flags
<1>2. ASSUME NEW g \in Guards, begin_scope(g) PROVE TInv'
  <2>1. ScopesOK' /\ sequence' = sequence + 1 /\ depth' = depth + 1 /\ sequence' \in Ids
    BY <1>0, <1>2, <1>seq, PushScopes DEF begin_scope, Ids
  <2>2. SessionTyped'
    BY <1>0, <1>2, <2>1, SessionStep DEF begin_scope
  <2>3. /\ token' = [token EXCEPT ![g] = [depth |-> depth + 1, id |-> sequence + 1]]
      /\ active' = [active EXCEPT ![g] = TRUE]
    BY <1>2, <2>1 DEF begin_scope, PushScope
  <2>4. GuardsTyped'
    BY <1>0, <1>2, <1>seq, <2>1, <2>3 DEF begin_scope, PushScope, Goto, GuardsTyped, TokensTyped
  <2>5. TokensDiffer'
    BY <1>0, <1>seq, <2>3 DEF TokensDiffer, GuardsTyped, TokensTyped
  <2> QED
    BY <1>st, <2>1, <2>2, <2>4, <2>5, Zenon DEF TInv, TTypeOK, ScopesOK, GuardsTyped, TokensTyped, SessionTyped, Flags
<1>3. ASSUME NEW g \in Guards, BeginThrows(g) PROVE TInv'
  <2>1. ScopesOK' /\ UNCHANGED sequence
    BY <1>3, <1>same DEF BeginThrows, connection
  <2>2. SessionTyped'
    BY <1>0, <1>3, <1>id, SessionStep DEF BeginThrows
  <2>3. TokensDiffer' /\ TokensTyped'
    BY <1>3, <1>tokens, <2>1 DEF BeginThrows, guards
  <2>4. GuardsTyped'
    BY <1>0, <1>3, <2>3 DEF BeginThrows, guards, Goto, GuardsTyped
  <2> QED
    BY <1>st, <2>1, <2>2, <2>3, <2>4 DEF TInv, TTypeOK, ScopesOK, GuardsTyped, TokensTyped, SessionTyped, Flags
<1>4. ASSUME NEW g \in Guards, StatementFails(g) PROVE TInv'
  <2>1. ScopesOK' /\ UNCHANGED sequence
    BY <1>4, <1>same DEF StatementFails, connection
  <2>2. SessionTyped'
    <3>1. Flags'
      BY <1>0, <1>4, Zenon DEF StatementFails, SessionTyped, Flags, Ended
    <3>2. tx' \in {tx, 0} /\ live' \in {live, {}} /\ UNCHANGED <<durable, faults>>
      BY <1>4 DEF StatementFails, Ended
    <3> QED
      BY <1>0, <3>1, <3>2 DEF SessionTyped
  <2>3. TokensDiffer' /\ TokensTyped'
    BY <1>4, <1>tokens, <2>1 DEF StatementFails, guards
  <2>4. GuardsTyped'
    BY <1>0, <1>4, <2>3 DEF StatementFails, guards, Goto, GuardsTyped
  <2> QED
    BY <1>st, <2>1, <2>2, <2>3, <2>4 DEF TInv, TTypeOK, ScopesOK, GuardsTyped, TokensTyped, SessionTyped, Flags
<1>5. ASSUME NEW g \in Guards, CommitThrows(g) PROVE TInv'
  <2>1. ScopesOK' /\ UNCHANGED sequence
    BY <1>5, <1>same DEF CommitThrows, connection
  <2>2. SessionTyped'
    <3>1. CASE UNCHANGED <<session, faults>> \/ DriverCommitThrows
      BY <1>0, <1>id, <3>1, SessionStep
    <3>2. CASE valid(g) /\ DriverReleaseThrows(Top)
      <4>1. Top \in Ids
        BY <1>0, <3>2, TopTyped DEF valid
      <4> QED
        BY <1>0, <3>2, <4>1, SessionStep
    <3> QED
      BY <1>5, <3>1, <3>2 DEF CommitThrows
  <2>3. TokensDiffer' /\ TokensTyped'
    BY <1>5, <1>tokens, <2>1 DEF CommitThrows, guards
  <2>4. GuardsTyped'
    BY <1>0, <1>5, <2>3 DEF CommitThrows, guards, Goto, GuardsTyped
  <2> QED
    BY <1>st, <2>1, <2>2, <2>3, <2>4 DEF TInv, TTypeOK, ScopesOK, GuardsTyped, TokensTyped, SessionTyped, Flags
<1>6. ASSUME NEW g \in Guards, publish(g) PROVE TInv'
  <2>1. ScopesOK' /\ UNCHANGED sequence
    BY <1>6, <1>same DEF publish, connection
  <2>2. SessionTyped'
    <3>1. UNCHANGED session /\ (UNCHANGED faults \/ Fault)
      BY <1>6 DEF publish
    <3> QED
      BY <1>0, <3>1, TransactionsAssumption DEF session, SessionTyped, Flags, Fault
  <2>3. TokensDiffer' /\ TokensTyped'
    BY <1>6, <1>tokens, <2>1 DEF publish, guards
  <2>4. GuardsTyped'
    BY <1>0, <1>6, <2>3, Zenon DEF publish, guards, Goto, GuardsTyped
  <2> QED
    BY <1>st, <2>1, <2>2, <2>3, <2>4 DEF TInv, TTypeOK, ScopesOK, GuardsTyped, TokensTyped, SessionTyped, Flags
<1>7. ASSUME NEW g \in Guards, CommitReturns(g) PROVE TInv'
  <2>1. ScopesOK' /\ UNCHANGED sequence
    BY <1>7, <1>same DEF CommitReturns, connection
  <2>2. SessionTyped'
    BY <1>0, <1>7, <1>id, SessionStep DEF CommitReturns
  <2>3. TokensDiffer' /\ TokensTyped'
    BY <1>7, <1>tokens, <2>1 DEF CommitReturns, guards
  <2>4. GuardsTyped'
    BY <1>0, <1>7, <2>3 DEF CommitReturns, guards, Goto, GuardsTyped
  <2> QED
    BY <1>st, <2>1, <2>2, <2>3, <2>4 DEF TInv, TTypeOK, ScopesOK, GuardsTyped, TokensTyped, SessionTyped, Flags
<1>8. ASSUME NEW g \in Guards, WorkThrows(g) PROVE TInv'
  <2>1. ScopesOK' /\ UNCHANGED sequence
    BY <1>8, <1>same DEF WorkThrows, connection
  <2>2. SessionTyped'
    BY <1>0, <1>8, <1>id, SessionStep DEF WorkThrows
  <2>3. TokensDiffer' /\ TokensTyped'
    BY <1>8, <1>tokens, <2>1 DEF WorkThrows, guards
  <2>4. GuardsTyped'
    BY <1>0, <1>8, <2>3 DEF WorkThrows, guards, Goto, GuardsTyped
  <2> QED
    BY <1>st, <2>1, <2>2, <2>3, <2>4 DEF TInv, TTypeOK, ScopesOK, GuardsTyped, TokensTyped, SessionTyped, Flags
<1>9. ASSUME NEW g \in Guards, after_commit(g) PROVE TInv'
  <2>1. ScopesOK' /\ UNCHANGED sequence
    BY <1>0, <1>9, RegisterScopes DEF after_commit
  <2>2. SessionTyped'
    BY <1>0, <1>9, <1>id, SessionStep DEF after_commit
  <2>3. TokensDiffer' /\ TokensTyped'
    BY <1>9, <1>tokens, <2>1 DEF after_commit, guards
  <2>4. GuardsTyped'
    BY <1>0, <1>9, <2>3 DEF after_commit, guards, GuardsTyped
  <2> QED
    BY <1>st, <2>1, <2>2, <2>3, <2>4 DEF TInv, TTypeOK, ScopesOK, GuardsTyped, TokensTyped, SessionTyped, Flags
<1>10. ASSUME NEW g \in Guards, CommitRoot(g) PROVE TInv'
  <2>1. ScopesOK' /\ UNCHANGED sequence
    BY <1>0, <1>10, EndScopes DEF CommitRoot
  <2>2. SessionTyped'
    BY <1>0, <1>10, <1>id, SessionStep DEF CommitRoot
  <2>3. TokensDiffer' /\ TokensTyped'
    BY <1>10, <1>tokens, <2>1 DEF CommitRoot
  <2>4. GuardsTyped'
    <3>1. UNION {callbacks[i] : i \in 1..Len(callbacks)} \in SUBSET Ids
      BY <1>0 DEF ScopesOK
    <3> QED
      BY <1>0, <1>10, <2>3, <3>1 DEF CommitRoot, Goto, GuardsTyped
  <2> QED
    BY <1>st, <2>1, <2>2, <2>3, <2>4 DEF TInv, TTypeOK, ScopesOK, GuardsTyped, TokensTyped, SessionTyped, Flags
<1>11. ASSUME NEW g \in Guards, CommitNested(g) PROVE TInv'
  <2>1. ScopesOK' /\ UNCHANGED sequence
    <3>1. depth > 1 /\ PopScope(Merged)
      BY <1>11 DEF CommitNested
    <3> HIDE DEF Merged
    <3> QED
      BY <1>0, <3>1, PopScopes
  <2>2. SessionTyped'
    <3>1. Top \in Ids /\ DriverRelease(Top)
      BY <1>0, <1>11, TopTyped DEF CommitNested, valid
    <3> QED
      BY <1>0, <3>1, SessionStep
  <2>3. TokensDiffer' /\ TokensTyped'
    BY <1>11, <1>tokens, <2>1 DEF CommitNested
  <2>4. GuardsTyped'
    BY <1>0, <1>11, <2>3 DEF CommitNested, Goto, GuardsTyped
  <2> QED
    BY <1>st, <2>1, <2>2, <2>3, <2>4 DEF TInv, TTypeOK, ScopesOK, GuardsTyped, TokensTyped, SessionTyped, Flags
<1>rollback. ASSUME NEW g \in Guards, rollback_scope(g) PROVE ScopesOK' /\ SessionTyped' /\ UNCHANGED sequence
  <2>1. depth # 0 /\ Top \in Ids
    BY <1>0, <1>rollback, TopTyped DEF rollback_scope, valid
  <2>2. CASE depth = 1 /\ DriverRollback /\ EndRoot
    BY <1>0, <1>id, <2>2, EndScopes, SessionStep
  <2>3. CASE RollbackNested(g)
    <3>1. depth > 1 /\ PopScope(Front(callbacks)) /\ DriverRollbackTo(Top)
      BY <2>3 DEF RollbackNested
    <3>2. ScopesOK' /\ UNCHANGED sequence
      BY <1>0, <3>1, PopScopes
    <3>3. SessionTyped'
      BY <1>0, <2>1, <3>1, SessionStep
    <3> QED
      BY <3>2, <3>3
  <2> QED
    BY <1>rollback, <2>2, <2>3 DEF rollback_scope
<1>throws. ASSUME NEW g \in Guards, RollbackScopeThrows(g) PROVE ScopesOK' /\ SessionTyped' /\ UNCHANGED sequence
  <2>1. ScopesOK' /\ UNCHANGED sequence
    BY <1>same, <1>throws DEF RollbackScopeThrows, connection
  <2>2. SessionTyped'
    <3>1. CASE DriverRollbackThrows \/ UNCHANGED <<session, faults>>
      BY <1>0, <1>id, <3>1, SessionStep
    <3>2. CASE valid(g) /\ DriverRollbackToThrows(Top)
      <4>1. Top \in Ids
        BY <1>0, <3>2, TopTyped DEF valid
      <4> QED
        BY <1>0, <3>2, <4>1, SessionStep
    <3> QED
      BY <1>throws, <3>1, <3>2 DEF RollbackScopeThrows
  <2> QED
    BY <2>1, <2>2
<1>12. ASSUME NEW g \in Guards, RunRollsBack(g) PROVE TInv'
  <2>1. ScopesOK' /\ SessionTyped' /\ UNCHANGED sequence
    <3>1. \/ UNCHANGED <<connection, session, faults>> \/ rollback_scope(g) \/ RollbackScopeThrows(g)
      BY <1>12 DEF RunRollsBack
    <3>2. ASSUME UNCHANGED <<connection, session, faults>> PROVE ScopesOK' /\ SessionTyped' /\ UNCHANGED sequence
      BY <1>0, <1>id, <1>same, <3>2, SessionStep DEF connection
    <3> QED
      BY <1>rollback, <1>throws, <3>1, <3>2
  <2>2. SessionTyped'
    BY <2>1
  <2>3. TokensDiffer' /\ TokensTyped'
    BY <1>12, <1>tokens, <2>1 DEF RunRollsBack
  <2>4. GuardsTyped'
    BY <1>0, <1>12, <2>3 DEF RunRollsBack, Goto, GuardsTyped
  <2> QED
    BY <1>st, <2>1, <2>2, <2>3, <2>4 DEF TInv, TTypeOK, ScopesOK, GuardsTyped, TokensTyped, SessionTyped, Flags
<1>13. ASSUME NEW g \in Guards, Destroy(g) PROVE TInv'
  <2>1. ScopesOK' /\ SessionTyped' /\ UNCHANGED sequence
    BY <1>13, <1>rollback, <1>throws DEF Destroy
  <2>2. SessionTyped'
    BY <2>1
  <2>3. TokensDiffer' /\ TokensTyped'
    BY <1>13, <1>tokens, <2>1 DEF Destroy
  <2>4. GuardsTyped'
    BY <1>0, <1>13, <2>3 DEF Destroy, Goto, GuardsTyped
  <2> QED
    BY <1>st, <2>1, <2>2, <2>3, <2>4 DEF TInv, TTypeOK, ScopesOK, GuardsTyped, TokensTyped, SessionTyped, Flags
<1> QED
  BY <1>1, <1>2, <1>3, <1>4, <1>5, <1>6, <1>7, <1>8, <1>9, <1>10, <1>11, <1>12, <1>13 DEF TNext

(* For any guards, faults and finishing order the variables of a           *)
(* connection and its transactions keep their types.                       *)
THEOREM TransactionsTyped == TSpec => []TTypeOK
<1>1. TInv /\ [TNext]_vars => TInv'
  BY NextTInv
<1>2. TInit => TInv
  BY InitPInv DEF PInv, CInv
<1>3. TInv => TTypeOK
  BY DEF TInv
<1> QED
  BY <1>1, <1>2, <1>3, PTL DEF TSpec

(* The depth counter, the callback lists and the scope ids of Connection   *)
(* describe the same scopes in every reachable state, failures included.   *)
THEOREM ScopeStacksAgree == TSpec => []StacksAgree
<1>1. TInv /\ [TNext]_vars => TInv'
  BY NextTInv
<1>2. TInit => TInv
  BY InitPInv DEF PInv, CInv
<1>3. TInv => StacksAgree
  BY DEF TInv
<1> QED
  BY <1>1, <1>2, <1>3, PTL DEF TSpec

----------------------------------------------------------------------------
LEMMA OnceEachIsCalledOnce == OnceEach => CalledOnce
BY DEF OnceEach, CalledOnce

(* The scope stack keeps its levels, or loses callbacks, while nothing is  *)
(* taken out to be called.                                                 *)
LEMMA FewerCallbacks ==
    ASSUME CInv, UNCHANGED <<pending, published, sequence>>,
           depth' \in 0..depth, Len(callbacks') = depth',
           \A i \in 1..depth' : callbacks'[i] \subseteq callbacks[i] /\ scopeIds'[i] = scopeIds[i]
    PROVE  TakenClosed' /\ OnceEach'
<1>1. depth \in Nat /\ Len(callbacks) = depth /\ \A i \in 1..depth' : i \in 1..depth
  BY DEF CInv, TInv, TTypeOK, StacksAgree
<1>2. TakenClosed'
  BY <1>1 DEF CInv, TakenClosed
<1>3. OnceEach'
  BY <1>1 DEF CInv, OnceEach
<1> QED
  BY <1>2, <1>3

LEMMA NextCInv ==
    ASSUME CInv, [TNext]_vars
    PROVE  CInv'
<1>0. TInv /\ TInv' /\ ScopesOK /\ GuardsTyped /\ depth \in Nat /\ sequence \in Nat /\ Len(callbacks) = depth
  BY NextTInv, TInvSplit DEF CInv, ScopesOK, StacksAgree
<1>same. ASSUME UNCHANGED <<connection, pending, published>> PROVE TakenClosed' /\ OnceEach'
  BY <1>same DEF CInv, connection, TakenClosed, OnceEach
<1>1. ASSUME UNCHANGED vars PROVE TakenClosed' /\ OnceEach'
  BY <1>1, <1>same DEF vars, guards
<1>2. ASSUME NEW g \in Guards, begin_scope(g) PROVE TakenClosed' /\ OnceEach'
  <2>1. /\ depth' = depth + 1 /\ sequence' = sequence + 1
        /\ \A i \in 1..depth : callbacks'[i] = callbacks[i] /\ scopeIds'[i] = scopeIds[i]
        /\ callbacks'[depth + 1] = {} /\ scopeIds'[depth + 1] = sequence + 1
        /\ Len(callbacks') = depth + 1
    BY <1>0, <1>2, PushScopes DEF begin_scope, TInv, StacksAgree
  <2>2. UNCHANGED <<pending, published>> /\ published \subseteq Nat /\ \A h \in Guards : pending[h] \subseteq Nat
    BY <1>0, <1>2 DEF begin_scope, GuardsTyped, Ids
  <2>3. \A i \in 1..(depth + 1) : i \in 1..depth \/ i = depth + 1
    BY <1>0
  <2>4. TakenClosed'
    BY <1>0, <2>1, <2>2, <2>3 DEF CInv, TakenClosed
  <2>5. OnceEach'
    BY <1>0, <2>1, <2>2, <2>3 DEF CInv, OnceEach
  <2> QED
    BY <2>4, <2>5
<1>3. ASSUME NEW g \in Guards,
             BeginThrows(g) \/ StatementFails(g) \/ CommitThrows(g) \/ CommitReturns(g) \/ WorkThrows(g)
      PROVE  TakenClosed' /\ OnceEach'
  BY <1>3, <1>same DEF BeginThrows, StatementFails, CommitThrows, CommitReturns, WorkThrows, guards
<1>4. ASSUME NEW g \in Guards, after_commit(g) PROVE TakenClosed' /\ OnceEach'
  <2>1. /\ depth # 0 /\ UNCHANGED <<depth, scopeIds, sequence, pending, published>>
        /\ callbacks' = [callbacks EXCEPT ![depth] = @ \cup {Top}]
    BY <1>4 DEF after_commit, guards
  <2>2. /\ \A i \in 1..depth : callbacks'[i] = IF i = depth THEN callbacks[i] \cup {Top} ELSE callbacks[i]
        /\ Len(callbacks') = depth
    BY <1>0, <2>1, RegisterScopes, Zenon DEF TInv, StacksAgree
  <2>3. Top = scopeIds[depth] /\ depth \in 1..depth /\ Top \in Nat
    BY <1>0, <2>1, TopTyped DEF Ids
  <2>4. \A i \in 1..depth : i # depth => Top \notin callbacks[i]
    <3>1. \A i \in 1..depth : i # depth => i < depth
      BY <1>0
    <3> QED
      BY <2>3, <3>1 DEF CInv, TInv, Older
  <2>5. Top \notin published /\ \A h \in Guards : Top \notin pending[h]
    BY <2>3 DEF CInv, TakenClosed
  <2>6. TakenClosed'
    BY <2>1 DEF CInv, TakenClosed
  <2>7. OnceEach'
    BY <1>0, <2>1, <2>2, <2>4, <2>5 DEF CInv, OnceEach
  <2> QED
    BY <2>6, <2>7
<1>5. ASSUME NEW g \in Guards, CommitRoot(g) PROVE TakenClosed' /\ OnceEach'
  <2>1. depth' = 0 /\ sequence' = sequence /\ callbacks' = <<>> /\ Len(callbacks') = 0 /\ UNCHANGED published
    BY <1>5 DEF CommitRoot, EndRoot
  <2>2. pending' = [pending EXCEPT ![g] = UNION {callbacks[i] : i \in 1..Len(callbacks)}]
    BY <1>5 DEF CommitRoot
  <2>3. \A h \in Guards : \A c \in pending'[h] :
          IF h = g THEN \E i \in 1..depth : c \in callbacks[i] ELSE c \in pending[h]
    BY <1>0, <2>2 DEF GuardsTyped
  <2>4. TakenClosed'
    BY <1>0, <2>1, <2>3 DEF CInv, TakenClosed, TInv, Older
  <2>5. OnceEach'
    BY <1>0, <2>1, <2>3 DEF CInv, OnceEach
  <2> QED
    BY <2>4, <2>5
<1>6. ASSUME NEW g \in Guards, CommitNested(g) PROVE TakenClosed' /\ OnceEach'
  <2>1. depth > 1 /\ PopScope(Merged) /\ UNCHANGED <<pending, published>>
    BY <1>6 DEF CommitNested
  <2> HIDE DEF Merged
  <2>2. /\ depth' = depth - 1 /\ sequence' = sequence /\ callbacks' = Merged
        /\ \A i \in 1..(depth - 1) : scopeIds'[i] = scopeIds[i]
    BY <1>0, <2>1, PopScopes
  <2>3. /\ Len(callbacks') = depth - 1
        /\ \A i \in 1..(depth - 1) : callbacks'[i] =
                IF i = depth - 1 THEN callbacks[i] \cup callbacks[depth] ELSE callbacks[i]
    BY <1>0, <2>1, <2>2, MergedFacts, Zenon
  <2>4. TakenClosed'
    BY <1>0, <2>1, <2>2 DEF CInv, TakenClosed
  <2>5. \A i \in 1..(depth - 1) : \A c \in callbacks'[i] :
          \E k \in 1..depth : c \in callbacks[k] /\ (k = i \/ (i = depth - 1 /\ k = depth))
    <3> SUFFICES ASSUME NEW i \in 1..(depth - 1), NEW c \in callbacks'[i]
                 PROVE  \E k \in 1..depth : c \in callbacks[k] /\ (k = i \/ (i = depth - 1 /\ k = depth))
      OBVIOUS
    <3>1. i \in 1..depth /\ depth \in 1..depth
      BY <1>0, <2>1
    <3>2. c \in callbacks[i] \/ (i = depth - 1 /\ c \in callbacks[depth])
      BY <2>3
    <3> QED
      BY <3>1, <3>2
  <2>6. \A i \in 1..Len(callbacks') : \A c \in callbacks'[i] :
          c \notin published' /\ \A h \in Guards : c \notin pending'[h]
    BY <1>0, <2>1, <2>3, <2>5 DEF CInv, OnceEach
  <2>7. ASSUME NEW i \in 1..Len(callbacks'), NEW j \in 1..Len(callbacks'), i # j,
               NEW c \in callbacks'[i], c \in callbacks'[j]
        PROVE  FALSE
    <3>1. i \in 1..(depth - 1) /\ j \in 1..(depth - 1)
      BY <2>3
    <3>2. PICK k \in 1..depth : c \in callbacks[k] /\ (k = i \/ (i = depth - 1 /\ k = depth))
      BY <2>5, <2>7, <3>1
    <3>3. PICK l \in 1..depth : c \in callbacks[l] /\ (l = j \/ (j = depth - 1 /\ l = depth))
      BY <2>5, <2>7, <3>1
    <3>4. k # l
      BY <1>0, <2>7, <3>1, <3>2, <3>3
    <3> QED
      BY <1>0, <3>2, <3>3, <3>4 DEF CInv, OnceEach
  <2>8. OnceEach'
    BY <2>1, <2>6, <2>7 DEF CInv, OnceEach
  <2> QED
    BY <2>4, <2>8
<1>7. ASSUME NEW g \in Guards, publish(g) PROVE TakenClosed' /\ OnceEach'
  <2>1. PICK c \in pending[g] : /\ pending' = [pending EXCEPT ![g] = @ \ {c}]
                                /\ published' = published \cup {c} \/ UNCHANGED published
    BY <1>7, Zenon DEF publish
  <2>2. UNCHANGED <<depth, callbacks, scopeIds, sequence>>
    BY <1>7 DEF publish, connection
  <2>3. \A h \in Guards : \A d \in pending'[h] : d \in pending[h] /\ (h = g => d # c)
    BY <1>0, <2>1 DEF GuardsTyped
  <2>4. TakenClosed'
    BY <2>1, <2>2, <2>3 DEF CInv, TakenClosed
  <2>5. OnceEach'
    BY <2>1, <2>2, <2>3 DEF CInv, OnceEach
  <2> QED
    BY <2>4, <2>5
<1>roll. ASSUME NEW g \in Guards, rollback_scope(g), UNCHANGED <<pending, published>> PROVE TakenClosed' /\ OnceEach'
  <2>1. CASE depth = 1 /\ EndRoot
    BY <1>0, <1>roll, <2>1, FewerCallbacks DEF EndRoot
  <2>2. CASE RollbackNested(g)
    <3>1. depth > 1 /\ PopScope(Front(callbacks))
      BY <2>2 DEF RollbackNested
    <3>2. /\ depth' = depth - 1 /\ sequence' = sequence /\ callbacks' = Front(callbacks)
          /\ \A i \in 1..(depth - 1) : scopeIds'[i] = scopeIds[i]
      BY <1>0, <3>1, PopScopes
    <3>3. Len(callbacks') = depth - 1 /\ \A i \in 1..(depth - 1) : callbacks'[i] = callbacks[i]
      BY <1>0, <3>1, <3>2, FrontFacts DEF ScopesOK
    <3> QED
      BY <1>0, <1>roll, <3>1, <3>2, <3>3, FewerCallbacks
  <2> QED
    BY <1>roll, <2>1, <2>2 DEF rollback_scope
<1>8. ASSUME NEW g \in Guards, RunRollsBack(g) \/ Destroy(g) PROVE TakenClosed' /\ OnceEach'
  <2>1. UNCHANGED <<pending, published>> /\ (UNCHANGED connection \/ rollback_scope(g))
    BY <1>8 DEF RunRollsBack, Destroy, RollbackScopeThrows
  <2> QED
    BY <1>roll, <1>same, <2>1
<1>9. TakenClosed' /\ OnceEach'
  BY <1>1, <1>2, <1>3, <1>4, <1>5, <1>6, <1>7, <1>8 DEF TNext
<1> QED
  BY <1>0, <1>9 DEF CInv

(* An after-commit callback is called at most once, whatever fails. *)
THEOREM CallbacksCalledOnce == TSpec => []CalledOnce
<1>1. CInv /\ [TNext]_vars => CInv'
  BY NextCInv
<1>2. TInit => CInv
  BY InitPInv DEF PInv
<1>3. CInv => CalledOnce
  BY OnceEachIsCalledOnce DEF CInv
<1> QED
  BY <1>1, <1>2, <1>3, PTL DEF TSpec

----------------------------------------------------------------------------
(* A scope is ended only by the guard whose token names it, for any number *)
(* of guards finishing in any order.                                       *)
THEOREM GuardsEndOwnScope == TSpec => EndsOwnScope
<1> DEFINE Shrinks == Len(scopeIds') < Len(scopeIds)
           Owned == \E g \in Guards : token[g].id = Top /\ phase'[g] # phase[g]
<1>1. ASSUME TInv, [TNext]_vars, Shrinks PROVE Owned
  <2>0. ScopesOK /\ GuardsTyped /\ Len(scopeIds) = depth /\ depth \in Nat /\ scopeIds \in Seq(Ids)
    BY <1>1, TInvSplit DEF ScopesOK, StacksAgree
  <2>1. ~ UNCHANGED scopeIds
    BY <1>1, <2>0
  <2>2. PICK g \in Guards :
          \/ begin_scope(g) \/ CommitRoot(g) \/ CommitNested(g) \/ RunRollsBack(g) \/ Destroy(g)
    BY <1>1, <2>1 DEF TNext, vars, connection, BeginThrows, after_commit, StatementFails, WorkThrows,
        CommitThrows, publish, CommitReturns
  <2>3. ~ begin_scope(g)
    BY <1>1, <2>0, PushScopes DEF begin_scope, ScopesOK, StacksAgree
  <2>4. valid(g)
    BY <2>1, <2>2, <2>3 DEF CommitRoot, CommitNested, RunRollsBack, Destroy, rollback_scope,
        RollbackScopeThrows, connection
  <2>5. phase'[g] # phase[g]
    BY <2>0, <2>2, <2>3, Zenon DEF CommitRoot, CommitNested, RunRollsBack, Destroy, Goto, GuardsTyped
  <2> QED
    BY <2>4, <2>5 DEF valid
<1>2. TInv /\ [TNext]_vars => TInv'
  BY NextTInv
<1>3. TInit => TInv
  BY InitPInv DEF PInv, CInv
<1>4. TInv /\ [TNext]_vars => [Shrinks => Owned]_vars
  BY <1>1
<1> QED
  BY <1>2, <1>3, <1>4, PTL DEF TSpec, EndsOwnScope

----------------------------------------------------------------------------
(* What the owner of the i-th scope is about is known: no two guards share *)
(* a token, so a scope whose guard is not open is orphaned.                *)
LEMMA OwnerDecides ==
    ASSUME TInv, NEW g \in Guards, NEW i \in 1..depth, token[g].id = scopeIds[i]
    PROVE  /\ \A h \in Guards : token[h].id = scopeIds[i] => h = g
           /\ phase[g] # "open" => Orphaned(i)
           /\ phase[g] = "open" => ~ Orphaned(i)
<1>1. token[g].id # 0
  BY TInvSplit DEF ScopesOK, StacksAgree, Ids
<1> QED
  BY <1>1 DEF TInv, TokensDiffer, Orphaned

(* The server's rows as a step changes them. *)
LEMMA NextPInv ==
    ASSUME PInv, ~ ErrorsHandled, [TNext]_vars
    PROVE  PInv'
<1>0. /\ TInv /\ CInv /\ CInv' /\ ScopesOK /\ GuardsTyped /\ SessionTyped
      /\ depth \in Nat /\ sequence \in Nat /\ Len(callbacks) = depth /\ scopeIds \in Seq(Ids)
      /\ \A i \in 1..depth : scopeIds[i] \in Nat /\ scopeIds[i] # 0 /\ scopeIds[i] <= sequence
  BY NextCInv, TInvSplit DEF PInv, CInv, ScopesOK, StacksAgree, Ids
<1> DEFINE Goal == TakenDurable' /\ OpenOnStack' /\ SessionHolds'
           Still == UNCHANGED <<connection, pending, published, token>>
           Leaves(g) == \E p \in {"failing", "done", "dying", "abandoned"} : Goto(g, p)
<1>leaves. ASSUME NEW g \in Guards, Leaves(g)
           PROVE  phase'[g] # "open" /\ \A h \in Guards \ {g} : phase'[h] = phase[h]
  BY <1>0, <1>leaves DEF GuardsTyped, Goto
(* The scopes stay and no guard opens. *)
<1>same. ASSUME Still, durable \subseteq durable', aborted' => aborted,
                \A g \in Guards : phase'[g] = "open" => phase[g] = "open",
                alive' => alive /\ tx' = tx /\ live' = live
         PROVE  Goal
  <2>1. UNCHANGED <<depth, callbacks, scopeIds, token, pending, published>>
    BY <1>same DEF connection
  <2>2. \A i \in 1..depth : Orphaned(i) => Orphaned(i)'
    BY <1>same, <2>1 DEF Orphaned
  <2>3. SessionHolds'
    BY <1>same, <2>1, <2>2 DEF PInv, SessionHolds
  <2> QED
    BY <1>same, <2>1, <2>3 DEF PInv, TakenDurable, OpenOnStack
(* The server ends the transaction under a guard that leaves its scope. *)
<1>lost. ASSUME Still, durable \subseteq durable', aborted' = FALSE, tx' = 0,
                NEW g \in Guards, Leaves(g), NEW i \in 1..depth, token[g].id = scopeIds[i]
         PROVE  Goal
  <2>1. UNCHANGED <<depth, callbacks, scopeIds, token, pending, published>>
    BY <1>lost DEF connection
  <2>2. Orphaned(i)'
    BY <1>0, <1>leaves, <1>lost, <2>1, OwnerDecides DEF Orphaned
  <2>3. SessionHolds'
    BY <1>lost, <2>1, <2>2 DEF SessionHolds
  <2>4. OpenOnStack'
    BY <1>leaves, <1>lost, <2>1 DEF PInv, OpenOnStack
  <2> QED
    BY <1>lost, <2>1, <2>3, <2>4 DEF PInv, TakenDurable
<1>throws. ASSUME Still, NEW g \in Guards, Leaves(g), DriverThrows \/ UNCHANGED session
           PROVE  Goal
  <2>1. \A h \in Guards : phase'[h] = "open" => phase[h] = "open"
    BY <1>leaves, <1>throws
  <2>2. durable' = durable /\ (aborted' => aborted) /\ (alive' => alive /\ tx' = tx /\ live' = live)
    BY <1>throws DEF DriverThrows, Drop, Ended, session
  <2> QED
    BY <1>same, <1>throws, <2>1, <2>2, Zenon
<1>1. ASSUME UNCHANGED vars PROVE Goal
  BY <1>same, <1>1 DEF vars, guards, session
<1>2. ASSUME NEW g \in Guards, begin_scope(g) PROVE Goal
  <2>1. /\ depth' = depth + 1 /\ sequence' = sequence + 1
        /\ \A i \in 1..depth : callbacks'[i] = callbacks[i] /\ scopeIds'[i] = scopeIds[i]
        /\ callbacks'[depth + 1] = {} /\ scopeIds'[depth + 1] = sequence + 1
    BY <1>0, <1>2, PushScopes DEF begin_scope
  <2>2. /\ UNCHANGED <<pending, published>>
        /\ token'[g].id = sequence + 1
        /\ \A h \in Guards \ {g} : token'[h] = token[h] /\ phase'[h] = phase[h]
    BY <1>0, <1>2, <2>1 DEF begin_scope, PushScope, Goto, GuardsTyped, TokensTyped
  <2>3. \A i \in 1..(depth + 1) : i \in 1..depth \/ i = depth + 1
    BY <1>0
  <2>4. 1 \in 1..(depth + 1) /\ depth + 1 \in 1..(depth + 1) /\ \A i \in 1..depth : i \in 1..(depth + 1)
    BY <1>0
  <2>5. durable \subseteq durable' /\ ~ aborted'
    BY <1>2 DEF begin_scope, DriverBegin, DriverSavepoint
  <2>6. ASSUME NEW i \in 1..depth, Orphaned(i) PROVE Orphaned(i)'
    <3>1. scopeIds'[i] = scopeIds[i] /\ scopeIds[i] # sequence + 1
      BY <1>0, <2>1
    <3> QED
      BY <2>2, <2>6, <3>1, Zenon DEF Orphaned
  <2>7. OpenOnStack'
    BY <2>1, <2>2, <2>4 DEF PInv, OpenOnStack
  <2>8. SessionHolds'
    <3>1. CASE depth = 0
      <4>1. tx' = sequence + 1 /\ live' = {sequence + 1}
        BY <1>2, <2>1, <3>1 DEF begin_scope, DriverBegin
      <4> QED
        BY <2>1, <2>3, <2>5, <3>1, <4>1 DEF SessionHolds
    <3>2. CASE depth # 0 /\ \E i \in 1..depth : Orphaned(i) /\ (tx = 0 \/ scopeIds[i] < tx)
      <4>1. PICK i \in 1..depth : Orphaned(i) /\ (tx = 0 \/ scopeIds[i] < tx)
        BY <3>2
      <4>2. tx' = tx \/ (tx = 0 /\ tx' = sequence + 1)
        BY <1>2, <2>1, <3>2 DEF begin_scope, DriverSavepoint, inTx
      <4>3. tx' = 0 \/ scopeIds'[i] < tx'
        BY <1>0, <2>1, <4>1, <4>2
      <4> QED
        BY <2>1, <2>4, <2>5, <2>6, <4>1, <4>3 DEF SessionHolds
    <3>3. CASE /\ depth # 0 /\ tx = scopeIds[1]
               /\ \A i \in 1..depth : scopeIds[i] \in live /\ callbacks[i] \subseteq live
      <4>1. tx # 0 /\ 1 \in 1..depth
        BY <1>0, <3>3
      <4>2. tx' = tx /\ live' = live \cup {sequence + 1}
        BY <1>2, <2>1, <3>3, <4>1 DEF begin_scope, DriverSavepoint, inTx
      <4>3. \A i \in 1..depth' : scopeIds'[i] \in live' /\ callbacks'[i] \subseteq live'
        BY <2>1, <2>3, <3>3, <4>2
      <4> QED
        BY <2>1, <2>5, <3>3, <4>1, <4>2, <4>3 DEF SessionHolds
    <3>4. alive
      BY <1>2 DEF begin_scope, DriverBegin, DriverSavepoint
    <3> QED
      BY <3>1, <3>2, <3>3, <3>4 DEF PInv, SessionHolds
  <2>9. TakenDurable'
    BY <2>2, <2>5 DEF PInv, TakenDurable
  <2> QED
    BY <2>7, <2>8, <2>9
<1>3. ASSUME NEW g \in Guards, StatementFails(g) PROVE Goal
  <2>1. Still /\ Leaves(g) /\ phase[g] = "open" /\ durable' = durable /\ alive' = alive
    BY <1>3 DEF StatementFails
  <2>2. PICK i \in 1..depth : scopeIds[i] = token[g].id
    BY <2>1 DEF PInv, OpenOnStack
  <2>3. CASE Ended
    BY <1>lost, <2>1, <2>2, <2>3, Zenon DEF Ended
  <2>4. CASE aborted' = TRUE /\ UNCHANGED <<tx, live>>
    <3>1. UNCHANGED <<depth, callbacks, scopeIds, token, pending, published>>
      BY <2>1 DEF connection
    <3>2. phase'[g] # "open" /\ \A h \in Guards \ {g} : phase'[h] = phase[h]
      BY <1>leaves, <2>1
    <3>3. Orphaned(i)' /\ \A j \in 1..depth : Orphaned(j) => Orphaned(j)'
      BY <1>0, <2>2, <3>1, <3>2, OwnerDecides DEF Orphaned
    <3>4. SessionHolds'
      BY <2>1, <2>4, <3>1, <3>3 DEF PInv, SessionHolds
    <3>5. OpenOnStack' /\ TakenDurable'
      BY <2>1, <3>1, <3>2 DEF PInv, OpenOnStack, TakenDurable
    <3> QED
      BY <3>4, <3>5
  <2> QED
    BY <1>3, <2>3, <2>4, Zenon DEF StatementFails
<1>5. ASSUME NEW g \in Guards, BeginThrows(g) \/ WorkThrows(g) \/ CommitReturns(g) PROVE Goal
  <2>1. Still /\ Leaves(g) /\ (DriverThrows \/ UNCHANGED session)
    BY <1>5 DEF BeginThrows, WorkThrows, CommitReturns, SavepointRefused, Refused
  <2> QED
    BY <1>throws, <2>1
<1>6. ASSUME NEW g \in Guards, publish(g) PROVE Goal
  <2>1. PICK c \in pending[g] : /\ pending' = [pending EXCEPT ![g] = @ \ {c}]
                                /\ published' = published \cup {c} \/ UNCHANGED published
    BY <1>6, Zenon DEF publish
  <2>2. UNCHANGED <<depth, callbacks, scopeIds, sequence, token, phase, alive, tx, live, aborted, durable>>
    BY <1>6, Zenon DEF publish, connection, session
  <2>3. \A h \in Guards : pending'[h] \subseteq pending[h]
    BY <1>0, <2>1 DEF GuardsTyped
  <2>4. OpenOnStack' /\ SessionHolds'
    BY <2>2 DEF PInv, OpenOnStack, SessionHolds, Orphaned
  <2> QED
    BY <2>1, <2>2, <2>3, <2>4 DEF PInv, TakenDurable
<1>own. ASSUME NEW g \in Guards, valid(g) PROVE depth \in 1..depth /\ token[g].id = scopeIds[depth]
  BY <1>0, <1>own, TopTyped DEF valid
<1>7. ASSUME NEW g \in Guards, CommitThrows(g) PROVE Goal
  <2>1. Still /\ Leaves(g)
    BY <1>7 DEF CommitThrows
  <2>2. CASE DriverThrows \/ UNCHANGED session
    BY <1>throws, <2>1, <2>2
  <2>3. CASE valid(g) /\ DriverCommitThrows /\ ~ (DriverThrows \/ UNCHANGED session)
    <3>1. durable \subseteq durable' /\ aborted' = FALSE /\ tx' = 0
      BY <2>3 DEF DriverCommitThrows, EndRefused, Refused, Drop, Ended
    <3> QED
      BY <1>lost, <1>own, <2>1, <2>3, <3>1, Zenon
  <2> QED
    BY <1>7, <2>2, <2>3 DEF CommitThrows, DriverReleaseThrows, Refused
<1>8. ASSUME NEW g \in Guards, after_commit(g) PROVE Goal
  <2>1. /\ depth # 0 /\ callbacks' = [callbacks EXCEPT ![depth] = @ \cup {Top}]
        /\ UNCHANGED <<depth, scopeIds, sequence, pending, published, token, phase, alive, tx, live, aborted, durable>>
    BY <1>8 DEF after_commit, guards, session
  <2>2. \A i \in 1..depth : callbacks'[i] = IF i = depth THEN callbacks[i] \cup {Top} ELSE callbacks[i]
    BY <1>0, <2>1, RegisterScopes, Zenon
  <2>3. Top = scopeIds[depth] /\ depth \in 1..depth
    BY <1>0, <2>1, TopTyped
  <2>4. \A i \in 1..depth : Orphaned(i) <=> Orphaned(i)'
    BY <2>1 DEF Orphaned
  <2>5. SessionHolds'
    BY <2>1, <2>2, <2>3, <2>4 DEF PInv, SessionHolds
  <2> QED
    BY <2>1, <2>5 DEF PInv, TakenDurable, OpenOnStack
<1>9. ASSUME NEW g \in Guards, CommitRoot(g) PROVE Goal
  <2>1. /\ phase[g] = "open" /\ valid(g) /\ depth = 1 /\ depth' = 0 /\ UNCHANGED <<token, published>>
        /\ alive /\ aborted' = FALSE
        /\ durable' = IF aborted THEN durable ELSE durable \cup live
        /\ pending' = [pending EXCEPT ![g] = UNION {callbacks[i] : i \in 1..Len(callbacks)}]
        /\ phase' = [phase EXCEPT ![g] = "publishing"]
    BY <1>9 DEF CommitRoot, EndRoot, DriverCommit, Ended, Goto
  <2>2. 1 \in 1..depth /\ token[g].id = scopeIds[1] /\ \A i \in 1..depth : i = 1
    BY <1>own, <2>1
  <2>3. ~ Orphaned(1) /\ \A h \in Guards : token[h].id = scopeIds[1] => h = g
    BY <1>0, <2>1, <2>2, OwnerDecides
  <2>4. ~ aborted /\ \A i \in 1..depth : callbacks[i] \subseteq live
    BY <2>1, <2>2, <2>3 DEF PInv, SessionHolds
  <2>5. \A h \in Guards : pending'[h] \subseteq durable'
    BY <1>0, <2>1, <2>4 DEF GuardsTyped, PInv, TakenDurable
  <2>6. OpenOnStack'
    BY <1>0, <2>1, <2>2, <2>3 DEF PInv, OpenOnStack, GuardsTyped
  <2> QED
    BY <2>1, <2>4, <2>5, <2>6 DEF PInv, TakenDurable, SessionHolds
(* The scope of a guard that leaves it is taken off the stack. *)
<1>pop. ASSUME NEW g \in Guards, valid(g), Leaves(g), UNCHANGED token, depth' = depth - 1,
               \A i \in 1..(depth - 1) : scopeIds'[i] = scopeIds[i]
        PROVE  OpenOnStack' /\ \A i \in 1..(depth - 1) : i \in 1..depth' /\ (Orphaned(i) => Orphaned(i)')
  <2>1. \A i \in 1..depth : i = depth \/ i \in 1..(depth - 1)
    BY <1>0
  <2>2. \A h \in Guards : token[h].id = scopeIds[depth] => h = g
    BY <1>0, <1>own, <1>pop, OwnerDecides
  <2>3. OpenOnStack'
    <3> SUFFICES ASSUME NEW h \in Guards, phase'[h] = "open"
                 PROVE  \E i \in 1..depth' : scopeIds'[i] = token'[h].id
      BY DEF OpenOnStack
    <3>1. h # g /\ phase[h] = "open"
      BY <1>leaves, <1>pop
    <3>2. PICK i \in 1..depth : scopeIds[i] = token[h].id
      BY <3>1 DEF PInv, OpenOnStack
    <3>3. i \in 1..(depth - 1)
      BY <2>1, <2>2, <3>1, <3>2
    <3> QED
      BY <1>pop, <3>2, <3>3
  <2>4. \A i \in 1..(depth - 1) : Orphaned(i) => Orphaned(i)'
    BY <1>leaves, <1>pop DEF Orphaned
  <2> QED
    BY <1>pop, <2>3, <2>4
<1>10. ASSUME NEW g \in Guards, CommitNested(g) PROVE Goal
  <2>1. /\ depth > 1 /\ PopScope(Merged) /\ valid(g) /\ phase[g] = "open" /\ Leaves(g)
        /\ UNCHANGED <<pending, published, token>> /\ durable \subseteq durable'
        /\ DriverRelease(Top)
    BY <1>10 DEF CommitNested, DriverRelease, session
  <2> HIDE DEF Merged
  <2>2. /\ depth' = depth - 1 /\ callbacks' = Merged
        /\ \A i \in 1..(depth - 1) : scopeIds'[i] = scopeIds[i]
    BY <1>0, <2>1, PopScopes
  <2>3. \A i \in 1..(depth - 1) : callbacks'[i] =
            IF i = depth - 1 THEN callbacks[i] \cup callbacks[depth] ELSE callbacks[i]
    BY <1>0, <2>1, <2>2, MergedFacts, Zenon
  <2>4. OpenOnStack' /\ \A i \in 1..(depth - 1) : i \in 1..depth' /\ (Orphaned(i) => Orphaned(i)')
    BY <1>pop, <2>1, <2>2
  <2>5. \A i \in 1..depth : Orphaned(i) => i \in 1..(depth - 1)
    <3>1. ~ Orphaned(depth)
      BY <1>0, <1>own, <2>1, OwnerDecides
    <3>2. \A i \in 1..depth : i = depth \/ i \in 1..(depth - 1)
      BY <1>0
    <3> QED
      BY <3>1, <3>2
  <2>6. \A i \in 1..(depth - 1) : i \in 1..depth /\ depth \in 1..depth /\ 1 \in 1..depth /\ i < depth
    BY <1>0, <2>1
  <2>7. CASE UNCHANGED <<alive, tx, live, aborted>>
    <3>1. aborted' => \E i \in 1..depth' : Orphaned(i)'
      BY <2>4, <2>5, <2>7 DEF PInv, SessionHolds
    <3>2. CASE \E i \in 1..depth : Orphaned(i) /\ (tx = 0 \/ scopeIds[i] < tx)
      <4>1. PICK i \in 1..depth : Orphaned(i) /\ (tx = 0 \/ scopeIds[i] < tx)
        BY <3>2
      <4>2. i \in 1..(depth - 1)
        BY <2>5, <4>1
      <4>3. i \in 1..depth' /\ Orphaned(i)' /\ (tx' = 0 \/ scopeIds'[i] < tx')
        BY <2>2, <2>4, <2>7, <4>1, <4>2
      <4>4. SessionHolds'
        BY <3>1, <4>3 DEF SessionHolds
      <4> QED
        BY <2>1, <2>4, <4>4 DEF PInv, TakenDurable
    <3>3. CASE /\ tx = scopeIds[1]
               /\ \A i \in 1..depth : scopeIds[i] \in live /\ callbacks[i] \subseteq live
      <4>1. \A i \in 1..depth' : scopeIds'[i] \in live' /\ callbacks'[i] \subseteq live'
        BY <2>2, <2>3, <2>6, <2>7, <3>3, Zenon
      <4>2. 1 \in 1..(depth - 1)
        BY <1>0, <2>1
      <4>3. SessionHolds'
        BY <2>2, <2>7, <3>1, <3>3, <4>1, <4>2 DEF SessionHolds
      <4> QED
        BY <2>1, <2>4, <4>3 DEF PInv, TakenDurable
    <3>4. CASE ~ alive
      <4>1. SessionHolds'
        BY <2>7, <3>1, <3>4 DEF SessionHolds
      <4> QED
        BY <2>1, <2>4, <4>1 DEF PInv, TakenDurable
    <3> QED
      BY <1>0, <2>1, <3>2, <3>3, <3>4 DEF PInv, SessionHolds
  <2>8. CASE alive /\ tx = Top /\ tx' = 0 /\ aborted' = FALSE
    <3>1. tx # scopeIds[1]
      <4>1. 1 \in 1..depth /\ depth \in 1..depth /\ 1 < depth /\ Top = scopeIds[depth]
        BY <1>0, <2>1, TopTyped
      <4> QED
        BY <1>0, <2>8, <4>1 DEF TInv, StacksAgree
    <3>2. PICK i \in 1..depth : Orphaned(i)
      <4>1. alive /\ depth # 0
        BY <1>0, <2>1, <2>8
      <4> QED
        BY <3>1, <4>1 DEF PInv, SessionHolds
    <3>3. i \in 1..depth' /\ Orphaned(i)'
      BY <2>4, <2>5, <3>2
    <3>4. SessionHolds'
      BY <2>8, <3>3 DEF SessionHolds
    <3> QED
      BY <2>1, <2>4, <3>4 DEF PInv, TakenDurable
  <2> QED
    BY <2>1, <2>7, <2>8, Zenon DEF DriverRelease, Ended, session
<1>roll. ASSUME NEW g \in Guards, rollback_scope(g), Leaves(g), phase[g] # "open",
                UNCHANGED <<pending, published, token>>
         PROVE  Goal
  <2>1. CASE depth = 1 /\ DriverRollback /\ EndRoot
    <3>1. depth' = 0 /\ durable' = durable /\ aborted' = FALSE
      BY <2>1 DEF DriverRollback, EndRoot, Ended
    <3>2. \A i \in 1..(depth - 1) : scopeIds'[i] = scopeIds[i]
      BY <2>1
    <3>3. OpenOnStack'
      BY <1>pop, <1>roll, <2>1, <3>1, <3>2 DEF rollback_scope
    <3> QED
      BY <1>roll, <3>1, <3>3 DEF PInv, TakenDurable, SessionHolds
  <2>2. CASE RollbackNested(g)
    <3>1. /\ depth > 1 /\ PopScope(Front(callbacks))
          /\ alive /\ HasSavepoint(Top) /\ aborted' = FALSE /\ UNCHANGED <<alive, tx, durable>>
          /\ live' = {r \in live : r < Top}
      BY <2>2 DEF RollbackNested, DriverRollbackTo
    <3>2. /\ depth' = depth - 1 /\ callbacks' = Front(callbacks)
          /\ \A i \in 1..(depth - 1) : scopeIds'[i] = scopeIds[i]
      BY <1>0, <3>1, PopScopes
    <3>3. \A i \in 1..(depth - 1) : callbacks'[i] = callbacks[i]
      <4>1. callbacks \in Seq(SUBSET Ids) /\ Len(callbacks) > 0
        BY <1>0, <3>1 DEF ScopesOK
      <4> QED
        BY <1>0, <3>2, <4>1, FrontFacts, Zenon
    <3>4. /\ Top = scopeIds[depth] /\ depth \in 1..depth /\ 1 \in 1..(depth - 1)
          /\ \A i \in 1..(depth - 1) : i \in 1..depth /\ i < depth
      BY <1>0, <3>1, TopTyped
    <3>5. \A i \in 1..(depth - 1) : scopeIds[i] < Top /\ \A c \in callbacks[i] : c < Top
      BY <1>0, <3>4 DEF TInv, StacksAgree, Older
    <3>6. OpenOnStack' /\ \A i \in 1..(depth - 1) : i \in 1..depth' /\ (Orphaned(i) => Orphaned(i)')
      BY <1>pop, <1>roll, <3>2 DEF rollback_scope
    <3>7. SessionHolds'
      <4>1. CASE \E i \in 1..depth : Orphaned(i) /\ (tx = 0 \/ scopeIds[i] < tx)
        <5>1. PICK i \in 1..depth : Orphaned(i) /\ (tx = 0 \/ scopeIds[i] < tx)
          BY <4>1
        <5>2. tx \in Nat /\ tx # 0 /\ tx <= scopeIds[depth]
          BY <1>0, <3>1, <3>4 DEF HasSavepoint, inTx, SessionTyped
        <5>3. i # depth
          BY <1>0, <3>4, <5>1, <5>2
        <5>4. i \in 1..(depth - 1)
          BY <1>0, <5>3
        <5> QED
          BY <3>1, <3>2, <3>6, <5>1, <5>4 DEF SessionHolds
      <4>2. CASE /\ tx = scopeIds[1]
                 /\ \A i \in 1..depth : scopeIds[i] \in live /\ callbacks[i] \subseteq live
        <5>1. \A i \in 1..depth' : scopeIds'[i] \in live' /\ callbacks'[i] \subseteq live'
          BY <3>1, <3>2, <3>3, <3>4, <3>5, <4>2
        <5> QED
          BY <3>1, <3>2, <3>4, <4>2, <5>1 DEF SessionHolds
      <4> QED
        BY <1>0, <3>1, <4>1, <4>2 DEF PInv, SessionHolds
    <3> QED
      BY <1>roll, <3>1, <3>6, <3>7, Zenon DEF PInv, TakenDurable
  <2> QED
    BY <1>roll, <2>1, <2>2 DEF rollback_scope
<1>unroll. ASSUME NEW g \in Guards, RollbackScopeThrows(g), Leaves(g), UNCHANGED <<pending, published, token>>
           PROVE  Goal
  <2>1. Still
    BY <1>unroll DEF RollbackScopeThrows
  <2>2. CASE DriverThrows \/ UNCHANGED session
    BY <1>throws, <1>unroll, <2>1, <2>2
  <2>3. CASE valid(g) /\ Ended /\ durable' = durable
    BY <1>lost, <1>own, <1>unroll, <2>1, <2>3, Zenon DEF Ended
  <2> QED
    BY <1>unroll, <2>2, <2>3 DEF RollbackScopeThrows, DriverRollbackThrows, DriverRollbackToThrows, EndRefused, Refused
<1>11. ASSUME NEW g \in Guards, RunRollsBack(g) PROVE Goal
  BY <1>11, <1>roll, <1>unroll, <1>throws DEF RunRollsBack
<1>12. ASSUME NEW g \in Guards, Destroy(g) PROVE Goal
  BY <1>12, <1>roll, <1>unroll DEF Destroy
<1>13. Goal
  BY <1>1, <1>2, <1>3, <1>5, <1>6, <1>7, <1>8, <1>9, <1>10, <1>11, <1>12 DEF TNext
<1> QED
  BY <1>0, <1>13 DEF PInv

(* Unless a callback handles a failed statement and goes on, a job is      *)
(* published after commit only when the scope that dispatched it is        *)
(* durable, on any of the servers and whichever of its calls fail.         *)
THEOREM PublishedOnlyIfDurable ==
    ASSUME ~ ErrorsHandled
    PROVE  TSpec => []PublishedIsDurable
<1>1. PInv /\ [TNext]_vars => PInv'
  BY NextPInv
<1>2. TInit => PInv
  BY InitPInv
<1>3. PInv => PublishedIsDurable
  BY DEF PInv, TakenDurable, PublishedIsDurable
<1> QED
  BY <1>1, <1>2, <1>3, PTL DEF TSpec

----------------------------------------------------------------------------
(* The guard has yet to end its scope: run() or the destructor will try.   *)
Owing(g) == phase[g] \in {"open", "dying"} \/ (phase[g] = "failing" /\ active[g])

(* Each scope of the connection is owed by the guard that opened it, until *)
(* some destructor gives up; and outside any scope the server has no       *)
(* transaction open.                                                       *)
OwedInv ==
    /\ \A g \in Guards : phase[g] = "open" => active[g]
    /\ (\A g \in Guards : phase[g] # "abandoned") =>
        \A i \in 1..depth : \E g \in Guards : Owing(g) /\ token[g].id = scopeIds[i]
    /\ depth = 0 => tx = 0

LEMMA NextOwedInv ==
    ASSUME TInv, OwedInv, [TNext]_vars
    PROVE  OwedInv'
<1>0. ScopesOK /\ GuardsTyped /\ TokensTyped /\ depth \in Nat /\ sequence \in Nat
  BY TInvSplit DEF ScopesOK, GuardsTyped
(* The scopes stay, nobody who owes one is excused. *)
<1>same. ASSUME UNCHANGED <<connection, token>>, tx' \in {tx, 0},
                \A h \in Guards : phase'[h] = "open" => active'[h],
                \A h \in Guards : phase[h] = "abandoned" => phase'[h] = "abandoned",
                depth # 0 => \A h \in Guards : Owing(h) => Owing(h)'
         PROVE  OwedInv'
  BY <1>0, <1>same DEF OwedInv, connection
(* A destructor gives up. *)
<1>gives. ASSUME NEW g \in Guards, UNCHANGED connection, tx' \in {tx, 0},
                 Goto(g, "abandoned"), Deactivate(g), phase[g] # "open"
          PROVE  OwedInv'
  <2>1. phase'[g] = "abandoned" /\ \A h \in Guards : phase'[h] = "open" => active'[h]
    BY <1>0, <1>gives DEF Goto, Deactivate, GuardsTyped, TokensTyped, OwedInv
  <2> QED
    BY <1>gives, <2>1 DEF OwedInv, connection
(* The scope on top is ended by its guard. *)
<1>pop. ASSUME NEW g \in Guards, phase[g] # "abandoned", valid(g), UNCHANGED token, depth' = depth - 1,
               \A i \in 1..(depth - 1) : scopeIds'[i] = scopeIds[i],
               depth' = 0 => tx' = 0,
               \E p \in {"done", "publishing"} : Goto(g, p),
               Deactivate(g) \/ UNCHANGED active
        PROVE  OwedInv'
  <2>1. \A h \in Guards \ {g} : phase'[h] = phase[h] /\ active'[h] = active[h]
    BY <1>0, <1>pop DEF Goto, Deactivate, GuardsTyped, TokensTyped
  <2>2. phase'[g] \in {"done", "publishing"}
    BY <1>0, <1>pop DEF Goto, GuardsTyped
  <2>3. ASSUME \A h \in Guards : phase'[h] # "abandoned", NEW i \in 1..(depth - 1)
        PROVE  \E h \in Guards : Owing(h)' /\ token[h].id = scopeIds'[i]
    <3>1. i \in 1..depth /\ depth \in 1..depth /\ i < depth /\ Top = scopeIds[depth]
      BY <1>0, <1>pop, TopTyped DEF valid
    <3>2. PICK h \in Guards : Owing(h) /\ token[h].id = scopeIds[i]
      BY <1>pop, <2>1, <2>3, <3>1, Zenon DEF OwedInv
    <3>3. scopeIds[i] < Top /\ scopeIds[i] \in Nat /\ Top \in Nat
      BY <1>0, <3>1 DEF ScopesOK, StacksAgree, Ids
    <3>4. h # g
      BY <1>pop, <3>2, <3>3 DEF valid
    <3> QED
      BY <1>pop, <2>1, <3>2, <3>4 DEF Owing
  <2>4. \A h \in Guards : phase'[h] = "open" => active'[h]
    BY <2>1, <2>2 DEF OwedInv
  <2> QED
    BY <1>pop, <2>3, <2>4 DEF OwedInv
<1>1. ASSUME UNCHANGED vars PROVE OwedInv'
  BY <1>same, <1>1 DEF vars, guards, session, OwedInv, Owing
<1>2. ASSUME NEW g \in Guards, begin_scope(g) PROVE OwedInv'
  <2>1. /\ depth' = depth + 1
        /\ \A i \in 1..depth : scopeIds'[i] = scopeIds[i]
        /\ scopeIds'[depth + 1] = sequence + 1
    BY <1>0, <1>2, PushScopes DEF begin_scope
  <2>2. /\ token'[g].id = sequence + 1 /\ phase'[g] = "open" /\ active'[g] /\ phase[g] = "new"
        /\ \A h \in Guards \ {g} : token'[h] = token[h] /\ phase'[h] = phase[h] /\ active'[h] = active[h]
    BY <1>0, <1>2, PushScopes DEF begin_scope, PushScope, Goto, GuardsTyped, TokensTyped
  <2>3. \A i \in 1..(depth + 1) : i \in 1..depth \/ i = depth + 1
    BY <1>0
  <2>4. Owing(g)' /\ ~ Owing(g) /\ \A h \in Guards \ {g} : Owing(h) => Owing(h)'
    BY <2>2 DEF Owing
  <2> QED
    BY <1>0, <2>1, <2>2, <2>3, <2>4 DEF OwedInv
<1>3. ASSUME NEW g \in Guards, BeginThrows(g) PROVE OwedInv'
  <2>1. UNCHANGED <<connection, token, active>> /\ tx' \in {tx, 0} /\ phase[g] = "new"
        /\ phase' = [phase EXCEPT ![g] = "done"]
    BY <1>3 DEF BeginThrows, DriverThrows, Drop, Ended, SavepointRefused, Refused, session, Goto
  <2> QED
    BY <1>0, <1>same, <2>1 DEF Owing, GuardsTyped, OwedInv
<1>4. ASSUME NEW g \in Guards, after_commit(g) PROVE OwedInv'
  <2>1. UNCHANGED <<depth, scopeIds, token, active, phase, tx>>
    BY <1>4 DEF after_commit, guards, session
  <2> QED
    BY <2>1 DEF OwedInv, Owing
<1>5. ASSUME NEW g \in Guards, StatementFails(g) \/ WorkThrows(g) PROVE OwedInv'
  <2>1. UNCHANGED <<connection, token, active>> /\ tx' \in {tx, 0} /\ phase[g] = "open"
        /\ (phase' = phase \/ phase' = [phase EXCEPT ![g] = "failing"])
    BY <1>5 DEF StatementFails, WorkThrows, Ended, session, Goto
  <2>2. active[g]
    BY <2>1 DEF OwedInv
  <2> QED
    BY <1>0, <1>same, <2>1, <2>2 DEF Owing, GuardsTyped, OwedInv
<1>6. ASSUME NEW g \in Guards, CommitThrows(g) PROVE OwedInv'
  <2>1. UNCHANGED <<connection, token>> /\ tx' \in {tx, 0} /\ phase[g] = "open"
        /\ phase' = [phase EXCEPT ![g] = "failing"] /\ KeepUnlessEnded(g)
    BY <1>6 DEF CommitThrows, DriverCommitThrows, DriverReleaseThrows, DriverThrows, EndRefused, Refused,
        Drop, Ended, session, Goto
  <2>2. active[g]
    BY <2>1 DEF OwedInv
  <2>3. /\ \A h \in Guards \ {g} : active'[h] = active[h] /\ phase'[h] = phase[h]
        /\ phase'[g] = "failing" /\ (depth # 0 => active'[g])
    BY <1>0, <2>1, <2>2 DEF KeepUnlessEnded, GuardsTyped, TokensTyped
  <2> QED
    BY <1>same, <2>1, <2>2, <2>3 DEF Owing, OwedInv
<1>7. ASSUME NEW g \in Guards, publish(g) PROVE OwedInv'
  BY <1>7, <1>same, Zenon DEF publish, session, OwedInv, Owing
<1>8. ASSUME NEW g \in Guards, CommitReturns(g) PROVE OwedInv'
  <2>1. UNCHANGED <<connection, token, tx>> /\ phase[g] = "publishing"
        /\ (phase' = [phase EXCEPT ![g] = "failing"] \/ phase' = [phase EXCEPT ![g] = "done"])
        /\ (KeepUnlessEnded(g) \/ Deactivate(g))
    BY <1>8, Zenon DEF CommitReturns, session, Goto
  <2>2. /\ \A h \in Guards \ {g} : active'[h] = active[h] /\ phase'[h] = phase[h]
        /\ phase'[g] \in {"failing", "done"}
    BY <1>0, <2>1 DEF KeepUnlessEnded, Deactivate, GuardsTyped, TokensTyped
  <2> QED
    BY <1>same, <2>1, <2>2, Zenon DEF Owing, OwedInv
<1>9. ASSUME NEW g \in Guards, CommitRoot(g) PROVE OwedInv'
  <2>1. depth = 1 /\ depth' = 0 /\ tx' = 0
    BY <1>9 DEF CommitRoot, EndRoot, DriverCommit, Ended
  <2>2. \A i \in 1..(depth - 1) : scopeIds'[i] = scopeIds[i]
    BY <2>1
  <2> QED
    BY <1>9, <1>pop, <2>1, <2>2 DEF CommitRoot
<1>10. ASSUME NEW g \in Guards, CommitNested(g) PROVE OwedInv'
  <2>1. depth > 1 /\ PopScope(Merged)
    BY <1>10 DEF CommitNested
  <2> HIDE DEF Merged
  <2>2. depth' = depth - 1 /\ \A i \in 1..(depth - 1) : scopeIds'[i] = scopeIds[i]
    BY <1>0, <2>1, PopScopes
  <2>3. depth' # 0
    BY <1>0, <2>1, <2>2
  <2> QED
    BY <1>10, <1>pop, <2>2, <2>3 DEF CommitNested
<1>roll. ASSUME NEW g \in Guards, phase[g] # "abandoned", rollback_scope(g), Deactivate(g),
                Goto(g, "done"), UNCHANGED token
         PROVE  OwedInv'
  <2>1. /\ valid(g) /\ depth' = depth - 1 /\ (depth' = 0 => tx' = 0)
        /\ \A i \in 1..(depth - 1) : scopeIds'[i] = scopeIds[i]
    <3>1. CASE depth = 1 /\ DriverRollback /\ EndRoot
      BY <1>roll, <3>1 DEF rollback_scope, DriverRollback, EndRoot, Ended
    <3>2. CASE RollbackNested(g)
      <4>1. depth > 1 /\ PopScope(Front(callbacks))
        BY <3>2 DEF RollbackNested
      <4>2. depth' = depth - 1 /\ depth' # 0 /\ \A i \in 1..(depth - 1) : scopeIds'[i] = scopeIds[i]
        BY <1>0, <4>1, PopScopes
      <4> QED
        BY <1>roll, <4>2 DEF rollback_scope
    <3> QED
      BY <1>roll, <3>1, <3>2 DEF rollback_scope
  <2> QED
    BY <1>pop, <1>roll, <2>1
<1>unroll. ASSUME NEW g \in Guards, RollbackScopeThrows(g) PROVE UNCHANGED connection /\ tx' \in {tx, 0}
  BY <1>unroll DEF RollbackScopeThrows, DriverRollbackThrows, DriverRollbackToThrows, DriverThrows,
      EndRefused, Refused, Drop, Ended, session
<1>11. ASSUME NEW g \in Guards, RunRollsBack(g) PROVE OwedInv'
  <2>1. phase[g] = "failing" /\ UNCHANGED token
    BY <1>11, Zenon DEF RunRollsBack
  <2>2. CASE UNCHANGED <<connection, active, session>> /\ ~ active[g] /\ Goto(g, "done")
    BY <1>0, <1>same, <2>1, <2>2 DEF Owing, OwedInv, GuardsTyped, Goto, session
  <2>3. CASE rollback_scope(g) /\ Deactivate(g) /\ Goto(g, "done")
    BY <1>roll, <2>1, <2>3
  <2>4. CASE RollbackScopeThrows(g) /\ UNCHANGED active /\ Goto(g, "dying")
    <3>1. UNCHANGED connection /\ tx' \in {tx, 0}
      BY <1>unroll, <2>4
    <3>2. phase'[g] = "dying" /\ \A h \in Guards \ {g} : phase'[h] = phase[h]
      BY <1>0, <2>4 DEF GuardsTyped, Goto
    <3> QED
      BY <1>same, <2>1, <2>4, <3>1, <3>2 DEF Owing, OwedInv
  <2> QED
    BY <1>11, <2>2, <2>3, <2>4, Zenon DEF RunRollsBack
<1>12. ASSUME NEW g \in Guards, Destroy(g) PROVE OwedInv'
  <2>1. phase[g] = "dying" /\ UNCHANGED token /\ Deactivate(g)
    BY <1>12 DEF Destroy
  <2>2. CASE rollback_scope(g) /\ Goto(g, "done")
    BY <1>roll, <2>1, <2>2
  <2>3. CASE RollbackScopeThrows(g) /\ Goto(g, "abandoned")
    BY <1>gives, <1>unroll, <2>1, <2>3
  <2> QED
    BY <1>12, <2>2, <2>3 DEF Destroy
<1> QED
  BY <1>1, <1>2, <1>3, <1>4, <1>5, <1>6, <1>7, <1>8, <1>9, <1>10, <1>11, <1>12 DEF TNext

(* Once every guard is over and no destructor had to give up, the          *)
(* connection is outside any transaction and so is the server, for any     *)
(* guards, servers, failures and finishing order.                          *)
THEOREM ConnectionsReturnClean == TSpec => []CleanReturn
<1>1. TInv /\ OwedInv /\ [TNext]_vars => TInv' /\ OwedInv'
  BY NextTInv, NextOwedInv
<1>2. TInit => TInv /\ OwedInv
  BY InitPInv DEF PInv, CInv, OwedInv, TInit
<1>3. TInv /\ OwedInv => CleanReturn
  <2> SUFFICES ASSUME TInv, OwedInv, \A g \in Guards : phase[g] \in {"new", "done"}
               PROVE  depth = 0 /\ ~ inTx
    BY DEF CleanReturn
  <2>1. \A g \in Guards : ~ Owing(g) /\ phase[g] # "abandoned"
    BY DEF Owing
  <2>2. depth \in Nat /\ \A i \in 1..depth : FALSE
    BY <2>1, TInvSplit DEF OwedInv, ScopesOK
  <2> QED
    BY <2>2 DEF OwedInv, inTx
<1> QED
  BY <1>1, <1>2, <1>3, PTL DEF TSpec
=============================================================================
