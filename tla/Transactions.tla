---------------------------- MODULE Transactions ----------------------------
(***************************************************************************)
(* Transaction scopes of one database connection: the scope stack of       *)
(* Connection (begin_scope, commit_scope, rollback_scope, after_commit),   *)
(* the Transaction and AsyncTransaction guards that open and close scopes, *)
(* and the after-commit publication of jobs by the queue Dispatcher.       *)
(*                                                                         *)
(* A guard is an actor: two coroutines that share a connection may hold    *)
(* guards at once and finish them in any order.  When stacked holds the    *)
(* guards are the nested C++ objects of one thread: the youngest finishes  *)
(* first.                                                                  *)
(*                                                                         *)
(* What a scope writes is abstracted to one row, named by the scope's id;  *)
(* a callback registered while a scope is on top carries that id too, so   *)
(* "the job is published only if the writes beside it are durable" is a    *)
(* relation between two sets of ids.                                       *)
(***************************************************************************)
EXTENDS Naturals, Sequences, FiniteSets

CONSTANTS
    Guards,        \* transaction objects over the life of the connection
    Engines,       \* the servers the connection may be to
    ErrorsHandled, \* TRUE: a callback may handle a failed statement and go on
    MaxFaults      \* bound on failures of driver calls and of callbacks

ASSUME TransactionsAssumption ==
    /\ IsFiniteSet(Guards)
    /\ Engines \subseteq {"sqlite", "postgresql", "mysql", "mssql"}
    /\ ErrorsHandled \in BOOLEAN
    /\ MaxFaults \in Nat

VARIABLES
    stacked,       \* the guards are nested objects of one thread
    depth,         \* transaction_depth_
    callbacks,     \* commit_callbacks_: one set of callbacks per open scope
    scopeIds,      \* transaction_scope_ids_
    sequence,      \* transaction_scope_sequence_
    token,         \* each guard's token_: depth and scope id
    active,        \* each guard's active_
    phase,         \* where each guard is in run() and its destructor
    pending,       \* callbacks commit_scope took and has yet to call, per guard
    thrown,        \* whether one of them threw
    published,     \* callbacks that were called
    engine,        \* the server
    alive,         \* the server's side of the connection: whether it still works,
    tx,            \*   the scope whose call opened its transaction (0: none is open),
    live, aborted, \*   the rows of that transaction and whether it is doomed,
    durable,       \*   and the rows that were committed
    faults

connection == <<depth, callbacks, scopeIds, sequence>>
guards == <<token, active, phase, pending, thrown>>
session == <<alive, tx, live, aborted, durable>>
vars == <<stacked, engine, connection, guards, published, session, faults>>

Ids == Nat \ {0}
Top == scopeIds[Len(scopeIds)]
Front(s) == SubSeq(s, 1, Len(s) - 1)

----------------------------------------------------------------------------
(* The database server, as the drivers use it.  A scope writes its row when *)
(* it opens; what a statement writes after the server has ended the        *)
(* transaction by itself belongs to no scope and is left out.              *)

Fault == faults < MaxFaults /\ faults' = faults + 1

inTx == tx # 0

(* The server has no transaction any more.                                 *)
Ended == tx' = 0 /\ live' = {} /\ aborted' = FALSE

(* The connection drops and the server forgets the open transaction.       *)
Drop == alive' = FALSE /\ Ended

(* A call on a dropped connection throws; a call may throw with nothing    *)
(* done; a call may find the connection dropped.                           *)
DriverThrows ==
    /\ UNCHANGED durable
    /\ \/ ~alive /\ UNCHANGED <<alive, tx, live, aborted, faults>>
       \/ alive /\ Fault /\ UNCHANGED <<alive, tx, live, aborted>>
       \/ alive /\ Fault /\ Drop

(* The server answers a statement with an error and does nothing.          *)
Refused == alive /\ UNCHANGED <<session, faults>>

DriverBegin(id) ==
    /\ alive
    /\ tx' = id
    /\ live' = {id}
    /\ aborted' = FALSE
    /\ UNCHANGED <<alive, durable, faults>>

(* SAVEPOINT outside a transaction opens one on SQLite; on MySQL it is     *)
(* accepted and forgotten, and what follows commits by itself.             *)
DriverSavepoint(id) ==
    /\ alive /\ ~aborted
    /\ \/ inTx /\ live' = live \cup {id} /\ UNCHANGED <<tx, durable>>
       \/ ~inTx /\ engine = "sqlite" /\ tx' = id /\ live' = {id} /\ UNCHANGED durable
       \/ ~inTx /\ engine = "mysql" /\ durable' = durable \cup {id} /\ UNCHANGED <<tx, live>>
    /\ UNCHANGED <<alive, aborted, faults>>

SavepointRefused ==
    /\ aborted \/ (~inTx /\ engine \in {"postgresql", "mssql"})
    /\ Refused

(* The savepoint of an open scope is still there if it was set since the   *)
(* transaction began.                                                      *)
HasSavepoint(id) == inTx /\ tx <= id

(* RELEASE of the savepoint that opened a transaction (SQLite) commits it; *)
(* SQL Server has no such statement and none is sent.                      *)
DriverRelease(id) ==
    \/ engine = "mssql" /\ UNCHANGED <<session, faults>>
    \/ /\ engine # "mssql" /\ alive /\ HasSavepoint(id) /\ ~aborted
       /\ IF tx = id
            THEN Ended /\ durable' = durable \cup live
            ELSE UNCHANGED <<tx, live, aborted, durable>>
       /\ UNCHANGED <<alive, faults>>

DriverReleaseThrows(id) ==
    /\ engine # "mssql"
    /\ DriverThrows \/ (Refused /\ (aborted \/ ~HasSavepoint(id)))

(* Everything written since the savepoint of scope id is undone.           *)
DriverRollbackTo(id) ==
    /\ alive /\ HasSavepoint(id)
    /\ live' = {r \in live : r < id}
    /\ aborted' = FALSE
    /\ UNCHANGED <<alive, tx, durable, faults>>

DriverRollbackToThrows(id) == DriverThrows \/ (Refused /\ ~HasSavepoint(id))

(* COMMIT and ROLLBACK outside a transaction are errors on SQLite alone.   *)
EndRefused == Refused /\ ~inTx /\ engine = "sqlite"

(* COMMIT of a doomed transaction succeeds and rolls back.                 *)
DriverCommit ==
    /\ alive /\ (inTx \/ engine # "sqlite")
    /\ durable' = IF aborted THEN durable ELSE durable \cup live
    /\ Ended
    /\ UNCHANGED <<alive, faults>>

(* A commit that throws: refused, refused and rolled back by the server,   *)
(* or done by the server before the connection drops or, on SQL Server,    *)
(* before autocommit could be switched on again.                           *)
DriverCommitThrows ==
    \/ DriverThrows \/ EndRefused
    \/ alive /\ Fault /\ Ended /\ UNCHANGED <<alive, durable>>
    \/ /\ alive /\ ~aborted /\ Fault
       /\ durable' = durable \cup live
       /\ Drop \/ (engine = "mssql" /\ Ended /\ UNCHANGED alive)

DriverRollback ==
    /\ alive /\ (inTx \/ engine # "sqlite")
    /\ Ended
    /\ UNCHANGED <<alive, durable, faults>>

DriverRollbackThrows ==
    \/ DriverThrows \/ EndRefused
    \/ alive /\ engine = "mssql" /\ Fault /\ Ended /\ UNCHANGED <<alive, durable>>

----------------------------------------------------------------------------
TInit ==
    /\ stacked \in BOOLEAN
    /\ engine \in Engines
    /\ depth = 0
    /\ callbacks = <<>>
    /\ scopeIds = <<>>
    /\ sequence = 0
    /\ token = [g \in Guards |-> [depth |-> 0, id |-> 0]]
    /\ active = [g \in Guards |-> FALSE]
    /\ phase = [g \in Guards |-> "new"]
    /\ pending = [g \in Guards |-> {}]
    /\ thrown = [g \in Guards |-> FALSE]
    /\ published = {}
    /\ alive = TRUE /\ tx = 0 /\ live = {} /\ aborted = FALSE
    /\ durable = {}
    /\ faults = 0

Goto(g, p) == phase' = [phase EXCEPT ![g] = p]
Deactivate(g) == active' = [active EXCEPT ![g] = FALSE]

(* A guard not yet constructed or destroyed already.                       *)
Over == {"new", "done", "abandoned"}

(* Nested objects of one thread: only the youngest one still alive acts.   *)
Youngest(g) ==
    stacked => \A h \in Guards \ {g} :
        phase[h] \in Over \/ token[h].id < token[g].id

(* Nested objects of one thread: a guard that is publishing or unwinding   *)
(* opens no other.                                                         *)
MayOpen == stacked => \A h \in Guards : phase[h] \in Over \cup {"open"}

(* Mutant of PushScope: the scope sequence is used but not advanced. *)
PushScopeStaleSequence(g) ==
    /\ depth' = depth + 1
    /\ callbacks' = Append(callbacks, {})
    /\ sequence' = sequence
    /\ scopeIds' = Append(scopeIds, sequence + 1)
    /\ token' = [token EXCEPT ![g] = [depth |-> depth', id |-> sequence + 1]]
    /\ active' = [active EXCEPT ![g] = TRUE]
    /\ Goto(g, "open")

PushScope(g) ==
    /\ depth' = depth + 1
    /\ callbacks' = Append(callbacks, {})
    /\ sequence' = sequence + 1
    /\ scopeIds' = Append(scopeIds, sequence')
    /\ token' = [token EXCEPT ![g] = [depth |-> depth', id |-> sequence']]
    /\ active' = [active EXCEPT ![g] = TRUE]
    /\ Goto(g, "open")

(* Transaction::Transaction and begin_scope: a root scope begins the       *)
(* driver's transaction, a nested one sets a savepoint.                    *)
begin_scope(g) ==
    /\ phase[g] = "new" /\ MayOpen
    /\ PushScope(g)
    /\ IF depth = 0 THEN DriverBegin(sequence') ELSE DriverSavepoint(sequence')
    /\ UNCHANGED <<pending, thrown, published>>

BeginThrows(g) ==
    /\ phase[g] = "new" /\ MayOpen
    /\ DriverThrows \/ (depth # 0 /\ SavepointRefused)
    /\ Goto(g, "done")
    /\ UNCHANGED <<connection, token, active, pending, thrown, published>>

(* Dispatcher::dispatch_later inside a guard's callback: the publication   *)
(* joins the callbacks of the scope on top.  (Outside a transaction it     *)
(* happens at once and touches nothing here.)                              *)
after_commit(g) ==
    /\ phase[g] = "open"
    /\ depth # 0
    /\ callbacks' = [callbacks EXCEPT ![depth] = @ \cup {Top}]
    /\ UNCHANGED <<depth, scopeIds, sequence, guards, published, session, faults>>

(* Connection::execute throws inside a guard's callback.  The server undid *)
(* the statement alone (then this is WorkThrows), doomed the transaction   *)
(* (PostgreSQL), or has ended it (a MySQL or SQL Server deadlock, SQLite   *)
(* out of space).  The error leaves the callback unless it is handled.     *)
StatementFails(g) ==
    /\ phase[g] = "open" /\ Youngest(g) /\ alive /\ inTx
    /\ \/ engine = "postgresql" /\ aborted' = TRUE /\ UNCHANGED <<tx, live>>
       \/ engine # "postgresql" /\ Ended
    /\ Goto(g, "failing") \/ (ErrorsHandled /\ UNCHANGED phase)
    /\ UNCHANGED <<connection, token, active, pending, thrown, published,
                   alive, durable, faults>>

(* Mutant of valid: the scope ids are not compared. *)
ValidByDepth(g) ==
    /\ depth # 0
    /\ token[g].depth = depth

(* validate_scope_token: the token must be that of the scope on top.       *)
valid(g) ==
    /\ depth # 0
    /\ token[g].depth = depth
    /\ token[g].id = Top

EndRoot ==
    /\ depth' = 0
    /\ scopeIds' = <<>>
    /\ callbacks' = <<>>
    /\ UNCHANGED sequence

PopScope(levels) ==
    /\ depth' = depth - 1
    /\ scopeIds' = Front(scopeIds)
    /\ callbacks' = levels
    /\ UNCHANGED sequence

(* Mutant of Merged: the scope's callbacks are copied, not moved. *)
MergedLeavesCopy == [callbacks EXCEPT ![depth - 1] = @ \cup callbacks[depth]]

(* The levels with those of the scope on top moved into its parent.        *)
Merged == [Front(callbacks) EXCEPT ![depth - 1] = @ \cup callbacks[depth]]

(* commit_scope for the root: the driver commits, the scope is gone and    *)
(* its callbacks are taken out to be called once the mutex is released.    *)
CommitRoot(g) ==
    /\ phase[g] = "open" /\ Youngest(g)
    /\ valid(g) /\ depth = 1
    /\ DriverCommit
    /\ EndRoot
    /\ pending' = [pending EXCEPT ![g] = UNION {callbacks[i] : i \in 1..Len(callbacks)}]
    /\ Goto(g, "publishing")
    /\ UNCHANGED <<token, active, thrown, published>>

(* commit_scope for a nested scope: its callbacks wait with its parent.    *)
CommitNested(g) ==
    /\ phase[g] = "open" /\ Youngest(g)
    /\ valid(g) /\ depth > 1
    /\ DriverRelease(Top)
    /\ PopScope(Merged)
    /\ Deactivate(g)
    /\ Goto(g, "done")
    /\ UNCHANGED <<token, pending, thrown, published>>

(* Mutant of KeepUnlessEnded: a guard whose commit threw is inactive. *)
DeactivateAlways(g) == Deactivate(g)

(* The catch of Transaction::commit: the guard stays active while the      *)
(* connection is in a transaction.                                         *)
KeepUnlessEnded(g) ==
    active' = [active EXCEPT ![g] = @ /\ depth # 0]

CommitThrows(g) ==
    /\ phase[g] = "open" /\ Youngest(g)
    /\ \/ ~valid(g) /\ UNCHANGED <<session, faults>>
       \/ valid(g) /\ depth = 1 /\ DriverCommitThrows
       \/ valid(g) /\ depth > 1 /\ DriverReleaseThrows(Top)
    /\ KeepUnlessEnded(g)
    /\ Goto(g, "failing")
    /\ UNCHANGED <<connection, token, pending, thrown, published>>

(* One callback: Driver::push_later publishes the job or throws.           *)
publish(g) ==
    /\ phase[g] = "publishing"
    /\ \E c \in pending[g] :
        /\ pending' = [pending EXCEPT ![g] = @ \ {c}]
        /\ \/ /\ published' = published \cup {c}
              /\ UNCHANGED <<thrown, faults>>
           \/ /\ Fault
              /\ thrown' = [thrown EXCEPT ![g] = TRUE]
              /\ UNCHANGED published
    /\ UNCHANGED <<connection, token, active, phase, session>>

(* commit_scope rethrows the first failure once every callback has run.    *)
CommitReturns(g) ==
    /\ phase[g] = "publishing" /\ pending[g] = {}
    /\ IF thrown[g]
         THEN KeepUnlessEnded(g) /\ Goto(g, "failing")
         ELSE Deactivate(g) /\ Goto(g, "done")
    /\ UNCHANGED <<connection, token, pending, thrown, published, session, faults>>

(* The callback of run() throws, or an AsyncTransaction has expired.       *)
WorkThrows(g) ==
    /\ phase[g] = "open" /\ Youngest(g)
    /\ Goto(g, "failing")
    /\ UNCHANGED <<connection, token, active, pending, thrown, published, session, faults>>

(* Mutant of RollbackNested: the undone scope leaves its callbacks behind. *)
RollbackNestedMerges(g) ==
    /\ depth > 1
    /\ DriverRollbackTo(Top)
    /\ PopScope(Merged)

RollbackNested(g) ==
    /\ depth > 1
    /\ DriverRollbackTo(Top)
    /\ PopScope(Front(callbacks))

(* rollback_scope: the driver's transaction, or back to the savepoint.     *)
rollback_scope(g) ==
    /\ valid(g)
    /\ \/ depth = 1 /\ DriverRollback /\ EndRoot
       \/ RollbackNested(g)

RollbackScopeThrows(g) ==
    /\ \/ ~valid(g) /\ UNCHANGED <<session, faults>>
       \/ valid(g) /\ depth = 1 /\ DriverRollbackThrows
       \/ valid(g) /\ depth > 1 /\ DriverRollbackToThrows(Top)
    /\ UNCHANGED connection

(* The catch of run(): roll back, then rethrow.                            *)
RunRollsBack(g) ==
    /\ phase[g] = "failing" /\ Youngest(g)
    /\ \/ ~active[g] /\ Goto(g, "done")
          /\ UNCHANGED <<connection, token, active, session, faults>>
       \/ active[g] /\ rollback_scope(g) /\ Deactivate(g) /\ Goto(g, "done")
       \/ active[g] /\ RollbackScopeThrows(g) /\ Goto(g, "dying")
          /\ UNCHANGED active
    /\ UNCHANGED <<token, pending, thrown, published>>

(* The destructor of a guard that is still active: one more attempt, and   *)
(* its failure is swallowed.                                               *)
Destroy(g) ==
    /\ phase[g] = "dying" /\ Youngest(g)
    /\ \/ rollback_scope(g) /\ Goto(g, "done")
       \/ RollbackScopeThrows(g) /\ Goto(g, "abandoned")
    /\ Deactivate(g)
    /\ UNCHANGED <<token, pending, thrown, published>>

TNext ==
    /\ \E g \in Guards :
        \/ begin_scope(g) \/ BeginThrows(g)
        \/ after_commit(g) \/ StatementFails(g) \/ WorkThrows(g)
        \/ CommitRoot(g) \/ CommitNested(g) \/ CommitThrows(g)
        \/ publish(g) \/ CommitReturns(g)
        \/ RunRollsBack(g) \/ Destroy(g)
    /\ UNCHANGED <<stacked, engine>>

TSpec == TInit /\ [][TNext]_vars

----------------------------------------------------------------------------
(* The variables of Connection and of its guards hold values of their      *)
(* C++ types, and a guard's token never names a scope not yet opened.      *)
TTypeOK ==
    /\ stacked \in BOOLEAN
    /\ engine \in Engines
    /\ depth \in Nat
    /\ sequence \in Nat
    /\ callbacks \in Seq(SUBSET Ids)
    /\ scopeIds \in Seq(Ids)
    /\ token \in [Guards -> [depth : Nat, id : 0..sequence]]
    /\ active \in [Guards -> BOOLEAN]
    /\ phase \in [Guards -> Over \cup {"open", "publishing", "failing", "dying"}]
    /\ pending \in [Guards -> SUBSET Ids]
    /\ thrown \in [Guards -> BOOLEAN]
    /\ published \in SUBSET Ids
    /\ alive \in BOOLEAN /\ tx \in Nat /\ aborted \in BOOLEAN
    /\ live \in SUBSET Ids /\ durable \in SUBSET Ids
    /\ faults \in 0..MaxFaults

(* The depth counter, the stack of callback lists and the stack of scope   *)
(* ids of Connection always describe the same scopes, oldest first.        *)
StacksAgree ==
    /\ Len(callbacks) = depth
    /\ Len(scopeIds) = depth
    /\ \A i, j \in 1..depth : i < j => scopeIds[i] < scopeIds[j]
    /\ \A i \in 1..depth : scopeIds[i] <= sequence

(* docs/queues.md: "After-commit dispatch publishes only when the active   *)
(* database transaction commits."  Whatever fails, whichever guards finish *)
(* first, a published job's scope is durable on the server.                *)
PublishedIsDurable == published \subseteq durable

(* A callback is waiting with one scope, or is about to be called by one   *)
(* guard, or has been called: no commit or rollback, failed or not, leaves *)
(* it where another commit would call it a second time.                    *)
CalledOnce ==
    /\ \A i \in 1..Len(callbacks) :
        callbacks[i] \cap (published \cup UNION {pending[g] : g \in Guards}) = {}
    /\ \A i, j \in 1..Len(callbacks) : i # j => callbacks[i] \cap callbacks[j] = {}
    /\ \A g \in Guards : pending[g] \cap published = {}
    /\ \A g, h \in Guards : g # h => pending[g] \cap pending[h] = {}

(* A scope is ended only by the guard whose token names it: a guard left   *)
(* active with a stale token (its commit ended its scope and a callback    *)
(* threw while another guard was open) never ends the other's scope.       *)
EndsOwnScope ==
    [][Len(scopeIds') < Len(scopeIds) =>
        \E g \in Guards : token[g].id = Top /\ phase'[g] # phase[g]]_vars

(* Once every guard is over, the connection is outside any transaction,    *)
(* whichever statements, commits and callbacks failed, on whichever server *)
(* and in whatever order the guards ended; the one exception is a guard    *)
(* whose destructor had to swallow a rollback that failed again.           *)
CleanReturn ==
    (\A g \in Guards : phase[g] \in {"new", "done"}) => depth = 0 /\ ~inTx

(* docs/database.md: "an exception rolls back the scope before             *)
(* propagating."  While the connection works, the scope of a nested guard  *)
(* that has been destroyed is no longer one of the connection's scopes.    *)
ExceptionEndsScope ==
    (stacked /\ alive) =>
        \A g \in Guards : phase[g] \in {"done", "abandoned"} =>
            \A i \in 1..depth : scopeIds[i] # token[g].id

=============================================================================
