---------------------------- MODULE MCDatabase ----------------------------
(* The three parts of the database layer that hold state, each on its     *)
(* own: two clients and the validator share one pooled entry, three       *)
(* transaction guards share one connection, or two runners migrate one    *)
(* database.                                                              *)
EXTENDS ConnectionPool, Transactions, Migrations
CONSTANTS c1, c2, v, g1, g2, g3, r1, r2
VARIABLE part

MCClients == {c1, c2}
MCMayExpire == {c1}
MCMayCancel == {c1, c2}
MCGuards == {g1, g2, g3}

MCRunners == {r1, r2}

MCInit ==
    /\ part \in {"pool", "transactions", "migrations"}
    /\ PoolInit /\ TInit /\ MigrationsInit
    /\ part # "transactions" => stacked /\ engine = "sqlite"
    /\ part # "migrations" => kind = "atomic"

(* The guards are interchangeable: they are constructed in this order.     *)
InOrder ==
    /\ phase'[g2] # "new" => phase'[g1] # "new"
    /\ phase'[g3] # "new" => phase'[g2] # "new"

MCNext ==
    \/ part = "pool" /\ PoolNext /\ UNCHANGED <<part, vars, migrationvars>>
    \/ part = "transactions" /\ TNext /\ InOrder /\ UNCHANGED <<part, poolvars, migrationvars>>
    \/ part = "migrations" /\ MigrationsNext /\ UNCHANGED <<part, poolvars, vars>>
MCSpec == MCInit /\ [][MCNext]_<<part, poolvars, vars, migrationvars>> /\ PoolFairness

(* The fields of the pool, of a connection and of the runners have their  *)
(* types.                                                                 *)
DatabaseTypeOK == PoolTypeOK /\ TTypeOK /\ MigrationsTypeOK
=============================================================================
