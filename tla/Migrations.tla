------------------------------ MODULE Migrations ------------------------------
(***************************************************************************)
(* Runner::migrate and Runner::rollback, by several processes on one       *)
(* database, with statements that fail and processes that die.             *)
(*                                                                         *)
(* Migrations are numbered in the order they are registered.  A plan is    *)
(* one statement that takes effect as a whole: going up fails on a schema  *)
(* that has it, going down on one that has not.  The database is external. *)
(* In an "atomic" one the statement and the record belong to a transaction *)
(* that locks what it changes; in the others, where a schema change        *)
(* commits by itself (MySQL), each has its effect at once.  MongoDB, whose *)
(* records have no unique key, is not modelled.                            *)
(***************************************************************************)
EXTENDS Naturals
LOCAL INSTANCE FiniteSetsExt

CONSTANTS
    Runners,
    Count,          \* registered migrations
    Kinds,          \* databases to consider
    MaxRuns,        \* calls of migrate and rollback
    MaxMishaps      \* failing statements and deaths

ASSUME MigrationsAssumption ==
    /\ Count \in Nat \ {0} /\ Kinds \subseteq {"atomic", "each"}
    /\ MaxRuns \in Nat /\ MaxMishaps \in Nat

VARIABLES
    kind,           \* the database, chosen once
    schema,         \* migrations that are in effect
    batchOf,        \* gungnir_migrations: the batch of each, 0 when not recorded
    runner,         \* each runner: where it is and what it has read
    onlyUp,         \* rollback has not been called
    runs, mishaps

migrationvars == <<kind, schema, batchOf, runner, onlyUp, runs, mishaps>>

All == 1..Count
Recorded == {m \in All : batchOf[m] # 0}
Resting == [at |-> "idle", up |-> TRUE, seen |-> [m \in All |-> 0], batch |-> 0,
            todo |-> {}, current |-> 0]

(* A runner works on what is registered, with a batch of at least one.     *)
MigrationsTypeOK ==
    /\ schema \subseteq All /\ batchOf \in [All -> 0..MaxRuns]
    /\ \A r \in Runners : runner[r].todo \subseteq All /\ runner[r].current \in 0..Count
    /\ \A r \in Runners : runner[r].at \in {"plan", "record", "commit"} => runner[r].batch > 0

MigrationsInit ==
    /\ kind \in Kinds /\ schema = {} /\ batchOf = [m \in All |-> 0]
    /\ runner = [r \in Runners |-> Resting] /\ onlyUp = TRUE /\ runs = 0 /\ mishaps = 0

-----------------------------------------------------------------------------
Highest == Max({batchOf[m] : m \in All})

(* The records are read twice: by applied, for their names, ...            *)
applied(r, up) ==
    /\ runner[r].at = "idle" /\ runs < MaxRuns /\ runs' = runs + 1
    /\ runner' = [runner EXCEPT ![r] =
         IF up \/ Recorded # {} THEN [Resting EXCEPT !.at = "batch", !.up = up, !.seen = batchOf]
         ELSE Resting]
    /\ onlyUp' = (onlyUp /\ up)
    /\ UNCHANGED <<kind, schema, batchOf, mishaps>>

(* ... and by last_batch, for the batch to add or to undo.                 *)
last_batch(r) ==
    LET batch == IF runner[r].up THEN Highest + 1 ELSE Highest
        seen == runner[r].seen IN
    /\ runner[r].at = "batch"
    /\ runner' = [runner EXCEPT ![r] =
         [@ EXCEPT !.at = IF batch = 0 THEN "idle" ELSE "plan", !.batch = batch,
                   !.todo = {m \in All : seen[m] = IF runner[r].up THEN 0 ELSE batch}]]
    /\ UNCHANGED <<kind, onlyUp, schema, batchOf, runs, mishaps>>

(* Mutant of Turn: migrate takes the pending migrations in any order. *)
AnyTurn(r, m) == m \in runner[r].todo

(* migrate goes through the registered migrations in order; rollback       *)
(* through the records from the last, which the query orders by batch only.*)
Turn(r, m) ==
    /\ m \in runner[r].todo
    /\ runner[r].up => m = Min(runner[r].todo)

(* What the plan and the record change.                                    *)
Planned(r, m) == IF runner[r].up THEN schema \cup {m} ELSE schema \ {m}
Noted(r, m) == [batchOf EXCEPT ![m] = IF runner[r].up THEN runner[r].batch ELSE 0]
Possible(r, m) == (m \in schema) # runner[r].up

(* The transaction of another runner holds the same objects.               *)
Locked(r, m) ==
    /\ kind = "atomic"
    /\ \E q \in Runners \ {r} : runner[q].at \in {"record", "commit"} /\ runner[q].current = m

(* execute_plan; an error leaves the runner.                               *)
execute_plan(r, m) ==
    /\ runner[r].at = "plan" /\ Turn(r, m) /\ ~Locked(r, m)
    /\ IF Possible(r, m)
       THEN /\ runner' = [runner EXCEPT ![r] = [@ EXCEPT !.at = "record", !.current = m]]
            /\ schema' = IF kind = "atomic" THEN schema ELSE Planned(r, m)
       ELSE /\ runner' = [runner EXCEPT ![r] = Resting]
            /\ UNCHANGED schema
    /\ UNCHANGED <<kind, onlyUp, batchOf, runs, mishaps>>

(* This migration is done.                                                 *)
Counted(r) ==
    runner' = [runner EXCEPT ![r] =
        [@ EXCEPT !.at = "plan", !.todo = @ \ {runner[r].current}, !.current = 0]]

(* Repository::record and remove; the name is the primary key.             *)
record(r) ==
    LET m == runner[r].current IN
    /\ runner[r].at = "record"
    /\ IF runner[r].up /\ batchOf[m] # 0
       THEN runner' = [runner EXCEPT ![r] = Resting] /\ UNCHANGED batchOf
       ELSE IF kind = "atomic"
       THEN runner' = [runner EXCEPT ![r].at = "commit"] /\ UNCHANGED batchOf
       ELSE batchOf' = Noted(r, m) /\ Counted(r)
    /\ UNCHANGED <<kind, onlyUp, schema, runs, mishaps>>

Commit(r) ==
    LET m == runner[r].current IN
    /\ runner[r].at = "commit"
    /\ schema' = Planned(r, m) /\ batchOf' = Noted(r, m) /\ Counted(r)
    /\ UNCHANGED <<kind, onlyUp, runs, mishaps>>

Finished(r) ==
    /\ runner[r].at = "plan" /\ runner[r].todo = {}
    /\ runner' = [runner EXCEPT ![r] = Resting]
    /\ UNCHANGED <<kind, onlyUp, schema, batchOf, runs, mishaps>>

(* A statement throws or the process dies, before or after the statement   *)
(* had its effect: an open transaction is rolled back.                     *)
Mishap(r) ==
    LET m == runner[r].current IN
    /\ runner[r].at # "idle" /\ mishaps < MaxMishaps /\ mishaps' = mishaps + 1
    /\ \/ UNCHANGED <<schema, batchOf>>
       \/ /\ kind = "each" /\ runner[r].at = "plan" /\ UNCHANGED batchOf
          /\ \E n \in All : Turn(r, n) /\ Possible(r, n) /\ schema' = Planned(r, n)
       \/ /\ kind = "each" /\ runner[r].at = "record" /\ UNCHANGED schema
          /\ ~(runner[r].up /\ batchOf[m] # 0) /\ batchOf' = Noted(r, m)
       \/ runner[r].at = "commit" /\ schema' = Planned(r, m) /\ batchOf' = Noted(r, m)
    /\ runner' = [runner EXCEPT ![r] = Resting]
    /\ UNCHANGED <<kind, onlyUp, runs>>

MigrationsNext ==
    \E r \in Runners :
        \/ \E up \in BOOLEAN : applied(r, up)
        \/ \E m \in All : execute_plan(r, m)
        \/ last_batch(r) \/ record(r) \/ Commit(r) \/ Finished(r) \/ Mishap(r)

MigrationsSpec == MigrationsInit /\ [][MigrationsNext]_migrationvars

-----------------------------------------------------------------------------
(* docs/migration.md: the CLI "applies pending migrations in order and     *)
(* records completed migrations".  However runners meet, fail and die:     *)
(* while none of them rolls back, a migration is in effect only after all  *)
(* before it and recorded only when it is in effect; and on a database     *)
(* with transactional schema changes the records tell the schema, roll-    *)
(* backs included.                                                         *)
AppliedInOrder ==
    /\ kind = "atomic" => schema = Recorded
    /\ onlyUp => Recorded \subseteq schema /\ \A m \in schema : 1..m \subseteq schema
====
