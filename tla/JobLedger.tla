------------------------------ MODULE JobLedger ------------------------------
(***************************************************************************)
(* What a queue driver promises about a job, whatever it is stored in: the  *)
(* life of a job id between the push that accepts it and the end of the     *)
(* job.                                                                     *)
(***************************************************************************)
CONSTANT Ids

VARIABLE status   \* status[id] of every job identifier

States == {"absent", "waiting", "leased", "failed"}

LedgerInit == status = [id \in Ids |-> "absent"]

Move(id, from, to) ==
    /\ status[id] = from
    /\ status' = [status EXCEPT ![id] = to]

(* A driver may take leases back whenever it is asked for a job. *)
TakeBack(S) ==
    [id \in Ids |-> IF id \in S THEN "waiting" ELSE status[id]]

Leased == {id \in Ids : status[id] = "leased"}

Sweep == \E S \in SUBSET Leased : status' = TakeBack(S)

Deliver(id) ==
    \E S \in SUBSET Leased :
        /\ TakeBack(S)[id] = "waiting"
        /\ status' = [TakeBack(S) EXCEPT ![id] = "leased"]

Accept(id)   == Move(id, "absent", "waiting")
Complete(id) == Move(id, "leased", "absent")
Retry(id)    == Move(id, "leased", "waiting")
Bury(id)     == Move(id, "leased", "failed")
Revive(id)   == Move(id, "failed", "waiting")
Forget(id)   == Move(id, "failed", "absent")

Flush == status' = [id \in Ids |-> "absent"]

LedgerNext ==
    \/ \E id \in Ids :
          \/ Accept(id) \/ Deliver(id) \/ Complete(id) \/ Retry(id)
          \/ Bury(id) \/ Revive(id) \/ Forget(id)
    \/ Sweep
    \/ Flush

LedgerSpec == LedgerInit /\ [][LedgerNext]_status
=============================================================================
