---------------------------- MODULE QueueAttempts ----------------------------
(* QueueWorker with a count of the handler failures of each job since it    *)
(* was accepted.                                                            *)
EXTENDS QueueWorker

VARIABLE failures

CountFailures ==
    failures' = [id \in Ids |->
        IF jobs[id] = None /\ jobs'[id] # None THEN 0
        ELSE IF \E w \in Workers : held[w] = id /\ HandlerThrows(w)
        THEN IF failures[id] > MaxAttempts THEN failures[id] ELSE failures[id] + 1
        ELSE failures[id]]

CountedSpec ==
    /\ Init /\ failures = [id \in Ids |-> 0]
    /\ [][Next /\ CountFailures]_<<vars, failures>>

(* A job's handler fails at most as often as the job has attempts.          *)
FailuresWithinLimit == \A id \in Ids : failures[id] <= MaxAttempts
=============================================================================
