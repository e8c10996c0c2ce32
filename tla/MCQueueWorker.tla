--------------------------- MODULE MCQueueWorker ---------------------------
(* Two workers and two jobs. *)
EXTENDS QueueWorker, TLC

CONSTANTS j1, j2, t1, t2, t3, t4, w1, w2

MCIds == {j1, j2}
MCTokens == {t1, t2, t3, t4}
MCWorkers == {w1, w2}
MCDelays == {0, 1}
MCBackoff == <<0, 1>>
MCUnhandled == {j2}

(* Tokens and workers are only compared for equality.  The ids are not      *)
(* interchangeable: j2 has no handler in some runs.                         *)
Symmetry == Permutations(MCTokens) \cup Permutations(MCWorkers)

(* The keys of the queue and the workers' fields have their types.         *)
QueueTypeOK == QTypeOK /\ WTypeOK
=============================================================================
