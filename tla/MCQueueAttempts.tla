-------------------------- MODULE MCQueueAttempts --------------------------
EXTENDS QueueAttempts

CONSTANTS j1, t1, t2, t3, w1

MCIds == {j1}
MCTokens == {t1, t2, t3}
MCWorkers == {w1}
MCDelays == {0}
MCBackoff == << >>
=============================================================================
