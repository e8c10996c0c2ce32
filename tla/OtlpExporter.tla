----------------------------- MODULE OtlpExporter -----------------------------
(***************************************************************************)
(* The OTLP exporter: threads that end spans or record measurements put    *)
(* them into bounded queues, a worker takes a batch of each signal and     *)
(* posts it to the collector, other threads flush and shut down.           *)
(*                                                                         *)
(* Each critical section of the exporter's mutex is one step; the worker   *)
(* posts without it.  Durations are abstracted: the wait of the worker may *)
(* end at any time (batch_delay), a flush may run into its timeout, an     *)
(* export into its own, and the shutdown deadline passes some time after   *)
(* the exporter began to stop.                                             *)
(***************************************************************************)
EXTENDS Naturals, Sequences, FiniteSets, SequencesExt

CONSTANTS
    MaxSpans, MaxMetrics,       \* how much the application reports
    MaxQueueSize, MaxBatchSize, MaxAttempts,
    Flushers, Stoppers          \* threads that call flush, shutdown

Signals == {"spans", "metrics"}
Most(s) == IF s = "spans" THEN MaxSpans ELSE MaxMetrics

ASSUME ExporterAssumption ==
    /\ MaxSpans \in Nat /\ MaxMetrics \in Nat
    /\ MaxBatchSize \in 1..MaxQueueSize /\ MaxAttempts \in Nat \ {0}

VARIABLES
    offered,     \* how many records of each signal were reported
    pending,     \* the deques spans and metrics
    accepted,    \* accepted_spans, accepted_metrics
    completed,   \* completed_spans, completed_metrics
    dropped,     \* dropped_count
    flushing,    \* flush_requested
    stopping, late,   \* whether shutdown began, whether its deadline passed
    failed,
    worker,      \* "wait", "spans" or "metrics" (posting), "settle", "ended"
    batch,       \* what the worker has taken
    attempts,    \* posts of each signal of the batch
    rejected,    \* Delivery::rejected of each signal
    collector,   \* records the collector has stored
    flusher,     \* each flush call: its state, its snapshot
    stopper,     \* each shutdown call
    joining      \* shutdown_mutex is held by the call that joins the worker

queues == <<pending, accepted, completed, dropped>>
control == <<flushing, stopping, late, failed>>
sending == <<batch, attempts, rejected, collector>>
exportvars == <<offered, queues, control, worker, sending, flusher, stopper, joining>>

Each(x) == [s \in Signals |-> x]
Size(q) == Len(q["spans"]) + Len(q["metrics"])
Taken(s) == ToSet(batch[s])
Accepted == UNION {{s} \X (1..accepted[s]) : s \in Signals}
Total(count) == count["spans"] + count["metrics"]
Unsettled == UNION {ToSet(pending[s]) \cup Taken(s) : s \in Signals}

(* The queues keep within max_queue_size, the batches within               *)
(* max_batch_size, and nothing is completed that was not accepted.         *)
ExporterTypeOK ==
    /\ \A s \in Signals : offered[s] \in 0..Most(s)
    /\ collector \subseteq Accepted
    /\ Size(pending) <= MaxQueueSize
    /\ \A s \in Signals :
        /\ Len(batch[s]) <= MaxBatchSize /\ rejected[s] <= Len(batch[s])
        /\ attempts[s] <= MaxAttempts
        /\ completed[s] + Len(batch[s]) + Len(pending[s]) = accepted[s]
    /\ worker \in {"wait", "spans", "metrics", "settle", "ended"}

ExporterInit ==
    /\ offered = Each(0) /\ pending = Each(<<>>) /\ accepted = Each(0) /\ completed = Each(0)
    /\ dropped = 0 /\ flushing = FALSE /\ stopping = FALSE /\ late = FALSE /\ failed = FALSE
    /\ worker = "wait" /\ batch = Each(<<>>) /\ attempts = Each(0) /\ rejected = Each(0)
    /\ collector = {} /\ joining = FALSE
    /\ flusher = [f \in Flushers |-> [st |-> "idle", target |-> Each(0)]]
    /\ stopper = [c \in Stoppers |-> "idle"]

-----------------------------------------------------------------------------
reject == dropped' = dropped + 1 /\ UNCHANGED <<pending, accepted>>

(* An accepted record is named by its signal and its number.               *)
enqueue(s) ==
    IF stopping \/ failed \/ Size(pending) >= MaxQueueSize
    THEN dropped' = dropped + 1 /\ UNCHANGED <<pending, accepted>>
    ELSE /\ accepted' = [accepted EXCEPT ![s] = @ + 1]
         /\ pending' = [pending EXCEPT ![s] = Append(@, <<s, accepted'[s]>>)]
         /\ UNCHANGED dropped

(* export_span and export_metric: a record that does not encode is         *)
(* rejected before it reaches the queue.                                   *)
Export(s) ==
    /\ offered[s] < Most(s) /\ offered' = [offered EXCEPT ![s] = @ + 1]
    /\ enqueue(s) \/ reject
    /\ UNCHANGED <<completed, control, worker, sending, flusher, stopper, joining>>

-----------------------------------------------------------------------------
(* Mutant of Reached: only the spans are waited for. *)
ReachedSpans(target) == completed["spans"] >= target["spans"]

(* flush waits until as many records are completed as were accepted when   *)
(* it was called, or until its timeout.                                    *)
Reached(target) == \A s \in Signals : completed[s] >= target[s]

Flush(f) ==
    /\ flusher[f].st = "idle"
    /\ flusher' = [flusher EXCEPT ![f] =
         [st |-> IF Reached(accepted) THEN "returned" ELSE "waits", target |-> accepted]]
    /\ flushing' = TRUE
    /\ UNCHANGED <<offered, queues, stopping, late, failed, worker, sending, stopper, joining>>

(* A notification of drained makes a waiting flush look again.             *)
Notified == [f \in Flushers |->
    [flusher[f] EXCEPT !.st = IF @ = "waits" THEN "awake" ELSE @]]

FlushLooks(f) ==
    /\ flusher[f].st = "awake"
    /\ flusher' = [flusher EXCEPT ![f].st =
         IF Reached(flusher[f].target) THEN "returned" ELSE "waits"]
    /\ UNCHANGED <<offered, queues, control, worker, sending, stopper, joining>>

FlushTimesOut(f) ==
    /\ flusher[f].st = "waits"
    /\ flusher' = [flusher EXCEPT ![f].st =
         IF Reached(flusher[f].target) THEN "returned" ELSE "threw"]
    /\ UNCHANGED <<offered, queues, control, worker, sending, stopper, joining>>

(* shutdown: calls are serialised, the first one stops and joins the       *)
(* worker.                                                                 *)
shutdown(c) ==
    /\ stopper[c] = "idle" /\ ~joining
    /\ IF stopping
       THEN stopper' = [stopper EXCEPT ![c] = "returned"] /\ UNCHANGED <<stopping, flushing, joining>>
       ELSE /\ stopper' = [stopper EXCEPT ![c] = "joins"]
            /\ stopping' = TRUE /\ flushing' = TRUE /\ joining' = TRUE
    /\ UNCHANGED <<offered, queues, late, failed, worker, sending, flusher>>

JoinWorker(c) ==
    /\ stopper[c] = "joins" /\ worker = "ended"
    /\ stopper' = [stopper EXCEPT ![c] = "returned"] /\ joining' = FALSE
    /\ UNCHANGED <<offered, queues, control, worker, sending, flusher>>

DeadlinePasses ==
    /\ stopping /\ ~late /\ late' = TRUE
    /\ UNCHANGED <<offered, queues, flushing, stopping, failed, worker, sending, flusher, stopper, joining>>

-----------------------------------------------------------------------------
(* worker_loop, from its wait to the end of its critical section.  Past    *)
(* the shutdown deadline what is left is dropped; with nothing left the    *)
(* worker waits again or ends; otherwise it takes a batch of each signal   *)
(* (take_batch).                                                           *)
Dead == stopping /\ late
AfterSpans(b) == IF b["metrics"] = <<>> THEN "settle" ELSE "metrics"

Drained ==
    /\ flushing' = FALSE /\ flusher' = Notified
    /\ worker' = IF stopping THEN "ended" ELSE "wait"

Discard ==
    /\ worker = "wait" /\ Dead
    /\ dropped' = dropped + Size(pending)
    /\ completed' = [s \in Signals |-> completed[s] + Len(pending[s])]
    /\ pending' = Each(<<>>)
    /\ Drained
    /\ UNCHANGED <<offered, accepted, stopping, late, failed, sending, stopper, joining>>

FindNothing ==
    /\ worker = "wait" /\ ~Dead /\ Size(pending) = 0
    /\ Drained
    /\ UNCHANGED <<offered, queues, stopping, late, failed, sending, stopper, joining>>

Count(q) == IF Len(q) < MaxBatchSize THEN Len(q) ELSE MaxBatchSize

TakeBatch ==
    /\ worker = "wait" /\ ~Dead /\ Size(pending) > 0
    /\ batch' = [s \in Signals |-> SubSeq(pending[s], 1, Count(pending[s]))]
    /\ pending' = [s \in Signals |-> SubSeq(pending[s], Count(pending[s]) + 1, Len(pending[s]))]
    /\ flushing' = (flushing /\ Size(pending') > 0)
    /\ attempts' = Each(0)
    /\ rejected' = [s \in Signals |-> Len(batch'[s])]
    /\ worker' = IF batch'["spans"] = <<>> THEN "metrics" ELSE "spans"
    /\ UNCHANGED <<offered, accepted, completed, dropped, stopping, late, failed, collector, flusher,
                   stopper, joining>>

(* An allocation fails while the batch is taken: the worker gives up       *)
(* everything that is accepted and not completed, and ends.                *)
WorkerFails ==
    /\ worker = "wait" /\ ~Dead /\ Size(pending) > 0
    /\ dropped' = dropped + Total(accepted) - Total(completed)
    /\ completed' = accepted /\ pending' = Each(<<>>)
    /\ failed' = TRUE /\ worker' = "ended" /\ flusher' = Notified
    /\ UNCHANGED <<offered, accepted, flushing, stopping, late, sending, stopper, joining>>

(* What a post may come to.  An answer with status 200 names how many      *)
(* records the collector did not store (a malformed one counts them all);  *)
(* any other answer, and a failure of the transport, counts the batch as   *)
(* lost, whether the collector stored it or not.                           *)
Delivery(stored, lost, again) == [stored |-> stored, rejected |-> lost, retryable |-> again]

parse_success(s) ==
    {Delivery(stored, Len(batch[s]) - Cardinality(stored), FALSE) : stored \in SUBSET Taken(s)}

post_json(s) ==
    parse_success(s) \cup {Delivery(stored, Len(batch[s]), again) :
                        stored \in {{}, Taken(s)}, again \in BOOLEAN}

(* One attempt of deliver: after a transient failure the same payload is   *)
(* posted again, unless the attempts or the time are used up.  A signal    *)
(* that failed does not keep the other one from being sent.                *)
NextSignal(s) == IF s = "spans" THEN AfterSpans(batch) ELSE "settle"

deliver(s) ==
    /\ worker = s /\ ~Dead /\ attempts[s] < MaxAttempts
    /\ attempts' = [attempts EXCEPT ![s] = @ + 1]
    /\ \E d \in post_json(s) :
        /\ collector' = collector \cup d.stored
        /\ rejected' = [rejected EXCEPT ![s] = d.rejected]
        /\ worker' = NextSignal(s) \/ (d.retryable /\ attempts'[s] < MaxAttempts /\ worker' = s)
    /\ UNCHANGED <<offered, queues, control, batch, flusher, stopper, joining>>

(* The deadline passed before an attempt or during the wait for the next.  *)
Abandon(s) ==
    /\ worker = s /\ Dead
    /\ worker' = NextSignal(s)
    /\ UNCHANGED <<offered, queues, control, sending, flusher, stopper, joining>>

(* Mutant of Settle: the losses of the measurements are not counted. *)
SettleSpansOnly ==
    /\ worker = "settle" /\ worker' = "wait"
    /\ dropped' = dropped + rejected["spans"]
    /\ completed' = [s \in Signals |-> completed[s] + Len(batch[s])]
    /\ batch' = Each(<<>>) /\ rejected' = Each(0) /\ attempts' = Each(0)
    /\ flusher' = Notified
    /\ UNCHANGED <<offered, pending, accepted, control, collector, stopper, joining>>

(* The second critical section of worker_loop: the losses are counted and  *)
(* both batches completed.                                                 *)
Settle ==
    /\ worker = "settle" /\ worker' = "wait"
    /\ dropped' = dropped + Total(rejected)
    /\ completed' = [s \in Signals |-> completed[s] + Len(batch[s])]
    /\ batch' = Each(<<>>) /\ rejected' = Each(0) /\ attempts' = Each(0)
    /\ flusher' = Notified
    /\ UNCHANGED <<offered, pending, accepted, control, collector, stopper, joining>>

-----------------------------------------------------------------------------
WorkerStep ==
    \/ Discard \/ FindNothing \/ TakeBatch \/ Settle
    \/ \E s \in Signals : deliver(s) \/ Abandon(s)

ExporterNext ==
    \/ WorkerStep \/ WorkerFails \/ DeadlinePasses
    \/ \E s \in Signals : Export(s)
    \/ \E f \in Flushers : Flush(f) \/ FlushLooks(f) \/ FlushTimesOut(f)
    \/ \E c \in Stoppers : shutdown(c) \/ JoinWorker(c)

(* docs/external-observability.md: dropped() "is cumulative for            *)
(* queue/record rejection, terminal transport failure, collector partial   *)
(* rejection, shutdown expiry, and writes after shutdown".  No record is   *)
(* lost without being counted, and none is counted twice or while it can   *)
(* still be delivered: through full queues, partial answers, lost replies  *)
(* and retries, the deadline and a worker that fails.                      *)
LossCounted ==
    /\ Cardinality(Accepted \ (collector \cup Unsettled)) + Total(offered) - Total(accepted) <= dropped
    /\ dropped + Cardinality(Unsettled) <= Total(offered)

(* docs/external-observability.md: flush "waits for a snapshot of accepted *)
(* records, so ongoing producers cannot extend that snapshot".  When it    *)
(* returns, every record accepted before the call was posted or counted as *)
(* lost, and it does not sleep once that is so.  When shutdown returns the *)
(* worker has ended and has left no record undecided.                      *)
ReturnsTell ==
    /\ \A f \in Flushers :
        /\ flusher[f].st = "returned" =>
            \A s \in Signals : \A n \in 1..flusher[f].target[s] : <<s, n>> \notin Unsettled
        /\ flusher[f].st = "waits" => ~Reached(flusher[f].target)
    /\ \A c \in Stoppers : stopper[c] = "returned" => worker = "ended" /\ Unsettled = {}
====
