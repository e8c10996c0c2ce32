----------------------------- MODULE QueueWorker -----------------------------
(***************************************************************************)
(* Queue workers on the Redis driver: Worker::run_one with its lease        *)
(* heartbeat, an operator who inspects and retries failed jobs, and a       *)
(* connection that may break.  A driver call is one script of RedisQueue    *)
(* between a worker's decision to call and its next step.  When the         *)
(* connection breaks the call throws, and the script either ran (the reply  *)
(* is lost) or never reached the server.                                    *)
(***************************************************************************)
EXTENDS RedisQueue

CONSTANTS
    Workers,     \* worker threads, in any number of processes
    Unhandled,   \* jobs whose name no worker has a handler for
    Heartbeat,   \* whether lease_renewal_interval is positive
    Backoff,     \* WorkerOptions::retry_backoff
    AllowFlush,  \* whether somebody may flush the queue
    MaxFaults    \* bound on broken connections and crashes

ASSUME WorkerAssumption ==
    /\ Unhandled \subseteq Ids
    /\ Heartbeat \in BOOLEAN /\ AllowFlush \in BOOLEAN
    /\ Backoff \in Seq(Delays) /\ 0 \in Delays
    /\ MaxFaults \in Nat

VARIABLES
    pc,        \* where run_one is
    held,      \* the id of the popped job
    token,     \* job.reservation
    attempts,  \* job.attempts, counted in the worker's memory
    beat,      \* the heartbeat thread: "off", "on" or "lost"
    lookup,    \* what an operator's retry_failed has read: <<id, record>>
    faults     \* faults so far

memory == <<held, token, attempts>>
local == <<pc, memory, beat>>
vars == <<store, local, lookup, faults>>

Fresh(t) == (\A id \in Ids : leases[id] # t) /\ (\A w \in Workers : token[w] # t)

Fault == faults < MaxFaults /\ faults' = faults + 1

retry_delay(n) ==
    IF Backoff = << >> THEN 0
    ELSE Backoff[IF n > Len(Backoff) THEN Len(Backoff) ELSE IF n = 0 THEN 1 ELSE n]

-----------------------------------------------------------------------------

Init ==
    /\ QInit
    /\ pc = [w \in Workers |-> "idle"]
    /\ held = [w \in Workers |-> None]
    /\ token = [w \in Workers |-> None]
    /\ attempts = [w \in Workers |-> 0]
    /\ beat = [w \in Workers |-> "off"]
    /\ lookup = << >>
    /\ faults = 0

Goto(w, label) == pc' = [pc EXCEPT ![w] = label]

(* The envelope goes out of scope. *)
Drop(w) ==
    /\ held' = [held EXCEPT ![w] = None]
    /\ token' = [token EXCEPT ![w] = None]
    /\ attempts' = [attempts EXCEPT ![w] = 0]
    /\ beat' = [beat EXCEPT ![w] = "off"]

(* run_one returns and the loop of run goes on. *)
Return(w) == Goto(w, "idle") /\ Drop(w) /\ UNCHANGED <<lookup, faults>>

(* An exception leaves run_one, run and the worker's thread. *)
Leave(w) == Goto(w, "stopped") /\ Drop(w) /\ Fault /\ UNCHANGED lookup

(* A popped job without a handler goes straight to fail; any other one gets *)
(* its attempt counted and its heartbeat started.                           *)
Take(w, id, t) ==
    /\ held' = [held EXCEPT ![w] = id]
    /\ token' = [token EXCEPT ![w] = t]
    /\ \/ /\ id \in Unhandled
          /\ Goto(w, "failing")
          /\ attempts' = [attempts EXCEPT ![w] = jobs[id]]
          /\ UNCHANGED beat
       \/ /\ id \notin Unhandled
          /\ Goto(w, "handling")
          /\ attempts' = [attempts EXCEPT ![w] = jobs[id] + 1]
          /\ beat' = [beat EXCEPT ![w] = IF Heartbeat THEN "on" ELSE "off"]
    /\ UNCHANGED <<lookup, faults>>

Poll(w) ==
    /\ pc[w] = "idle"
    /\ \/ \E id \in Ids, t \in Tokens : Fresh(t) /\ Pop(id, t) /\ Take(w, id, t)
       \/ PopNil /\ Return(w)

PollBreaks(w) ==
    /\ pc[w] = "idle"
    /\ \/ \E id \in Ids, t \in Tokens : Fresh(t) /\ Pop(id, t)
       \/ PopNil
       \/ UNCHANGED store
    /\ Leave(w)

(* heartbeat.stop() joins the thread before anything else happens. *)
HandlerReturns(w) ==
    /\ pc[w] = "handling"
    /\ Goto(w, "acking")
    /\ beat' = [beat EXCEPT ![w] = "off"]
    /\ UNCHANGED <<store, memory, lookup, faults>>

HandlerThrows(w) ==
    /\ pc[w] = "handling"
    /\ Goto(w, "settling")
    /\ beat' = [beat EXCEPT ![w] = "off"]
    /\ UNCHANGED <<store, memory, lookup, faults>>

(* The reply of acknowledge, 0 or 1, is not looked at. *)
Ack(w) ==
    /\ pc[w] = "acking"
    /\ Acknowledge(held[w], token[w]) \/ Refused(held[w], token[w])
    /\ Return(w)

(* acknowledge is called inside the try block: when it throws, the job is   *)
(* handled as if its handler had thrown.                                    *)
AckBreaks(w) ==
    /\ pc[w] = "acking"
    /\ Acknowledge(held[w], token[w]) \/ UNCHANGED store
    /\ Goto(w, "settling")
    /\ Fault
    /\ UNCHANGED <<memory, beat, lookup>>

(* Mutant of handle_failure: off by one, one attempt too many. *)
OneAttemptMore(w) ==
    IF attempts[w] <= MaxAttempts
    THEN ReleaseAfter(held[w], token[w], attempts[w], retry_delay(attempts[w]))
    ELSE Fail(held[w], token[w], attempts[w])

(* handle_failure: the driver call it makes. *)
handle_failure(w) ==
    IF attempts[w] < MaxAttempts
    THEN ReleaseAfter(held[w], token[w], attempts[w], retry_delay(attempts[w]))
    ELSE Fail(held[w], token[w], attempts[w])

Settle(w) ==
    /\ pc[w] = "settling"
    /\ handle_failure(w) \/ Refused(held[w], token[w])
    /\ Return(w)

SettleBreaks(w) ==
    /\ pc[w] = "settling"
    /\ handle_failure(w) \/ UNCHANGED store
    /\ Leave(w)

FailUnhandled(w) ==
    /\ pc[w] = "failing"
    /\ Fail(held[w], token[w], attempts[w]) \/ Refused(held[w], token[w])
    /\ Return(w)

FailUnhandledBreaks(w) ==
    /\ pc[w] = "failing"
    /\ Fail(held[w], token[w], attempts[w]) \/ UNCHANGED store
    /\ Leave(w)

(* LeaseHeartbeat::loop: one renewal.  After a refused or broken renewal    *)
(* the thread ends; the handler is not told.                                *)
Beat(w) ==
    /\ beat[w] = "on"
    /\ \/ Renew(held[w], token[w]) /\ UNCHANGED beat
       \/ Refused(held[w], token[w]) /\ beat' = [beat EXCEPT ![w] = "lost"]
    /\ UNCHANGED <<pc, memory, lookup, faults>>

BeatBreaks(w) ==
    /\ beat[w] = "on"
    /\ Renew(held[w], token[w]) \/ UNCHANGED store
    /\ beat' = [beat EXCEPT ![w] = "lost"]
    /\ Fault
    /\ UNCHANGED <<pc, memory, lookup>>

(* The worker's process dies; somebody starts it again. *)
Crash(w) ==
    /\ pc[w] # "stopped"
    /\ UNCHANGED store
    /\ Leave(w)

Restart(w) ==
    /\ pc[w] = "stopped"
    /\ Goto(w, "idle")
    /\ UNCHANGED <<store, memory, beat, lookup, faults>>

-----------------------------------------------------------------------------

Produce ==
    /\ \E id \in Ids : Push(id) \/ \E delay \in Delays : PushLater(id, delay)
    /\ UNCHANGED <<local, lookup, faults>>

(* The first command of retry_failed ... *)
RetryLookup(id) ==
    /\ lookup = << >> /\ failed[id] # None
    /\ lookup' = <<id, failed[id]>>
    /\ UNCHANGED <<store, local, faults>>

(* ... and the second; other clients may run scripts in between. *)
RetryApply ==
    /\ lookup # << >>
    /\ \/ RetryFailed(lookup[1], lookup[2])
       \/ ~ (failed[lookup[1]] = lookup[2] /\ jobs[lookup[1]] = None) /\ UNCHANGED store
    /\ lookup' = << >>
    /\ UNCHANGED <<local, faults>>

Forget(id) == ForgetFailed(id) /\ UNCHANGED <<local, lookup, faults>>

FlushAll == AllowFlush /\ Flush /\ UNCHANGED <<local, lookup, faults>>

TimePasses == Tick /\ UNCHANGED <<local, lookup, faults>>

Progress(w) ==
    \/ Poll(w) \/ HandlerReturns(w) \/ HandlerThrows(w) \/ Ack(w) \/ Settle(w)
    \/ FailUnhandled(w) \/ Restart(w)

Breaks(w) ==
    \/ PollBreaks(w) \/ AckBreaks(w) \/ SettleBreaks(w) \/ FailUnhandledBreaks(w)
    \/ BeatBreaks(w) \/ Crash(w)

Others ==
    \/ Produce \/ RetryApply \/ FlushAll
    \/ \E id \in Ids : RetryLookup(id) \/ Forget(id)

Next ==
    \/ \E w \in Workers : Progress(w) \/ Beat(w) \/ Breaks(w)
    \/ Others
    \/ TimePasses

Spec == Init /\ [][Next]_vars

(* The timing that the documentation asks the user to arrange ("Choose      *)
(* reservation and renewal settings suitable for the longest handler"): as  *)
(* long as a worker's renewals succeed it renews, or settles, before its    *)
(* current lease runs out.                                                  *)
InTime ==
    \A w \in Workers :
        held[w] # None /\ leases[held[w]] = token[w] /\ beat[w] # "lost"
            => reserved[held[w]] > 1

TimelyNext ==
    \/ \E w \in Workers : Progress(w) \/ Beat(w) \/ Breaks(w)
    \/ Others
    \/ InTime /\ TimePasses

TimelySpec == Init /\ [][TimelyNext]_vars

(* Threads are scheduled, handlers end, a stopped worker is started again   *)
(* and time passes.  Faults are bounded by MaxFaults.                       *)
Fairness ==
    /\ \A w \in Workers : WF_vars(Progress(w)) /\ WF_vars(Beat(w))
    /\ WF_vars(InTime /\ TimePasses)

FairSpec == TimelySpec /\ Fairness

-----------------------------------------------------------------------------

(* Workers hold what their program counter says. *)
WTypeOK ==
    /\ QTypeOK
    /\ pc \in [Workers -> {"idle", "handling", "acking", "settling", "failing", "stopped"}]
    /\ held \in [Workers -> Ids \cup {None}]
    /\ token \in [Workers -> Tokens \cup {None}]
    /\ attempts \in [Workers -> Attempts]
    /\ beat \in [Workers -> {"off", "on", "lost"}]
    /\ faults \in 0..MaxFaults

(* A lease that has not run out ends only through the worker it was given   *)
(* to, when that worker is about to settle the job: a worker whose lease    *)
(* was taken back and given to another one cannot acknowledge, release or   *)
(* fail the job under the other's hands (the token checks of the scripts).  *)
Fenced ==
    [][\A id \in Ids :
          leases[id] # None /\ leases'[id] # leases[id] =>
              \/ reserved[id] = 0
              \/ \E w \in Workers :
                    /\ held[w] = id /\ token[w] = leases[id]
                    /\ pc[w] \in {"acking", "settling", "failing"}
              \/ Flush]_vars

(* A job that is in the queue has attempts left and a recorded failure used *)
(* up no more than it had, whatever was lost or redelivered in between      *)
(* (attempts is only persisted by release and fail).                        *)
AttemptsWithinLimit ==
    /\ \A id \in Ids : jobs[id] # None => jobs[id] < MaxAttempts
    /\ \A id \in Ids : failed[id] # None => failed[id] <= MaxAttempts
    /\ \A w \in Workers : attempts[w] <= MaxAttempts

(* Two workers run the handler of the same job at the same time only after  *)
(* a lease renewal of one of them failed (the heartbeat notices, run_one    *)
(* does not ask it).                                                        *)
OverlapOnlyAfterLostLease ==
    \A v, w \in Workers :
        v # w /\ held[v] # None /\ held[v] = held[w]
              /\ pc[v] = "handling" /\ pc[w] = "handling"
            => beat[v] = "lost" \/ beat[w] = "lost"

(* Every job that is accepted is eventually settled: acknowledged or put    *)
(* into the failed record, despite crashes, lost replies and redelivery.    *)
EverySettled ==
    \A id \in Ids : jobs[id] # None ~> jobs[id] = None
=============================================================================
