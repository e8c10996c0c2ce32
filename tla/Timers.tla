-------------------------------- MODULE Timers --------------------------------
(***************************************************************************)
(* Coroutines that sleep: SleepAwaiter, the TimerScheduler with its        *)
(* fallback thread and the pump an HTTP reactor may attach, the executor   *)
(* that resumes them, and a cancellation token they share.                 *)
(*                                                                         *)
(* Three parties race for a sleeping coroutine: its timer, the callback of *)
(* the token (which schedules a timer of its own, due at once) and the     *)
(* owner that destroys its frame.  They meet in a ResumeSlot, which hands  *)
(* the coroutine out once and whose mutex is held while the coroutine      *)
(* runs.  Every step takes at most one of the mutexes; a wait on the       *)
(* condition variable ends when a notification or its deadline moves the   *)
(* waiter back to the head of its loop.                                    *)
(***************************************************************************)
EXTENDS Naturals, Sequences

CONSTANTS
    Sleepers,
    Workers,     \* threads of the scheduler's executor
    Capacity,    \* of the executor's queue
    Plans,       \* how long each sleeper sleeps
    MaxTime,     \* the clock stops here
    None

ASSUME TimersAssumption ==
    /\ Capacity \in Nat /\ MaxTime \in Nat /\ Plans \subseteq [Sleepers -> Nat]

VARIABLES
    now,
    cancelled,   \* CancellationState::cancelled
    callbacks,   \* CancellationState::callbacks: the sleepers registered
    calling,     \* callbacks taken by cancel and still to be called
    canceller,   \* where CancellationSource::cancel is
    pc,          \* where each sleeper's await_suspend is
    frame,       \* the coroutine: running into the sleep, asleep, ...
    owner,       \* whether its owner is destroying it
    deadline,    \* when each sleeper is due; its duration until it is scheduled
    armed,       \* ResumeSlots that still hold their coroutine
    holder,      \* the thread that holds the mutex of each ResumeSlot
    timers,      \* TimerScheduler::timers_
    fallback,    \* where run_fallback is
    until,       \* the deadline it waits for
    pump,        \* where the attached reactor is, "off" when none is attached
    due,         \* entries the fallback thread or the pump has still to post
    queue,       \* Executor::queue_
    job          \* the slot each thread resumes, None when it resumes none

timervars == <<now, cancelled, callbacks, calling, canceller, pc, frame, owner, deadline, armed,
               holder, timers, fallback, until, pump, due, queue, job>>

Dispatchers == {"fallback", "pump"}
Threads == Workers \cup Dispatchers
token == <<cancelled, callbacks, calling, canceller>>
sleep == <<pc, frame, owner, deadline, armed, holder>>
scheduler == <<timers, fallback, until, pump, due>>
executor == <<queue, job>>

(* One type invariant.                                                     *)
TimersTypeOK ==
    /\ now \in 0..MaxTime /\ cancelled \in BOOLEAN
    /\ callbacks \subseteq Sleepers /\ calling \subseteq Sleepers
    /\ pc \in [Sleepers -> {"before", "register", "publish", "out"}]
    /\ frame \in [Sleepers -> {"fresh", "asleep", "running", "done", "gone"}]
    /\ armed \subseteq Sleepers /\ holder \in [Sleepers -> Threads \cup {None}]
    /\ \A e \in timers : e.who \in Sleepers /\ e.at \in Nat
    /\ Len(queue) <= Capacity /\ job \in [Threads -> Sleepers \cup {None}]
    /\ pump = "off" => job["pump"] = None

(* Nobody sleeps yet; the fallback thread is at t of its loop.             *)
TimersBegin(time, t) ==
    /\ now = time /\ cancelled = FALSE /\ callbacks = {} /\ calling = {} /\ canceller = "idle"
    /\ pc = [s \in Sleepers |-> "before"] /\ frame = [s \in Sleepers |-> "fresh"]
    /\ owner = [s \in Sleepers |-> "waits"]
    /\ armed = {} /\ holder = [s \in Sleepers |-> None]
    /\ timers = {} /\ fallback = t /\ until = 0 /\ pump = "off"
    /\ due = [d \in Dispatchers |-> {}]
    /\ queue = <<>> /\ job = [x \in Threads |-> None]

TimersInit == TimersBegin(0, "check") /\ deadline \in Plans

-----------------------------------------------------------------------------
(* TimerScheduler::schedule: a new entry, and a notification to the        *)
(* fallback thread unless a pump is attached (the pump polls anyway).      *)
Notify == IF fallback \in {"wait", "timed"} THEN fallback' = "check" /\ until' = 0
                                            ELSE UNCHANGED <<fallback, until>>

(* Mutant of schedule: the fallback thread is only told of the first timer. *)
ScheduleFirst(s, at, why) ==
    /\ timers' = timers \cup {[who |-> s, at |-> at, why |-> why]}
    /\ IF timers = {} THEN Notify ELSE UNCHANGED <<fallback, until>>

schedule(s, at, why) ==
    /\ timers' = timers \cup {[who |-> s, at |-> at, why |-> why]}
    /\ IF pump = "off" THEN Notify ELSE UNCHANGED <<fallback, until>>

(* SleepAwaiter::await_ready and the beginning of await_suspend.           *)
Suspend(s) ==
    /\ pc[s] = "before"
    /\ IF cancelled \/ deadline[s] = 0
       THEN /\ pc' = [pc EXCEPT ![s] = "out"] /\ frame' = [frame EXCEPT ![s] = "done"]
            /\ UNCHANGED armed
       ELSE /\ pc' = [pc EXCEPT ![s] = "register"] /\ frame' = [frame EXCEPT ![s] = "asleep"]
            /\ armed' = armed \cup {s}
    /\ UNCHANGED <<now, token, owner, deadline, holder, scheduler, executor>>

(* CancellationToken::on_cancel, with the callback of the sleep: at once   *)
(* when the token is cancelled already.                                    *)
on_cancel(s) ==
    IF cancelled
    THEN schedule(s, now, "cancel") /\ UNCHANGED callbacks
    ELSE callbacks' = callbacks \cup {s} /\ UNCHANGED <<timers, fallback, until>>

Register(s) ==
    /\ pc[s] = "register" /\ pc' = [pc EXCEPT ![s] = "publish"]
    /\ on_cancel(s)
    /\ UNCHANGED <<now, cancelled, calling, canceller, frame, owner, deadline, armed, holder,
                   pump, due, executor>>

(* CancellationRegistration::reset.                                        *)
reset(s) == callbacks \ {s}

(* The awaiter owns the registration; the last of the awaiter and of       *)
(* await_suspend to go away ends it.                                       *)
Over(s) == frame[s] \in {"done", "gone"}

Publish(s) ==
    /\ pc[s] = "publish" /\ pc' = [pc EXCEPT ![s] = "out"]
    /\ deadline' = [deadline EXCEPT ![s] = @ + now]
    /\ schedule(s, deadline'[s], "sleep")
    /\ callbacks' = IF Over(s) THEN reset(s) ELSE callbacks
    /\ UNCHANGED <<now, cancelled, calling, canceller, frame, owner, armed, holder,
                   pump, due, executor>>

-----------------------------------------------------------------------------
(* CancellationSource::cancel: the flag, then the callbacks are taken out  *)
(* under the mutex and called without it.                                  *)
SetCancelled ==
    /\ canceller = "idle" /\ canceller' = "take" /\ cancelled' = TRUE
    /\ UNCHANGED <<now, callbacks, calling, sleep, scheduler, executor>>

TakeCallbacks ==
    /\ canceller = "take" /\ canceller' = "call"
    /\ calling' = callbacks /\ callbacks' = {}
    /\ UNCHANGED <<now, cancelled, sleep, scheduler, executor>>

CallBack(s) ==
    /\ canceller = "call" /\ s \in calling
    /\ calling' = calling \ {s}
    /\ schedule(s, now, "cancel")
    /\ UNCHANGED <<now, cancelled, callbacks, canceller, sleep, pump, due, executor>>

-----------------------------------------------------------------------------
(* collect_due_locked.                                                     *)
Expired == {e \in timers : e.at <= now}

(* One turn of run_fallback, up to its wait or to the dispatch of what is  *)
(* due.                                                                    *)
FallbackTurn ==
    /\ fallback = "check"
    /\ \/ /\ pump # "off" \/ timers = {}
          /\ fallback' = "wait" /\ UNCHANGED <<timers, until, due>>
       \/ /\ pump = "off" /\ timers # {} /\ Expired = {}
          /\ fallback' = "timed"
          /\ \E e \in timers : (\A f \in timers : e.at <= f.at) /\ until' = e.at
          /\ UNCHANGED <<timers, due>>
       \/ /\ pump = "off" /\ Expired # {}
          /\ fallback' = "dispatch"
          /\ due' = [due EXCEPT !["fallback"] = Expired] /\ timers' = timers \ Expired
          /\ UNCHANGED until
    /\ UNCHANGED <<now, token, sleep, pump, executor>>

FallbackTimesOut ==
    /\ fallback = "timed" /\ now >= until
    /\ fallback' = "check" /\ until' = 0
    /\ UNCHANGED <<now, token, sleep, timers, pump, due, executor>>

(* A reactor attaches itself, takes what is due at the head of every turn, *)
(* and detaches itself when it returns.                                    *)
attach ==
    /\ pump = "off" /\ pump' = "turn" /\ Notify
    /\ UNCHANGED <<now, token, sleep, timers, due, executor>>

dispatch_due ==
    /\ pump \in {"turn", "poll"}
    /\ pump' = "dispatch"
    /\ due' = [due EXCEPT !["pump"] = Expired] /\ timers' = timers \ Expired
    /\ UNCHANGED <<now, token, sleep, fallback, until, executor>>

detach ==
    /\ pump = "poll" /\ pump' = "off" /\ Notify
    /\ UNCHANGED <<now, token, sleep, timers, due, executor>>

(* Mutant of Room: the queue may grow beyond its capacity by one. *)
RoomForOneMore == Len(queue) <= Capacity

(* Executor::post refuses work when its queue is full.                     *)
Room == Len(queue) < Capacity

(* TimerScheduler::dispatch posts each entry, and resumes it on its own    *)
(* thread when the executor refuses it.                                    *)
dispatch(d) ==
    /\ job[d] = None
    /\ \/ \E e \in due[d] :
             /\ due' = [due EXCEPT ![d] = @ \ {e}]
             /\ IF Room
                THEN queue' = Append(queue, e.who) /\ UNCHANGED job
                ELSE job' = [job EXCEPT ![d] = e.who] /\ UNCHANGED queue
             /\ UNCHANGED <<fallback, pump>>
       \/ /\ d = "fallback" /\ fallback = "dispatch" /\ due[d] = {}
          /\ fallback' = "check" /\ UNCHANGED <<pump, due, executor>>
       \/ /\ d = "pump" /\ pump = "dispatch" /\ due[d] = {}
          /\ pump' = "poll" /\ UNCHANGED <<fallback, due, executor>>
    /\ UNCHANGED <<now, token, sleep, timers, until>>

(* Executor::worker_loop takes the next entry.                             *)
worker_loop(w) ==
    /\ job[w] = None /\ queue # <<>>
    /\ job' = [job EXCEPT ![w] = Head(queue)] /\ queue' = Tail(queue)
    /\ UNCHANGED <<now, token, sleep, scheduler>>

(* Mutant of Resume: the slot keeps its coroutine. *)
ResumeAgain(t) ==
    \E s \in Sleepers :
        /\ job[t] = s /\ holder[s] = None
        /\ holder' = [holder EXCEPT ![s] = t]
        /\ frame' = [frame EXCEPT ![s] = IF s \in armed THEN "running" ELSE @]
        /\ UNCHANGED <<now, token, pc, owner, deadline, armed, scheduler, executor>>

(* ResumeSlot::resume: under its mutex, the coroutine is taken out and     *)
(* run.  A slot already empty leaves nothing to do.                        *)
Resume(t) ==
    \E s \in Sleepers :
        /\ job[t] = s /\ holder[s] = None
        /\ holder' = [holder EXCEPT ![s] = t]
        /\ frame' = [frame EXCEPT ![s] = IF s \in armed THEN "running" ELSE @]
        /\ armed' = armed \ {s}
        /\ UNCHANGED <<now, token, pc, owner, deadline, scheduler, executor>>

(* The coroutine, if it was resumed, runs to its end; the mutex is free    *)
(* again and the thread goes on.                                           *)
Unlock(t) ==
    \E s \in Sleepers :
        /\ job[t] = s /\ holder[s] = t
        /\ holder' = [holder EXCEPT ![s] = None]
        /\ job' = [job EXCEPT ![t] = None]
        /\ frame' = [frame EXCEPT ![s] = IF @ = "running" THEN "done" ELSE @]
        /\ callbacks' = IF frame[s] = "running" /\ pc[s] = "out" THEN reset(s) ELSE callbacks
        /\ UNCHANGED <<now, cancelled, calling, canceller, pc, owner, deadline, armed, scheduler, queue>>

(* The owner destroys a suspended coroutine: ~SleepAwaiter empties the     *)
(* slot under its mutex, then the frame goes.                              *)
Destroy(s) ==
    /\ owner[s] = "waits" /\ pc[s] = "out" /\ frame[s] = "asleep"
    /\ owner' = [owner EXCEPT ![s] = "destroys"]
    /\ UNCHANGED <<now, token, pc, frame, deadline, armed, holder, scheduler, executor>>

CancelSlot(s) ==
    /\ owner[s] = "destroys" /\ holder[s] = None
    /\ owner' = [owner EXCEPT ![s] = "over"]
    /\ armed' = armed \ {s}
    /\ frame' = [frame EXCEPT ![s] = "gone"] /\ callbacks' = reset(s)
    /\ UNCHANGED <<now, cancelled, calling, canceller, pc, deadline, holder, scheduler, executor>>

Tick ==
    /\ now < MaxTime /\ now' = now + 1
    /\ UNCHANGED <<token, sleep, scheduler, executor>>

-----------------------------------------------------------------------------
TimersNext ==
    \/ SetCancelled \/ TakeCallbacks \/ FallbackTurn \/ FallbackTimesOut
    \/ attach \/ dispatch_due \/ detach \/ Tick
    \/ \E s \in Sleepers :
          Suspend(s) \/ Register(s) \/ Publish(s) \/ CallBack(s) \/ Destroy(s) \/ CancelSlot(s)
    \/ \E d \in Dispatchers : dispatch(d)
    \/ \E w \in Workers : worker_loop(w)
    \/ \E t \in Threads : Resume(t) \/ Unlock(t)

(* Threads are scheduled, time passes and a resumed coroutine suspends or  *)
(* ends.  Nobody has to cancel, to destroy a coroutine, or to attach or    *)
(* detach a pump.                                                          *)
TimersFairness ==
    /\ WF_timervars(TakeCallbacks) /\ WF_timervars(Tick)
    /\ WF_timervars(FallbackTurn \/ FallbackTimesOut \/ dispatch("fallback"))
    /\ WF_timervars(dispatch_due \/ dispatch("pump"))
    /\ \A s \in Sleepers : WF_timervars(Register(s) \/ Publish(s)) /\ WF_timervars(CallBack(s))
                           /\ WF_timervars(CancelSlot(s))
    /\ \A w \in Workers : WF_timervars(worker_loop(w))
    /\ \A t \in Threads : WF_timervars(Resume(t) \/ Unlock(t))

TimersSpec == TimersInit /\ [][TimersNext]_timervars /\ TimersFairness

(* A sleeping coroutine is resumed at most once, never after its frame was *)
(* destroyed and never early unless its token was cancelled, however the   *)
(* timer, the cancellation and the owner race: what each of them finds in  *)
(* the ResumeSlot decides.                                                 *)
ResumedOnce ==
    [][\A s \in Sleepers :
          frame'[s] = "running" /\ frame[s] # "running" =>
              frame[s] = "asleep" /\ (cancelled \/ now >= deadline[s])]_timervars

(* Whoever sleeps wakes when its time comes, and a cancelled sleep ends    *)
(* without waiting for its time, with a pump coming and going and with the *)
(* executor's queue full.                                                  *)
SleepEnds ==
    \A s \in Sleepers :
        frame[s] = "asleep" /\ (cancelled \/ (pc[s] = "out" /\ deadline[s] <= MaxTime))
            ~> frame[s] # "asleep"
====
