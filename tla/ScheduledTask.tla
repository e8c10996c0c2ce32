---------------------------- MODULE ScheduledTask ----------------------------
(***************************************************************************)
(* One task of the scheduler on several servers that share a lock store:   *)
(* an interval task with both on_one_server and without_overlapping.       *)
(* Task::execute takes the lock of the occurrence, then the overlap lock,  *)
(* runs the action, and releases the overlap lock; the occurrence lock is  *)
(* left to expire.                                                         *)
(*                                                                         *)
(* A server reads the clock once per turn (Scheduler::run_due_until) and   *)
(* may be late from then on: between that reading and the end of the turn  *)
(* at most Lag units pass.  Each command to the store is one step, and may *)
(* throw with or without having been carried out.                          *)
(***************************************************************************)
EXTENDS Naturals

CONSTANTS
    Servers,
    Width,          \* Task::interval_
    OneServerTtl,   \* Task::one_server_ttl_
    OverlapTtls,    \* values of Task::overlap_ttl_
    Lag,            \* the longest turn
    MaxTime,        \* the clock stops here
    MaxFaults,      \* bound on crashes and lost commands
    None

ASSUME TaskAssumption ==
    /\ Width \in Nat \ {0}
    /\ OneServerTtl \in Nat \ {0} /\ OverlapTtls \subseteq Nat \ {0}
    /\ Lag \in Nat /\ MaxTime \in Nat /\ MaxFaults \in Nat
    /\ None \notin Nat

VARIABLES
    overlapTtl,     \* Task::overlap_ttl_, set once
    clock,
    single,         \* occurrence locks: when the lock of each slot expires
    owner,          \* overlap lock: its owner token, None when the key is gone
    expires,        \*               and when it expires
    tokens,         \* owner tokens handed out so far
    pc,
    now,            \* the time read at the start of the turn
    lastRun,        \* Task::last_run_, None before Task::has_run_
    lease,          \* the server's LockLease of the overlap lock
    started,        \* how often the action was started for each slot
    faults

taskvars == <<overlapTtl, clock, single, owner, expires, tokens, pc, now, lastRun, lease, started,
              faults>>

Times == 0..MaxTime
SlotOf(t) == t \div Width
Slots == {SlotOf(t) : t \in Times}
Slot(s) == SlotOf(now[s])

TaskInit ==
    /\ overlapTtl \in OverlapTtls
    /\ clock = 0
    /\ single = [k \in Slots |-> 0]
    /\ owner = None /\ expires = 0 /\ tokens = 0
    /\ pc = [s \in Servers |-> "idle"]
    /\ now = [s \in Servers |-> 0]
    /\ lastRun = [s \in Servers |-> None]
    /\ lease = [s \in Servers |-> None]
    /\ started = [k \in Slots |-> 0]
    /\ faults = 0

Goto(s, p) == pc' = [pc EXCEPT ![s] = p]
Fault == faults < MaxFaults /\ faults' = faults + 1

(* Mutant of mark_observed: the time of the next run is stored. *)
MarkNextDue(s) == lastRun' = [lastRun EXCEPT ![s] = now[s] + Width]

mark_observed(s) == lastRun' = [lastRun EXCEPT ![s] = now[s]]

(* The turn begins: the task is due at the time read.                      *)
due(s, t) == lastRun[s] # None => t >= lastRun[s] + Width

BeginTurn(s) ==
    /\ pc[s] = "idle" /\ due(s, clock)
    /\ now' = [now EXCEPT ![s] = clock]
    /\ Goto(s, "due")
    /\ UNCHANGED <<clock, single, owner, expires, tokens, lastRun, lease, started, faults>>

(* Mutant of SetSingle: the lock is taken by whoever asks. *)
SetSingleAlways(s) == single' = [single EXCEPT ![Slot(s)] = clock + OneServerTtl]

(* LockStore::acquire of the occurrence's key: SET NX PX.                  *)
SetSingle(s) ==
    /\ single[Slot(s)] <= clock
    /\ single' = [single EXCEPT ![Slot(s)] = clock + OneServerTtl]

AcquireOccurrence(s) ==
    /\ pc[s] = "due"
    /\ SetSingle(s)
    /\ Goto(s, "chosen")
    /\ UNCHANGED <<clock, owner, expires, tokens, now, lastRun, lease, started, faults>>

SkipOccurrence(s) ==
    /\ pc[s] = "due" /\ single[Slot(s)] > clock
    /\ mark_observed(s)
    /\ Goto(s, "idle")
    /\ UNCHANGED <<clock, single, owner, expires, tokens, now, lease, started, faults>>

(* LockStore::acquire of the overlap key, with a fresh owner token.        *)
Held == owner # None /\ expires > clock

(* Mutant of SetOverlap: a lock that is held is taken over. *)
SetOverlapAlways ==
    /\ tokens' = tokens + 1
    /\ owner' = tokens + 1
    /\ expires' = clock + overlapTtl

SetOverlap ==
    /\ ~Held
    /\ tokens' = tokens + 1
    /\ owner' = tokens + 1
    /\ expires' = clock + overlapTtl

AcquireOverlap(s) ==
    /\ pc[s] = "chosen"
    /\ SetOverlap
    /\ lease' = [lease EXCEPT ![s] = tokens + 1]
    /\ started' = [started EXCEPT ![Slot(s)] = @ + 1]
    /\ Goto(s, "acting")
    /\ UNCHANGED <<clock, single, now, lastRun, faults>>

SkipOverlap(s) ==
    /\ pc[s] = "chosen" /\ Held
    /\ mark_observed(s)
    /\ Goto(s, "idle")
    /\ UNCHANGED <<clock, single, owner, expires, tokens, now, lease, started, faults>>

(* The action returns and the occurrence is observed, or it throws.        *)
ActionReturns(s) ==
    /\ pc[s] = "acting"
    /\ mark_observed(s)
    /\ Goto(s, "releasing")
    /\ UNCHANGED <<clock, single, owner, expires, tokens, now, lease, started, faults>>

ActionThrows(s) ==
    /\ pc[s] = "acting"
    /\ Goto(s, "failing")
    /\ UNCHANGED <<clock, single, owner, expires, tokens, now, lastRun, lease, started, faults>>

(* Mutant of DeleteOwn: the key is deleted whoever owns it. *)
DeleteAny(s) == owner' = None

(* LockStore::release: the key is deleted if it still holds this token.    *)
DeleteOwn(s) == owner' = IF owner = lease[s] THEN None ELSE owner

(* An exception that leaves execute also leaves Scheduler::run.            *)
release(s) ==
    /\ pc[s] \in {"releasing", "failing"}
    /\ DeleteOwn(s)
    /\ lease' = [lease EXCEPT ![s] = None]
    /\ Goto(s, IF pc[s] = "releasing" THEN "idle" ELSE "stopped")
    /\ UNCHANGED <<clock, single, expires, tokens, now, lastRun, started, faults>>

(* A command to the store throws: it may or may not have been carried out. *)
CommandThrows(s) ==
    /\ Fault
    /\ \/ /\ pc[s] = "due"
          /\ SetSingle(s) \/ UNCHANGED single
          /\ UNCHANGED <<owner, expires, tokens>>
       \/ /\ pc[s] = "chosen"
          /\ SetOverlap \/ UNCHANGED <<owner, expires, tokens>>
          /\ UNCHANGED single
       \/ /\ pc[s] \in {"releasing", "failing"}
          /\ DeleteOwn(s) \/ UNCHANGED owner
          /\ UNCHANGED <<single, expires, tokens>>
    /\ lease' = [lease EXCEPT ![s] = None]
    /\ Goto(s, "stopped")
    /\ UNCHANGED <<clock, now, lastRun, started>>

(* The process dies, and with it what the task remembers.                  *)
Crash(s) ==
    /\ Fault /\ pc[s] # "stopped"
    /\ Goto(s, "stopped")
    /\ lastRun' = [lastRun EXCEPT ![s] = None]
    /\ lease' = [lease EXCEPT ![s] = None]
    /\ UNCHANGED <<clock, single, owner, expires, tokens, now, started>>

(* Scheduler::run is called again.                                         *)
Restart(s) ==
    /\ pc[s] = "stopped"
    /\ Goto(s, "idle")
    /\ UNCHANGED <<clock, single, owner, expires, tokens, now, lastRun, lease, started, faults>>

Tick ==
    /\ clock < MaxTime
    /\ \A s \in Servers : pc[s] \notin {"idle", "stopped"} => clock < now[s] + Lag
    /\ clock' = clock + 1
    /\ UNCHANGED <<single, owner, expires, tokens, pc, now, lastRun, lease, started, faults>>

TaskNext ==
    /\ \/ \E s \in Servers :
            \/ BeginTurn(s) \/ AcquireOccurrence(s) \/ SkipOccurrence(s)
            \/ AcquireOverlap(s) \/ SkipOverlap(s) \/ ActionReturns(s) \/ ActionThrows(s)
            \/ release(s) \/ CommandThrows(s) \/ Crash(s) \/ Restart(s)
       \/ Tick
    /\ UNCHANGED overlapTtl

TaskSpec == TaskInit /\ [][TaskNext]_taskvars

----------------------------------------------------------------------------
(* The variables hold values of their types. *)
TaskTypeOK ==
    /\ overlapTtl \in OverlapTtls
    /\ clock \in Times
    /\ single \in [Slots -> Nat]
    /\ owner \in Nat \cup {None} /\ expires \in Nat /\ tokens \in Nat
    /\ pc \in [Servers -> {"idle", "due", "chosen", "acting", "releasing", "failing", "stopped"}]
    /\ now \in [Servers -> Times]
    /\ lastRun \in [Servers -> Times \cup {None}]
    /\ lease \in [Servers -> Nat \cup {None}]
    /\ started \in [Slots -> Nat]
    /\ faults \in 0..MaxFaults

(* docs/scheduler.md: onOneServer "locks an occurrence across schedulers   *)
(* using the same lock store".  When the lock outlives the slot and the    *)
(* longest turn, the action starts at most once for each slot, through     *)
(* crashes, restarts, failing actions and lost replies.                    *)
OncePerSlot == \A k \in Slots : started[k] <= 1

(* docs/scheduler.md: withoutOverlapping "locks the scheduled action while *)
(* it executes".  When its TTL outlives the longest turn, two servers are  *)
(* never in the action at once.                                            *)
NoOverlap ==
    overlapTtl > Lag =>
        \A s, u \in Servers : pc[s] = "acting" /\ pc[u] = "acting" => s = u

(* The overlap key is deleted only by the server that set it, however late *)
(* the release comes: a lease that expired never frees its successor's.    *)
FreesOwn ==
    [][owner # None /\ owner' = None =>
        \E s \in Servers : lease[s] = owner /\ lease'[s] = None]_taskvars

=============================================================================
