--------------------------- MODULE MCSharedState ---------------------------
(* Three parts that coordinate through state outside the process, each on  *)
(* its own: a task on two servers, callers of one cache key, and a storage *)
(* disk.                                                                   *)
EXTENDS ScheduledTask, CacheLease, LocalDisk, TLC

CONSTANTS s1, s2, u1, u2, u3, c1, c2, x, y
MCServers == {s1, s2}
MCUsers == {u1, u2, u3}
MCCallers == {c1, c2}
MCObjects == {x, y}
Symmetry ==
    Permutations(MCServers) \cup Permutations(MCCallers) \cup Permutations(MCObjects)

VARIABLE part
sharedvars == <<part, taskvars, cachevars, diskvars>>

SharedInit ==
    /\ part \in {"task", "cache", "disk"}
    /\ TaskInit /\ CacheInit /\ DiskInit
    /\ part # "task" => \A t \in OverlapTtls : overlapTtl <= t

SharedNext ==
    /\ UNCHANGED part
    /\ \/ part = "task" /\ TaskNext /\ UNCHANGED <<cachevars, diskvars>>
       \/ part = "cache" /\ CacheNext /\ UNCHANGED <<taskvars, diskvars>>
       \/ part = "disk" /\ DiskNext /\ UNCHANGED <<taskvars, cachevars>>

SharedSpec == SharedInit /\ [][SharedNext]_sharedvars

(* The variables of each part hold values of their types. *)
SharedTypeOK == TaskTypeOK /\ CacheTypeOK /\ DiskTypeOK
=============================================================================
