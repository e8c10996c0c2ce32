------------------------------ MODULE LocalDisk ------------------------------
(***************************************************************************)
(* The local storage disk: threads that put, copy, move and remove         *)
(* objects, a cleanup of abandoned temporary files, and crashes.           *)
(*                                                                         *)
(* The file system is external.  It is a journalling one: the changes of   *)
(* its directories reach the disk in order, a sync_directory returns when  *)
(* they have, and a crash leaves the directories as they were at some time *)
(* since the last sync.  A file that was not synced may be torn by a       *)
(* crash.  Every system call is one step, goes by name where the code's    *)
(* does, and may fail; a put may also be cancelled before its rename.      *)
(***************************************************************************)
EXTENDS Naturals, Sequences, SequencesExt

CONSTANTS
    Objects,      \* logical paths
    Callers,      \* threads that use the disk
    MaxOps,       \* how many operations they begin
    TempNames,    \* the numbers temporary_sequence goes through
    Attempts,     \* names atomic_put tries (32)
    MaxCrashes,
    NoFile

ASSUME DiskAssumption ==
    /\ MaxOps \in Nat /\ MaxCrashes \in Nat /\ Attempts \in Nat \ {0}
    /\ TempNames \subseteq Nat

VARIABLES
    views,      \* the directories since the last sync, oldest first
    inode,      \* each file: not there, "torn", or "synced" whole
    sequence,   \* temporary_sequence of the process
    caller,     \* each thread: where it is, its operation and what it holds
    cleaner,    \* the temporary file cleanup_abandoned is about to remove
    ops,        \* operations begun so far
    changes,    \* changes of objects so far
    acked,      \* the last change of each object that a caller was told of
    crashes

diskvars == <<views, inode, sequence, caller, cleaner, ops, changes, acked, crashes>>

(* A directory entry says which file a name leads to and, for an object,   *)
(* which change set it.                                                    *)
Entry(file, by) == [file |-> file, by |-> by]
Temporaries == Objects \X TempNames
Names == Objects \cup Temporaries
Now == Last(views)
There(name) == Now[name].file # NoFile
Idle == [at |-> "idle", op |-> "none", from |-> NoFile, to |-> NoFile,
         temp |-> NoFile, file |-> NoFile, mark |-> 0, tries |-> 0]

(* Threads hold the files they created, and every file in a directory was  *)
(* created.                                                                *)
DiskTypeOK ==
    /\ Len(views) > 0 /\ ops <= MaxOps
    /\ \A i \in DOMAIN views : \A n \in Names :
          views[i][n].file # NoFile => inode[views[i][n].file] # NoFile
    /\ \A c \in Callers : caller[c].at \in {"write", "rename"} => inode[caller[c].file] # NoFile
    /\ \A c \in Callers : caller[c].tries <= Attempts

DiskInit ==
    /\ views = <<[n \in Names |-> Entry(NoFile, 0)]>>
    /\ inode = [i \in 1..MaxOps |-> NoFile]
    /\ sequence = 0 /\ caller = [c \in Callers |-> Idle] /\ cleaner = NoFile
    /\ ops = 0 /\ changes = 0 /\ acked = [n \in Objects |-> 0] /\ crashes = 0

-----------------------------------------------------------------------------
(* The file system.                                                        *)
Change(view) == views' = Append(views, view)
Synced == <<Now>>

(* A call begins; a copy reads its source first (get), a remove and a move *)
(* look at it (fstatat).                                                   *)
BeginCall(c, op, from, to) ==
    /\ caller[c].at = "idle" /\ ops < MaxOps /\ ops' = ops + 1
    /\ \/ op = "put" /\ from = NoFile
       \/ op \in {"copy", "move"} /\ from \in Objects \ {to}
       \/ op = "remove" /\ from = to
    /\ caller' = [caller EXCEPT ![c] =
         [Idle EXCEPT !.at = IF op = "put" THEN "create" ELSE "look",
                      !.op = op, !.from = from, !.to = to, !.file = ops']]
    /\ UNCHANGED <<views, inode, sequence, cleaner, changes, acked, crashes>>

(* Nothing at the source: the call returns false.                          *)
look(c) ==
    /\ caller[c].at = "look"
    /\ caller' = [caller EXCEPT ![c] =
         IF ~There(@.from) THEN Idle
         ELSE [@ EXCEPT !.at = IF caller[c].op = "copy" THEN "create" ELSE "change"]]
    /\ UNCHANGED <<views, inode, sequence, cleaner, ops, changes, acked, crashes>>

(* atomic_put: a temporary file is created under a name made of the        *)
(* object's name, the process's id and a sequence number.  A name that is  *)
(* taken (left by a process with the same id) costs an attempt.            *)
CreateTemporary(c) ==
    LET temp == <<caller[c].to, sequence + 1>> IN
    /\ caller[c].at = "create" /\ caller[c].tries < Attempts
    /\ temp \in Temporaries /\ sequence' = sequence + 1
    /\ IF There(temp)
       THEN /\ caller' = [caller EXCEPT ![c].tries = @ + 1]
            /\ UNCHANGED <<views, inode>>
       ELSE /\ caller' = [caller EXCEPT ![c] = [@ EXCEPT !.at = "write", !.temp = temp]]
            /\ inode' = [inode EXCEPT ![caller[c].file] = "torn"]
            /\ Change([Now EXCEPT ![temp] = Entry(caller[c].file, 0)])
    /\ UNCHANGED <<cleaner, ops, changes, acked, crashes>>

(* Mutant of write_all: the contents are written, not synced. *)
WriteUnsynced(c) ==
    /\ caller[c].at = "write"
    /\ caller' = [caller EXCEPT ![c].at = "rename"]
    /\ UNCHANGED <<views, inode, sequence, cleaner, ops, changes, acked, crashes>>

(* write_all ends with the fsync of the file.                              *)
write_all(c) ==
    /\ caller[c].at = "write"
    /\ inode' = [inode EXCEPT ![caller[c].file] = "synced"]
    /\ caller' = [caller EXCEPT ![c].at = "rename"]
    /\ UNCHANGED <<views, sequence, cleaner, ops, changes, acked, crashes>>

(* A caller has changed an object and goes on to sync.                     *)
Changed(c, view) ==
    /\ changes' = changes + 1 /\ Change(view)
    /\ caller' = [caller EXCEPT ![c] = [@ EXCEPT !.at = "sync", !.mark = changes']]
    /\ UNCHANGED <<inode, sequence, cleaner, ops, acked, crashes>>

(* renameat moves whatever has the temporary name now.                     *)
RenameTemporary(c) ==
    LET temp == caller[c].temp IN
    /\ caller[c].at = "rename" /\ There(temp)
    /\ Changed(c, [Now EXCEPT ![temp] = Entry(NoFile, 0),
                              ![caller[c].to] = Entry(Now[temp].file, changes + 1)])

(* The rename of a move and the unlink of a remove go by name as well.     *)
MoveObject(c) ==
    LET from == caller[c].from IN
    /\ caller[c].at = "change" /\ caller[c].op = "move" /\ There(from)
    /\ Changed(c, [Now EXCEPT ![from] = Entry(NoFile, changes + 1),
                              ![caller[c].to] = Entry(Now[from].file, changes + 1)])

RemoveObject(c) ==
    LET from == caller[c].from IN
    /\ caller[c].at = "change" /\ caller[c].op = "remove" /\ There(from)
    /\ Changed(c, [Now EXCEPT ![from] = Entry(NoFile, changes + 1)])

(* The call returns, and its caller knows what it changed.                 *)
Return(c) ==
    /\ acked' = [n \in Objects |->
         IF (n = caller[c].to \/ (caller[c].op = "move" /\ n = caller[c].from))
            /\ caller[c].mark > acked[n] THEN caller[c].mark ELSE acked[n]]
    /\ caller' = [caller EXCEPT ![c] = Idle]
    /\ UNCHANGED <<inode, sequence, cleaner, ops, changes, crashes>>

(* Mutant of SyncDirectory: the call returns without it. *)
ReturnUnsynced(c) == caller[c].at = "sync" /\ Return(c) /\ UNCHANGED views

SyncDirectory(c) == caller[c].at = "sync" /\ views' = Synced /\ Return(c)

(* A system call fails, the token is cancelled, the names run out, or what *)
(* should be renamed is gone: the call throws (a remove returns false) and *)
(* unlinks its temporary file, by name.                                    *)
Throw(c) ==
    /\ caller[c].at # "idle"
    /\ IF caller[c].temp # NoFile /\ There(caller[c].temp)
       THEN Change([Now EXCEPT ![caller[c].temp] = Entry(NoFile, 0)])
       ELSE UNCHANGED views
    /\ caller' = [caller EXCEPT ![c] = Idle]
    /\ UNCHANGED <<inode, sequence, cleaner, ops, changes, acked, crashes>>

(* cleanup_abandoned finds a temporary file that is old enough, then       *)
(* removes what has its name; the sync of that remove may throw.           *)
FindAbandoned(t) ==
    /\ cleaner = NoFile /\ There(t) /\ cleaner' = t
    /\ UNCHANGED <<views, inode, sequence, caller, ops, changes, acked, crashes>>

RemoveAbandoned ==
    /\ cleaner # NoFile /\ cleaner' = NoFile
    /\ IF There(cleaner)
       THEN LET rest == [Now EXCEPT ![cleaner] = Entry(NoFile, 0)] IN
            views' = <<rest>> \/ Change(rest)
       ELSE UNCHANGED views
    /\ UNCHANGED <<inode, sequence, caller, ops, changes, acked, crashes>>

(* The machine or the process stops and the application starts again.      *)
MachineCrash ==
    /\ crashes < MaxCrashes /\ crashes' = crashes + 1
    /\ \E i \in DOMAIN views : views' = <<views[i]>>
    /\ sequence' = 0 /\ caller' = [c \in Callers |-> Idle] /\ cleaner' = NoFile
    /\ UNCHANGED <<inode, ops, changes, acked>>

-----------------------------------------------------------------------------
DiskNext ==
    \/ RemoveAbandoned \/ MachineCrash
    \/ \E t \in Temporaries : FindAbandoned(t)
    \/ \E c \in Callers :
        \/ look(c) \/ CreateTemporary(c) \/ write_all(c) \/ RenameTemporary(c)
        \/ MoveObject(c) \/ RemoveObject(c) \/ SyncDirectory(c) \/ Throw(c)
        \/ \E op \in {"put", "copy", "move", "remove"}, from \in Objects \cup {NoFile},
              to \in Objects : BeginCall(c, op, from, to)

DiskSpec == DiskInit /\ [][DiskNext]_diskvars

(* An object is never seen half written, by a reader or after a crash,     *)
(* however puts, copies, moves, removes and cleanups of the same names     *)
(* interleave: atomic_put writes and syncs a file of its own before it     *)
(* takes the object's name.                                                *)
WholeObjects ==
    \A i \in DOMAIN views : \A n \in Objects :
        views[i][n].file # NoFile => inode[views[i][n].file] = "synced"

(* What a call has returned survives a crash: the object is as that call   *)
(* or a later one left it.  A temporary file lost to a cleanup must show   *)
(* as an error of the put.                                                 *)
ReturnedIsDurable == \A n \in Objects : Now[n].by >= acked[n]
====
