------------------------------- MODULE FsLock -------------------------------
(***************************************************************************)
(* utils::try_fs_lock and utils::remove_fs_lock: processes that use one    *)
(* lock file to make sure only one of them runs.                           *)
(*                                                                         *)
(* A step is one system call.  What the file system does is external: a    *)
(* path names an inode or nothing, an inode lives while it is named or     *)
(* open, lockf locks an inode for a process, and a process that closes a   *)
(* descriptor of an inode, or ends, loses its lock on it.                  *)
(***************************************************************************)
EXTENDS FiniteSets

CONSTANTS
    Processes,          \* the processes, also the ids they write
    Inodes,             \* the inodes the file system has for the lock file
    NULL,               \* no inode, no process, an empty file, pid 0
    JUNK                \* a text that is the id of none of the processes

ASSUME NullAssumption == NULL \notin Processes \cup Inodes

VARIABLES
    path,               \* the inode the path of the lock file names
    content,            \* the text in an inode
    lock,               \* the process an inode is locked for
    fds,                \* the inodes a process has open for good: the call that
                        \* opened one closes no descriptor of it
    running,            \* the processes that run
    pc, fd,             \* where a call of try_fs_lock is, and its descriptor
    result, pid,        \* how the last call of a process ended
    failed              \* the processes whose last lock is of a call in which
                        \* ftruncate or write failed

files == <<path, content, lock>>
calls == <<pc, fd, result, pid>>
vars  == <<files, fds, running, calls, failed>>

\* What may be in a file, and what may be taken for an id.
FileTexts == Processes \cup {NULL, JUNK}

\* What the last call that returned told the process.
Holds(p) == p \in running /\ result[p] = "locked"

Init ==
    /\ path = NULL
    /\ content = [i \in Inodes |-> NULL]
    /\ lock = [i \in Inodes |-> NULL]
    /\ fds = [p \in Processes |-> {}]
    /\ running = {}
    /\ pc = [p \in Processes |-> "idle"]
    /\ fd = [p \in Processes |-> NULL]
    /\ result = [p \in Processes |-> "none"]
    /\ pid = [p \in Processes |-> NULL]
    /\ failed = {}

At(p, place) == p \in running /\ pc[p] = place

Go(p, place) == pc' = [pc EXCEPT ![p] = place]

\* The call returns: with true when "locked", else with false.
Return(p, how, id) ==
    /\ Go(p, "idle")
    /\ fd' = [fd EXCEPT ![p] = NULL]
    /\ result' = [result EXCEPT ![p] = how]
    /\ pid' = [pid EXCEPT ![p] = id]

-----------------------------------------------------------------------------
(* try_fs_lock.                                                            *)

Unused ==
    {i \in Inodes : i # path /\ \A q \in Processes : i \notin fds[q] /\ i # fd[q]}

\* The first descriptor of a call, which no branch closes.
Opened(p, i) ==
    /\ fd' = [fd EXCEPT ![p] = i]
    /\ fds' = [fds EXCEPT ![p] = @ \cup {i}]

\* Fault: the file is truncated when it is opened.
Fault_OpenExisting(p) ==
    /\ At(p, "idle") /\ path # NULL
    /\ Opened(p, path) /\ Go(p, "opened")
    /\ content' = [content EXCEPT ![path] = NULL]
    /\ UNCHANGED <<path, lock, running, result, pid, failed>>

OpenExisting(p) ==
    /\ At(p, "idle") /\ path # NULL
    /\ Opened(p, path) /\ Go(p, "opened")
    /\ UNCHANGED <<files, running, result, pid, failed>>

OpenNew(p) ==
    /\ At(p, "idle") /\ path = NULL
    /\ \E i \in Unused :
          /\ Opened(p, i)
          /\ path' = i
          /\ content' = [content EXCEPT ![i] = NULL]
          /\ lock' = [lock EXCEPT ![i] = NULL]
    /\ Go(p, "opened")
    /\ UNCHANGED <<running, result, pid, failed>>

OpenFails(p) ==
    /\ At(p, "idle")
    /\ Return(p, "error", NULL)
    /\ UNCHANGED <<files, fds, running, failed>>

\* lockf succeeds for a process that has the lock.
Lock(p) ==
    /\ At(p, "opened") /\ lock[fd[p]] \in {NULL, p}
    /\ lock' = [lock EXCEPT ![fd[p]] = p]
    /\ Go(p, "locked")
    /\ failed' = failed \ {p}
    /\ UNCHANGED <<path, content, fds, running, fd, result, pid>>

LockRefused(p) ==
    /\ At(p, "opened") /\ lock[fd[p]] \notin {NULL, p}
    /\ Go(p, "refused")
    /\ UNCHANGED <<files, fds, running, fd, result, pid, failed>>

Truncate(p) ==
    /\ At(p, "locked")
    /\ content' = [content EXCEPT ![fd[p]] = NULL]
    /\ Go(p, "truncated")
    /\ UNCHANGED <<path, lock, fds, running, fd, result, pid, failed>>

\* The result of ftruncate is ignored: the old text stays.
TruncateFails(p) ==
    /\ At(p, "locked")
    /\ Go(p, "truncated")
    /\ failed' = failed \cup {p}
    /\ UNCHANGED <<files, fds, running, fd, result, pid>>

\* Fault: the descriptor is closed, and with it goes the lock.
Fault_WritePid(p) ==
    /\ At(p, "truncated")
    /\ content' = [content EXCEPT ![fd[p]] = p]
    /\ lock' = [lock EXCEPT ![fd[p]] = NULL]
    /\ fds' = [fds EXCEPT ![p] = @ \ {fd[p]}]
    /\ Return(p, "locked", NULL)
    /\ UNCHANGED <<path, running, failed>>

\* The descriptor stays open: it keeps the lock.
WritePid(p) ==
    /\ At(p, "truncated")
    /\ content' = [content EXCEPT ![fd[p]] = p]
    /\ Return(p, "locked", NULL)
    /\ UNCHANGED <<path, lock, fds, running, failed>>

(***************************************************************************)
(* The result of write is ignored, too.  Nothing is written, or the first  *)
(* digits only, or, where the old text stayed, the id over the beginning   *)
(* of a longer one: what is there then may be the id of another process.   *)
(***************************************************************************)
WritePidFails(p) ==
    /\ At(p, "truncated")
    /\ \E text \in {content[fd[p]], JUNK} \cup (Processes \ {p}) :
           content' = [content EXCEPT ![fd[p]] = text]
    /\ Return(p, "locked", NULL)
    /\ failed' = failed \cup {p}
    /\ UNCHANGED <<path, lock, fds, running>>

\* Fault: the descriptor is used whether or not the file is there.
Fault_Reopen(p) ==
    /\ At(p, "refused")
    /\ fd' = [fd EXCEPT ![p] = path]
    /\ Go(p, "reading")
    /\ UNCHANGED <<files, fds, running, result, pid, failed>>

\* The variable fd takes the second descriptor; the first stays open.
Reopen(p) ==
    /\ At(p, "refused") /\ path # NULL
    /\ fd' = [fd EXCEPT ![p] = path]
    /\ Go(p, "reading")
    /\ UNCHANGED <<files, fds, running, result, pid, failed>>

\* The file is gone, or the process may open no more.
ReopenFails(p) ==
    /\ At(p, "refused")
    /\ Return(p, "error", NULL)
    /\ UNCHANGED <<files, fds, running, failed>>

\* The id is read and the second descriptor closed.
ReadPid(p) ==
    /\ At(p, "reading")
    /\ Return(p, "refused", content[fd[p]])
    /\ lock' = [lock EXCEPT ![fd[p]] = IF @ = p THEN NULL ELSE @]
    /\ UNCHANGED <<path, content, fds, running, failed>>

\* An id is read from a buffer nothing was read into.
ReadFails(p) ==
    /\ At(p, "reading")
    /\ \E text \in FileTexts : Return(p, "error", text)
    /\ lock' = [lock EXCEPT ![fd[p]] = IF @ = p THEN NULL ELSE @]
    /\ UNCHANGED <<path, content, fds, running, failed>>

-----------------------------------------------------------------------------
(* The programs.                                                           *)

Start(p) ==
    /\ p \notin running
    /\ running' = running \cup {p}
    /\ UNCHANGED <<files, fds, calls, failed>>

\* remove_fs_lock, which a process that has the lock calls to give it up.
RemoveFsLock(p) ==
    /\ Holds(p) /\ pc[p] = "idle"
    /\ path' = NULL
    /\ result' = [result EXCEPT ![p] = "none"]
    /\ UNCHANGED <<content, lock, fds, running, pc, fd, pid, failed>>

\* A process ends, or is killed at any place of a call.
End(p) ==
    /\ p \in running
    /\ running' = running \ {p}
    /\ fds' = [fds EXCEPT ![p] = {}]
    /\ lock' = [i \in Inodes |-> IF lock[i] = p THEN NULL ELSE lock[i]]
    /\ Return(p, "none", NULL)
    /\ failed' = failed \ {p}
    /\ UNCHANGED <<path, content>>

TryFsLock(p) ==
    \/ OpenExisting(p) \/ OpenNew(p) \/ OpenFails(p)
    \/ Lock(p) \/ LockRefused(p)
    \/ Truncate(p) \/ TruncateFails(p) \/ WritePid(p) \/ WritePidFails(p)
    \/ Reopen(p) \/ ReopenFails(p) \/ ReadPid(p) \/ ReadFails(p)

Next == \E p \in Processes : Start(p) \/ TryFsLock(p) \/ RemoveFsLock(p) \/ End(p)

Spec == Init /\ [][Next]_vars

-----------------------------------------------------------------------------
(* Properties.                                                             *)

\* A call that has locked a file has it locked until it returns.
LockedIsLocked ==
    \A p \in Processes : pc[p] \in {"locked", "truncated"} => lock[fd[p]] = p

\* A process that does not run is in no call.
StoppedIsIdle ==
    \A p \in Processes \ running : pc[p] = "idle" /\ result[p] = "none"

\* The type invariant; a call uses a descriptor only when it has one.
TypeOK ==
    /\ path \in Inodes \cup {NULL}
    /\ content \in [Inodes -> FileTexts]
    /\ lock \in [Inodes -> Processes \cup {NULL}]
    /\ fds \in [Processes -> SUBSET Inodes]
    /\ running \subseteq Processes
    /\ pc \in [Processes -> {"idle", "opened", "locked", "truncated",
                             "refused", "reading"}]
    /\ fd \in [Processes -> Inodes \cup {NULL}]
    /\ result \in [Processes -> {"none", "locked", "refused", "error"}]
    /\ pid \in [Processes -> FileTexts]
    /\ failed \subseteq Processes
    /\ \A p \in Processes :
           /\ pc[p] # "idle" => fd[p] \in Inodes
           /\ pc[p] \in {"opened", "locked", "truncated"} => fd[p] \in fds[p]

\* The processes that have the lock, as they were told, and use the file the
\* path names: no other they have opened was removed since.
HoldersOfFile == {p \in Processes : Holds(p) /\ fds[p] \subseteq {path}}

(***************************************************************************)
(* Of the processes that use the file the path names, at most one is told  *)
(* that it has the lock, whenever processes start, call again, are killed  *)
(* or remove the file (utils.cpp:218-241).  Of those that have opened a    *)
(* file before it was removed this is not so: one of them may lock that    *)
(* file, and another process the new one.                                  *)
(***************************************************************************)
MutualExclusion ==
    \A p, q \in HoldersOfFile : p = q

\* Whoever was told that it has the lock has locked a file it has open.
HolderHasLock ==
    \A p \in Processes : Holds(p) => \E i \in fds[p] : lock[i] = p

\* The inductive invariant of MutualExclusion and of the refinement.
LockInv == LockedIsLocked /\ StoppedIsIdle /\ HolderHasLock

(***************************************************************************)
(* try_fs_lock implements the abstract lock for the processes that use the *)
(* file the path names: system calls, the end of a process and the removal *)
(* of the file take, grant or give up the lock of that file, or leave it   *)
(* alone (utils.cpp:218-255).                                              *)
(***************************************************************************)
Abstract == INSTANCE ExclusiveLock WITH
    holder <- IF path = NULL THEN NULL ELSE lock[path],
    told   <- HoldersOfFile

ImplementsLock == Abstract!LSpec

(***************************************************************************)
(* The file a process has locked holds the id of that process once         *)
(* try_fs_lock has returned, if it could be written, however many others   *)
(* open it and are refused meanwhile, and whatever an earlier failure left *)
(* in it: they read whom they wait for (utils.cpp:235-251).                *)
(***************************************************************************)
HolderIsNamed ==
    \A p \in Processes \ failed : Holds(p) /\ pc[p] = "idle" =>
        \E i \in fds[p] : lock[i] = p /\ content[i] = p

\* The inductive invariant of HolderIsNamed.
NamedInv == LockedIsLocked /\ StoppedIsIdle /\ HolderIsNamed

(***************************************************************************)
(* The comment on pid: "pid == 0 indicates that something went majorly     *)
(* wrong during locking" (utils.cpp:226).  A caller that is refused        *)
(* because another process has the lock is then given the id of a process. *)
(***************************************************************************)
PidZeroMeansFailure ==
    \A p \in Processes : pc[p] = "idle" /\ result[p] = "refused" => pid[p] # NULL
=============================================================================
