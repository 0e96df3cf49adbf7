------------------------------ MODULE MCFsLock ------------------------------
(***************************************************************************)
(* Instances of FsLock for TLC.                                            *)
(***************************************************************************)
EXTENDS FsLock, TLC

CONSTANTS p1, p2, p3, i1, i2

TwoProcesses   == {p1, p2}
ThreeProcesses == {p1, p2, p3}
TwoInodes      == {i1, i2}
OneInode       == {i1}

(***************************************************************************)
(* Without what nothing reads: the id and the reason a call that failed    *)
(* gave its caller, and what is in an inode nobody can open or name.       *)
(***************************************************************************)
View ==
    <<path, [i \in Inodes \ Unused |-> content[i]], lock, fds, running, pc, fd,
      {p \in Processes : Holds(p)}, failed>>

Symmetry == Permutations(Processes) \cup Permutations(Inodes)
=============================================================================
