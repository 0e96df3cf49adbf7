---------------------------- MODULE UtilsProofs ----------------------------
(***************************************************************************)
(* Proofs about the class utils: the lock file, for any number of          *)
(* processes and of inodes, and the string helpers, for texts and lists of *)
(* texts of any length and for unsigned integers of any width.             *)
(***************************************************************************)
EXTENDS FsLock, MCTexts, TLAPS, NaturalsInduction, WellFoundedInduction,
        FiniteSetTheorems, SequenceTheorems

-----------------------------------------------------------------------------
(* The lock file.                                                          *)

\* Every variable keeps its type, and no step of try_fs_lock uses a descriptor
\* it does not have.
THEOREM TypeCorrect == Spec => []TypeOK
<1>1. Init => TypeOK
  BY NullAssumption DEF Init, TypeOK, FileTexts
<1>2. TypeOK /\ [Next]_vars => TypeOK'
  <2> SUFFICES ASSUME TypeOK, [Next]_vars PROVE TypeOK'
    OBVIOUS
  <2> USE DEF TypeOK, FileTexts, files, calls, Go, At, Return, Opened
  <2>1. ASSUME NEW p \in Processes, OpenExisting(p) PROVE TypeOK'
    BY <2>1 DEF OpenExisting
  <2>2. ASSUME NEW p \in Processes, OpenNew(p) PROVE TypeOK'
    BY <2>2 DEF OpenNew, Unused
  <2>3. ASSUME NEW p \in Processes, OpenFails(p) PROVE TypeOK'
    BY <2>3 DEF OpenFails
  <2>4. ASSUME NEW p \in Processes, Lock(p) PROVE TypeOK'
    BY <2>4 DEF Lock
  <2>5. ASSUME NEW p \in Processes, LockRefused(p) PROVE TypeOK'
    BY <2>5 DEF LockRefused
  <2>6. ASSUME NEW p \in Processes, Truncate(p) PROVE TypeOK'
    BY <2>6 DEF Truncate
  <2>7. ASSUME NEW p \in Processes, WritePid(p) PROVE TypeOK'
    BY <2>7 DEF WritePid
  <2>8. ASSUME NEW p \in Processes, Reopen(p) PROVE TypeOK'
    BY <2>8 DEF Reopen
  <2>9. ASSUME NEW p \in Processes, ReopenFails(p) PROVE TypeOK'
    BY <2>9 DEF ReopenFails
  <2>10. ASSUME NEW p \in Processes, ReadPid(p) PROVE TypeOK'
    BY <2>10 DEF ReadPid
  <2>11. ASSUME NEW p \in Processes, Start(p) PROVE TypeOK'
    BY <2>11 DEF Start
  <2>12. ASSUME NEW p \in Processes, RemoveFsLock(p) PROVE TypeOK'
    BY <2>12 DEF RemoveFsLock
  <2>13. ASSUME NEW p \in Processes, End(p) PROVE TypeOK'
    BY <2>13 DEF End
  <2>14. CASE UNCHANGED vars
    BY <2>14 DEF vars
  <2>15. ASSUME NEW p \in Processes, TruncateFails(p) PROVE TypeOK'
    BY <2>15 DEF TruncateFails
  <2>16. ASSUME NEW p \in Processes, WritePidFails(p) PROVE TypeOK'
    BY <2>16 DEF WritePidFails
  <2>17. ASSUME NEW p \in Processes, ReadFails(p) PROVE TypeOK'
    BY <2>17 DEF ReadFails
  <2> QED
    BY <2>1, <2>2, <2>3, <2>4, <2>5, <2>6, <2>7, <2>8, <2>9, <2>10, <2>11,
       <2>12, <2>13, <2>14, <2>15, <2>16, <2>17 DEF Next, TryFsLock
<1> QED
  BY <1>1, <1>2, PTL DEF Spec

-----------------------------------------------------------------------------
\* A process locks, truncates and writes a file nobody else has locked.
LEMMA CallsPreserve ==
    ASSUME TypeOK, TypeOK', LockedIsLocked, StoppedIsIdle, [Next]_vars
    PROVE  LockedIsLocked' /\ StoppedIsIdle'
<1> USE DEF TypeOK, LockedIsLocked, StoppedIsIdle, files, calls, Go, At, Return,
            Opened
<1>1. ASSUME NEW p \in Processes, OpenExisting(p)
      PROVE  LockedIsLocked' /\ StoppedIsIdle'
  BY <1>1 DEF OpenExisting
<1>2. ASSUME NEW p \in Processes, OpenNew(p)
      PROVE  LockedIsLocked' /\ StoppedIsIdle'
  BY <1>2 DEF OpenNew, Unused
<1>3. ASSUME NEW p \in Processes, OpenFails(p)
      PROVE  LockedIsLocked' /\ StoppedIsIdle'
  BY <1>3 DEF OpenFails
<1>4. ASSUME NEW p \in Processes, Lock(p)
      PROVE  LockedIsLocked' /\ StoppedIsIdle'
  BY <1>4, NullAssumption DEF Lock
<1>5. ASSUME NEW p \in Processes, LockRefused(p)
      PROVE  LockedIsLocked' /\ StoppedIsIdle'
  BY <1>5 DEF LockRefused
<1>6. ASSUME NEW p \in Processes, Truncate(p)
      PROVE  LockedIsLocked' /\ StoppedIsIdle'
  BY <1>6 DEF Truncate
<1>7. ASSUME NEW p \in Processes, WritePid(p)
      PROVE  LockedIsLocked' /\ StoppedIsIdle'
  BY <1>7 DEF WritePid
<1>8. ASSUME NEW p \in Processes, Reopen(p)
      PROVE  LockedIsLocked' /\ StoppedIsIdle'
  BY <1>8 DEF Reopen
<1>9. ASSUME NEW p \in Processes, ReopenFails(p)
      PROVE  LockedIsLocked' /\ StoppedIsIdle'
  BY <1>9 DEF ReopenFails
<1>10. ASSUME NEW p \in Processes, ReadPid(p)
       PROVE  LockedIsLocked' /\ StoppedIsIdle'
  BY <1>10 DEF ReadPid
<1>11. ASSUME NEW p \in Processes, Start(p)
       PROVE  LockedIsLocked' /\ StoppedIsIdle'
  BY <1>11 DEF Start
<1>12. ASSUME NEW p \in Processes, RemoveFsLock(p)
       PROVE  LockedIsLocked' /\ StoppedIsIdle'
  BY <1>12 DEF RemoveFsLock
<1>13. ASSUME NEW p \in Processes, End(p)
       PROVE  LockedIsLocked' /\ StoppedIsIdle'
  BY <1>13 DEF End
<1>14. CASE UNCHANGED vars
  BY <1>14 DEF vars
<1>15. ASSUME NEW p \in Processes, TruncateFails(p)
       PROVE  LockedIsLocked' /\ StoppedIsIdle'
  BY <1>15 DEF TruncateFails
<1>16. ASSUME NEW p \in Processes, WritePidFails(p)
       PROVE  LockedIsLocked' /\ StoppedIsIdle'
  BY <1>16 DEF WritePidFails
<1>17. ASSUME NEW p \in Processes, ReadFails(p)
       PROVE  LockedIsLocked' /\ StoppedIsIdle'
  BY <1>17 DEF ReadFails
<1> QED
  BY <1>1, <1>2, <1>3, <1>4, <1>5, <1>6, <1>7, <1>8, <1>9, <1>10, <1>11,
     <1>12, <1>13, <1>14, <1>15, <1>16, <1>17 DEF Next, TryFsLock

-----------------------------------------------------------------------------
(* The lock.                                                               *)

\* Who was told that it has the lock has locked a file it keeps open, whether or
\* not files are removed.
THEOREM LocksAreHeld == Spec => []LockInv
<1>1. Init => LockInv
  BY DEF Init, LockInv, LockedIsLocked, StoppedIsIdle, HolderHasLock, Holds
<1>2. ASSUME TypeOK, TypeOK', LockInv, [Next]_vars PROVE LockInv'
  <2>1. LockedIsLocked' /\ StoppedIsIdle'
    BY <1>2, CallsPreserve DEF LockInv
  <2> USE <1>2 DEF TypeOK, LockInv, LockedIsLocked, StoppedIsIdle, HolderHasLock,
               Holds, files, calls, Go, At, Return, Opened
  <2>2. ASSUME NEW p \in Processes, OpenExisting(p) PROVE HolderHasLock'
    BY <2>2 DEF OpenExisting
  <2>3. ASSUME NEW p \in Processes, OpenNew(p) PROVE HolderHasLock'
    BY <2>3 DEF OpenNew, Unused
  <2>4. ASSUME NEW p \in Processes, OpenFails(p) PROVE HolderHasLock'
    BY <2>4 DEF OpenFails
  <2>5. ASSUME NEW p \in Processes, Lock(p) PROVE HolderHasLock'
    BY <2>5, NullAssumption DEF Lock
  <2>6. ASSUME NEW p \in Processes, LockRefused(p) PROVE HolderHasLock'
    BY <2>6 DEF LockRefused
  <2>7. ASSUME NEW p \in Processes, Truncate(p) PROVE HolderHasLock'
    BY <2>7 DEF Truncate
  <2>8. ASSUME NEW p \in Processes, WritePid(p) PROVE HolderHasLock'
    BY <2>8 DEF WritePid
  <2>9. ASSUME NEW p \in Processes, Reopen(p) PROVE HolderHasLock'
    BY <2>9 DEF Reopen
  <2>10. ASSUME NEW p \in Processes, ReopenFails(p) PROVE HolderHasLock'
    BY <2>10 DEF ReopenFails
  <2>11. ASSUME NEW p \in Processes, ReadPid(p) PROVE HolderHasLock'
    BY <2>11 DEF ReadPid
  <2>12. ASSUME NEW p \in Processes, Start(p) PROVE HolderHasLock'
    BY <2>12 DEF Start
  <2>13. ASSUME NEW p \in Processes, RemoveFsLock(p) PROVE HolderHasLock'
    BY <2>13 DEF RemoveFsLock
  <2>14. ASSUME NEW p \in Processes, End(p) PROVE HolderHasLock'
    BY <2>14 DEF End
  <2>15. CASE UNCHANGED vars
    BY <2>15 DEF vars
  <2>16. ASSUME NEW p \in Processes, TruncateFails(p) PROVE HolderHasLock'
    BY <2>16 DEF TruncateFails
  <2>17. ASSUME NEW p \in Processes, WritePidFails(p) PROVE HolderHasLock'
    BY <2>17 DEF WritePidFails
  <2>18. ASSUME NEW p \in Processes, ReadFails(p) PROVE HolderHasLock'
    BY <2>18 DEF ReadFails
  <2>19. HolderHasLock'
    BY <2>2, <2>3, <2>4, <2>5, <2>6, <2>7, <2>8, <2>9, <2>10, <2>11, <2>12,
       <2>13, <2>14, <2>15, <2>16, <2>17, <2>18 DEF Next, TryFsLock
  <2> QED
    BY <2>1, <2>19
<1> QED
  BY <1>1, <1>2, TypeCorrect, PTL DEF Spec

\* A process that uses the file the path names, and was told that it has the lock,
\* is the one that file is locked for.
LEMMA HolderOfFile ==
    ASSUME TypeOK, HolderHasLock, NEW p \in HoldersOfFile
    PROVE  p \in Processes /\ path \in Inodes /\ path # NULL /\ lock[path] = p
BY NullAssumption DEF TypeOK, HolderHasLock, HoldersOfFile

\* Of the processes that use the file the path names, at most one is told that it
\* has the lock, whoever starts, asks again, is killed or removes the file.
THEOREM LockExcludes == Spec => []MutualExclusion
<1>1. TypeOK /\ LockInv => MutualExclusion
  BY HolderOfFile DEF LockInv, MutualExclusion
<1> QED
  BY <1>1, TypeCorrect, LocksAreHeld, PTL

-----------------------------------------------------------------------------
(* The refinement.                                                         *)

Holder == IF path = NULL THEN NULL ELSE lock[path]

Told == HoldersOfFile

\* A step that leaves alone who has the lock of the file and who was told so.
Stutters == Holder' = Holder /\ Told' = Told

\* Who is left without a file gives up the lock of it.
LEMMA LastGivesUp ==
    ASSUME NEW p, p = Holder, Holder' = NULL, Told' = {}, Told \ {p} = {}
    PROVE  Abstract!GiveUp(p)
BY DEF Abstract!GiveUp, Holder, Told

\* Every system call of try_fs_lock, and the removal of the file, takes, grants or
\* gives up the lock of the file the path names or leaves it alone.
THEOREM LockImplemented == Spec => ImplementsLock
<1>1. Init => Abstract!LInit
  BY DEF Init, Abstract!LInit, HoldersOfFile, Holds
<1>2. ASSUME TypeOK, LockInv, [Next]_vars
      PROVE  Abstract!LNext \/ Stutters
  <2> USE <1>2 DEF TypeOK, FileTexts, files, calls, Go, At, Return, Opened, Holds,
               HoldersOfFile
  <2>1. ASSUME NEW p \in Processes, OpenExisting(p) PROVE Stutters
    <3>1. \A q \in Processes : Holds(q) => fds[q] # {}
      BY DEF LockInv, HolderHasLock
    <3>2. path \in Inodes
      BY <2>1 DEF OpenExisting
    <3>3. ASSUME NEW q \in Processes PROVE q \in Told' <=> q \in Told
      BY <2>1, <3>1, <3>2 DEF OpenExisting, Told
    <3> QED
      BY <2>1, <3>3 DEF OpenExisting, Stutters, Holder, Told
  <2>2. ASSUME NEW p \in Processes, OpenNew(p) PROVE Stutters
    <3>1. PICK i \in Unused : /\ Opened(p, i) /\ path' = i
                              /\ lock' = [lock EXCEPT ![i] = NULL]
      BY <2>2 DEF OpenNew
    <3>2. path = NULL /\ UNCHANGED <<running, result>>
      BY <2>2 DEF OpenNew
    <3>3. \A q \in Processes : Holds(q) => \E j \in fds[q] : j \in Inodes /\ j # i
      BY <3>1 DEF LockInv, HolderHasLock, Unused
    <3>4. \A q \in Processes : Holds(q) => ~(fds[q] \subseteq {NULL}) /\ ~(fds'[q] \subseteq {i})
      BY <3>1, <3>3, NullAssumption
    <3>5. Told = {} /\ Told' = {}
      BY <3>1, <3>2, <3>4 DEF Told
    <3>6. Holder' = NULL /\ Holder = NULL
      BY <3>1, <3>2 DEF Holder, Unused
    <3> QED
      BY <3>5, <3>6 DEF Stutters
  <2>3. ASSUME NEW p \in Processes, OpenFails(p) PROVE Abstract!Doubt(p)
    BY <2>3 DEF OpenFails, Abstract!Doubt
  <2>4. ASSUME NEW p \in Processes, Lock(p)
        PROVE  Abstract!Acquire(p) \/ Stutters
    <3>1. Told' = Told
      BY <2>4 DEF Lock, Told
    <3>2. CASE fd[p] = path
      <4>1. Holder \in {NULL, p} /\ Holder' = p
        BY <2>4, <3>2, NullAssumption DEF Lock, Holder
      <4> QED
        BY <3>1, <4>1 DEF Abstract!Acquire, Stutters, Holder, Told
    <3>3. CASE fd[p] # path
      BY <2>4, <3>1, <3>3 DEF Lock, Stutters, Holder
    <3> QED
      BY <3>2, <3>3
  <2>5. ASSUME NEW p \in Processes, LockRefused(p) PROVE Stutters
    BY <2>5 DEF LockRefused, Stutters, Holder, Told
  <2>6. ASSUME NEW p \in Processes, Truncate(p) PROVE Stutters
    BY <2>6 DEF Truncate, Stutters, Holder, Told
  <2>7. ASSUME NEW p \in Processes,
               /\ At(p, "truncated") /\ Return(p, "locked", NULL)
               /\ UNCHANGED <<path, lock, fds, running>>
        PROVE  Abstract!Grant(p) \/ Stutters
    <3>1. fd[p] \in fds[p] /\ fd[p] \in Inodes /\ lock[fd[p]] = p
      BY <2>7 DEF LockInv, LockedIsLocked
    <3>2. CASE fds[p] \subseteq {path}
      <4>1. path = fd[p] /\ path # NULL
        BY <3>1, <3>2, NullAssumption
      <4> QED
        BY <2>7, <3>1, <3>2, <4>1 DEF Abstract!Grant
    <3>3. CASE ~(fds[p] \subseteq {path})
      BY <2>7, <3>3 DEF Stutters, Holder, Told
    <3> QED
      BY <3>2, <3>3
  <2>8. ASSUME NEW p \in Processes, Reopen(p) PROVE Stutters
    BY <2>8 DEF Reopen, Stutters, Holder, Told
  <2>9. ASSUME NEW p \in Processes, ReopenFails(p) PROVE Abstract!Doubt(p)
    BY <2>9 DEF ReopenFails, Abstract!Doubt
  <2>10. ASSUME NEW p \in Processes, ReadPid(p)
         PROVE  Abstract!GiveUp(p) \/ Abstract!Doubt(p)
    BY <2>10 DEF ReadPid, Abstract!GiveUp, Abstract!Doubt
  <2>11. ASSUME NEW p \in Processes, Start(p) PROVE Stutters
    BY <2>11, <1>2 DEF Start, LockInv, StoppedIsIdle, Stutters, Holder, Told
  <2>12. ASSUME NEW p \in Processes, RemoveFsLock(p)
         PROVE  (\E q \in Processes : Abstract!GiveUp(q)) \/ Stutters
    <3>1. Holder' = NULL /\ Told' = {}
      <4>1. \A q \in Processes : Holds(q) => \E j \in fds[q] : j \in Inodes
        BY DEF LockInv, HolderHasLock
      <4>2. \A q \in Processes : Holds(q) => ~(fds[q] \subseteq {NULL})
        BY <4>1, NullAssumption
      <4> QED
        BY <2>12, <4>2 DEF RemoveFsLock, Holder, Told
    <3>2. \A q \in Told : q = Holder
      BY HolderOfFile DEF LockInv, Told, Holder
    <3>3. Holder \in Processes \cup {NULL}
      BY DEF Holder
    <3>4. CASE Holder = NULL
      <4>1. Told = {}
        BY <3>2, <3>4, NullAssumption DEF Told
      <4> QED
        BY <3>1, <3>4, <4>1 DEF Stutters
    <3>5. CASE Holder # NULL
      <4>1. PICK q \in Processes : q = Holder
        BY <3>3, <3>5
      <4>2. Told \ {q} = {}
        BY <3>2, <4>1
      <4>3. Abstract!GiveUp(q)
        BY <3>1, <4>1, <4>2, LastGivesUp
      <4> QED
        BY <4>3
    <3> QED
      BY <3>4, <3>5
  <2>13. ASSUME NEW p \in Processes, End(p) PROVE Abstract!GiveUp(p)
    BY <2>13 DEF End, Abstract!GiveUp
  <2>14. CASE UNCHANGED vars
    BY <2>14 DEF vars, Stutters, Holder, Told
  <2>15. ASSUME NEW p \in Processes, TruncateFails(p) PROVE Stutters
    BY <2>15 DEF TruncateFails, Stutters, Holder, Told
  <2>16. ASSUME NEW p \in Processes, WritePid(p) \/ WritePidFails(p)
         PROVE  Abstract!Grant(p) \/ Stutters
    BY <2>7, <2>16 DEF WritePid, WritePidFails
  <2>17. ASSUME NEW p \in Processes, ReadFails(p)
         PROVE  Abstract!GiveUp(p) \/ Abstract!Doubt(p)
    BY <2>17 DEF ReadFails, Abstract!GiveUp, Abstract!Doubt
  <2> QED
    BY <2>1, <2>2, <2>3, <2>4, <2>5, <2>6, <2>8, <2>9, <2>10, <2>11, <2>12,
       <2>13, <2>14, <2>15, <2>16, <2>17 DEF Next, TryFsLock, Abstract!LNext
<1>3. ASSUME TypeOK, LockInv, [Next]_vars
      PROVE  [Abstract!LNext]_<<Holder, Told>>
  BY <1>2, <1>3 DEF Stutters
<1> QED
  BY <1>1, <1>3, TypeCorrect, LocksAreHeld, PTL
  DEF Spec, ImplementsLock, Abstract!LSpec, Holder, Told

-----------------------------------------------------------------------------
(* The id in the file.                                                     *)

\* The file a process was told it has locked is locked for it and holds its
\* id, if that could be written, whether or not lock files are removed and
\* whatever earlier failures left in them.
THEOREM HoldersAreNamed == Spec => []HolderIsNamed
<1>1. Init => NamedInv
  BY DEF Init, NamedInv, LockedIsLocked, StoppedIsIdle, HolderIsNamed, Holds
<1>2. ASSUME TypeOK, TypeOK', NamedInv, [Next]_vars PROVE NamedInv'
  <2>1. LockedIsLocked' /\ StoppedIsIdle'
    BY <1>2, CallsPreserve DEF NamedInv
  <2> USE <1>2 DEF TypeOK, NamedInv, LockedIsLocked, StoppedIsIdle,
               HolderIsNamed, Holds, files, calls, Go, At, Return, Opened
  <2>2. ASSUME NEW p \in Processes, OpenExisting(p) PROVE HolderIsNamed'
    BY <2>2 DEF OpenExisting
  <2>3. ASSUME NEW p \in Processes, OpenNew(p) PROVE HolderIsNamed'
    BY <2>3 DEF OpenNew, Unused
  <2>4. ASSUME NEW p \in Processes, OpenFails(p) PROVE HolderIsNamed'
    BY <2>4 DEF OpenFails
  <2>5. ASSUME NEW p \in Processes, Lock(p) PROVE HolderIsNamed'
    BY <2>5, NullAssumption DEF Lock
  <2>6. ASSUME NEW p \in Processes, LockRefused(p) PROVE HolderIsNamed'
    BY <2>6 DEF LockRefused
  <2>7. ASSUME NEW p \in Processes, Truncate(p) PROVE HolderIsNamed'
    BY <2>7 DEF Truncate
  <2>8. ASSUME NEW p \in Processes, WritePid(p) PROVE HolderIsNamed'
    BY <2>8 DEF WritePid
  <2>9. ASSUME NEW p \in Processes, Reopen(p) PROVE HolderIsNamed'
    BY <2>9 DEF Reopen
  <2>10. ASSUME NEW p \in Processes, ReopenFails(p) PROVE HolderIsNamed'
    BY <2>10 DEF ReopenFails
  <2>11. ASSUME NEW p \in Processes, ReadPid(p) PROVE HolderIsNamed'
    BY <2>11 DEF ReadPid
  <2>12. ASSUME NEW p \in Processes, Start(p) PROVE HolderIsNamed'
    BY <2>12 DEF Start
  <2>13. ASSUME NEW p \in Processes, RemoveFsLock(p) PROVE HolderIsNamed'
    BY <2>13 DEF RemoveFsLock
  <2>14. ASSUME NEW p \in Processes, End(p) PROVE HolderIsNamed'
    BY <2>14 DEF End
  <2>15. CASE UNCHANGED vars
    BY <2>15 DEF vars
  <2>16. ASSUME NEW p \in Processes, TruncateFails(p) PROVE HolderIsNamed'
    BY <2>16 DEF TruncateFails
  <2>17. ASSUME NEW p \in Processes, WritePidFails(p) PROVE HolderIsNamed'
    BY <2>17 DEF WritePidFails
  <2>18. ASSUME NEW p \in Processes, ReadFails(p) PROVE HolderIsNamed'
    BY <2>18 DEF ReadFails
  <2>19. HolderIsNamed'
    BY <2>2, <2>3, <2>4, <2>5, <2>6, <2>7, <2>8, <2>9, <2>10, <2>11, <2>12,
       <2>13, <2>14, <2>15, <2>16, <2>17, <2>18 DEF Next, TryFsLock
  <2> QED
    BY <2>1, <2>19
<1>3. NamedInv => HolderIsNamed
  BY DEF NamedInv
<1> QED
  BY <1>1, <1>2, <1>3, TypeCorrect, PTL DEF Spec

-----------------------------------------------------------------------------
(* Induction over numbers, with the set of those a claim holds of.         *)

\* From each number to the next one.
LEMMA CountUp ==
    ASSUME NEW G, 0 \in G, \A n \in Nat : n \in G => n + 1 \in G
    PROVE  Nat \subseteq G
<1> DEFINE B == Nat \ G
<1> SUFFICES ASSUME B # {} PROVE FALSE
  OBVIOUS
<1>1. IsWellFoundedOn(OpToRel(<, Nat), Nat)
  BY NatLessThanWellFounded
<1>2. PICK n \in B : \A y \in B : ~(<<y, n>> \in OpToRel(<, Nat))
  BY <1>1, WFMin
<1>3. n \in Nat /\ n # 0
  OBVIOUS
<1>4. n - 1 \in Nat /\ n - 1 < n /\ (n - 1) + 1 = n
  BY <1>3
<1>5. n - 1 \notin B
  BY <1>2, <1>3, <1>4 DEF OpToRel
<1> QED
  BY <1>3, <1>4, <1>5

\* From the last place of a range back to the first.
LEMMA CountDown ==
    ASSUME NEW a \in Int, NEW b \in Int, NEW G,
           \A i \in a..b : (\A j \in i + 1..b : j \in G) => i \in G
    PROVE  \A i \in a..b : i \in G
<1> DEFINE N == {m \in Nat : \A i \in a..b : b - i < m => i \in G}
<1>1. 0 \in N
  OBVIOUS
<1>2. ASSUME NEW m \in Nat, m \in N PROVE m + 1 \in N
  <2> SUFFICES ASSUME NEW i \in a..b, b - i < m + 1 PROVE i \in G
    OBVIOUS
  <2>1. \A j \in i + 1..b : j \in a..b /\ b - j < m
    OBVIOUS
  <2> QED
    BY <1>2, <2>1
<1>3. \A m \in Nat : m \in N
  <2> HIDE DEF N
  <2> QED
    BY <1>1, <1>2, CountUp
<1> SUFFICES ASSUME NEW i \in a..b PROVE i \in G
  OBVIOUS
<1>4. (b - i) + 1 \in Nat /\ b - i < (b - i) + 1
  OBVIOUS
<1> QED
  BY <1>3, <1>4

-----------------------------------------------------------------------------
(* Ways through texts.                                                     *)

\* What A says is found at each place.
Found(A, S, step) ==
    \A x \in S : A[x] =
        IF x \in DOMAIN step THEN step[x].part \o A[step[x].next] ELSE <<>>

\* Every step comes nearer to an end.
Nears(S, step, n, rank) ==
    /\ n \in Nat /\ rank \in [S -> 0..n] /\ DOMAIN step \subseteq S
    /\ \A x \in DOMAIN step : step[x].next \in S /\ rank[step[x].next] < rank[x]

\* Every step goes forward.
Forward(a, b, step) ==
    /\ a \in Int /\ b \in Int /\ DOMAIN step \subseteq a..b
    /\ \A x \in DOMAIN step : step[x].next \in x + 1..b

\* Along is what is found, if its steps come to an end.
LEMMA AlongFinds ==
    ASSUME NEW S, NEW step, NEW n, NEW rank, Nears(S, step, n, rank)
    PROVE  Found(Along(S, step), S, step)
<1> USE DEF Nears
<1> DEFINE Body(f, x) == IF x \in DOMAIN step THEN step[x].part \o f[step[x].next] ELSE <<>>
           Below(m) == {x \in S : rank[x] < m}
           G == {m \in Nat : \E f : f = [x \in Below(m) |-> Body(f, x)]}
<1>1. 0 \in G
  <2>1. Below(0) = {}
    OBVIOUS
  <2> HIDE DEF Below, Body
  <2>2. \E f : f = [x \in Below(0) |-> Body(f, x)]
    <3>1. LET f == [x \in {} |-> <<>>] IN f = [x \in Below(0) |-> Body(f, x)]
      BY <2>1
    <3> QED
      BY <3>1
  <2> QED
    BY <2>2
<1>2. ASSUME NEW m \in Nat, m \in G PROVE m + 1 \in G
  <2>1. PICK f : f = [x \in Below(m) |-> Body(f, x)]
    BY <1>2
  <2> DEFINE g == [x \in Below(m + 1) |-> Body(f, x)]
  <2>2. Below(m) \subseteq Below(m + 1)
    OBVIOUS
  <2>3. \A x \in Below(m) : g[x] = f[x]
    <3> HIDE DEF Below, Body, G
    <3> QED
      BY <2>1, <2>2
  <2>4. \A x \in Below(m + 1) : x \in DOMAIN step => step[x].next \in Below(m)
    OBVIOUS
  <2>5. \A x \in Below(m + 1) : Body(f, x) = Body(g, x)
    <3> HIDE DEF g
    <3> QED
      BY <2>3, <2>4
  <2>6. g = [x \in Below(m + 1) |-> Body(g, x)]
    <3> HIDE DEF Below, Body, G
    <3> QED
      BY <2>5
  <2>7. \E h : h = [x \in Below(m + 1) |-> Body(h, x)]
    <3> HIDE DEF g, Below, Body
    <3> QED
      BY <2>6
  <2>8. m + 1 \in Nat
    OBVIOUS
  <2> HIDE DEF Below, Body
  <2> QED
    BY <2>7, <2>8
<1>3. n + 1 \in G
  <2> HIDE DEF G
  <2> QED
    BY <1>1, <1>2, CountUp
<1>4. PICK f : f = [x \in S |-> Body(f, x)]
  <2>1. Below(n + 1) = S
    OBVIOUS
  <2> QED
    BY <1>3, <2>1
<1>5. Along(S, step) = [x \in S |-> Body(Along(S, step), x)]
  BY <1>4 DEF Along
<1> QED
  BY <1>5 DEF Found

\* Places in a row come to an end.
LEMMA RowNears ==
    ASSUME NEW a, NEW b, NEW step, Forward(a, b, step)
    PROVE  Nears(a..b, step, IF a <= b THEN b - a ELSE 0, [x \in a..b |-> b - x])
<1> DEFINE n == IF a <= b THEN b - a ELSE 0
           rank == [x \in a..b |-> b - x]
<1>1. n \in Nat /\ rank \in [a..b -> 0..n]
  BY DEF Forward
<1>2. \A x \in DOMAIN step : step[x].next \in a..b /\ rank[step[x].next] < rank[x]
  BY DEF Forward
<1> HIDE DEF n, rank
<1>3. Nears(a..b, step, n, rank)
  BY <1>1, <1>2 DEF Nears, Forward
<1> QED
  BY <1>3 DEF n, rank

\* What is found along a row of places.
LEMMA AlongRow ==
    ASSUME NEW a, NEW b, NEW step, Forward(a, b, step)
    PROVE  Found(Along(a..b, step), a..b, step)
  BY RowNears, AlongFinds

\* What is found along a row is a sequence of what its steps add.
LEMMA AlongRowType ==
    ASSUME NEW a, NEW b, NEW step, Forward(a, b, step),
           NEW T, \A x \in DOMAIN step : step[x].part \in Seq(T)
    PROVE  \A x \in a..b : Along(a..b, step)[x] \in Seq(T)
<1> DEFINE A == Along(a..b, step)
           G == {x \in a..b : A[x] \in Seq(T)}
<1>1. Found(A, a..b, step)
  BY AlongRow
<1> HIDE DEF A
<1>2. ASSUME NEW x \in a..b, \A y \in x + 1..b : y \in G PROVE x \in G
  <2>1. CASE x \in DOMAIN step
    <3>1. step[x].next \in G /\ step[x].part \in Seq(T)
      BY <1>2, <2>1 DEF Forward
    <3>2. step[x].part \o A[step[x].next] \in Seq(T)
      BY <3>1
    <3> QED
      BY <1>1, <2>1, <3>2 DEF Found
  <2>2. CASE x \notin DOMAIN step
    <3>1. A[x] = <<>> /\ <<>> \in Seq(T)
      BY <1>1, <2>2, EmptySeq DEF Found
    <3> QED
      BY <3>1
  <2> QED
    BY <2>1, <2>2
<1>3. \A x \in a..b : x \in G
  <2>1. a \in Int /\ b \in Int
    BY DEF Forward
  <2> HIDE DEF G
  <2> QED
    BY <1>2, <2>1, CountDown
<1> QED
  BY <1>3 DEF A

\* Places that belong together have the same steps, to such places again.
Alike(R, S1, step1, S2, step2) ==
    \A x \in S1, y \in S2 : <<x, y>> \in R =>
        /\ x \in DOMAIN step1 <=> y \in DOMAIN step2
        /\ x \in DOMAIN step1 =>
               /\ step1[x].part = step2[y].part
               /\ step2[y].next \in S2
               /\ <<step1[x].next, step2[y].next>> \in R

\* From places that belong together the same is found.
LEMMA SameWay ==
    ASSUME NEW S1, NEW step1, NEW A1, Found(A1, S1, step1),
           NEW S2, NEW step2, NEW A2, Found(A2, S2, step2),
           NEW n, NEW rank, Nears(S1, step1, n, rank),
           NEW R, Alike(R, S1, step1, S2, step2)
    PROVE  \A x \in S1, y \in S2 : <<x, y>> \in R => A1[x] = A2[y]
<1> USE DEF Nears
<1> DEFINE G == {m \in Nat : \A x \in S1, y \in S2 :
                                 <<x, y>> \in R /\ rank[x] < m => A1[x] = A2[y]}
<1>1. 0 \in G
  OBVIOUS
<1>2. ASSUME NEW m \in Nat, m \in G PROVE m + 1 \in G
  <2> SUFFICES ASSUME NEW x \in S1, NEW y \in S2, <<x, y>> \in R, rank[x] < m + 1
               PROVE  A1[x] = A2[y]
    OBVIOUS
  <2>1. CASE x \in DOMAIN step1
    <3> DEFINE x1 == step1[x].next
               y1 == step2[y].next
    <3>1. <<x1, y1>> \in R /\ step1[x].part = step2[y].part /\ y \in DOMAIN step2
      BY <2>1 DEF Alike
    <3>2. x1 \in S1 /\ y1 \in S2
      BY <2>1, <3>1 DEF Alike
    <3>3. rank[x1] < rank[x]
      BY <2>1
    <3> HIDE DEF x1, y1
    <3>4. rank[x1] < m
      BY <3>2, <3>3
    <3>5. A1[x1] = A2[y1]
      BY <1>2, <3>1, <3>2, <3>4
    <3>6. A1[x] = step1[x].part \o A1[x1]
      BY <2>1 DEF Found, x1
    <3>7. A2[y] = step2[y].part \o A2[y1]
      BY <3>1 DEF Found, y1
    <3> QED
      BY <3>1, <3>5, <3>6, <3>7
  <2>2. CASE x \notin DOMAIN step1
    BY <2>2 DEF Found, Alike
  <2> QED
    BY <2>1, <2>2
<1>3. n + 1 \in G
  <2> HIDE DEF G
  <2> QED
    BY <1>1, <1>2, CountUp
<1> QED
  BY <1>3

\* The same for two rows.
LEMMA SameRow ==
    ASSUME NEW a, NEW b, NEW step1, Forward(a, b, step1),
           NEW c, NEW e, NEW step2, Forward(c, e, step2),
           NEW R, Alike(R, a..b, step1, c..e, step2)
    PROVE  \A x \in a..b, y \in c..e : <<x, y>> \in R =>
               Along(a..b, step1)[x] = Along(c..e, step2)[y]
<1>1. PICK n, rank : Nears(a..b, step1, n, rank)
  BY RowNears
<1>2. Found(Along(a..b, step1), a..b, step1)
  BY AlongRow
<1>3. Found(Along(c..e, step2), c..e, step2)
  BY AlongRow
<1> DEFINE S1 == a..b
           S2 == c..e
           A1 == Along(S1, step1)
           A2 == Along(S2, step2)
<1>4. /\ Found(A1, S1, step1) /\ Found(A2, S2, step2)
      /\ Nears(S1, step1, n, rank) /\ Alike(R, S1, step1, S2, step2)
  BY <1>1, <1>2, <1>3
<1> HIDE DEF S1, S2, A1, A2
<1>5. \A x \in S1, y \in S2 : <<x, y>> \in R => A1[x] = A2[y]
  BY <1>4, SameWay
<1> QED
  BY <1>5 DEF S1, S2, A1, A2

-----------------------------------------------------------------------------
(* The rest of a text.                                                     *)

Rest(s, i) == SubSeq(s, i, Len(s))

\* Its characters.
LEMMA RestIs ==
    ASSUME NEW T, NEW s \in Seq(T), NEW i \in 1..Len(s) + 1
    PROVE  /\ Rest(s, i) \in Seq(T) /\ Len(Rest(s, i)) = Len(s) + 1 - i
           /\ \A m \in 1..Len(s) + 1 - i : Rest(s, i)[m] = s[i + m - 1]
  BY DEF Rest

\* All of the text, and nothing.
LEMMA RestEnds ==
    ASSUME NEW T, NEW s \in Seq(T)
    PROVE  Rest(s, 1) = s /\ Rest(s, Len(s) + 1) = <<>>
  BY DEF Rest

\* From a place on a text consists of w and r.
Ahead(s, i, w, r) == Rest(s, i) = w \o r

\* A text that begins with w goes on behind it.
LEMMA RestSplits ==
    ASSUME NEW T, NEW s \in Seq(T), NEW i \in 1..Len(s) + 1,
           NEW w \in Seq(T), NEW r \in Seq(T), Ahead(s, i, w, r)
    PROVE  /\ i + Len(w) \in 1..Len(s) + 1
           /\ Rest(s, i + Len(w)) = r
           /\ \A m \in 1..Len(w) : s[i + m - 1] = w[m]
           /\ Len(s) + 1 = i + Len(w) + Len(r)
           /\ SubSeq(s, i, i + Len(w) - 1) = w
<1>0. Rest(s, i) = w \o r
  BY DEF Ahead
<1>1. Len(Rest(s, i)) = Len(w) + Len(r)
  BY <1>0
<1>2. Len(s) + 1 - i = Len(w) + Len(r)
  BY <1>1, RestIs
<1>3. i + Len(w) \in 1..Len(s) + 1
  BY <1>2
<1>4. \A m \in 1..Len(w) : s[i + m - 1] = w[m]
  <2> SUFFICES ASSUME NEW m \in 1..Len(w) PROVE s[i + m - 1] = w[m]
    OBVIOUS
  <2>1. m \in 1..Len(s) + 1 - i
    BY <1>2
  <2>2. Rest(s, i)[m] = s[i + m - 1]
    BY <2>1, RestIs
  <2>3. (w \o r)[m] = w[m]
    OBVIOUS
  <2> QED
    BY <1>0, <2>2, <2>3
<1>5. \A m \in 1..Len(r) : s[i + Len(w) + m - 1] = r[m]
  <2> SUFFICES ASSUME NEW m \in 1..Len(r) PROVE s[i + Len(w) + m - 1] = r[m]
    OBVIOUS
  <2>1. Len(w) + m \in 1..Len(s) + 1 - i
    BY <1>2
  <2>2. Rest(s, i)[Len(w) + m] = s[i + (Len(w) + m) - 1]
    BY <2>1, RestIs
  <2>3. (w \o r)[Len(w) + m] = r[m]
    OBVIOUS
  <2> QED
    BY <1>0, <2>2, <2>3
<1>6. Rest(s, i + Len(w)) = r
  <2> DEFINE d == i + Len(w)
             u == Rest(s, d)
  <2>1. d \in 1..Len(s) + 1 /\ Len(s) + 1 - d = Len(r)
    BY <1>2, <1>3
  <2>2. \A m \in 1..Len(r) : s[d + m - 1] = r[m]
    BY <1>5
  <2> HIDE DEF d
  <2>3. /\ u \in Seq(T) /\ Len(u) = Len(s) + 1 - d
        /\ \A m \in 1..Len(s) + 1 - d : u[m] = s[d + m - 1]
    BY <2>1, RestIs
  <2> HIDE DEF u
  <2>4. Len(u) = Len(r) /\ \A m \in 1..Len(u) : u[m] = r[m]
    BY <2>1, <2>2, <2>3
  <2>5. u = r
    BY <2>3, <2>4, SeqEqual
  <2> QED
    BY <2>5 DEF u, d
<1>7. SubSeq(s, i, i + Len(w) - 1) = w
  <2> DEFINE e == i + Len(w) - 1
             u == SubSeq(s, i, e)
  <2>1. e \in Int /\ e - i + 1 = Len(w) /\ \A m \in i..e : s[m] \in T
    BY <1>3
  <2> HIDE DEF e
  <2>2. /\ u \in Seq(T) /\ Len(u) = IF i <= e THEN e - i + 1 ELSE 0
        /\ \A m \in 1..e - i + 1 : u[m] = s[i + m - 1]
    BY <2>1, SubSeqProperties
  <2> HIDE DEF u
  <2>3. Len(u) = Len(w) /\ \A m \in 1..Len(u) : u[m] = w[m]
    BY <1>4, <2>1, <2>2
  <2>4. u = w
    BY <2>2, <2>3, SeqEqual
  <2> QED
    BY <2>4 DEF u, e
<1> QED
  BY <1>2, <1>3, <1>4, <1>6, <1>7

\* The first character, and the others.
LEMMA RestFirst ==
    ASSUME NEW T, NEW s \in Seq(T), NEW i \in 1..Len(s)
    PROVE  Rest(s, i) = <<s[i]>> \o Rest(s, i + 1)
  BY SubSeqRecursiveFirst DEF Rest

-----------------------------------------------------------------------------
(* find_first_of and find_first_not_of.                                    *)

\* The least of some numbers, if one is known.
LEMMA MinIs ==
    ASSUME NEW S \in SUBSET Int, NEW x \in S, \A y \in S : x <= y
    PROVE  Min(S) = x
<1>1. \A z \in S : (\A y \in S : z <= y) => z = x
  OBVIOUS
<1> QED
  BY <1>1 DEF Min

\* The greatest of some numbers, if one is known.
LEMMA MaxIs ==
    ASSUME NEW S \in SUBSET Int, NEW x \in S, \A y \in S : y <= x
    PROVE  Max(S) = x
<1>1. \A z \in S : (\A y \in S : z >= y) => z = x
  OBVIOUS
<1>2. \A y \in S : x >= y
  OBVIOUS
<1> QED
  BY <1>1, <1>2 DEF Max

\* There is a least place.
LEMMA MinOf ==
    ASSUME NEW S \in SUBSET Nat, S # {}
    PROVE  Min(S) \in S /\ \A y \in S : Min(S) <= y
<1>1. IsWellFoundedOn(OpToRel(<, Nat), Nat)
  BY NatLessThanWellFounded
<1>2. PICK x \in S : \A y \in S : ~(<<y, x>> \in OpToRel(<, Nat))
  BY <1>1, WFMin
<1>3. ASSUME NEW y \in S PROVE x <= y
  <2>1. y < x => <<y, x>> \in OpToRel(<, Nat)
    BY DEF OpToRel
  <2>2. ~(y < x)
    BY <1>2, <2>1
  <2> QED
    BY <2>2
<1> QED
  BY <1>3, MinIs

\* What find_first_of returns: the place it begins at, or a place behind it with
\* none of the characters before.
LEMMA FirstOfIs ==
    ASSUME NEW s, Len(s) \in Nat, NEW chrs, NEW i \in 1..Len(s) + 1
    PROVE  LET p == FirstOf(s, chrs, i)
           IN  /\ p \in i..Len(s) + 1
               /\ p <= Len(s) => s[p] \in chrs
               /\ \A k \in i..p - 1 : s[k] \notin chrs
<1> DEFINE S == {k \in i..Len(s) : s[k] \in chrs} \cup {Len(s) + 1}
<1>1. S \in SUBSET Nat /\ S # {}
  OBVIOUS
<1>2. Min(S) \in S /\ \A y \in S : Min(S) <= y
  BY <1>1, MinOf
<1>3. FirstOf(s, chrs, i) = Min(S)
  BY DEF FirstOf
<1> DEFINE p == Min(S)
<1>4. p \in i..Len(s) + 1 /\ (p <= Len(s) => s[p] \in chrs)
  <2> HIDE DEF p
  <2> QED
    BY <1>2 DEF p
<1>5. ASSUME NEW k \in i..p - 1 PROVE s[k] \notin chrs
  <2>1. k \in i..Len(s) /\ ~(p <= k)
    BY <1>4
  <2> QED
    BY <1>2, <2>1
<1> HIDE DEF p, S
<1> QED
  BY <1>3, <1>4, <1>5 DEF p

\* The same of find_first_not_of.
LEMMA FirstNotOfIs ==
    ASSUME NEW s, Len(s) \in Nat, NEW chrs, NEW i \in 1..Len(s) + 1
    PROVE  LET p == FirstNotOf(s, chrs, i)
           IN  /\ p \in i..Len(s) + 1
               /\ p <= Len(s) => s[p] \notin chrs
               /\ \A k \in i..p - 1 : s[k] \in chrs
<1> DEFINE S == {k \in i..Len(s) : s[k] \notin chrs} \cup {Len(s) + 1}
<1>1. S \in SUBSET Nat /\ S # {}
  OBVIOUS
<1>2. Min(S) \in S /\ \A y \in S : Min(S) <= y
  BY <1>1, MinOf
<1>3. FirstNotOf(s, chrs, i) = Min(S)
  BY DEF FirstNotOf
<1> DEFINE p == Min(S)
<1>4. p \in i..Len(s) + 1 /\ (p <= Len(s) => s[p] \notin chrs)
  <2> HIDE DEF p
  <2> QED
    BY <1>2 DEF p
<1>5. ASSUME NEW k \in i..p - 1 PROVE s[k] \in chrs
  <2>1. k \in i..Len(s) /\ ~(p <= k)
    BY <1>4
  <2> QED
    BY <1>2, <2>1
<1> HIDE DEF p, S
<1> QED
  BY <1>3, <1>4, <1>5 DEF p

\* Where find_first_of stops.
LEMMA FirstOfAt ==
    ASSUME NEW s, Len(s) \in Nat, NEW chrs, NEW i \in 1..Len(s) + 1,
           NEW p \in i..Len(s) + 1, \A k \in i..p - 1 : s[k] \notin chrs,
           p <= Len(s) => s[p] \in chrs
    PROVE  FirstOf(s, chrs, i) = p
<1>1. LET q == FirstOf(s, chrs, i)
      IN  /\ q \in i..Len(s) + 1
          /\ q <= Len(s) => s[q] \in chrs
          /\ \A k \in i..q - 1 : s[k] \notin chrs
  BY FirstOfIs
<1> QED
  BY <1>1

\* Where find_first_not_of stops.
LEMMA FirstNotOfAt ==
    ASSUME NEW s, Len(s) \in Nat, NEW chrs, NEW i \in 1..Len(s) + 1,
           NEW p \in i..Len(s) + 1, \A k \in i..p - 1 : s[k] \in chrs,
           p <= Len(s) => s[p] \notin chrs
    PROVE  FirstNotOf(s, chrs, i) = p
<1>1. LET q == FirstNotOf(s, chrs, i)
      IN  /\ q \in i..Len(s) + 1
          /\ q <= Len(s) => s[q] \notin chrs
          /\ \A k \in i..q - 1 : s[k] \in chrs
  BY FirstNotOfIs
<1> QED
  BY <1>1

\* A character that is searched for is found at once; one that is not is passed.
LEMMA FirstOfStep ==
    ASSUME NEW s, Len(s) \in Nat, NEW chrs, NEW i \in 1..Len(s)
    PROVE  /\ s[i] \in chrs => FirstOf(s, chrs, i) = i
           /\ s[i] \notin chrs => FirstOf(s, chrs, i) = FirstOf(s, chrs, i + 1)
<1>1. i \in 1..Len(s) + 1 /\ i + 1 \in 1..Len(s) + 1
  OBVIOUS
<1>2. ASSUME s[i] \in chrs PROVE FirstOf(s, chrs, i) = i
  BY <1>1, <1>2, FirstOfAt
<1>3. ASSUME s[i] \notin chrs PROVE FirstOf(s, chrs, i) = FirstOf(s, chrs, i + 1)
  <2> DEFINE p == FirstOf(s, chrs, i + 1)
  <2>1. /\ p \in i + 1..Len(s) + 1
        /\ p <= Len(s) => s[p] \in chrs
        /\ \A k \in i + 1..p - 1 : s[k] \notin chrs
    BY <1>1, FirstOfIs
  <2> HIDE DEF p
  <2>2. p \in i..Len(s) + 1 /\ \A k \in i..p - 1 : s[k] \notin chrs
    BY <1>3, <2>1
  <2>3. FirstOf(s, chrs, i) = p
    BY <1>1, <2>1, <2>2, FirstOfAt
  <2> QED
    BY <2>3 DEF p
<1> QED
  BY <1>2, <1>3

\* The other way round for find_first_not_of.
LEMMA FirstNotOfStep ==
    ASSUME NEW s, Len(s) \in Nat, NEW chrs, NEW i \in 1..Len(s)
    PROVE  /\ s[i] \notin chrs => FirstNotOf(s, chrs, i) = i
           /\ s[i] \in chrs => FirstNotOf(s, chrs, i) = FirstNotOf(s, chrs, i + 1)
<1>1. i \in 1..Len(s) + 1 /\ i + 1 \in 1..Len(s) + 1
  OBVIOUS
<1>2. ASSUME s[i] \notin chrs PROVE FirstNotOf(s, chrs, i) = i
  BY <1>1, <1>2, FirstNotOfAt
<1>3. ASSUME s[i] \in chrs PROVE FirstNotOf(s, chrs, i) = FirstNotOf(s, chrs, i + 1)
  <2> DEFINE p == FirstNotOf(s, chrs, i + 1)
  <2>1. /\ p \in i + 1..Len(s) + 1
        /\ p <= Len(s) => s[p] \notin chrs
        /\ \A k \in i + 1..p - 1 : s[k] \in chrs
    BY <1>1, FirstNotOfIs
  <2> HIDE DEF p
  <2>2. p \in i..Len(s) + 1 /\ \A k \in i..p - 1 : s[k] \in chrs
    BY <1>3, <2>1
  <2>3. FirstNotOf(s, chrs, i) = p
    BY <1>1, <2>1, <2>2, FirstNotOfAt
  <2> QED
    BY <2>3 DEF p
<1> QED
  BY <1>2, <1>3

\* At the end nothing is found.
LEMMA NoneAtEnd ==
    ASSUME NEW s, Len(s) \in Nat, NEW chrs
    PROVE  /\ FirstOf(s, chrs, Len(s) + 1) = Len(s) + 1
           /\ FirstNotOf(s, chrs, Len(s) + 1) = Len(s) + 1
  BY FirstOfIs, FirstNotOfIs

-----------------------------------------------------------------------------
(* Joining.                                                                *)

\* The way through the texts that are joined.
JoinSteps(ss, sep) ==
    [k \in 1..Len(ss) |-> [part |-> ss[k] \o (IF k < Len(ss) THEN sep ELSE <<>>),
                           next |-> k + 1]]

\* What is joined from the k-th text on.
JoinFrom(ss, sep) == Along(1..Len(ss) + 1, JoinSteps(ss, sep))

\* Join, one text after the other.
LEMMA JoinFromIs ==
    ASSUME NEW T, NEW ss \in Seq(Seq(T)), NEW sep \in Seq(T)
    PROVE  /\ Join(ss, sep) = JoinFrom(ss, sep)[1]
           /\ JoinFrom(ss, sep)[Len(ss) + 1] = <<>>
           /\ \A k \in 1..Len(ss) + 1 : JoinFrom(ss, sep)[k] \in Seq(T)
           /\ \A k \in 1..Len(ss) :
                  JoinFrom(ss, sep)[k] = (ss[k] \o (IF k < Len(ss) THEN sep ELSE <<>>))
                                         \o JoinFrom(ss, sep)[k + 1]
<1> DEFINE step == JoinSteps(ss, sep)
           b == Len(ss) + 1
<1>1. b \in Int /\ 1 \in 1..b /\ DOMAIN step \subseteq 1..b /\ DOMAIN step = 1..Len(ss)
  BY DEF JoinSteps
<1>2. \A k \in DOMAIN step : step[k].next = k + 1 /\ k + 1 \in k + 1..b
  BY <1>1 DEF JoinSteps
<1>10. \A k \in DOMAIN step : step[k].part = ss[k] \o (IF k < Len(ss) THEN sep ELSE <<>>)
  BY <1>1 DEF JoinSteps
<1>11. ASSUME NEW k \in 1..Len(ss)
       PROVE  ss[k] \o (IF k < Len(ss) THEN sep ELSE <<>>) \in Seq(T)
  <2>1. ss[k] \in Seq(T) /\ (IF k < Len(ss) THEN sep ELSE <<>>) \in Seq(T)
    BY EmptySeq
  <2> QED
    BY <2>1, ConcatProperties
<1>3. Join(ss, sep) = Along(1..b, step)[1]
  BY DEF Join, Through, JoinSteps
<1>4. b \in 1..b /\ b \notin DOMAIN step /\ \A k \in 1..Len(ss) : k \in 1..b
  BY <1>1
<1> HIDE DEF step, b
<1>9. Forward(1, b, step)
  BY <1>1, <1>2 DEF Forward
<1>5. Found(Along(1..b, step), 1..b, step)
  BY <1>9, AlongRow
<1>6. \A x \in 1..b : Along(1..b, step)[x] \in Seq(T)
  BY <1>1, <1>9, <1>10, <1>11, AlongRowType
<1>7. JoinFrom(ss, sep) = Along(1..b, step)
  BY DEF JoinFrom, step, b
<1>8. /\ Along(1..b, step)[b] = <<>>
      /\ \A k \in 1..Len(ss) :
             Along(1..b, step)[k] = (ss[k] \o (IF k < Len(ss) THEN sep ELSE <<>>))
                                    \o Along(1..b, step)[k + 1]
  BY <1>1, <1>2, <1>4, <1>5, <1>10 DEF Found
<1> QED
  BY <1>1, <1>3, <1>6, <1>7, <1>8 DEF b

\* Joining no text, and one text more in front.
LEMMA JoinNone ==
    ASSUME NEW T, NEW sep \in Seq(T)
    PROVE  Join(<<>>, sep) = <<>>
<1>1. <<>> \in Seq(Seq(T)) /\ Len(<<>>) + 1 = 1
  BY EmptySeq
<1>2. \A ss \in Seq(Seq(T)) : Join(ss, sep) = JoinFrom(ss, sep)[1]
                               /\ JoinFrom(ss, sep)[Len(ss) + 1] = <<>>
  BY JoinFromIs
<1> QED
  BY <1>1, <1>2

\* Joining one more text in front.
LEMMA JoinCons ==
    ASSUME NEW T, NEW r \in Seq(Seq(T)), NEW x \in Seq(T), NEW sep \in Seq(T)
    PROVE  Join(<<x>> \o r, sep) = (x \o (IF r = <<>> THEN <<>> ELSE sep)) \o Join(r, sep)
<1> DEFINE ss == <<x>> \o r
           n == Len(r)
<1>1. /\ ss \in Seq(Seq(T)) /\ Len(ss) = n + 1 /\ ss[1] = x /\ n \in Nat
      /\ \A k \in 1..n : ss[k + 1] = r[k]
  OBVIOUS
<1>2. n = 0 <=> r = <<>>
  OBVIOUS
<1> DEFINE step1 == JoinSteps(r, sep)
           step2 == JoinSteps(ss, sep)
           R == {y \in (1..n + 1) \X (1..n + 2) : y[2] = y[1] + 1}
<1> HIDE DEF ss
<1>3. /\ DOMAIN step1 = 1..n /\ DOMAIN step2 = 1..n + 1
      /\ \A k \in 1..n : step1[k].next = k + 1 /\ step2[k + 1].next = k + 2
                         /\ step1[k].part = step2[k + 1].part
      /\ \A k \in 1..n + 1 : step2[k].next = k + 1
  <2>1. /\ DOMAIN step1 = 1..n
        /\ \A k \in 1..n : /\ step1[k].next = k + 1
                           /\ step1[k].part = r[k] \o (IF k < n THEN sep ELSE <<>>)
    BY DEF JoinSteps
  <2>2. /\ DOMAIN step2 = 1..n + 1
        /\ \A k \in 1..n + 1 : /\ step2[k].next = k + 1
                               /\ step2[k].part = ss[k] \o (IF k < n + 1 THEN sep ELSE <<>>)
    BY <1>1 DEF JoinSteps
  <2> HIDE DEF step1, step2, n
  <2>3. ASSUME NEW k \in 1..n
        PROVE  step2[k + 1].next = k + 2 /\ step1[k].part = step2[k + 1].part
    <3>1. k + 1 \in 1..n + 1 /\ (k + 1) + 1 = k + 2 /\ (k < n <=> k + 1 < n + 1)
      BY <1>1
    <3>2. ss[k + 1] = r[k]
      BY <1>1
    <3>3. step2[k + 1].next = (k + 1) + 1
      BY <2>2, <3>1
    <3>4. step2[k + 1].part = r[k] \o (IF k + 1 < n + 1 THEN sep ELSE <<>>)
      BY <2>2, <3>1, <3>2
    <3>5. step1[k].part = r[k] \o (IF k < n THEN sep ELSE <<>>)
      BY <2>1
    <3> QED
      BY <3>1, <3>3, <3>4, <3>5
  <2> QED
    BY <2>1, <2>2, <2>3
<1>4. Join(r, sep) = Along(1..n + 1, step1)[1]
  BY DEF Join, Through, JoinSteps
<1>5. JoinFrom(ss, sep) = Along(1..n + 2, step2)
  BY <1>1 DEF JoinFrom
<1> HIDE DEF step1, step2, n
<1>6. \A k \in 1..n + 1 : <<k, k + 1>> \in R
  BY <1>1
<1>7. \A k \in 1..n + 1, y \in 1..n + 2 : <<k, y>> \in R => y = k + 1
  BY <1>1
<1> HIDE DEF R
<1>9. Alike(R, 1..n + 1, step1, 1..n + 2, step2)
  <2> SUFFICES ASSUME NEW k \in 1..n + 1, NEW y \in 1..n + 2, <<k, y>> \in R
               PROVE  /\ k \in DOMAIN step1 <=> y \in DOMAIN step2
                      /\ k \in DOMAIN step1 => /\ step1[k].part = step2[y].part
                                               /\ step2[y].next \in 1..n + 2
                                               /\ <<step1[k].next, step2[y].next>> \in R
    BY DEF Alike
  <2>1. y = k + 1
    BY <1>7
  <2>2. k \in 1..n <=> k + 1 \in 1..n + 1
    BY <1>1
  <2>3. k \in 1..n => /\ step1[k].next = k + 1 /\ step2[k + 1].next = k + 2
                      /\ k + 2 = (k + 1) + 1 /\ k + 2 \in 1..n + 2
                      /\ k + 1 \in 1..n + 1
    BY <1>1, <1>3, SMTT(40)
  <2>4. k \in 1..n => <<k + 1, k + 2>> \in R
    BY <1>6, <2>3
  <2> QED
    BY <1>3, <2>1, <2>2, <2>3, <2>4
<1>10. Forward(1, n + 1, step1) /\ Forward(1, n + 2, step2)
  <2>1. \A k \in 1..n : step1[k].next \in k + 1..n + 1
    BY <1>1, <1>3
  <2>2. \A k \in 1..n + 1 : step2[k].next \in k + 1..n + 2
    BY <1>1, <1>3
  <2>3. DOMAIN step1 \subseteq 1..n + 1 /\ DOMAIN step2 \subseteq 1..n + 2
    BY <1>1, <1>3
  <2>4. 1 \in Int /\ n + 1 \in Int /\ n + 2 \in Int
    BY <1>1
  <2> QED
    BY <1>3, <2>1, <2>2, <2>3, <2>4 DEF Forward
<1>11. \A k \in 1..n + 1, y \in 1..n + 2 : <<k, y>> \in R =>
           Along(1..n + 1, step1)[k] = Along(1..n + 2, step2)[y]
  BY <1>9, <1>10, SameRow
<1>12. Along(1..n + 1, step1)[1] = Along(1..n + 2, step2)[2]
  <2>1. 1 \in 1..n + 1 /\ 2 \in 1..n + 2 /\ 2 = 1 + 1
    BY <1>1
  <2> QED
    BY <1>6, <1>11, <2>1
<1>13. JoinFrom(ss, sep)[2] = Join(r, sep)
  BY <1>4, <1>5, <1>12
<1>14. /\ Join(ss, sep) = JoinFrom(ss, sep)[1]
       /\ JoinFrom(ss, sep)[1] = (ss[1] \o (IF 1 < Len(ss) THEN sep ELSE <<>>))
                                 \o JoinFrom(ss, sep)[1 + 1]
  <2>1. 1 \in 1..Len(ss) /\ ss \in Seq(Seq(T))
    BY <1>1
  <2> QED
    BY <2>1, JoinFromIs
<1>15. 1 < Len(ss) <=> r # <<>>
  BY <1>1, <1>2
<1>16. ss = <<x>> \o r
  BY DEF ss
<1>17. (IF 1 < Len(ss) THEN sep ELSE <<>>) = (IF r = <<>> THEN <<>> ELSE sep)
  BY <1>15
<1>18. 1 + 1 = 2 /\ ss[1] = x
  BY <1>1
<1>19. Join(ss, sep) = (x \o (IF r = <<>> THEN <<>> ELSE sep)) \o Join(r, sep)
  BY <1>13, <1>14, <1>17, <1>18
<1> QED
  BY <1>16, <1>19

\* The type of what is joined.
LEMMA JoinType ==
    ASSUME NEW T, NEW ss \in Seq(Seq(T)), NEW sep \in Seq(T)
    PROVE  Join(ss, sep) \in Seq(T)
<1>1. 1 \in 1..Len(ss) + 1
  BY LenProperties
<1> QED
  BY <1>1, JoinFromIs

-----------------------------------------------------------------------------
(* Leaving out, and putting together.                                      *)

\* Texts together without anything between them.
Together(ss) == Join(ss, <<>>)

\* One more text in front.
LEMMA TogetherCons ==
    ASSUME NEW T, NEW r \in Seq(Seq(T)), NEW x \in Seq(T)
    PROVE  /\ Together(<<x>> \o r) = x \o Together(r)
           /\ Together(r) \in Seq(T)
           /\ Together(<<>>) = <<>>
<1>1. <<>> \in Seq(T)
  BY EmptySeq
<1>2. Join(<<x>> \o r, <<>>) = (x \o (IF r = <<>> THEN <<>> ELSE <<>>)) \o Join(r, <<>>)
  BY <1>1, JoinCons
<1>3. x \o (IF r = <<>> THEN <<>> ELSE <<>>) = x
  BY ConcatEmptySeq
<1>4. Join(r, <<>>) \in Seq(T)
  BY <1>1, JoinType
<1>5. Join(<<>>, <<>>) = <<>>
  BY <1>1, JoinNone
<1> QED
  BY <1>2, <1>3, <1>4, <1>5 DEF Together

\* What is left of each character.
Left(s, chrs) == [k \in DOMAIN s |-> IF s[k] \in chrs THEN <<>> ELSE <<s[k]>>]

\* What is left from each place on.
LeftFrom(s, chrs) == JoinFrom(Left(s, chrs), <<>>)

\* Without, one character after the other.
LEMMA LeftFromIs ==
    ASSUME NEW T, NEW s \in Seq(T), NEW chrs
    PROVE  /\ Without(s, chrs) = LeftFrom(s, chrs)[1]
           /\ LeftFrom(s, chrs)[Len(s) + 1] = <<>>
           /\ \A k \in 1..Len(s) + 1 : LeftFrom(s, chrs)[k] \in Seq(T)
           /\ \A k \in 1..Len(s) :
                  LeftFrom(s, chrs)[k] = IF s[k] \in chrs THEN LeftFrom(s, chrs)[k + 1]
                                         ELSE <<s[k]>> \o LeftFrom(s, chrs)[k + 1]
<1> DEFINE ss == Left(s, chrs)
           J == JoinFrom(ss, <<>>)
<1>1. /\ DOMAIN s = 1..Len(s) /\ Len(s) \in Nat
      /\ \A k \in 1..Len(s) : s[k] \in T
  BY LenProperties, ElementOfSeq
<1>2. ASSUME NEW k \in 1..Len(s)
      PROVE  ss[k] = (IF s[k] \in chrs THEN <<>> ELSE <<s[k]>>) /\ ss[k] \in Seq(T)
  <2>1. ss[k] = IF s[k] \in chrs THEN <<>> ELSE <<s[k]>>
    BY <1>1 DEF Left
  <2>2. <<>> \in Seq(T) /\ <<s[k]>> \in Seq(T)
    BY <1>1
  <2> HIDE DEF ss
  <2> QED
    BY <2>1, <2>2
<1>3. ss \in Seq(Seq(T)) /\ Len(ss) = Len(s)
  <2>1. ss = [k \in 1..Len(s) |-> ss[k]]
    BY <1>1 DEF Left
  <2> HIDE DEF ss
  <2>2. ss \in [1..Len(s) -> Seq(T)]
    BY <1>2, <2>1
  <2> QED
    BY <1>1, <2>2
<1>4. <<>> \in Seq(T)
  BY EmptySeq
<1>5. Without(s, chrs) = Join(ss, <<>>)
  BY DEF Without, Left
<1> HIDE DEF ss
<1>6. /\ Join(ss, <<>>) = J[1]
      /\ J[Len(ss) + 1] = <<>>
      /\ \A k \in 1..Len(ss) + 1 : J[k] \in Seq(T)
      /\ \A k \in 1..Len(ss) :
             J[k] = (ss[k] \o (IF k < Len(ss) THEN <<>> ELSE <<>>)) \o J[k + 1]
  BY <1>3, <1>4, JoinFromIs
<1> HIDE DEF J
<1>7. ASSUME NEW k \in 1..Len(s)
      PROVE  J[k] = IF s[k] \in chrs THEN J[k + 1] ELSE <<s[k]>> \o J[k + 1]
  <2>1. J[k] = (ss[k] \o <<>>) \o J[k + 1]
    BY <1>3, <1>6
  <2>2. ss[k] \o <<>> = ss[k]
    BY <1>2, ConcatEmptySeq
  <2>3. k + 1 \in 1..Len(ss) + 1
    BY <1>1, <1>3
  <2>4. J[k + 1] \in Seq(T)
    BY <1>6, <2>3
  <2>5. <<>> \o J[k + 1] = J[k + 1]
    BY <2>4, ConcatEmptySeq
  <2> QED
    BY <1>2, <2>1, <2>2, <2>5
<1>8. LeftFrom(s, chrs) = J
  BY DEF LeftFrom, J, ss
<1> QED
  BY <1>3, <1>5, <1>6, <1>7, <1>8

\* Leaving out of one more element in front.
LEMMA WithoutCons ==
    ASSUME NEW T, NEW r \in Seq(T), NEW x \in T, NEW chrs
    PROVE  /\ Without(<<x>> \o r, chrs) = IF x \in chrs THEN Without(r, chrs)
                                          ELSE <<x>> \o Without(r, chrs)
           /\ Without(r, chrs) \in Seq(T)
<1> DEFINE s == <<x>> \o r
           u == Left(s, chrs)
           v == Left(r, chrs)
           w == IF x \in chrs THEN <<>> ELSE <<x>>
<1>1. /\ s \in Seq(T) /\ Len(s) = Len(r) + 1 /\ s[1] = x /\ Len(r) \in Nat
      /\ \A k \in 1..Len(r) : s[k + 1] = r[k] /\ r[k] \in T
      /\ DOMAIN s = 1..Len(r) + 1 /\ DOMAIN r = 1..Len(r)
  OBVIOUS
<1>2. w \in Seq(T)
  <2>1. <<>> \in Seq(T) /\ <<x>> \in Seq(T)
    BY EmptySeq
  <2> QED
    BY <2>1
<1> HIDE DEF s
<1>3. ASSUME NEW k \in 1..Len(r) PROVE v[k] \in Seq(T)
  <2>1. v[k] = IF r[k] \in chrs THEN <<>> ELSE <<r[k]>>
    BY <1>1 DEF Left
  <2>2. <<>> \in Seq(T) /\ <<r[k]>> \in Seq(T)
    BY <1>1, EmptySeq
  <2> HIDE DEF v
  <2> QED
    BY <2>1, <2>2
<1>4. v \in Seq(Seq(T)) /\ Len(v) = Len(r)
  <2>1. v = [k \in 1..Len(r) |-> v[k]]
    BY <1>1 DEF Left
  <2> HIDE DEF v
  <2>2. v \in [1..Len(r) -> Seq(T)]
    BY <1>3, <2>1
  <2> QED
    BY <1>1, <2>2
<1>5. u = <<w>> \o v
  <2>1. /\ u[1] = w
        /\ \A k \in 1..Len(r) : u[k + 1] = v[k]
    <3>1. u[1] = w
      BY <1>1 DEF Left
    <3>2. ASSUME NEW k \in 1..Len(r) PROVE u[k + 1] = v[k]
      <4>1. k + 1 \in 1..Len(r) + 1
        BY <1>1
      <4>2. u[k + 1] = IF s[k + 1] \in chrs THEN <<>> ELSE <<s[k + 1]>>
        BY <1>1, <4>1 DEF Left
      <4>3. v[k] = IF r[k] \in chrs THEN <<>> ELSE <<r[k]>>
        BY <1>1 DEF Left
      <4> QED
        BY <1>1, <4>2, <4>3
    <3> QED
      BY <3>1, <3>2
  <2>2. u = [k \in 1..Len(r) + 1 |-> u[k]]
    BY <1>1 DEF Left
  <2> HIDE DEF u, v, w
  <2>3. ASSUME NEW k \in 1..Len(r) + 1 PROVE u[k] \in Seq(T)
    <3>1. CASE k = 1
      BY <1>2, <2>1, <3>1
    <3>2. CASE k # 1
      <4>1. k - 1 \in 1..Len(r) /\ (k - 1) + 1 = k
        BY <1>1, <3>2
      <4> QED
        BY <1>3, <2>1, <4>1
    <3> QED
      BY <3>1, <3>2
  <2>4. u \in Seq(Seq(T)) /\ Len(u) = Len(r) + 1
    <3>1. u \in [1..Len(r) + 1 -> Seq(T)]
      BY <2>2, <2>3
    <3> QED
      BY <1>1, <3>1
  <2>5. /\ <<w>> \o v \in Seq(Seq(T)) /\ Len(<<w>> \o v) = Len(r) + 1
        /\ (<<w>> \o v)[1] = w
        /\ \A k \in 1..Len(r) : (<<w>> \o v)[k + 1] = v[k]
    BY <1>1, <1>2, <1>4
  <2> DEFINE z == <<w>> \o v
  <2> HIDE DEF z
  <2>6. ASSUME NEW k \in 1..Len(u) PROVE u[k] = z[k]
    <3>1. CASE k = 1
      BY <2>1, <2>5, <3>1 DEF z
    <3>2. CASE k # 1
      <4>1. k - 1 \in 1..Len(r) /\ (k - 1) + 1 = k
        BY <1>1, <2>4, <3>2
      <4> QED
        BY <2>1, <2>5, <4>1 DEF z
    <3> QED
      BY <3>1, <3>2
  <2>7. u = z
    BY <2>4, <2>5, <2>6, SeqEqual DEF z
  <2> QED
    BY <2>7 DEF z
<1>6. Without(s, chrs) = Together(u) /\ Without(r, chrs) = Together(v)
  BY DEF Without, Left, Together
<1> HIDE DEF u, v, w
<1>7. Together(<<w>> \o v) = w \o Together(v) /\ Together(v) \in Seq(T)
  BY <1>2, <1>4, TogetherCons
<1>8. <<>> \o Together(v) = Together(v)
  BY <1>7, ConcatEmptySeq
<1>9. Without(s, chrs) = IF x \in chrs THEN Without(r, chrs) ELSE <<x>> \o Without(r, chrs)
  BY <1>5, <1>6, <1>7, <1>8 DEF w
<1> QED
  BY <1>6, <1>7, <1>9 DEF s

\* The empty text stays empty.
LEMMA WithoutNone ==
    ASSUME NEW chrs
    PROVE  Without(<<>>, chrs) = <<>>
<1>1. <<>> \in Seq({}) /\ Len(<<>>) + 1 = 1
  BY EmptySeq
<1>2. \A s \in Seq({}) : Without(s, chrs) = LeftFrom(s, chrs)[1]
                         /\ LeftFrom(s, chrs)[Len(s) + 1] = <<>>
  BY LeftFromIs
<1> QED
  BY <1>1, <1>2

-----------------------------------------------------------------------------
(* Tokens.                                                                 *)

\* Where a token ends and where the next one begins.
LEMMA TokenPlaces ==
    ASSUME NEW s, Len(s) \in Nat, NEW d, NEW i \in 1..Len(s)
    PROVE  /\ EndOf(s, d, i) \in i..Len(s) + 1
           /\ NextTo(s, d, i) \in EndOf(s, d, i)..Len(s) + 1
           /\ NextTo(s, d, i) \in i + 1..Len(s) + 1
           /\ NextTo(s, d, i) = FirstNotOf(s, d, EndOf(s, d, i))
           /\ s[i] \notin d => EndOf(s, d, i) >= i + 1
           /\ \A k \in i..EndOf(s, d, i) - 1 : s[k] \notin d
           /\ EndOf(s, d, i) <= Len(s) => s[EndOf(s, d, i)] \in d
<1> DEFINE e == EndOf(s, d, i)
           q == FirstNotOf(s, d, e)
<1>1. i \in 1..Len(s) + 1
  OBVIOUS
<1>2. /\ e \in i..Len(s) + 1
      /\ e <= Len(s) => s[e] \in d
      /\ \A k \in i..e - 1 : s[k] \notin d
  BY <1>1, FirstOfIs DEF EndOf
<1> HIDE DEF e
<1>3. e \in 1..Len(s) + 1
  BY <1>2
<1>4. /\ q \in e..Len(s) + 1
      /\ q <= Len(s) => s[q] \notin d
      /\ \A k \in e..q - 1 : s[k] \in d
  BY <1>3, FirstNotOfIs
<1>5. NextTo(s, d, i) = q
  BY DEF NextTo, EndOf, e
<1> HIDE DEF q
<1>6. s[i] \notin d => e >= i + 1
  BY <1>2
<1>7. q \in i + 1..Len(s) + 1
  BY <1>2, <1>4
<1>8. e = EndOf(s, d, i) /\ q = FirstNotOf(s, d, e)
  BY DEF e, q
<1> QED
  BY <1>2, <1>4, <1>5, <1>6, <1>7, <1>8

\* The characters of a token.
LEMMA TokenIs ==
    ASSUME NEW T, NEW s \in Seq(T), NEW d, NEW i \in 1..Len(s)
    PROVE  /\ Token(s, d, i) \in Seq(T)
           /\ Len(Token(s, d, i)) = EndOf(s, d, i) - i
           /\ \A m \in 1..EndOf(s, d, i) - i : Token(s, d, i)[m] = s[i + m - 1]
           /\ s[i] \notin d => Token(s, d, i) # <<>> /\ Token(s, d, i)[1] = s[i]
<1> DEFINE e == EndOf(s, d, i)
<1>1. Len(s) \in Nat /\ \A k \in 1..Len(s) : s[k] \in T
  BY LenProperties, ElementOfSeq
<1>2. e \in i..Len(s) + 1 /\ (s[i] \notin d => e >= i + 1)
  BY <1>1, TokenPlaces
<1> HIDE DEF e
<1>3. /\ SubSeq(s, i, e - 1) \in Seq(T)
      /\ Len(SubSeq(s, i, e - 1)) = (IF i <= e - 1 THEN (e - 1) - i + 1 ELSE 0)
      /\ \A m \in 1..(e - 1) - i + 1 : SubSeq(s, i, e - 1)[m] = s[i + m - 1]
  <2>1. i \in Int /\ e - 1 \in Int /\ \A k \in i..e - 1 : s[k] \in T
    BY <1>1, <1>2
  <2> QED
    BY <2>1, SubSeqProperties
<1>4. Token(s, d, i) = SubSeq(s, i, e - 1)
  BY DEF Token, e
<1> DEFINE t == SubSeq(s, i, e - 1)
<1> HIDE DEF t
<1>5. t \in Seq(T) /\ Len(t) = e - i /\ \A m \in 1..e - i : t[m] = s[i + m - 1]
  BY <1>1, <1>2, <1>3 DEF t
<1>6. ASSUME s[i] \notin d PROVE t # <<>> /\ t[1] = s[i]
  <2>1. 1 \in 1..e - i /\ i + 1 - 1 = i
    BY <1>2, <1>6
  <2> QED
    BY <1>5, <2>1, EmptySeq
<1> QED
  BY <1>4, <1>5, <1>6 DEF t, e

TokenSteps(s, d) ==
    [i \in 1..Len(s) |-> [part |-> <<Token(s, d, i)>>, next |-> NextTo(s, d, i)]]

\* The tokens from a place on.
TokensFrom(s, d) == Along(1..Len(s) + 1, TokenSteps(s, d))

\* Tokenize, one token after the other.
LEMMA TokensFromIs ==
    ASSUME NEW T, NEW s \in Seq(T), NEW d
    PROVE  /\ Forward(1, Len(s) + 1, TokenSteps(s, d))
           /\ Tokenize(s, d) = TokensFrom(s, d)[FirstNotOf(s, d, 1)]
           /\ TokensFrom(s, d)[Len(s) + 1] = <<>>
           /\ \A i \in 1..Len(s) + 1 : TokensFrom(s, d)[i] \in Seq(Seq(T))
           /\ \A i \in 1..Len(s) :
                  TokensFrom(s, d)[i] = <<Token(s, d, i)>> \o TokensFrom(s, d)[NextTo(s, d, i)]
<1> DEFINE b == Len(s) + 1
           step == TokenSteps(s, d)
           A == TokensFrom(s, d)
<1>1. Len(s) \in Nat /\ b \in 1..b /\ b \notin 1..Len(s) /\ \A i \in 1..Len(s) : i \in 1..b
  BY LenProperties
<1>2. /\ DOMAIN step = 1..Len(s)
      /\ \A i \in 1..Len(s) : step[i].part = <<Token(s, d, i)>>
                              /\ step[i].next = NextTo(s, d, i)
  BY DEF TokenSteps
<1> HIDE DEF step
<1>3. \A i \in 1..Len(s) : NextTo(s, d, i) \in i + 1..b
  BY <1>1, TokenPlaces
<1>4. Forward(1, b, step)
  <2>1. 1 \in Int /\ b \in Int /\ 1..Len(s) \subseteq 1..b
    BY <1>1
  <2> QED
    BY <1>2, <1>3, <2>1 DEF Forward
<1>5. \A i \in DOMAIN step : step[i].part \in Seq(Seq(T))
  <2>1. \A i \in 1..Len(s) : <<Token(s, d, i)>> \in Seq(Seq(T))
    BY TokenIs
  <2> QED
    BY <1>2, <2>1
<1>6. A = Along(1..b, step)
  BY DEF TokensFrom, step
<1>7. Tokenize(s, d) = A[FirstNotOf(s, d, 1)]
  BY DEF Tokenize, TokensFrom, TokenSteps
<1> HIDE DEF A, b
<1>8. Found(A, 1..b, step)
  BY <1>4, <1>6, AlongRow
<1>9. \A i \in 1..b : A[i] \in Seq(Seq(T))
  BY <1>4, <1>5, <1>6, AlongRowType
<1>10. A[b] = <<>> /\ \A i \in 1..Len(s) : A[i] = <<Token(s, d, i)>> \o A[NextTo(s, d, i)]
  BY <1>1, <1>2, <1>8 DEF Found
<1> QED
  BY <1>4, <1>7, <1>9, <1>10 DEF A, b, step

\* The tokens together are the text without the delimiters.
LEMMA TokensTogether ==
    ASSUME NEW T, NEW s \in Seq(T), NEW d
    PROVE  Together(Tokenize(s, d)) = Without(s, d)
<1> DEFINE n == Len(s)
           A == TokensFrom(s, d)
           W == LeftFrom(s, d)
           F(p) == FirstNotOf(s, d, p)
           G == {p \in 1..n + 1 : W[p] = Together(A[F(p)])}
<1>1. n \in Nat /\ \A i \in 1..n : s[i] \in T
  BY LenProperties, ElementOfSeq
<1>2. /\ Without(s, d) = W[1] /\ W[n + 1] = <<>>
      /\ \A k \in 1..n + 1 : W[k] \in Seq(T)
      /\ \A k \in 1..n : W[k] = IF s[k] \in d THEN W[k + 1] ELSE <<s[k]>> \o W[k + 1]
  BY LeftFromIs
<1>3. /\ Tokenize(s, d) = A[F(1)] /\ A[n + 1] = <<>>
      /\ \A i \in 1..n + 1 : A[i] \in Seq(Seq(T))
      /\ \A i \in 1..n : A[i] = <<Token(s, d, i)>> \o A[NextTo(s, d, i)]
  BY TokensFromIs
<1>4. F(n + 1) = n + 1 /\ EndOf(s, d, n + 1) = n + 1
  BY <1>1, NoneAtEnd DEF EndOf
<1>5. \A i \in 1..n : /\ s[i] \notin d => F(i) = i
                      /\ s[i] \in d => F(i) = F(i + 1)
                      /\ s[i] \in d => EndOf(s, d, i) = i
                      /\ s[i] \notin d => EndOf(s, d, i) = EndOf(s, d, i + 1)
  BY <1>1, FirstOfStep, FirstNotOfStep DEF EndOf
<1> HIDE DEF A, W
<1>6. Together(<<>>) = <<>>
  BY EmptySeq, TogetherCons
<1>7. ASSUME NEW i \in 1..n
      PROVE  Together(A[i]) = Token(s, d, i) \o Together(A[NextTo(s, d, i)])
  <2>1. NextTo(s, d, i) \in 1..n + 1
    BY <1>1, TokenPlaces
  <2>2. A[NextTo(s, d, i)] \in Seq(Seq(T)) /\ Token(s, d, i) \in Seq(T)
    BY <1>3, <2>1, TokenIs
  <2> QED
    BY <1>3, <2>2, TogetherCons
<1>8. ASSUME NEW p \in 1..n + 1, \A q \in p + 1..n + 1 : q \in G
      PROVE  p \in G
  <2>1. CASE p = n + 1
    BY <1>2, <1>3, <1>4, <1>6, <2>1
  <2>2. CASE p \in 1..n
    <3>1. p + 1 \in p + 1..n + 1
      BY <1>1, <2>2
    <3>2. W[p + 1] = Together(A[F(p + 1)])
      BY <1>8, <3>1
    <3>3. CASE s[p] \in d
      BY <1>2, <1>5, <2>2, <3>2, <3>3
    <3>4. CASE s[p] \notin d
      <4>1. W[p] = <<s[p]>> \o W[p + 1] /\ F(p) = p
        BY <1>2, <1>5, <2>2, <3>4
      <4>2. Together(A[p]) = Token(s, d, p) \o Together(A[NextTo(s, d, p)])
        BY <1>7, <2>2
      <4>3. EndOf(s, d, p) = EndOf(s, d, p + 1)
        BY <1>5, <2>2, <3>4
      <4>4. NextTo(s, d, p) = F(EndOf(s, d, p + 1))
        BY <1>1, <2>2, <4>3, TokenPlaces
      <4>5. CASE p = n \/ s[p + 1] \in d
        <5>1. EndOf(s, d, p + 1) = p + 1
          <6>1. CASE p = n
            BY <1>4, <6>1
          <6>2. CASE p # n
            <7>1. p + 1 \in 1..n
              BY <2>2, <6>2
            <7> QED
              BY <1>5, <4>5, <6>2, <7>1
          <6> QED
            BY <6>1, <6>2
        <5>2. Token(s, d, p) = <<s[p]>>
          <6>1. EndOf(s, d, p) - 1 = p
            BY <2>2, <4>3, <5>1
          <6>2. SubSeq(s, p, p) = <<s[p]>>
            <7>1. SubSeq(s, p, p) = <<s[p]>> \o SubSeq(s, p + 1, p)
              BY <2>2, SubSeqRecursiveFirst
            <7>2. SubSeq(s, p + 1, p) = <<>>
              BY <2>2, SubSeqEmpty
            <7>3. <<s[p]>> \o <<>> = <<s[p]>>
              BY <1>1, <2>2, ConcatEmptySeq
            <7> QED
              BY <7>1, <7>2, <7>3
          <6> QED
            BY <6>1, <6>2 DEF Token
        <5> QED
          BY <3>2, <4>1, <4>2, <4>4, <5>1, <5>2
      <4>6. CASE p # n /\ s[p + 1] \notin d
        <5>1. p + 1 \in 1..n /\ F(p + 1) = p + 1
          BY <1>5, <2>2, <4>6
        <5>2. W[p + 1] = Token(s, d, p + 1) \o Together(A[NextTo(s, d, p + 1)])
          BY <1>7, <3>2, <5>1
        <5>3. NextTo(s, d, p + 1) = NextTo(s, d, p)
          BY <1>1, <4>4, <5>1, TokenPlaces
        <5>4. Token(s, d, p) = <<s[p]>> \o Token(s, d, p + 1)
          <6> DEFINE e == EndOf(s, d, p + 1)
          <6>1. e - 1 \in p..n
            BY <1>1, <5>1, TokenPlaces
          <6> HIDE DEF e
          <6>2. SubSeq(s, p, e - 1) = <<s[p]>> \o SubSeq(s, p + 1, e - 1)
            BY <2>2, <6>1, SubSeqRecursiveFirst
          <6> QED
            BY <4>3, <6>2 DEF Token, e
        <5>5. /\ <<s[p]>> \in Seq(T) /\ Token(s, d, p + 1) \in Seq(T)
              /\ Together(A[NextTo(s, d, p)]) \in Seq(T)
          <6>1. NextTo(s, d, p) \in 1..n + 1
            BY <1>1, <2>2, TokenPlaces
          <6>2. A[NextTo(s, d, p)] \in Seq(Seq(T))
            BY <1>3, <6>1
          <6>3. Together(A[NextTo(s, d, p)]) \in Seq(T)
            BY <6>2, EmptySeq, TogetherCons
          <6> QED
            BY <1>1, <2>2, <5>1, <6>3, TokenIs
        <5>6. (<<s[p]>> \o Token(s, d, p + 1)) \o Together(A[NextTo(s, d, p)])
              = <<s[p]>> \o (Token(s, d, p + 1) \o Together(A[NextTo(s, d, p)]))
          BY <5>5, ConcatAssociative
        <5> QED
          BY <4>1, <4>2, <5>2, <5>3, <5>4, <5>6
      <4> QED
        BY <4>5, <4>6
    <3> QED
      BY <3>3, <3>4
  <2> QED
    BY <1>1, <2>1, <2>2
<1>9. \A p \in 1..n + 1 : p \in G
  <2>1. 1 \in Int /\ n + 1 \in Int
    BY <1>1
  <2> HIDE DEF G
  <2> QED
    BY <1>8, <2>1, CountDown
<1>10. 1 \in 1..n + 1
  BY <1>1
<1> QED
  BY <1>2, <1>3, <1>9, <1>10

-----------------------------------------------------------------------------
(* Tokens and line ends.                                                   *)

\* The end of a text without its last line ends.
TrimmedTo(s) == Max({k \in 1..Len(s) : s[k] \notin Newlines} \cup {0})

\* The last character that ends no line.
LEMMA TrimmedToIs ==
    ASSUME NEW T, NEW s \in Seq(T)
    PROVE  /\ TrimmedTo(s) \in 0..Len(s)
           /\ TrimmedTo(s) > 0 => s[TrimmedTo(s)] \notin Newlines
           /\ \A k \in 1..Len(s) : s[k] \notin Newlines => k <= TrimmedTo(s)
<1> DEFINE S == {k \in 1..Len(s) : s[k] \notin Newlines} \cup {0}
           B == {k \in 0..Len(s) : k \notin S \/ \E j \in S : k < j}
           G == {m \in Nat : \E x \in S : \A y \in S : y <= m => y <= x}
<1>1. Len(s) \in Nat /\ S \in SUBSET Int /\ 0 \in S
  BY LenProperties
<1>2. 0 \in G
  OBVIOUS
<1>3. ASSUME NEW m \in Nat, m \in G PROVE m + 1 \in G
  <2>1. PICK x \in S : \A y \in S : y <= m => y <= x
    BY <1>3
  <2>2. CASE m + 1 \in S
    <3>1. \A y \in S : y <= m + 1 => y <= m + 1
      OBVIOUS
    <3> QED
      BY <2>2, <3>1
  <2>3. CASE m + 1 \notin S
    <3>1. \A y \in S : y <= m + 1 => y <= x
      <4> SUFFICES ASSUME NEW y \in S, y <= m + 1 PROVE y <= x
        OBVIOUS
      <4>1. y # m + 1 /\ y \in Int
        BY <2>3
      <4>2. y <= m
        BY <4>1
      <4> HIDE DEF S
      <4> QED
        BY <2>1, <4>2
    <3> HIDE DEF S
    <3> QED
      BY <2>1, <3>1
  <2> QED
    BY <2>2, <2>3
<1>4. Len(s) \in G
  <2> HIDE DEF G
  <2> QED
    BY <1>1, <1>2, <1>3, CountUp
<1>5. PICK x \in S : \A y \in S : y <= x
  <2>1. \A y \in S : y <= Len(s)
    BY <1>1
  <2> HIDE DEF S
  <2> QED
    BY <1>4, <2>1
<1>6. Max(S) = x
  <2> HIDE DEF S
  <2> QED
    BY <1>1, <1>5, MaxIs
<1>7. TrimmedTo(s) = x
  BY <1>6 DEF TrimmedTo
<1> QED
  BY <1>1, <1>5, <1>7

\* Line ends up to a place, one after the other.
LEMMA LinesAre ==
    ASSUME NEW s, Len(s) \in Nat, NEW T, "nl" \in T,
           NEW q \in 1..Len(s) + 1, NEW f \in q..Len(s) + 1
    PROVE  /\ Lines(s, q, f) \in Seq(Seq(T))
           /\ f = q \/ f = Len(s) + 1 => Lines(s, q, f) = <<>>
           /\ q < f /\ f <= Len(s) =>
                  Lines(s, q, f) = << <<"nl">> >> \o Lines(s, q + 1, f)
<1>0. <<"nl">> \in Seq(T)
  OBVIOUS
<1>1. CASE f = Len(s) + 1
  BY <1>1, EmptySeq DEF Lines, Ended
<1>2. CASE f <= Len(s)
  <2> DEFINE L(p) == Lines(s, p, f)
  <2>1. ASSUME NEW p \in 1..f
        PROVE  /\ L(p) \in Seq(Seq(T)) /\ Len(L(p)) = f - p
               /\ \A k \in 1..f - p : L(p)[k] = <<"nl">>
    <3>1. L(p) = [k \in 1..f - p |-> <<"nl">>]
      BY <1>2 DEF Lines, Ended
    <3>2. f - p \in Nat
      OBVIOUS
    <3> HIDE DEF L
    <3>3. L(p) \in [1..f - p -> Seq(T)]
      BY <1>0, <3>1
    <3>4. L(p) \in Seq(Seq(T)) /\ Len(L(p)) = f - p
      BY <3>2, <3>3
    <3> QED
      BY <3>1, <3>4
  <2>2. q \in 1..f
    OBVIOUS
  <2>3. f = q => L(q) = <<>>
    <3> HIDE DEF L
    <3> QED
      BY <2>1, <2>2, EmptySeq
  <2>4. ASSUME q < f PROVE L(q) = << <<"nl">> >> \o L(q + 1)
    <3> DEFINE y == L(q + 1)
               x == << <<"nl">> >> \o y
    <3>1. q + 1 \in 1..f /\ f - (q + 1) = f - q - 1
      BY <2>4
    <3>2. y \in Seq(Seq(T)) /\ Len(y) = f - (q + 1)
      BY <2>1, <3>1
    <3>3. \A k \in 1..f - (q + 1) : y[k] = <<"nl">>
      BY <2>1, <3>1
    <3> HIDE DEF L, y
    <3>4. << <<"nl">> >> \in Seq(Seq(T)) /\ Len(<< <<"nl">> >>) = 1
      BY <1>0
    <3>5. x \in Seq(Seq(T)) /\ Len(x) = f - q
      BY <3>1, <3>2, <3>4, ConcatProperties
    <3>6. ASSUME NEW k \in 1..f - q PROVE x[k] = <<"nl">>
      <4>1. x[k] = IF k <= 1 THEN << <<"nl">> >>[k] ELSE y[k - 1]
        BY <3>1, <3>2, <3>4, ConcatProperties
      <4>2. CASE k = 1
        BY <4>1, <4>2
      <4>3. CASE k # 1
        <5>1. k - 1 \in 1..f - (q + 1) /\ ~(k <= 1)
          BY <4>3
        <5>2. y[k - 1] = <<"nl">>
          BY <3>3, <5>1
        <5> QED
          BY <4>1, <5>1, <5>2
      <4> QED
        BY <4>2, <4>3
    <3> HIDE DEF x
    <3>7. L(q) \in Seq(Seq(T)) /\ Len(L(q)) = f - q /\ \A k \in 1..f - q : L(q)[k] = <<"nl">>
      BY <2>1, <2>2
    <3>8. L(q) = x
      BY <3>5, <3>6, <3>7, SeqEqual
    <3> QED
      BY <3>8 DEF x, y
  <2>5. L(q) \in Seq(Seq(T))
    BY <2>1, <2>2
  <2> QED
    BY <1>2, <2>3, <2>4, <2>5
<1> QED
  BY <1>1, <1>2

\* How lists of texts are put together does not matter.
LEMMA Grouping ==
    ASSUME NEW T
    PROVE  \A x, y, z \in Seq(Seq(T)) : (x \o y) \o z = x \o (y \o z)
  BY ConcatAssociative

LineSteps(s, d) ==
    [i \in 1..Len(s) |->
        [part |-> <<Token(s, d, i)>> \o Lines(s, EndOf(s, d, i), NextTo(s, d, i)),
         next |-> NextTo(s, d, i)]]

\* The tokens and line ends from a token on, and from any place on.
LinesFrom(s, d) == Along(1..Len(s) + 1, LineSteps(s, d))
LinesAt(s, d, q) == Lines(s, q, FirstNotOf(s, d, q)) \o LinesFrom(s, d)[FirstNotOf(s, d, q)]

\* TokenizeNl, one token after the other.
LEMMA LinesFromIs ==
    ASSUME NEW T, NEW s \in Seq(T), NEW d, "nl" \in T
    PROVE  /\ TokenizeNl(s, d) = LinesAt(s, d, 1)
           /\ LinesFrom(s, d)[Len(s) + 1] = <<>>
           /\ \A i \in 1..Len(s) + 1 : LinesFrom(s, d)[i] \in Seq(Seq(T))
           /\ \A i \in 1..Len(s) :
                  LinesFrom(s, d)[i] = <<Token(s, d, i)>> \o LinesAt(s, d, EndOf(s, d, i))
<1> DEFINE b == Len(s) + 1
           step == LineSteps(s, d)
           A == LinesFrom(s, d)
           L(i) == Lines(s, EndOf(s, d, i), NextTo(s, d, i))
<1>1. Len(s) \in Nat /\ b \in 1..b /\ b \notin 1..Len(s) /\ \A i \in 1..Len(s) : i \in 1..b
  BY LenProperties
<1>2. /\ DOMAIN step = 1..Len(s)
      /\ \A i \in 1..Len(s) : step[i].part = <<Token(s, d, i)>> \o L(i)
                              /\ step[i].next = NextTo(s, d, i)
  BY DEF LineSteps
<1> HIDE DEF step
<1>3. \A i \in 1..Len(s) : NextTo(s, d, i) \in i + 1..b
  BY <1>1, TokenPlaces
<1>4. Forward(1, b, step)
  <2>1. 1 \in Int /\ b \in Int /\ 1..Len(s) \subseteq 1..b
    BY <1>1
  <2> QED
    BY <1>2, <1>3, <2>1 DEF Forward
<1>5. ASSUME NEW i \in 1..Len(s)
      PROVE  <<Token(s, d, i)>> \in Seq(Seq(T)) /\ L(i) \in Seq(Seq(T))
  <2>1. EndOf(s, d, i) \in 1..b /\ NextTo(s, d, i) \in EndOf(s, d, i)..b
    BY <1>1, TokenPlaces
  <2>2. L(i) \in Seq(Seq(T))
    BY <1>1, <2>1, LinesAre
  <2>3. Token(s, d, i) \in Seq(T)
    BY TokenIs
  <2> HIDE DEF L
  <2> QED
    BY <2>2, <2>3
<1>6. \A i \in DOMAIN step : step[i].part \in Seq(Seq(T))
  <2> SUFFICES ASSUME NEW i \in 1..Len(s) PROVE step[i].part \in Seq(Seq(T))
    BY <1>2
  <2> DEFINE x == <<Token(s, d, i)>>
             y == L(i)
  <2>1. x \in Seq(Seq(T)) /\ y \in Seq(Seq(T)) /\ step[i].part = x \o y
    BY <1>2, <1>5
  <2> HIDE DEF x, y
  <2> QED
    BY <2>1, ConcatProperties
<1>7. A = Along(1..b, step)
  BY DEF LinesFrom, step
<1>8. TokenizeNl(s, d) = LinesAt(s, d, 1)
  BY DEF TokenizeNl, LinesAt, LinesFrom, LineSteps
<1> HIDE DEF A, b
<1>9. Found(A, 1..b, step)
  BY <1>4, <1>7, AlongRow
<1>10. \A i \in 1..b : A[i] \in Seq(Seq(T))
  BY <1>4, <1>6, <1>7, AlongRowType
<1>11. A[b] = <<>>
  BY <1>1, <1>2, <1>9 DEF Found
<1>12. ASSUME NEW i \in 1..Len(s)
       PROVE  A[i] = <<Token(s, d, i)>> \o LinesAt(s, d, EndOf(s, d, i))
  <2>1. A[i] = (<<Token(s, d, i)>> \o L(i)) \o A[NextTo(s, d, i)]
    BY <1>1, <1>2, <1>9 DEF Found
  <2>2. NextTo(s, d, i) \in 1..b
    BY <1>3
  <2>3. A[NextTo(s, d, i)] \in Seq(Seq(T))
    BY <1>10, <2>2
  <2>4. (<<Token(s, d, i)>> \o L(i)) \o A[NextTo(s, d, i)]
        = <<Token(s, d, i)>> \o (L(i) \o A[NextTo(s, d, i)])
    <3>1. \A x, y, z \in Seq(Seq(T)) : (x \o y) \o z = x \o (y \o z)
      BY Grouping
    <3>2. <<Token(s, d, i)>> \in Seq(Seq(T)) /\ L(i) \in Seq(Seq(T))
      BY <1>5
    <3> HIDE DEF L
    <3> QED
      BY <2>3, <3>1, <3>2
  <2>5. NextTo(s, d, i) = FirstNotOf(s, d, EndOf(s, d, i))
    BY <1>1, TokenPlaces
  <2>6. LinesAt(s, d, EndOf(s, d, i)) = L(i) \o A[NextTo(s, d, i)]
    BY <2>5 DEF LinesAt, A
  <2> QED
    BY <2>1, <2>4, <2>6
<1> QED
  BY <1>8, <1>10, <1>11, <1>12 DEF A, b

\* The first part of a text.
LEMMA FirstPart ==
    ASSUME NEW T, NEW s \in Seq(T), NEW t \in 0..Len(s)
    PROVE  /\ SubSeq(s, 1, t) \in Seq(T) /\ Len(SubSeq(s, 1, t)) = t
           /\ \A m \in 1..t : SubSeq(s, 1, t)[m] = s[m]
<1> DEFINE u == SubSeq(s, 1, t)
<1>1. 1 \in Int /\ t \in Int /\ Len(s) \in Nat /\ \A m \in 1..t : s[m] \in T
  BY LenProperties, ElementOfSeq
<1>2. /\ u \in Seq(T) /\ Len(u) = (IF 1 <= t THEN t - 1 + 1 ELSE 0)
      /\ \A m \in 1..t - 1 + 1 : u[m] = s[1 + m - 1]
  BY <1>1, SubSeqProperties
<1> HIDE DEF u
<1>3. \A m \in 1..t : m \in 1..t - 1 + 1 /\ 1 + m - 1 = m
  BY <1>1
<1>4. (IF 1 <= t THEN t - 1 + 1 ELSE 0) = t
  BY <1>1
<1>5. \A m \in 1..t : u[m] = s[m]
  <2> SUFFICES ASSUME NEW m \in 1..t PROVE u[m] = s[m]
    OBVIOUS
  <2>1. u[m] = s[1 + m - 1] /\ 1 + m - 1 = m
    BY <1>2, <1>3
  <2> QED
    BY <2>1
<1> QED
  BY <1>2, <1>4, <1>5 DEF u

\* Two texts that are the same from one place to another.
LEMMA SubSeqsEqual ==
    ASSUME NEW T, NEW s \in Seq(T), NEW w \in Seq(T), Len(w) = Len(s),
           NEW p \in 1..Len(s), NEW k \in p..Len(s), \A m \in p..k : w[m] = s[m]
    PROVE  SubSeq(s, p, k) = SubSeq(w, p, k)
<1> DEFINE x == SubSeq(s, p, k)
           y == SubSeq(w, p, k)
           l == k - p + 1
<1>1. p \in Int /\ k \in Int /\ p <= k /\ Len(s) \in Nat /\ l \in Nat
      /\ \A m \in p..k : s[m] \in T /\ w[m] \in T
  BY LenProperties, ElementOfSeq
<1>2. /\ x \in Seq(T) /\ Len(x) = l /\ \A m \in 1..l : x[m] = s[p + m - 1]
  BY <1>1, SubSeqProperties
<1>3. /\ y \in Seq(T) /\ Len(y) = l /\ \A m \in 1..l : y[m] = w[p + m - 1]
  BY <1>1, SubSeqProperties
<1>4. \A m \in 1..l : p + m - 1 \in p..k
  BY <1>1
<1> HIDE DEF x, y, l
<1>5. \A m \in 1..l : x[m] = y[m]
  BY <1>2, <1>3, <1>4
<1>6. x = y
  BY <1>2, <1>3, <1>5, SeqEqual
<1> QED
  BY <1>6 DEF x, y

\* A text with newlines only.
LEMMA WithNewlinesIs ==
    ASSUME NEW T, NEW s \in Seq(T), "nl" \in T
    PROVE  /\ WithNewlines(s) \in Seq(T) /\ Len(WithNewlines(s)) = Len(s)
           /\ \A i \in 1..Len(s) :
                  /\ s[i] \in Newlines => WithNewlines(s)[i] = "nl"
                  /\ s[i] \notin Newlines => WithNewlines(s)[i] = s[i]
<1> DEFINE w == WithNewlines(s)
           n == Len(s)
<1>1. n \in Nat /\ \A i \in 1..n : s[i] \in T
  BY LenProperties, ElementOfSeq
<1>2. w = [i \in 1..n |-> IF s[i] \in Newlines THEN "nl" ELSE s[i]]
  BY DEF WithNewlines
<1> HIDE DEF w, n
<1>3. w \in [1..n -> T]
  BY <1>1, <1>2
<1>4. w \in Seq(T) /\ Len(w) = n
  BY <1>1, <1>3
<1> QED
  BY <1>2, <1>4 DEF w, n

\* The tokens of tokenize_nl together are the text without its last line ends,
\* and with newlines only.
LEMMA LinesTogether ==
    ASSUME NEW T, NEW s \in Seq(T), "nl" \in T
    PROVE  Together(TokenizeNl(s, Newlines)) = WithNewlines(TrimEnd(s))
<1> DEFINE n == Len(s)
           w == WithNewlines(s)
           d == Newlines
           A == LinesFrom(s, d)
           F(p) == FirstNotOf(s, d, p)
           Here(p) == LinesAt(s, d, p)
           t == TrimmedTo(s)
           G == {p \in 1..n + 1 : Together(Here(p)) = SubSeq(w, p, t)}
<1>1. n \in Nat /\ \A i \in 1..n : s[i] \in T
  BY LenProperties, ElementOfSeq
<1>0. /\ w \in Seq(T) /\ Len(w) = n
      /\ \A i \in 1..n : /\ s[i] \in d => w[i] = "nl"
                         /\ s[i] \notin d => w[i] = s[i]
  BY WithNewlinesIs
<1> HIDE DEF w
<1>2. t \in 0..n /\ \A k \in 1..n : s[k] \notin d => k <= t
  BY TrimmedToIs
<1>3. /\ TokenizeNl(s, d) = Here(1) /\ A[n + 1] = <<>>
      /\ \A i \in 1..n + 1 : A[i] \in Seq(Seq(T))
      /\ \A i \in 1..n : A[i] = <<Token(s, d, i)>> \o Here(EndOf(s, d, i))
  BY LinesFromIs
<1>4. F(n + 1) = n + 1
  BY <1>1, NoneAtEnd
<1> HIDE DEF d
<1>5. \A i \in 1..n : /\ s[i] \notin d => F(i) = i
                      /\ s[i] \in d => F(i) = F(i + 1)
  BY <1>1, FirstNotOfStep
<1>6. \A i \in 1..n + 1 : /\ F(i) \in i..n + 1
                          /\ F(i) <= n => s[F(i)] \notin d
                          /\ \A k \in i..F(i) - 1 : s[k] \in d
  BY <1>1, FirstNotOfIs
<1>7. \A i \in 1..n + 1 : Here(i) = Lines(s, i, F(i)) \o A[F(i)]
  BY DEF LinesAt
<1>8. Together(<<>>) = <<>> /\ <<>> \in Seq(T) /\ <<>> \in Seq(Seq(T))
  BY EmptySeq, TogetherCons
<1> HIDE DEF A, t, Here
<1>9. ASSUME NEW i \in 1..n + 1, NEW f \in i..n + 1
      PROVE  /\ Lines(s, i, f) \in Seq(Seq(T))
             /\ f = i \/ f = n + 1 => Lines(s, i, f) = <<>>
             /\ i < f /\ f <= n => Lines(s, i, f) = << <<"nl">> >> \o Lines(s, i + 1, f)
  BY <1>1, LinesAre
<1> HIDE DEF F
<1>10. \A i \in 1..n + 1 : F(i) \in 1..n + 1 /\ Here(i) \in Seq(Seq(T))
  <2> SUFFICES ASSUME NEW i \in 1..n + 1
               PROVE  F(i) \in 1..n + 1 /\ Here(i) \in Seq(Seq(T))
    OBVIOUS
  <2>1. F(i) \in i..n + 1 /\ F(i) \in 1..n + 1
    BY <1>6
  <2>2. Lines(s, i, F(i)) \in Seq(Seq(T)) /\ A[F(i)] \in Seq(Seq(T))
    BY <1>3, <1>9, <2>1
  <2> QED
    BY <1>7, <2>1, <2>2, ConcatProperties
<1>11. ASSUME NEW p \in 1..n + 1, \A q \in p + 1..n + 1 : q \in G
       PROVE  p \in G
  <2>1. CASE F(p) = n + 1
    <3>1. Here(p) = <<>>
      <4>1. Lines(s, p, n + 1) = <<>>
        BY <1>1, <1>9
      <4>2. <<>> \o <<>> = <<>>
        BY <1>8, ConcatEmptySeq
      <4> QED
        BY <1>3, <1>7, <2>1, <4>1, <4>2
    <3>2. t < p
      <4>1. t > 0 => s[t] \notin d
        BY TrimmedToIs DEF t, d
      <4> QED
        BY <1>2, <1>6, <2>1, <4>1
    <3>3. SubSeq(w, p, t) = <<>>
      BY <1>0, <1>2, <3>2, SubSeqEmpty
    <3> QED
      BY <1>8, <3>1, <3>3
  <2>2. CASE F(p) <= n /\ s[p] \in d
    <3>1. p \in 1..n /\ p < F(p) /\ F(p) \in p..n + 1
      BY <1>1, <1>6, <2>2
    <3>2. p + 1 \in p + 1..n + 1 /\ F(p + 1) = F(p) /\ p + 1 \in 1..n + 1
      BY <1>5, <2>2, <3>1
    <3>3. Lines(s, p, F(p)) = << <<"nl">> >> \o Lines(s, p + 1, F(p))
      BY <1>9, <2>2, <3>1
    <3>4. /\ << <<"nl">> >> \in Seq(Seq(T)) /\ <<"nl">> \in Seq(T)
          /\ Lines(s, p + 1, F(p)) \in Seq(Seq(T))
          /\ A[F(p)] \in Seq(Seq(T))
      <4>1. <<"nl">> \in Seq(T)
        OBVIOUS
      <4>2. F(p) \in p + 1..n + 1 /\ F(p) \in 1..n + 1
        BY <3>1
      <4>3. << <<"nl">> >> \in Seq(Seq(T))
        BY <4>1
      <4>4. Lines(s, p + 1, F(p)) \in Seq(Seq(T))
        BY <1>9, <3>2, <4>2
      <4>5. A[F(p)] \in Seq(Seq(T))
        BY <1>3, <4>2
      <4> QED
        BY <4>1, <4>3, <4>4, <4>5
    <3>5. Here(p) = << <<"nl">> >> \o Here(p + 1)
      <4>1. Here(p) = (<< <<"nl">> >> \o Lines(s, p + 1, F(p))) \o A[F(p)]
        BY <1>7, <3>3
      <4>2. Here(p + 1) = Lines(s, p + 1, F(p)) \o A[F(p)]
        BY <1>7, <3>2
      <4> DEFINE x == << <<"nl">> >>
                 y == Lines(s, p + 1, F(p))
                 z == A[F(p)]
      <4>3. x \in Seq(Seq(T)) /\ y \in Seq(Seq(T)) /\ z \in Seq(Seq(T))
        BY <3>4
      <4> HIDE DEF x, y, z
      <4>4. (x \o y) \o z = x \o (y \o z)
        BY <4>3, ConcatAssociative, SMTT(40)
      <4> QED
        BY <4>1, <4>2, <4>4 DEF x, y, z
    <3>6. Together(Here(p)) = <<"nl">> \o Together(Here(p + 1))
      BY <1>10, <3>2, <3>4, <3>5, TogetherCons
    <3>7. Together(Here(p + 1)) = SubSeq(w, p + 1, t)
      BY <1>11, <3>2
    <3>8. F(p) <= t
      BY <1>2, <1>6, <2>2, <3>1
    <3>9. SubSeq(w, p, t) = <<w[p]>> \o SubSeq(w, p + 1, t)
      <4>1. t \in p..n
        BY <1>2, <3>1, <3>8
      <4> QED
        BY <1>0, <3>1, <4>1, SubSeqRecursiveFirst
    <3>10. w[p] = "nl"
      BY <1>0, <2>2, <3>1
    <3> QED
      BY <3>6, <3>7, <3>9, <3>10
  <2>3. CASE F(p) <= n /\ s[p] \notin d
    <3> DEFINE e == EndOf(s, d, p)
    <3>1. p \in 1..n /\ F(p) = p
      BY <1>5, <1>6, <2>3
    <3>2. e \in p..n + 1 /\ e >= p + 1 /\ \A k \in p..e - 1 : s[k] \notin d
      BY <1>1, <2>3, <3>1, TokenPlaces
    <3>4. Token(s, d, p) = SubSeq(s, p, e - 1) /\ Token(s, d, p) \in Seq(T)
      BY <3>1, TokenIs DEF Token
    <3>5. A[p] = <<Token(s, d, p)>> \o Here(e)
      BY <1>3, <3>1
    <3> HIDE DEF e
    <3>3. e \in p + 1..n + 1
      BY <3>1, <3>2
    <3>6. Here(p) = A[p]
      <4>1. Lines(s, p, p) = <<>>
        <5>1. p \in p..n + 1
          BY <3>1
        <5> QED
          BY <1>9, <5>1
      <4>2. A[p] \in Seq(Seq(T))
        BY <1>3
      <4>3. <<>> \o A[p] = A[p]
        BY <4>2, ConcatEmptySeq
      <4> QED
        BY <1>7, <3>1, <4>1, <4>3
    <3>7. e \in 1..n + 1 /\ Here(e) \in Seq(Seq(T))
      BY <1>10, <3>3
    <3>8. Together(Here(p)) = Token(s, d, p) \o Together(Here(e))
      BY <3>4, <3>5, <3>6, <3>7, TogetherCons
    <3>9. Together(Here(e)) = SubSeq(w, e, t)
      BY <1>11, <3>3
    <3> DEFINE k == e - 1
    <3>10. k \in p - 1..n /\ k + 1 = e /\ k \in 1..n /\ k \in p..n /\ s[k] \notin d
      BY <3>1, <3>2, <3>3
    <3>11. \A m \in p..k : s[m] \notin d
      BY <3>2
    <3> HIDE DEF k
    <3>12. SubSeq(w, p, k) \o SubSeq(w, k + 1, t) = SubSeq(w, p, t)
      <4>1. t \in k..n
        BY <1>2, <3>10
      <4> QED
        BY <1>0, <3>1, <3>10, <4>1, ConcatAdjacentSubSeq
    <3>13. SubSeq(s, p, k) = SubSeq(w, p, k)
      BY <1>0, <1>1, <3>1, <3>10, <3>11, SubSeqsEqual
    <3>14. SubSeq(s, p, e - 1) = SubSeq(s, p, k)
      BY DEF k
    <3> QED
      BY <3>4, <3>8, <3>9, <3>10, <3>12, <3>13, <3>14
  <2>4. F(p) \in p..n + 1
    BY <1>6
  <2> QED
    BY <1>1, <2>1, <2>2, <2>3, <2>4
<1>12. \A p \in 1..n + 1 : p \in G
  <2>1. 1 \in Int /\ n + 1 \in Int
    BY <1>1
  <2> HIDE DEF G
  <2> QED
    BY <1>11, <2>1, CountDown
<1>13. 1 \in 1..n + 1
  BY <1>1
<1>14. TrimEnd(s) = SubSeq(s, 1, t)
  BY DEF TrimEnd, TrimmedTo, t
<1>15. WithNewlines(TrimEnd(s)) = SubSeq(w, 1, t)
  <2> DEFINE u == SubSeq(s, 1, t)
             x == SubSeq(w, 1, t)
             y == WithNewlines(u)
  <2>1. /\ u \in Seq(T) /\ Len(u) = t /\ \A i \in 1..t : u[i] = s[i]
        /\ x \in Seq(T) /\ Len(x) = t /\ \A i \in 1..t : x[i] = w[i]
    BY <1>0, <1>1, <1>2, FirstPart
  <2> HIDE DEF u, x
  <2>2. /\ y \in Seq(T) /\ Len(y) = t
        /\ \A i \in 1..t : /\ u[i] \in d => y[i] = "nl"
                           /\ u[i] \notin d => y[i] = u[i]
    BY <2>1, WithNewlinesIs DEF d
  <2>3. \A i \in 1..t : y[i] = x[i]
    <3> SUFFICES ASSUME NEW i \in 1..t PROVE y[i] = x[i]
      OBVIOUS
    <3>1. i \in 1..n
      BY <1>1, <1>2
    <3> HIDE DEF y
    <3> QED
      BY <1>0, <2>1, <2>2, <3>1
  <2> HIDE DEF y
  <2>4. y = x
    BY <2>1, <2>2, <2>3, SeqEqual
  <2> QED
    BY <1>14, <2>4 DEF u, x, y
<1> QED
  BY <1>3, <1>12, <1>13, <1>15 DEF d

-----------------------------------------------------------------------------
(* tokenize_spaced.                                                        *)

Blank == " "

\* The token of one space, where there is one.
Space(b) == IF b THEN << <<Blank>> >> ELSE <<>>

SpacedSteps(s, d) ==
    [i \in 1..Len(s) |->
        [part |-> <<Token(s, d, i)>> \o Space(NextTo(s, d, i) > EndOf(s, d, i)),
         next |-> NextTo(s, d, i)]]

SpacedFrom(s, d) == Along(1..Len(s) + 1, SpacedSteps(s, d))

\* Leaving tokens out.
LEMMA WithoutToken ==
    ASSUME NEW T, NEW chrs
    PROVE  \A y \in Seq(T), z \in Seq(Seq(T)) :
               Without(<<y>> \o z, chrs) = IF y \in chrs THEN Without(z, chrs)
                                           ELSE <<y>> \o Without(z, chrs)
  BY WithoutCons

\* Without the added spaces the tokens of tokenize_spaced are those of tokenize.
LEMMA SpacedAgrees ==
    ASSUME NEW T, NEW s \in Seq(T), NEW d, Blank \in d, Blank \in T
    PROVE  Without(TokenizeSpaced(s, d), {<<Blank>>}) = Tokenize(s, d)
<1> DEFINE n == Len(s)
           b == n + 1
           step == SpacedSteps(s, d)
           B == SpacedFrom(s, d)
           A == TokensFrom(s, d)
           c == {<<Blank>>}
           f == FirstNotOf(s, d, 1)
           G == {p \in 1..b : p = b \/ s[p] \notin d => Without(B[p], c) = A[p]}
<1>1. n \in Nat /\ b \in Int /\ b \in 1..b /\ b \notin 1..n /\ \A i \in 1..n : i \in 1..b
  BY LenProperties
<1>2. /\ Tokenize(s, d) = A[f] /\ A[b] = <<>>
      /\ \A i \in 1..n : A[i] = <<Token(s, d, i)>> \o A[NextTo(s, d, i)]
  BY TokensFromIs
<1>3. /\ DOMAIN step = 1..n
      /\ \A i \in 1..n : /\ step[i].next = NextTo(s, d, i)
                         /\ step[i].part = <<Token(s, d, i)>>
                                           \o Space(NextTo(s, d, i) > EndOf(s, d, i))
  BY DEF SpacedSteps
<1>4. B = Along(1..b, step)
  BY DEF SpacedFrom
<1>5. TokenizeSpaced(s, d) = Space(f # 1 \/ s = <<>>) \o B[f]
  BY DEF TokenizeSpaced, SpacedFrom, SpacedSteps, Space, Blank
<1>6. f \in 1..b /\ (f # b => s[f] \notin d)
  <2>1. 1 \in 1..n + 1
    BY <1>1
  <2>2. f \in 1..n + 1 /\ (f <= n => s[f] \notin d)
    BY <1>1, <2>1, FirstNotOfIs
  <2> HIDE DEF f
  <2> QED
    BY <1>1, <2>2
<1>7. ASSUME NEW i \in 1..n
      PROVE  /\ NextTo(s, d, i) \in i + 1..b /\ NextTo(s, d, i) \in 1..b
             /\ NextTo(s, d, i) # b => s[NextTo(s, d, i)] \notin d
  <2> DEFINE e == EndOf(s, d, i)
             q == NextTo(s, d, i)
  <2>1. e \in 1..n + 1 /\ q \in i + 1..n + 1 /\ q = FirstNotOf(s, d, e)
    BY <1>1, TokenPlaces
  <2> HIDE DEF e, q
  <2>2. q <= n => s[q] \notin d
    BY <1>1, <2>1, FirstNotOfIs
  <2> QED
    BY <1>1, <2>1, <2>2 DEF q
<1> HIDE DEF A, B, step, b, n, f
<1>8. ASSUME NEW r PROVE Space(r) \in Seq(Seq(T))
  <2>1. <<Blank>> \in Seq(T)
    OBVIOUS
  <2>2. << <<Blank>> >> \in Seq(Seq(T)) /\ <<>> \in Seq(Seq(T))
    BY <2>1, EmptySeq
  <2> QED
    BY <2>2 DEF Space
<1>9. \A i \in 1..n : Token(s, d, i) \in Seq(T) /\ <<Token(s, d, i)>> \in Seq(Seq(T))
  <2>1. \A i \in 1..n : Token(s, d, i) \in Seq(T)
    BY TokenIs DEF n
  <2> QED
    BY <2>1
<1>10. Forward(1, b, step)
  <2>1. 1 \in Int /\ b \in Int /\ 1..n \subseteq 1..b
    BY <1>1
  <2> QED
    BY <1>3, <1>7, <2>1 DEF Forward
<1>11. Found(B, 1..b, step)
  BY <1>4, <1>10, AlongRow
<1>12. \A i \in DOMAIN step : step[i].part \in Seq(Seq(T))
  <2> SUFFICES ASSUME NEW i \in 1..n PROVE step[i].part \in Seq(Seq(T))
    BY <1>3
  <2> DEFINE r == Space(NextTo(s, d, i) > EndOf(s, d, i))
  <2>1. r \in Seq(Seq(T))
    BY <1>8
  <2>2. step[i].part = <<Token(s, d, i)>> \o r
    BY <1>3
  <2> HIDE DEF r
  <2> QED
    BY <1>9, <2>1, <2>2, ConcatProperties
<1>13. \A i \in 1..b : B[i] \in Seq(Seq(T))
  BY <1>4, <1>10, <1>12, AlongRowType
<1>14. ASSUME NEW r, NEW x \in Seq(Seq(T))
       PROVE  Without(Space(r) \o x, c) = Without(x, c)
  <2>1. CASE r
    <3> DEFINE y == <<Blank>>
    <3>1. y \in Seq(T) /\ y \in c /\ Space(r) = <<y>>
      BY <2>1 DEF Space
    <3> HIDE DEF c, y
    <3>2. Without(<<y>> \o x, c) = IF y \in c THEN Without(x, c) ELSE <<y>> \o Without(x, c)
      BY <3>1, WithoutCons
    <3> QED
      BY <3>1, <3>2
  <2>2. CASE ~r
    <3>1. Space(r) = <<>>
      BY <2>2 DEF Space
    <3> QED
      BY <3>1, ConcatEmptySeq
  <2> QED
    BY <2>1, <2>2
<1>15. ASSUME NEW p \in 1..b, \A q \in p + 1..b : q \in G
       PROVE  p \in G
  <2>1. CASE p = b
    <3>1. B[b] = <<>>
      BY <1>1, <1>3, <1>11 DEF Found
    <3> QED
      BY <1>2, <2>1, <3>1, WithoutNone
  <2>2. CASE p \in 1..n
    <3> SUFFICES ASSUME s[p] \notin d PROVE Without(B[p], c) = A[p]
      BY <1>1, <2>2
    <3> DEFINE q == NextTo(s, d, p)
               t == Token(s, d, p)
               r == (q > EndOf(s, d, p))
    <3>1. q \in p + 1..b /\ q \in 1..b /\ (q # b => s[q] \notin d)
      BY <1>7, <2>2
    <3>2. Without(B[q], c) = A[q] /\ B[q] \in Seq(Seq(T))
      BY <1>13, <1>15, <3>1
    <3>4. B[p] = (<<t>> \o Space(r)) \o B[q]
      BY <1>1, <1>3, <1>11, <2>2 DEF Found
    <3>5. t # <<Blank>> /\ t \in Seq(T)
      <4>1. t \in Seq(T) /\ t # <<>> /\ t[1] = s[p]
        BY <2>2, TokenIs DEF n
      <4> HIDE DEF t
      <4> QED
        BY <4>1
    <3>6. <<t>> \in Seq(Seq(T)) /\ Space(r) \in Seq(Seq(T))
      BY <1>8, <1>9, <2>2
    <3>7. A[p] = <<t>> \o A[q]
      BY <1>2, <2>2
    <3> HIDE DEF q, t, r
    <3>8. B[p] = <<t>> \o (Space(r) \o B[q]) /\ Space(r) \o B[q] \in Seq(Seq(T))
      <4> DEFINE x == Space(r)
                 y == B[q]
      <4>1. x \in Seq(Seq(T)) /\ y \in Seq(Seq(T)) /\ B[p] = (<<t>> \o x) \o y
        BY <3>2, <3>4, <3>6
      <4> HIDE DEF x, y
      <4>4. \A u, v, w \in Seq(Seq(T)) : (u \o v) \o w = u \o (v \o w)
        BY Grouping
      <4>2. B[p] = <<t>> \o (x \o y)
        BY <3>6, <4>1, <4>4
      <4>3. x \o y \in Seq(Seq(T))
        BY <4>1, ConcatProperties
      <4> QED
        BY <4>2, <4>3 DEF x, y
    <3>9. Without(B[p], c) = <<t>> \o Without(Space(r) \o B[q], c)
      <4> DEFINE x == Space(r) \o B[q]
      <4>1. x \in Seq(Seq(T)) /\ B[p] = <<t>> \o x /\ t \notin c
        BY <3>5, <3>8
      <4> HIDE DEF x, c
      <4>4. \A y \in Seq(T), z \in Seq(Seq(T)) :
                Without(<<y>> \o z, c) = IF y \in c THEN Without(z, c)
                                         ELSE <<y>> \o Without(z, c)
        BY WithoutToken, ZenonT(60)
      <4>2. Without(<<t>> \o x, c) = IF t \in c THEN Without(x, c) ELSE <<t>> \o Without(x, c)
        BY <3>5, <4>1, <4>4
      <4>3. Without(B[p], c) = <<t>> \o Without(x, c)
        BY <4>1, <4>2
      <4> QED
        BY <4>3 DEF x
    <3>10. Without(Space(r) \o B[q], c) = Without(B[q], c)
      BY <1>14, <3>2
    <3> QED
      BY <3>2, <3>7, <3>9, <3>10
  <2> QED
    BY <1>1, <2>1, <2>2 DEF b
<1>16. \A p \in 1..b : p \in G
  <2>1. 1 \in Int /\ b \in Int
    BY <1>1
  <2> HIDE DEF G
  <2> QED
    BY <1>15, <2>1, CountDown
<1>17. Without(B[f], c) = A[f] /\ B[f] \in Seq(Seq(T))
  BY <1>6, <1>13, <1>16
<1>19. Without(Space(f # 1 \/ s = <<>>) \o B[f], c) = Without(B[f], c)
  BY <1>14, <1>17
<1> QED
  BY <1>2, <1>5, <1>17, <1>19

-----------------------------------------------------------------------------
(* tokenize_quoted.                                                        *)

\* Where a quote ends that begins before a place.
LEMMA EndQuoteIs ==
    ASSUME NEW s, Len(s) \in Nat, NEW i \in 1..Len(s) + 1
    PROVE  EndQuote(s, i) \in i..Len(s) + 1
<1> DEFINE Backslashes(k) == (k - 1) - Max({j \in i..k - 1 : s[j] # "backslash"}
                                           \cup {i - 1})
           S == {k \in i..Len(s) : s[k] = "quote" /\ Backslashes(k) % 2 = 0}
                \cup {Len(s) + 1}
<1>1. S \in SUBSET (i..Len(s) + 1) /\ S # {}
  OBVIOUS
<1>2. EndQuote(s, i) = Min(S)
  BY DEF EndQuote
<1> HIDE DEF S
<1>3. S \in SUBSET Nat
  BY <1>1
<1>4. Min(S) \in S
  BY <1>1, <1>3, MinOf
<1> QED
  BY <1>1, <1>2, <1>4

QuotedPlaces(s) == (1..Len(s) + 1) \X BOOLEAN

QuotedStep(s, d, i, attach) ==
    LET pos == EndQuote(s, i + 1)
    IN  IF s[i] = "quote"
        THEN [part |-> <<Unquoted(s, i + 1, pos, attach)>>,
              next |-> <<FirstNotOf(s, d, pos + 1), Attach(s, i + 1, pos, attach)>>]
        ELSE [part |-> <<Token(s, d, i)>>, next |-> <<NextTo(s, d, i), attach>>]

QuotedSteps(s, d) ==
    [x \in {y \in QuotedPlaces(s) : ~Ended(s, y[1]) /\ s[y[1]] # "#"} |->
        QuotedStep(s, d, x[1], x[2])]

\* What tokenize_quoted reads from a place on.
QuotedFrom(s, d) == Along(QuotedPlaces(s), QuotedSteps(s, d))

\* TokenizeQuoted, one token after the other.
LEMMA QuotedFromIs ==
    ASSUME NEW s, Len(s) \in Nat, NEW d
    PROVE  /\ TokenizeQuoted(s, d) = QuotedFrom(s, d)[<<FirstNotOf(s, d, 1), TRUE>>]
           /\ \A attach \in BOOLEAN : QuotedFrom(s, d)[<<Len(s) + 1, attach>>] = <<>>
           /\ \A i \in 1..Len(s), attach \in BOOLEAN :
                  QuotedFrom(s, d)[<<i, attach>>] =
                      IF s[i] = "#" THEN <<>>
                      ELSE QuotedStep(s, d, i, attach).part
                           \o QuotedFrom(s, d)[QuotedStep(s, d, i, attach).next]
<1> DEFINE n == Len(s)
           S == QuotedPlaces(s)
           step == QuotedSteps(s, d)
           rank == [x \in S |-> n + 1 - x[1]]
           A == QuotedFrom(s, d)
<1>1. TokenizeQuoted(s, d) = A[<<FirstNotOf(s, d, 1), TRUE>>]
  BY DEF TokenizeQuoted, QuotedFrom, QuotedSteps, QuotedStep, QuotedPlaces
<1>2. A = Along(S, step)
  BY DEF QuotedFrom
<1>3. ASSUME NEW i \in 1..n + 1, NEW attach \in BOOLEAN
      PROVE  /\ <<i, attach>> \in S
             /\ <<i, attach>> \in DOMAIN step <=> i \in 1..n /\ s[i] # "#"
             /\ <<i, attach>> \in DOMAIN step =>
                    step[<<i, attach>>] = QuotedStep(s, d, i, attach)
             /\ rank[<<i, attach>>] = n + 1 - i
  <2>1. <<i, attach>> \in S /\ <<i, attach>>[1] = i /\ <<i, attach>>[2] = attach
    BY DEF QuotedPlaces
  <2>2. ~Ended(s, i) <=> i \in 1..n
    BY DEF Ended
  <2> QED
    BY <2>1, <2>2 DEF QuotedSteps
<1>4. ASSUME NEW i \in 1..n, NEW attach \in BOOLEAN
      PROVE  \E q \in i + 1..n + 1, a \in BOOLEAN :
                 QuotedStep(s, d, i, attach).next = <<q, a>>
  <2> DEFINE pos == EndQuote(s, i + 1)
  <2>1. pos \in i + 1..n + 1
    <3>1. i + 1 \in 1..n + 1
      OBVIOUS
    <3> QED
      BY <3>1, EndQuoteIs
  <2> HIDE DEF pos
  <2>2. FirstNotOf(s, d, pos + 1) \in i + 1..n + 1
    <3>1. CASE pos = n + 1
      <4> DEFINE Z == {k \in pos + 1..Len(s) : s[k] \notin d} \cup {Len(s) + 1}
      <4>1. Z \in SUBSET Int /\ n + 1 \in Z /\ \A y \in Z : n + 1 <= y
        BY <3>1
      <4>2. FirstNotOf(s, d, pos + 1) = Min(Z)
        BY DEF FirstNotOf
      <4> HIDE DEF Z
      <4>3. Min(Z) = n + 1
        BY <4>1, MinIs
      <4> QED
        BY <4>2, <4>3
    <3>2. CASE pos # n + 1
      <4>1. pos + 1 \in 1..n + 1
        BY <2>1, <3>2
      <4>2. FirstNotOf(s, d, pos + 1) \in pos + 1..n + 1
        BY <4>1, FirstNotOfIs
      <4> QED
        BY <2>1, <4>2
    <3> QED
      BY <3>1, <3>2
  <2>3. Attach(s, i + 1, pos, attach) \in BOOLEAN
    BY DEF Attach
  <2>4. NextTo(s, d, i) \in i + 1..n + 1
    BY TokenPlaces
  <2>5. CASE s[i] = "quote"
    <3>1. QuotedStep(s, d, i, attach).next
          = <<FirstNotOf(s, d, pos + 1), Attach(s, i + 1, pos, attach)>>
      BY <2>5 DEF QuotedStep, pos
    <3> QED
      BY <2>2, <2>3, <3>1
  <2>6. CASE s[i] # "quote"
    <3>1. QuotedStep(s, d, i, attach).next = <<NextTo(s, d, i), attach>>
      BY <2>6 DEF QuotedStep
    <3> QED
      BY <2>4, <3>1
  <2> QED
    BY <2>5, <2>6
<1> HIDE DEF step, A
<1>5. Nears(S, step, n, rank)
  <2>1. rank \in [S -> 0..n]
    BY DEF QuotedPlaces
  <2>2. DOMAIN step \subseteq S
    BY DEF step, QuotedSteps
  <2>3. ASSUME NEW x \in DOMAIN step
        PROVE  step[x].next \in S /\ rank[step[x].next] < rank[x]
    <3>1. PICK i \in 1..n + 1, attach \in BOOLEAN : x = <<i, attach>>
      BY <2>2 DEF QuotedPlaces
    <3>2. i \in 1..n /\ step[x] = QuotedStep(s, d, i, attach) /\ rank[x] = n + 1 - i
      BY <1>3, <3>1
    <3>3. PICK q \in i + 1..n + 1, a \in BOOLEAN : step[x].next = <<q, a>>
      BY <1>4, <3>2
    <3>4. q \in 1..n + 1 /\ n + 1 - q < n + 1 - i
      BY <3>2
    <3>5. <<q, a>> \in S /\ rank[<<q, a>>] = n + 1 - q
      BY <1>3, <3>4
    <3> HIDE DEF rank, S
    <3> QED
      BY <3>2, <3>3, <3>4, <3>5
  <2> HIDE DEF rank, S
  <2> QED
    BY <2>1, <2>2, <2>3 DEF Nears
<1>6. Found(A, S, step)
  <2> HIDE DEF rank, S
  <2> QED
    BY <1>2, <1>5, AlongFinds
<1>7. ASSUME NEW attach \in BOOLEAN PROVE A[<<n + 1, attach>>] = <<>>
  <2>1. n + 1 \in 1..n + 1 /\ n + 1 \notin 1..n
    OBVIOUS
  <2>2. <<n + 1, attach>> \in S /\ <<n + 1, attach>> \notin DOMAIN step
    BY <1>3, <2>1
  <2> HIDE DEF S
  <2> QED
    BY <1>6, <2>2 DEF Found
<1>8. ASSUME NEW i \in 1..n, NEW attach \in BOOLEAN
      PROVE  A[<<i, attach>>] = IF s[i] = "#" THEN <<>>
                                ELSE QuotedStep(s, d, i, attach).part
                                     \o A[QuotedStep(s, d, i, attach).next]
  <2> DEFINE x == <<i, attach>>
  <2>1. i \in 1..n + 1
    OBVIOUS
  <2>2. /\ x \in S /\ (x \in DOMAIN step <=> s[i] # "#")
        /\ x \in DOMAIN step => step[x] = QuotedStep(s, d, i, attach)
    BY <1>3, <2>1
  <2> HIDE DEF S, x
  <2>3. A[x] = IF x \in DOMAIN step THEN step[x].part \o A[step[x].next] ELSE <<>>
    BY <1>6, <2>2 DEF Found
  <2> QED
    BY <2>2, <2>3 DEF x
<1> QED
  BY <1>1, <1>7, <1>8 DEF A

\* tokenize_quoted finds the tokens of tokenize, if none begins with a quote or #.
LEMMA QuotedAgrees ==
    ASSUME NEW T, NEW s \in Seq(T), NEW d,
           \A k \in DOMAIN Tokenize(s, d) : Tokenize(s, d)[k][1] \notin {"quote", "#"}
    PROVE  TokenizeQuoted(s, d) = Tokenize(s, d)
<1> DEFINE n == Len(s)
           A == TokensFrom(s, d)
           Q == QuotedFrom(s, d)
           f == FirstNotOf(s, d, 1)
           Plain(ts) == \A k \in DOMAIN ts : ts[k][1] \notin {"quote", "#"}
           G == {p \in 1..n + 1 : (p = n + 1 \/ s[p] \notin d) /\ Plain(A[p])
                                      => Q[<<p, TRUE>>] = A[p]}
<1>1. n \in Nat
  BY LenProperties
<1>2. /\ Tokenize(s, d) = A[f] /\ A[n + 1] = <<>>
      /\ \A i \in 1..n + 1 : A[i] \in Seq(Seq(T))
      /\ \A i \in 1..n : A[i] = <<Token(s, d, i)>> \o A[NextTo(s, d, i)]
  BY TokensFromIs
<1>3. /\ TokenizeQuoted(s, d) = Q[<<f, TRUE>>]
      /\ Q[<<n + 1, TRUE>>] = <<>>
      /\ \A i \in 1..n : Q[<<i, TRUE>>] =
                 IF s[i] = "#" THEN <<>> ELSE QuotedStep(s, d, i, TRUE).part
                                              \o Q[QuotedStep(s, d, i, TRUE).next]
  BY <1>1, QuotedFromIs
<1>4. f \in 1..n + 1 /\ (f # n + 1 => s[f] \notin d)
  <2>1. 1 \in 1..n + 1
    BY <1>1
  <2>2. f \in 1..n + 1 /\ (f <= n => s[f] \notin d)
    BY <1>1, <2>1, FirstNotOfIs
  <2> HIDE DEF f
  <2> QED
    BY <1>1, <2>2
<1> HIDE DEF A, Q, f
<1>5. ASSUME NEW p \in 1..n + 1, \A q \in p + 1..n + 1 : q \in G
      PROVE  p \in G
  <2>1. CASE p = n + 1
    BY <1>2, <1>3, <2>1
  <2>2. CASE p \in 1..n
    <3> SUFFICES ASSUME s[p] \notin d, Plain(A[p]) PROVE Q[<<p, TRUE>>] = A[p]
      BY <1>1, <2>2
    <3> DEFINE q == NextTo(s, d, p)
               t == Token(s, d, p)
    <3>1. q \in p + 1..n + 1 /\ (q # n + 1 => s[q] \notin d)
      <4> DEFINE e == EndOf(s, d, p)
      <4>1. e \in 1..n + 1 /\ q \in p + 1..n + 1 /\ q = FirstNotOf(s, d, e)
        BY <1>1, <2>2, TokenPlaces
      <4> HIDE DEF e, q
      <4>2. q <= n => s[q] \notin d
        BY <1>1, <4>1, FirstNotOfIs
      <4> QED
        BY <1>1, <4>1, <4>2
    <3>2. t \in Seq(T) /\ t[1] = s[p]
      BY <2>2, TokenIs
    <3>3. A[p] = <<t>> \o A[q]
      BY <1>2, <2>2
    <3> HIDE DEF q, t
    <3>4. A[q] \in Seq(Seq(T)) /\ q \in 1..n + 1
      BY <1>1, <1>2, <3>1
    <3>5. /\ DOMAIN A[p] = 1..1 + Len(A[q]) /\ DOMAIN A[q] = 1..Len(A[q])
          /\ Len(A[q]) \in Nat /\ A[p][1] = t
          /\ \A k \in 1..Len(A[q]) : A[p][k + 1] = A[q][k]
      <4> DEFINE w == A[q]
      <4>1. w \in Seq(Seq(T)) /\ <<t>> \in Seq(Seq(T)) /\ A[p] = <<t>> \o w
        BY <3>2, <3>3, <3>4
      <4> HIDE DEF w
      <4> QED
        BY <4>1 DEF w
    <3>6. s[p] \notin {"quote", "#"}
      <4>1. 1 \in DOMAIN A[p]
        BY <3>5
      <4> QED
        BY <3>2, <3>5, <4>1
    <3>7. Plain(A[q])
      <4> SUFFICES ASSUME NEW k \in 1..Len(A[q]) PROVE A[q][k][1] \notin {"quote", "#"}
        BY <3>5
      <4>1. k + 1 \in DOMAIN A[p] /\ A[p][k + 1] = A[q][k]
        BY <3>5
      <4> QED
        BY <4>1
    <3>8. QuotedStep(s, d, p, TRUE) = [part |-> <<t>>, next |-> <<q, TRUE>>]
      BY <3>6 DEF QuotedStep, q, t
    <3>9. Q[<<q, TRUE>>] = A[q]
      BY <1>5, <3>1, <3>4, <3>7
    <3>10. Q[<<p, TRUE>>] = <<t>> \o Q[<<q, TRUE>>]
      <4> DEFINE w == <<q, TRUE>>
      <4>3. QuotedStep(s, d, p, TRUE) = [part |-> <<t>>, next |-> w]
        BY <3>8
      <4> DEFINE z == QuotedStep(s, d, p, TRUE)
      <4> HIDE DEF w, z
      <4>5. z = [part |-> <<t>>, next |-> w]
        BY <4>3 DEF z
      <4>4. z.part = <<t>> /\ z.next = w
        BY <4>5
      <4>1. /\ QuotedStep(s, d, p, TRUE).part = <<t>>
            /\ QuotedStep(s, d, p, TRUE).next = <<q, TRUE>>
        BY <4>4 DEF w, z
      <4>2. Q[<<p, TRUE>>] = QuotedStep(s, d, p, TRUE).part
                             \o Q[QuotedStep(s, d, p, TRUE).next]
        BY <1>3, <2>2, <3>6
      <4> QED
        BY <4>1, <4>2
    <3> QED
      BY <3>3, <3>9, <3>10
  <2> QED
    BY <1>1, <2>1, <2>2
<1>6. \A p \in 1..n + 1 : p \in G
  <2>1. 1 \in Int /\ n + 1 \in Int
    BY <1>1
  <2> HIDE DEF G
  <2> QED
    BY <1>5, <2>1, CountDown
<1>7. Plain(A[f])
  BY <1>2
<1> QED
  BY <1>2, <1>3, <1>4, <1>6, <1>7

-----------------------------------------------------------------------------
(* Tokens of a part of a text, and of words that are joined.               *)

\* The text u is in s behind c characters, and behind it are only delimiters.
Within(u, s, d, c) ==
    /\ c \in Nat /\ Len(u) + c <= Len(s)
    /\ \A m \in 1..Len(u) : u[m] = s[m + c]
    /\ \A k \in Len(u) + c + 1..Len(s) : s[k] \in d

\* Then it has the same tokens from each of its places on.
LEMMA TokensWithin ==
    ASSUME NEW T, NEW s \in Seq(T), NEW u \in Seq(T), NEW d, NEW c, Within(u, s, d, c)
    PROVE  \A m \in 1..Len(u) + 1 :
               TokensFrom(u, d)[FirstNotOf(u, d, m)] = TokensFrom(s, d)[FirstNotOf(s, d, m + c)]
<1> DEFINE n == Len(s)
           l == Len(u)
           A == TokensFrom(s, d)
           B == TokensFrom(u, d)
           G == {m \in 1..l + 1 : B[FirstNotOf(u, d, m)] = A[FirstNotOf(s, d, m + c)]}
<1>0. n \in Nat /\ l \in Nat
  BY LenProperties
<1>1. n \in Nat /\ l \in Nat /\ c \in Nat /\ l + c <= n
  BY <1>0 DEF Within
<1>6. \A m \in 1..l : u[m] = s[m + c]
  BY DEF Within
<1>7. \A k \in l + c + 1..n : s[k] \in d
  BY DEF Within
<1> HIDE DEF n, l
<1>2. A[n + 1] = <<>> /\ \A i \in 1..n : A[i] = <<Token(s, d, i)>> \o A[NextTo(s, d, i)]
  BY TokensFromIs DEF n, l
<1>3. B[l + 1] = <<>> /\ \A i \in 1..l : B[i] = <<Token(u, d, i)>> \o B[NextTo(u, d, i)]
  BY TokensFromIs DEF n, l
<1> HIDE DEF A, B
<1>4. ASSUME NEW m \in 1..l + 1, \A q \in m + 1..l + 1 : q \in G
      PROVE  m \in G
  <2>1. CASE m = l + 1
    <3>1. FirstNotOf(u, d, m) = l + 1
      BY <1>1, <2>1, NoneAtEnd DEF n, l
    <3>2. FirstNotOf(s, d, m + c) = n + 1
      <4>1. m + c \in 1..n + 1 /\ n + 1 \in m + c..n + 1
        BY <1>1, <2>1
      <4>2. \A k \in m + c..(n + 1) - 1 : s[k] \in d
        BY <1>1, <1>7, <2>1
      <4>3. ~(n + 1 <= n)
        BY <1>1
      <4> QED
        BY <1>1, <4>1, <4>2, <4>3, FirstNotOfAt DEF n
    <3> QED
      BY <1>2, <1>3, <3>1, <3>2
  <2>2. CASE m \in 1..l /\ u[m] \in d
    <3>1. m + 1 \in G
      BY <1>1, <1>4, <2>2
    <3>2. FirstNotOf(u, d, m) = FirstNotOf(u, d, m + 1)
      BY <1>1, <2>2, FirstNotOfStep DEF n, l
    <3>3. FirstNotOf(s, d, m + c) = FirstNotOf(s, d, m + 1 + c)
      <4> DEFINE i == m + c
      <4>1. i \in 1..n /\ s[i] \in d /\ i + 1 = m + 1 + c
        BY <1>1, <1>6, <2>2
      <4> HIDE DEF i
      <4>2. FirstNotOf(s, d, i) = FirstNotOf(s, d, i + 1)
        BY <1>1, <4>1, FirstNotOfStep DEF n, l
      <4> QED
        BY <4>1, <4>2 DEF i
    <3> QED
      BY <3>1, <3>2, <3>3
  <2>3. CASE m \in 1..l /\ u[m] \notin d
    <3> DEFINE i == m + c
               e == EndOf(u, d, m)
               t == Token(u, d, m)
    <3>1. i \in 1..n /\ s[i] = u[m]
      BY <1>1, <1>6, <2>3
    <3>2. FirstNotOf(u, d, m) = m
      BY <1>1, <2>3, FirstNotOfStep DEF n, l
    <3>3. FirstNotOf(s, d, i) = i
      BY <1>1, <2>3, <3>1, FirstNotOfStep DEF n, l
    <3>4. /\ e \in m + 1..l + 1 /\ NextTo(u, d, m) = FirstNotOf(u, d, e)
          /\ e <= l => u[e] \in d
          /\ \A k \in m..e - 1 : u[k] \notin d
      <4>1. /\ e \in m..l + 1 /\ e >= m + 1 /\ NextTo(u, d, m) = FirstNotOf(u, d, e)
            /\ e <= l => u[e] \in d
            /\ \A k \in m..e - 1 : u[k] \notin d
        BY <1>1, <2>3, TokenPlaces DEF l
      <4> HIDE DEF e
      <4> QED
        BY <1>1, <4>1
    <3>5. t \in Seq(T) /\ Len(t) = e - m /\ \A k \in 1..e - m : t[k] = u[m + k - 1]
      BY <2>3, TokenIs DEF l
    <3> HIDE DEF e, t
    <3>6. EndOf(s, d, i) = e + c
      <4>1. i \in 1..n + 1 /\ e + c \in i..n + 1
        BY <1>1, <3>1, <3>4
      <4>2. \A k \in i..e + c - 1 : s[k] \notin d
        <5> SUFFICES ASSUME NEW k \in i..e + c - 1 PROVE s[k] \notin d
          OBVIOUS
        <5>1. k - c \in m..e - 1 /\ k - c \in 1..l /\ (k - c) + c = k
          BY <1>1, <2>3, <3>4
        <5>2. u[k - c] = s[k]
          BY <1>6, <5>1
        <5> QED
          BY <3>4, <5>1, <5>2
      <4>3. e + c <= n => s[e + c] \in d
        <5>1. CASE e <= l
          <6>1. e \in 1..l /\ u[e] \in d
            BY <2>3, <3>4, <5>1
          <6> QED
            BY <1>6, <6>1
        <5>2. CASE e = l + 1
          <6>1. e + c <= n => e + c \in l + c + 1..n
            BY <1>1, <5>2
          <6> QED
            BY <1>7, <6>1
        <5> QED
          BY <1>1, <3>4, <5>1, <5>2
      <4> DEFINE p == e + c
      <4> HIDE DEF i
      <4>4. p \in i..n + 1 /\ (\A k \in i..p - 1 : s[k] \notin d) /\ (p <= n => s[p] \in d)
        <5>1. p \in i..n + 1
          BY <4>1
        <5>2. \A k \in i..p - 1 : s[k] \notin d
          <6>1. e + c - 1 = p - 1
            BY <1>1, <3>4
          <6> HIDE DEF p
          <6> QED
            BY <4>2, <6>1
        <5>3. p <= n => s[p] \in d
          BY <4>3
        <5> QED
          BY <5>1, <5>2, <5>3
      <4> HIDE DEF p
      <4>5. FirstOf(s, d, i) = p
        BY <1>1, <4>1, <4>4, FirstOfAt DEF n
      <4> QED
        BY <4>5 DEF EndOf, p
    <3>7. Token(s, d, i) = t
      <4> DEFINE w == Token(s, d, i)
      <4>1. /\ w \in Seq(T) /\ Len(w) = EndOf(s, d, i) - i
            /\ \A k \in 1..EndOf(s, d, i) - i : w[k] = s[i + k - 1]
        BY <3>1, TokenIs DEF n
      <4> HIDE DEF w
      <4>2. EndOf(s, d, i) - i = e - m
        BY <1>1, <2>3, <3>4, <3>6
      <4>3. ASSUME NEW k \in 1..e - m PROVE s[i + k - 1] = u[m + k - 1]
        <5>1. m + k - 1 \in 1..l /\ (m + k - 1) + c = i + k - 1
          BY <1>1, <2>3, <3>4
        <5> QED
          BY <1>6, <5>1
      <4>4. \A k \in 1..Len(w) : w[k] = t[k]
        BY <3>5, <4>1, <4>2, <4>3
      <4>5. w = t
        BY <3>5, <4>1, <4>2, <4>4, SeqEqual
      <4> QED
        BY <4>5 DEF w
    <3>8. NextTo(s, d, i) = FirstNotOf(s, d, e + c)
      BY <1>1, <3>1, <3>6, TokenPlaces DEF n
    <3>9. B[FirstNotOf(u, d, e)] = A[FirstNotOf(s, d, e + c)]
      BY <1>4, <3>4
    <3>10. B[m] = <<t>> \o B[FirstNotOf(u, d, e)]
      BY <1>3, <2>3, <3>4 DEF t
    <3>11. A[i] = <<t>> \o A[FirstNotOf(s, d, e + c)]
      BY <1>2, <3>1, <3>7, <3>8
    <3> QED
      BY <3>2, <3>3, <3>9, <3>10, <3>11
  <2> QED
    BY <1>1, <2>1, <2>2, <2>3
<1>5. \A m \in 1..l + 1 : m \in G
  <2>1. 1 \in Int /\ l + 1 \in Int
    BY <1>1
  <2> HIDE DEF G
  <2> QED
    BY <1>4, <2>1, CountDown
<1> QED
  BY <1>5 DEF A, B, l

\* trim does not change the tokens, if what it takes off the front are delimiters.
LEMMA TrimKeepsTokens ==
    ASSUME NEW T, NEW s \in Seq(T), NEW d, d = Blanks, Newlines \subseteq d,
           LedByBlanks(s)
    PROVE  Tokenize(Trim(s), d) = Tokenize(s, d)
<1> DEFINE n == Len(s)
           f == FirstNotOf(s, d, 1)
           v == Rest(s, f)
           t == TrimmedTo(v)
           u == SubSeq(v, 1, t)
<1>1. n \in Nat /\ 1 \in 1..n + 1
  BY LenProperties
<1>2. f \in 1..n + 1 /\ (f <= n => s[f] \notin d)
  BY <1>1, FirstNotOfIs
<1>3. Trim(s) = u
  BY DEF LedByBlanks, Trim, TrimEnd, TrimmedTo, Rest
<1> HIDE DEF f
<1>4. v \in Seq(T) /\ Len(v) = n + 1 - f /\ \A m \in 1..n + 1 - f : v[m] = s[f + m - 1]
  BY <1>2, RestIs
<1> HIDE DEF v
<1>5. t \in 0..Len(v) /\ \A k \in 1..Len(v) : v[k] \notin Newlines => k <= t
  BY <1>4, TrimmedToIs
<1> HIDE DEF t
<1>6. u \in Seq(T) /\ Len(u) = t /\ \A m \in 1..t : u[m] = v[m]
  BY <1>4, <1>5, FirstPart
<1> HIDE DEF u
<1>7. /\ f - 1 \in Nat /\ Len(u) + (f - 1) <= n
      /\ \A m \in 1..Len(u) : u[m] = s[m + (f - 1)]
      /\ \A k \in Len(u) + (f - 1) + 1..n : s[k] \in d
  <2>1. f - 1 \in Nat /\ Len(u) + (f - 1) <= n
    BY <1>2, <1>4, <1>5, <1>6
  <2>2. ASSUME NEW m \in 1..Len(u) PROVE u[m] = s[m + (f - 1)]
    <3>1. m \in 1..t /\ m \in 1..n + 1 - f /\ f + m - 1 = m + (f - 1)
      BY <1>2, <1>4, <1>5, <1>6
    <3>2. u[m] = v[m] /\ v[m] = s[f + m - 1]
      BY <1>4, <1>6, <3>1
    <3> QED
      BY <3>1, <3>2
  <2>3. ASSUME NEW k \in Len(u) + (f - 1) + 1..n PROVE s[k] \in d
    <3> DEFINE m == k - (f - 1)
    <3>1. m \in 1..n + 1 - f /\ f + m - 1 = k /\ m > t
      BY <1>1, <1>2, <1>5, <1>6
    <3> HIDE DEF m
    <3>2. v[m] \in Newlines /\ v[m] = s[f + m - 1]
      BY <1>4, <1>5, <3>1
    <3> QED
      BY <3>1, <3>2
  <2> QED
    BY <2>1, <2>2, <2>3
<1> DEFINE c == f - 1
<1>8. 1 + c = f /\ 1 \in 1..Len(u) + 1
  BY <1>2, <1>5, <1>6
<1> HIDE DEF c
<1>9. Within(u, s, d, c)
  BY <1>7 DEF c, Within
<1> HIDE DEF n
<1>10. \A m \in 1..Len(u) + 1 :
           TokensFrom(u, d)[FirstNotOf(u, d, m)] = TokensFrom(s, d)[FirstNotOf(s, d, m + c)]
  BY <1>6, <1>9, TokensWithin
<1>11. TokensFrom(u, d)[FirstNotOf(u, d, 1)] = TokensFrom(s, d)[FirstNotOf(s, d, f)]
  BY <1>8, <1>10
<1>12. FirstNotOf(s, d, f) = f
  <2>1. CASE f <= n
    BY <1>1, <1>2, <2>1, FirstNotOfStep DEF n
  <2>2. CASE f = n + 1
    BY <1>1, <2>2, NoneAtEnd DEF n
  <2> QED
    BY <1>1, <1>2, <2>1, <2>2
<1>13. Tokenize(u, d) = TokensFrom(u, d)[FirstNotOf(u, d, 1)]
  BY <1>6, TokensFromIs
<1>14. Tokenize(s, d) = TokensFrom(s, d)[f]
  BY TokensFromIs DEF f
<1> QED
  BY <1>3, <1>11, <1>12, <1>13, <1>14

\* A word: a text without delimiters that is not empty.
IsWord(w, d) == w # <<>> /\ \A m \in 1..Len(w) : w[m] \notin d

\* Tokens are words.
LEMMA TokensAreWords ==
    ASSUME NEW T, NEW s \in Seq(T), NEW d
    PROVE  /\ Tokenize(s, d) \in Seq(Seq(T))
           /\ \A k \in 1..Len(Tokenize(s, d)) : IsWord(Tokenize(s, d)[k], d)
<1> DEFINE n == Len(s)
           A == TokensFrom(s, d)
           f == FirstNotOf(s, d, 1)
           Words(ts) == \A k \in 1..Len(ts) : IsWord(ts[k], d)
           G == {p \in 1..n + 1 : p = n + 1 \/ s[p] \notin d => Words(A[p])}
<1>1. n \in Nat
  BY LenProperties
<1>2. /\ Tokenize(s, d) = A[f] /\ A[n + 1] = <<>>
      /\ \A i \in 1..n + 1 : A[i] \in Seq(Seq(T))
      /\ \A i \in 1..n : A[i] = <<Token(s, d, i)>> \o A[NextTo(s, d, i)]
  BY TokensFromIs
<1>3. f \in 1..n + 1 /\ (f # n + 1 => s[f] \notin d)
  <2>1. 1 \in 1..n + 1
    BY <1>1
  <2>2. f \in 1..n + 1 /\ (f <= n => s[f] \notin d)
    BY <1>1, <2>1, FirstNotOfIs
  <2> HIDE DEF f
  <2> QED
    BY <1>1, <2>2
<1> HIDE DEF A, f
<1>4. ASSUME NEW p \in 1..n + 1, \A q \in p + 1..n + 1 : q \in G
      PROVE  p \in G
  <2>1. CASE p = n + 1
    BY <1>2, <2>1
  <2>2. CASE p \in 1..n
    <3> SUFFICES ASSUME s[p] \notin d PROVE Words(A[p])
      BY <1>1, <2>2
    <3> DEFINE q == NextTo(s, d, p)
               t == Token(s, d, p)
    <3>1. q \in p + 1..n + 1 /\ (q # n + 1 => s[q] \notin d)
      <4> DEFINE e == EndOf(s, d, p)
      <4>1. e \in 1..n + 1 /\ q \in p + 1..n + 1 /\ q = FirstNotOf(s, d, e)
        BY <1>1, <2>2, TokenPlaces
      <4> HIDE DEF e, q
      <4>2. q <= n => s[q] \notin d
        BY <1>1, <4>1, FirstNotOfIs
      <4> QED
        BY <1>1, <4>1, <4>2
    <3>2. t \in Seq(T) /\ IsWord(t, d)
      <4> DEFINE e == EndOf(s, d, p)
      <4>1. /\ t \in Seq(T) /\ Len(t) = e - p /\ t # <<>>
            /\ \A m \in 1..e - p : t[m] = s[p + m - 1]
        BY <2>2, TokenIs
      <4>2. e \in p..n + 1 /\ \A k \in p..e - 1 : s[k] \notin d
        BY <1>1, <2>2, TokenPlaces
      <4> HIDE DEF e, t
      <4>3. \A m \in 1..Len(t) : t[m] \notin d
        <5> SUFFICES ASSUME NEW m \in 1..Len(t) PROVE t[m] \notin d
          OBVIOUS
        <5>1. m \in 1..e - p /\ p + m - 1 \in p..e - 1
          BY <4>1, <4>2
        <5> QED
          BY <4>1, <4>2, <5>1
      <4> QED
        BY <4>1, <4>3 DEF IsWord
    <3>3. A[p] = <<t>> \o A[q]
      BY <1>2, <2>2
    <3> HIDE DEF q, t
    <3>4. A[q] \in Seq(Seq(T)) /\ q \in 1..n + 1 /\ Words(A[q])
      BY <1>1, <1>2, <1>4, <3>1
    <3>5. /\ Len(A[p]) = 1 + Len(A[q]) /\ Len(A[q]) \in Nat /\ A[p][1] = t
          /\ \A k \in 1..Len(A[q]) : A[p][k + 1] = A[q][k]
      <4> DEFINE w == A[q]
      <4>1. w \in Seq(Seq(T)) /\ <<t>> \in Seq(Seq(T)) /\ A[p] = <<t>> \o w
        BY <3>2, <3>3, <3>4
      <4> HIDE DEF w
      <4> QED
        BY <4>1 DEF w
    <3> SUFFICES ASSUME NEW k \in 1..Len(A[p]) PROVE IsWord(A[p][k], d)
      OBVIOUS
    <3>6. CASE k = 1
      BY <3>2, <3>5, <3>6
    <3>7. CASE k # 1
      <4>1. k - 1 \in 1..Len(A[q]) /\ (k - 1) + 1 = k
        BY <3>5, <3>7
      <4>2. A[p][k] = A[q][k - 1]
        BY <3>5, <4>1
      <4> QED
        BY <3>4, <4>1, <4>2
    <3> QED
      BY <3>6, <3>7
  <2> QED
    BY <1>1, <2>1, <2>2
<1>5. \A p \in 1..n + 1 : p \in G
  <2>1. 1 \in Int /\ n + 1 \in Int
    BY <1>1
  <2> HIDE DEF G
  <2> QED
    BY <1>4, <2>1, CountDown
<1> QED
  BY <1>2, <1>3, <1>5

\* No more of a word.
Stops(r, d) == r = <<>> \/ r[1] \in d

\* From a place on a text consists of the word w and what stops it.
WordAhead(s, d, i, w, r) == Ahead(s, i, w, r) /\ IsWord(w, d) /\ Stops(r, d)

\* A word that a delimiter or nothing follows is a token.
LEMMA WordAt ==
    ASSUME NEW T, NEW s \in Seq(T), NEW d, NEW i \in 1..Len(s) + 1,
           NEW w \in Seq(T), NEW r \in Seq(T), WordAhead(s, d, i, w, r)
    PROVE  /\ i \in 1..Len(s) /\ s[i] = w[1] /\ s[i] \notin d
           /\ EndOf(s, d, i) = i + Len(w) /\ Token(s, d, i) = w
           /\ i + Len(w) \in i + 1..Len(s) + 1 /\ Rest(s, i + Len(w)) = r
<1> DEFINE e == i + Len(w)
<1>0. IsWord(w, d) /\ Stops(r, d) /\ Ahead(s, i, w, r)
  BY DEF WordAhead
<1>1. Len(s) \in Nat /\ Len(w) \in Nat \ {0} /\ Len(r) \in Nat
  BY <1>0, LenProperties, EmptySeq DEF IsWord
<1>2. /\ e \in 1..Len(s) + 1 /\ Rest(s, e) = r
      /\ \A m \in 1..Len(w) : s[i + m - 1] = w[m]
      /\ Len(s) + 1 = e + Len(r)
      /\ SubSeq(s, i, e - 1) = w
  <2>1. /\ i + Len(w) \in 1..Len(s) + 1
        /\ Rest(s, i + Len(w)) = r
        /\ \A m \in 1..Len(w) : s[i + m - 1] = w[m]
        /\ Len(s) + 1 = i + Len(w) + Len(r)
        /\ SubSeq(s, i, i + Len(w) - 1) = w
    BY <1>0, RestSplits
  <2> QED
    BY <2>1
<1> HIDE DEF e
<1>3. e = i + Len(w)
  BY DEF e
<1>4. i \in 1..Len(s) /\ e \in i..Len(s) + 1
  BY <1>1, <1>2, <1>3
<1>5. \A k \in i..e - 1 : s[k] \notin d
  <2> SUFFICES ASSUME NEW k \in i..e - 1 PROVE s[k] \notin d
    OBVIOUS
  <2>1. k - i + 1 \in 1..Len(w) /\ i + (k - i + 1) - 1 = k
    BY <1>1, <1>3
  <2>2. s[k] = w[k - i + 1]
    BY <1>2, <2>1
  <2> QED
    BY <1>0, <2>1, <2>2 DEF IsWord
<1>6. e <= Len(s) => s[e] \in d
  <2> SUFFICES ASSUME e <= Len(s) PROVE s[e] \in d
    OBVIOUS
  <2>1. r # <<>> /\ 1 \in 1..Len(s) + 1 - e
    BY <1>1, <1>2
  <2>4. r[1] \in d
    BY <1>0, <2>1 DEF Stops
  <2>3. /\ Rest(s, e) \in Seq(T) /\ Len(Rest(s, e)) = Len(s) + 1 - e
        /\ \A m \in 1..Len(s) + 1 - e : Rest(s, e)[m] = s[e + m - 1]
    <3>1. e \in 1..Len(s) + 1
      BY <1>2
    <3> QED
      BY <3>1, RestIs
  <2>2. Rest(s, e)[1] = s[e + 1 - 1] /\ e + 1 - 1 = e
    BY <1>2, <2>1, <2>3
  <2> QED
    BY <1>2, <2>2, <2>4
<1>7. EndOf(s, d, i) = e
  BY <1>1, <1>4, <1>5, <1>6, FirstOfAt DEF EndOf
<1>8. Token(s, d, i) = w
  BY <1>2, <1>7 DEF Token
<1>9. s[i] = w[1] /\ s[i] \notin d
  <2>1. 1 \in 1..Len(w) /\ i + 1 - 1 = i
    BY <1>1
  <2>2. s[i + 1 - 1] = w[1]
    BY <1>2, <2>1
  <2> QED
    BY <1>0, <2>1, <2>2 DEF IsWord
<1>10. e \in i + 1..Len(s) + 1
  BY <1>1, <1>3, <1>4
<1> QED
  BY <1>2, <1>3, <1>4, <1>7, <1>8, <1>9, <1>10

-----------------------------------------------------------------------------
(* Texts that are joined and read one by one.                              *)

\* Where w is, and behind it a delimiter or nothing, t is read.
ReadsAs(T, s, d, V, w, t) ==
    \A i \in 1..Len(s) + 1, r \in Seq(T) :
        Ahead(s, i, w, r) /\ Stops(r, d) => V[i] = <<t>> \o V[i + Len(w)]

\* Nothing is read at the end, and delimiters are skipped.
Skips(s, d, V) ==
    V[Len(s) + 1] = <<>> /\ \A e \in 1..Len(s) : s[e] \in d => V[e] = V[e + 1]

AllRead(T, s, d, V, ws, ts) ==
    Len(ts) = Len(ws) /\ \A k \in 1..Len(ws) : ReadsAs(T, s, d, V, ws[k], ts[k])

\* Then the texts are read that the words stand for.
LEMMA JoinedRead ==
    ASSUME NEW T, NEW ws \in Seq(Seq(T)), NEW ts \in Seq(Seq(T)), NEW d, NEW b \in T, b \in d,
           NEW V, Skips(Join(ws, <<b>>), d, V), AllRead(T, Join(ws, <<b>>), d, V, ws, ts)
    PROVE  V[1] = ts
<1> DEFINE l == Len(ws)
           J == JoinFrom(ws, <<b>>)
           s == J[1]
           n == Len(s)
           RestIsJ(i, k) == Rest(s, i) = J[k]
           G == {k \in 1..l + 1 : \A i \in 1..n + 1 : RestIsJ(i, k) => V[i] = SubSeq(ts, k, l)}
<1>1. l \in Nat /\ <<b>> \in Seq(T) /\ Len(ts) = l
  BY LenProperties DEF AllRead
<1>2. /\ Join(ws, <<b>>) = J[1] /\ J[l + 1] = <<>>
      /\ \A k \in 1..l + 1 : J[k] \in Seq(T)
      /\ \A k \in 1..l :
             J[k] = (ws[k] \o (IF k < l THEN <<b>> ELSE <<>>)) \o J[k + 1]
  BY <1>1, JoinFromIs
<1>3. Skips(s, d, V) /\ AllRead(T, s, d, V, ws, ts)
  BY <1>2
<1> HIDE DEF J
<1>4. s \in Seq(T) /\ n \in Nat
  <2>1. 1 \in 1..l + 1
    BY <1>1
  <2> QED
    BY <1>2, <2>1, LenProperties
<1> HIDE DEF s
<1>5. V[n + 1] = <<>> /\ \A e \in 1..n : s[e] \in d => V[e] = V[e + 1]
  BY <1>3 DEF Skips
<1>6. \A k \in 1..l : ReadsAs(T, s, d, V, ws[k], ts[k])
  BY <1>3 DEF AllRead
<1> HIDE DEF n, RestIsJ
<1>7. ASSUME NEW k \in 1..l + 1, \A q \in k + 1..l + 1 : q \in G
      PROVE  k \in G
  <2> SUFFICES ASSUME NEW i \in 1..n + 1, RestIsJ(i, k) PROVE V[i] = SubSeq(ts, k, l)
    OBVIOUS
  <2>1. i \in 1..Len(s) + 1 /\ n = Len(s)
    BY DEF n
  <2>2. CASE k = l + 1
    <3>1. Len(Rest(s, i)) = Len(s) + 1 - i /\ Rest(s, i) = <<>>
      BY <1>2, <1>4, <2>1, <2>2, RestIs DEF RestIsJ
    <3>2. i = n + 1
      <4>1. Len(<<>>) = 0
        OBVIOUS
      <4> QED
        BY <1>4, <2>1, <3>1, <4>1
    <3>4. SubSeq(ts, k, l) = <<>>
      BY <1>1, <2>2, SubSeqEmpty
    <3> QED
      BY <1>5, <3>2, <3>4
  <2>3. CASE k \in 1..l
    <3> DEFINE w == ws[k]
               x == IF k < l THEN <<b>> ELSE <<>>
               r == x \o J[k + 1]
               e == i + Len(w)
    <3>1. w \in Seq(T) /\ x \in Seq(T) /\ J[k + 1] \in Seq(T)
      <4>1. k + 1 \in 1..l + 1
        BY <1>1, <2>3
      <4>2. <<>> \in Seq(T)
        BY EmptySeq
      <4> QED
        BY <1>1, <1>2, <2>3, <4>1, <4>2, ElementOfSeq
    <3>2. J[k] = (w \o x) \o J[k + 1]
      BY <1>2, <2>3
    <3>3. k < l => x = <<b>>
      OBVIOUS
    <3>4. k = l => x = <<>> /\ J[k + 1] = <<>>
      BY <1>1, <1>2
    <3>10. ReadsAs(T, s, d, V, w, ts[k])
      BY <1>6, <2>3
    <3> HIDE DEF w, x
    <3>5. Ahead(s, i, w, r) /\ r \in Seq(T)
      <4>1. (w \o x) \o J[k + 1] = w \o (x \o J[k + 1])
        <5> DEFINE y == J[k + 1]
        <5>1. w \in Seq(T) /\ x \in Seq(T) /\ y \in Seq(T)
          BY <3>1
        <5> HIDE DEF y
        <5>2. (w \o x) \o y = w \o (x \o y)
          BY <5>1, ConcatAssociative, SMTT(40)
        <5> QED
          BY <5>2 DEF y
      <4>2. x \o J[k + 1] \in Seq(T)
        BY <3>1, ConcatProperties
      <4> QED
        BY <2>1, <3>2, <4>1, <4>2 DEF RestIsJ, Ahead
    <3>6. k = l => r = <<>>
      BY <3>4, EmptySeq, ConcatEmptySeq
    <3>7. k < l => r[1] = b
      <4> DEFINE y == J[k + 1]
      <4>1. k < l => r = <<b>> \o y
        BY <3>3
      <4>2. y \in Seq(T)
        BY <3>1
      <4> HIDE DEF y, r
      <4>3. (<<b>> \o y)[1] = b
        BY <4>2
      <4> QED
        BY <4>1, <4>3
    <3>8. Stops(r, d)
      BY <2>3, <3>6, <3>7 DEF Stops
    <3> HIDE DEF r
    <3>9. e \in 1..Len(s) + 1 /\ Rest(s, e) = r
      <4>1. /\ i + Len(w) \in 1..Len(s) + 1
            /\ Rest(s, i + Len(w)) = r
            /\ \A m \in 1..Len(w) : s[i + m - 1] = w[m]
            /\ Len(s) + 1 = i + Len(w) + Len(r)
            /\ SubSeq(s, i, i + Len(w) - 1) = w
        BY <1>4, <2>1, <3>1, <3>5, RestSplits, SMTT(40)
      <4> QED
        BY <4>1
    <3>11. V[i] = <<ts[k]>> \o V[e]
      BY <2>1, <3>5, <3>8, <3>10 DEF ReadsAs
    <3> HIDE DEF e
    <3>12. V[e] = SubSeq(ts, k + 1, l)
      <4>1. CASE k = l
        <5>1. Len(Rest(s, e)) = Len(s) + 1 - e
          BY <1>4, <3>9, RestIs
        <5>2. e = n + 1
          <6>1. Len(<<>>) = 0
            OBVIOUS
          <6> QED
            BY <1>4, <2>1, <3>6, <3>9, <4>1, <5>1, <6>1
        <5>4. SubSeq(ts, k + 1, l) = <<>>
          BY <1>1, <4>1, SubSeqEmpty
        <5> QED
          BY <1>5, <5>2, <5>4
      <4>2. CASE k < l
        <5>1. Rest(s, e) = <<b>> \o J[k + 1]
          BY <3>3, <3>9, <4>2 DEF r
        <5>2. /\ e + Len(<<b>>) \in 1..Len(s) + 1
              /\ Rest(s, e + Len(<<b>>)) = J[k + 1]
              /\ \A m \in 1..Len(<<b>>) : s[e + m - 1] = <<b>>[m]
          <6> DEFINE y == J[k + 1]
                     z == <<b>>
          <6>2. y \in Seq(T) /\ z \in Seq(T) /\ Ahead(s, e, z, y)
            BY <1>1, <3>1, <5>1 DEF Ahead
          <6> HIDE DEF y, z
          <6>3. /\ e + Len(z) \in 1..Len(s) + 1
                /\ Rest(s, e + Len(z)) = y
                /\ \A m \in 1..Len(z) : s[e + m - 1] = z[m]
            BY <1>4, <3>9, <6>2, RestSplits
          <6> QED
            BY <6>3 DEF y, z
        <5>3. Len(<<b>>) = 1 /\ <<b>>[1] = b
          OBVIOUS
        <5>4. e + 1 \in 1..n + 1 /\ RestIsJ(e + 1, k + 1) /\ s[e] = b /\ e \in 1..n
          <6>1. e \in Int /\ e + 1 - 1 = e /\ 1 \in 1..1
            BY <2>1, <3>9
          <6> QED
            BY <2>1, <3>9, <5>2, <5>3, <6>1 DEF RestIsJ
        <5>5. V[e] = V[e + 1]
          BY <1>5, <5>4
        <5>6. k + 1 \in k + 1..l + 1
          BY <1>1, <2>3
        <5> QED
          BY <1>7, <5>4, <5>5, <5>6
      <4> QED
        BY <1>1, <2>3, <4>1, <4>2
    <3>14. SubSeq(ts, k, l) = <<ts[k]>> \o SubSeq(ts, k + 1, l)
      <4>1. l \in k..l
        BY <1>1, <2>3
      <4> QED
        BY <1>1, <2>3, <4>1, SubSeqRecursiveFirst
    <3> QED
      BY <3>11, <3>12, <3>14
  <2> QED
    BY <1>1, <2>2, <2>3
<1>8. \A k \in 1..l + 1 : k \in G
  <2>1. 1 \in Int /\ l + 1 \in Int
    BY <1>1
  <2> HIDE DEF G
  <2> QED
    BY <1>7, <2>1, CountDown
<1>9. RestIsJ(1, 1) /\ 1 \in 1..n + 1 /\ 1 \in 1..l + 1
  <2>1. Rest(s, 1) = s
    BY <1>4, RestEnds
  <2> QED
    BY <1>1, <1>4, <2>1 DEF s, RestIsJ
<1>10. V[1] = SubSeq(ts, 1, l)
  BY <1>8, <1>9
<1> QED
  BY <1>1, <1>10, SubSeqFull

Words(ws, d) == \A k \in 1..Len(ws) : IsWord(ws[k], d)

\* Words that are joined are the tokens of what is joined.
LEMMA JoinedWords ==
    ASSUME NEW T, NEW ws \in Seq(Seq(T)), NEW d, NEW b \in T, b \in d, Words(ws, d)
    PROVE  Tokenize(Join(ws, <<b>>), d) = ws
<1> DEFINE s == Join(ws, <<b>>)
           n == Len(s)
           A == TokensFrom(s, d)
           V == [i \in 1..n + 1 |-> A[FirstNotOf(s, d, i)]]
<1>1. s \in Seq(T)
  <2> DEFINE x == <<b>>
  <2>1. x \in Seq(T)
    OBVIOUS
  <2> HIDE DEF x
  <2>2. Join(ws, x) \in Seq(T)
    BY <2>1, JoinType
  <2> QED
    BY <2>2 DEF x
<1> HIDE DEF s
<1>2. /\ Tokenize(s, d) = A[FirstNotOf(s, d, 1)] /\ A[n + 1] = <<>>
      /\ \A i \in 1..n : A[i] = <<Token(s, d, i)>> \o A[NextTo(s, d, i)]
  BY <1>1, TokensFromIs
<1>3. /\ n \in Nat /\ 1 \in 1..n + 1 /\ n + 1 \in 1..n + 1
      /\ \A i \in 1..n : i \in 1..n + 1 /\ i + 1 \in 1..n + 1
  BY <1>1, LenProperties
<1>4. \A i \in 1..n + 1 : V[i] = A[FirstNotOf(s, d, i)]
  OBVIOUS
<1> HIDE DEF A, V
<1>5. Skips(s, d, V)
  <2>1. FirstNotOf(s, d, n + 1) = n + 1
    BY <1>3, NoneAtEnd
  <2>2. \A e \in 1..n : s[e] \in d => FirstNotOf(s, d, e) = FirstNotOf(s, d, e + 1)
    BY <1>3, FirstNotOfStep
  <2>3. V[n + 1] = <<>>
    BY <1>2, <1>3, <1>4, <2>1
  <2>4. \A e \in 1..n : s[e] \in d => V[e] = V[e + 1]
    BY <1>3, <1>4, <2>2
  <2> QED
    BY <2>3, <2>4 DEF Skips
<1>6. ASSUME NEW w \in Seq(T), IsWord(w, d), NEW i \in 1..n + 1, NEW r \in Seq(T),
             Ahead(s, i, w, r), Stops(r, d)
      PROVE  V[i] = <<w>> \o V[i + Len(w)]
  <2> DEFINE e == i + Len(w)
  <2>1. WordAhead(s, d, i, w, r)
    BY <1>6 DEF WordAhead
  <2>2. /\ i \in 1..Len(s) /\ s[i] = w[1] /\ s[i] \notin d
        /\ EndOf(s, d, i) = i + Len(w) /\ Token(s, d, i) = w
        /\ i + Len(w) \in i + 1..Len(s) + 1 /\ Rest(s, i + Len(w)) = r
    BY <1>1, <1>6, <2>1, WordAt
  <2>3. i \in 1..n /\ e \in 1..n + 1
    BY <2>2
  <2>4. FirstNotOf(s, d, i) = i
    BY <1>3, <2>2, <2>3, FirstNotOfStep
  <2>5. NextTo(s, d, i) = FirstNotOf(s, d, e)
    BY <2>2 DEF NextTo, EndOf
  <2> HIDE DEF e
  <2>6. V[i] = <<w>> \o V[e]
    BY <1>2, <1>3, <1>4, <2>2, <2>3, <2>4, <2>5
  <2> QED
    BY <2>6 DEF e
<1>7. AllRead(T, s, d, V, ws, ws)
  <2>1. \A k \in 1..Len(ws) : ws[k] \in Seq(T) /\ IsWord(ws[k], d)
    BY ElementOfSeq DEF Words
  <2>2. \A k \in 1..Len(ws) : ReadsAs(T, s, d, V, ws[k], ws[k])
    BY <1>6, <2>1 DEF ReadsAs
  <2> QED
    BY <2>2 DEF AllRead
<1>8. V[1] = ws
  BY <1>5, <1>7, JoinedRead DEF s
<1>9. Tokenize(s, d) = V[1]
  BY <1>2, <1>3, <1>4
<1> QED
  BY <1>8, <1>9 DEF s

-----------------------------------------------------------------------------
(* The parts of a range.                                                   *)

\* Division rounds down.
LEMMA Quotient ==
    ASSUME NEW a \in Nat, NEW b \in Nat \ {0}
    PROVE  /\ a \div b \in Nat
           /\ (a \div b) * b <= a /\ a < (a \div b) * b + b
  BY SMT

\* What is below n is its own remainder.
LEMMA Remainder ==
    ASSUME NEW n \in Nat \ {0}, NEW a \in 0..n - 1
    PROVE  a % n = a
  BY SMT

\* A product grows with its factor.
LEMMA ProductGrows ==
    ASSUME NEW a \in Nat, NEW b \in Nat, NEW q \in Nat, a <= b
    PROVE  a * q \in Nat /\ a * q <= b * q
  BY SMT

\* The parts of a range of fewer indexes than Word, that begins after 0 or has an
\* index for each part.
LEMMA PartsAre ==
    ASSUME NEW s \in 0..Word - 1, NEW e \in 0..Word - 1, NEW n \in Nat \ {0},
           s <= e, e - s + 1 < Word, s > 0 \/ n <= e - s + 1
    PROVE  LET q     == (e - s + 1) \div n
               parts == PartitionIndexes(s, e, n)
           IN  /\ q \in Nat /\ (n - 1) * q + s <= e + 1 - q
               /\ DOMAIN parts = 1..n
               /\ \A i \in 1..n - 1 : parts[i] = <<s + (i - 1) * q, s + i * q - 1>>
               /\ parts[n] = <<s + (n - 1) * q, e>>
<1> DEFINE count == e - s + 1
           q == count \div n
           First(i) == (s + (i - 1) * q) % Word
           parts == PartitionIndexes(s, e, n)
<1>1. count \in Nat /\ count % Word = count
  BY WordAssumption, Remainder
<1>2. q \in Nat /\ q * n <= count /\ count < q * n + n
  BY <1>1, Quotient
<1>3. q = 0 => s > 0
  <2> HIDE DEF q
  <2> QED
    BY <1>2
<1>4. parts = [i \in 1..n |-> IF i < n THEN <<First(i), (First(i) + q - 1) % Word>>
                                       ELSE <<First(i), e>>]
  BY <1>1 DEF PartitionIndexes
<1> HIDE DEF q, parts
<1>5. (n - 1) * q + s <= e + 1 - q
  BY <1>2
<1>6. ASSUME NEW i \in 1..n
      PROVE  First(i) = s + (i - 1) * q
  <2>1. (i - 1) * q \in Nat /\ (i - 1) * q <= (n - 1) * q
    BY <1>2, ProductGrows
  <2>2. CASE q = 0
    <3>1. (i - 1) * q = 0
      BY <2>2
    <3> QED
      BY <3>1, Remainder, WordAssumption
  <2>3. CASE q > 0
    <3> DEFINE p == (i - 1) * q
    <3>1. p \in Nat /\ p + s <= e
      BY <1>2, <1>5, <2>1, <2>3
    <3> HIDE DEF p
    <3>2. s + p \in 0..Word - 1
      BY <3>1, WordAssumption
    <3>3. (s + p) % Word = s + p
      BY <3>2, Remainder, WordAssumption
    <3> QED
      BY <3>3 DEF p
  <2> QED
    BY <1>2, <2>2, <2>3
<1>7. ASSUME NEW i \in 1..n - 1
      PROVE  (First(i) + q - 1) % Word = s + i * q - 1
  <2> DEFINE p == (i - 1) * q
  <2>1. i * q = p + q /\ p \in Nat
    BY <1>2
  <2>2. i * q <= (n - 1) * q
    BY <1>2, ProductGrows
  <2>3. First(i) = s + p
    BY <1>6
  <2> HIDE DEF p, First
  <2>4. p + q - 1 + s \in 0..Word - 1
    <3>1. CASE q = 0
      <4>1. (n - 1) * q = 0
        BY <3>1
      <4> QED
        BY <1>3, <2>1, <2>2, <3>1, <4>1, WordAssumption
    <3>2. CASE q > 0
      <4> DEFINE b == i * q
                 m == (n - 1) * q
      <4>1. /\ b = p + q /\ b <= m /\ m + s <= e + 1 - q
            /\ p \in Nat /\ q \in Nat /\ m \in Nat
        BY <1>2, <1>5, <2>1, <2>2
      <4> HIDE DEF b, m
      <4> QED
        BY <3>2, <4>1, WordAssumption
    <3> QED
      BY <1>2, <3>1, <3>2
  <2>5. (s + p + q - 1) % Word = s + p + q - 1
    BY <1>2, <2>1, <2>4, Remainder, WordAssumption
  <2> QED
    BY <1>2, <2>1, <2>3, <2>5
<1>8. \A i \in 1..n - 1 : i \in 1..n /\ i < n
  OBVIOUS
<1>9. n \in 1..n /\ ~(n < n)
  OBVIOUS
<1> HIDE DEF First
<1>10. \A i \in 1..n - 1 : parts[i] = <<s + (i - 1) * q, s + i * q - 1>>
  BY <1>4, <1>6, <1>7, <1>8
<1>11. parts[n] = <<s + (n - 1) * q, e>>
  BY <1>4, <1>6, <1>9
<1> QED
  BY <1>2, <1>4, <1>5, <1>10, <1>11 DEF q, parts

\* Whatever the range and the number of parts, each index is in one part.
LEMMA PartsCover ==
    ASSUME NEW s \in 0..Word - 1, NEW e \in 0..Word - 1, NEW n \in Nat \ {0},
           s <= e, e - s + 1 < Word, s > 0 \/ n <= e - s + 1, NEW k \in 0..Word - 1
    PROVE  LET parts == PartitionIndexes(s, e, n)
               In    == {i \in DOMAIN parts : parts[i][1] <= k /\ k <= parts[i][2]}
           IN  IF s <= k /\ k <= e THEN \E i \in DOMAIN parts : In = {i} ELSE In = {}
<1> DEFINE q     == (e - s + 1) \div n
           parts == PartitionIndexes(s, e, n)
           In    == {i \in DOMAIN parts : parts[i][1] <= k /\ k <= parts[i][2]}
<1>1. /\ q \in Nat /\ (n - 1) * q + s <= e + 1 - q
      /\ DOMAIN parts = 1..n
      /\ \A i \in 1..n - 1 : parts[i] = <<s + (i - 1) * q, s + i * q - 1>>
      /\ parts[n] = <<s + (n - 1) * q, e>>
  BY PartsAre
<1> HIDE DEF q, parts
<1>2. \A i \in 1..n - 1 : (i - 1) * q \in Nat /\ i * q <= (n - 1) * q
  BY <1>1, ProductGrows
<1>3. \A i \in 1..n : i \in 1..n - 1 \/ i = n
  OBVIOUS
<1>4. (n - 1) * q \in Nat
  BY <1>1
<1>10. \A i \in In : i \in 1..n /\ parts[i][1] <= k /\ k <= parts[i][2]
  BY <1>1
<1>11. \A i \in 1..n : parts[i][1] <= k /\ k <= parts[i][2] => i \in In
  BY <1>1
<1> HIDE DEF In
<1>5. \A i \in In : s <= k /\ k <= e
  <2> SUFFICES ASSUME NEW i \in In PROVE s <= k /\ k <= e
    OBVIOUS
  <2>1. CASE i = n
    <3> DEFINE a == (n - 1) * q
    <3>1. a \in Nat /\ parts[i] = <<s + a, e>> /\ parts[i][1] <= k /\ k <= parts[i][2]
      BY <1>1, <1>4, <1>10, <2>1
    <3> HIDE DEF a
    <3>2. s + a <= k /\ k <= e
      BY <3>1
    <3> QED
      BY <3>1, <3>2
  <2>2. CASE i \in 1..n - 1
    <3> DEFINE a == (i - 1) * q
               b == i * q
    <3>1. s + a <= k /\ k <= s + b - 1 /\ a \in Nat
      <4>1. parts[i] = <<s + a, s + b - 1>>
        BY <1>1, <2>2
      <4>2. a \in Nat
        BY <1>2, <2>2
      <4> HIDE DEF a, b
      <4> QED
        BY <1>10, <4>1, <4>2
    <3>2. b <= (n - 1) * q /\ b \in Nat
      <4>1. b <= (n - 1) * q
        BY <1>2, <2>2
      <4>2. i \in Nat
        BY <2>2
      <4>3. b \in Nat
        BY <1>1, <4>2, ProductGrows
      <4> QED
        BY <4>1, <4>3
    <3> HIDE DEF a, b
    <3> QED
      BY <1>1, <1>4, <3>1, <3>2, SMTT(40)
  <2> QED
    BY <1>3, <1>10, <2>1, <2>2
<1>6. ASSUME NEW i \in In, NEW j \in In, i < j PROVE FALSE
  <2>1. i \in 1..n - 1 /\ j \in 1..n /\ i \in Nat /\ j - 1 \in Nat /\ i <= j - 1
    BY <1>1, <1>6, <1>10, SMTT(40)
  <2>2. k <= s + i * q - 1
    <3>1. parts[i][2] = s + i * q - 1
      BY <1>1, <2>1
    <3> QED
      BY <1>10, <3>1
  <2>3. s + (j - 1) * q <= k
    <3>1. parts[j][1] = s + (j - 1) * q
      <4>1. CASE j = n
        BY <1>1, <4>1
      <4>2. CASE j \in 1..n - 1
        BY <1>1, <4>2
      <4> QED
        BY <1>3, <2>1, <4>1, <4>2
    <3> QED
      BY <1>10, <3>1
  <2>4. i * q <= (j - 1) * q /\ i * q \in Nat /\ (j - 1) * q \in Nat
    BY <1>1, <2>1, ProductGrows
  <2> QED
    BY <2>2, <2>3, <2>4
<1>7. ASSUME s <= k, k <= e PROVE In # {}
  <2> DEFINE d == k - s
  <2>1. d \in Nat /\ d <= e - s
    BY <1>7
  <2>2. CASE (n - 1) * q <= d
    <3>1. n \in In
      <4> DEFINE m == (n - 1) * q
      <4>1. parts[n][1] = s + m /\ parts[n][2] = e /\ n \in 1..n /\ m \in Nat
        BY <1>1, <1>4
      <4>2. m <= d
        BY <2>2
      <4> HIDE DEF m
      <4>3. s + m <= k
        BY <2>1, <4>1, <4>2
      <4> QED
        BY <1>7, <1>11, <4>1, <4>3
    <3> QED
      BY <3>1
  <2>3. CASE d < (n - 1) * q
    <3>1. q \in Nat \ {0}
      <4>1. q = 0 => (n - 1) * q = 0
        OBVIOUS
      <4> QED
        BY <1>1, <2>1, <2>3, <4>1
    <3> DEFINE i == d \div q + 1
    <3>2. /\ i \in Int /\ i >= 1 /\ i - 1 \in Nat /\ (i - 1) * q <= d /\ d < (i - 1) * q + q
          /\ i * q = (i - 1) * q + q
      BY <2>1, <3>1, Quotient
    <3> HIDE DEF d, i
    <3>3. i \in 1..n - 1
      <4> SUFFICES ASSUME n - 1 <= i - 1 PROVE FALSE
        BY <3>2
      <4>1. (n - 1) * q <= (i - 1) * q
        BY <3>1, <3>2, ProductGrows
      <4> QED
        BY <1>4, <2>1, <2>3, <3>1, <3>2, <4>1
    <3>4. k = s + d
      BY DEF d
    <3> DEFINE a == (i - 1) * q
               b == i * q
    <3>5. a <= d /\ d < b /\ a \in Nat /\ b \in Nat
      BY <3>1, <3>2
    <3>6. parts[i] = <<s + a, s + b - 1>> /\ i \in DOMAIN parts
      BY <1>1, <3>3
    <3> HIDE DEF a, b
    <3>7. s + a <= k /\ k <= s + b - 1
      BY <2>1, <3>4, <3>5
    <3>8. i \in In
      <4>1. i \in 1..n /\ parts[i][1] = s + a /\ parts[i][2] = s + b - 1
        BY <1>1, <3>6
      <4> QED
        BY <1>11, <3>7, <4>1
    <3> QED
      BY <3>8
  <2> QED
    BY <1>4, <2>1, <2>2, <2>3
<1>8. ASSUME s <= k, k <= e PROVE \E i \in DOMAIN parts : In = {i}
  <2>1. PICK i \in In : TRUE
    BY <1>7, <1>8
  <2>2. \A j \in In : j = i
    <3>1. \A j \in In : ~(i < j) /\ ~(j < i)
      BY <1>6, <2>1
    <3>2. \A j \in In : j \in Nat
      BY <1>10
    <3> QED
      BY <2>1, <3>1, <3>2
  <2>3. i \in DOMAIN parts /\ In = {i}
    BY <1>1, <1>10, <2>1, <2>2
  <2> QED
    BY <2>3
<1>9. ASSUME ~(s <= k /\ k <= e) PROVE In = {}
  BY <1>5, <1>9
<1> QED
  BY <1>8, <1>9 DEF parts, In

-----------------------------------------------------------------------------
(* The specification that grows the texts.                                 *)

Chars == TextChars \cup BlankChars \cup UrlChars

\* The type invariant of the texts and ranges.
TextsTypeOK ==
    /\ chars \in {TextChars, BlankChars, UrlChars}
    /\ strings \in Seq(Seq(Chars)) /\ strings # <<>>
    /\ range \in [start : 0..Word - 1, end : 0..Word - 1, parts : Nat \ {0}]

\* The texts are sequences of characters and there is at least one.
THEOREM TextsTyped == TextsSpec => []TextsTypeOK
<1>1. TextsInit => TextsTypeOK
  BY WordAssumption DEF TextsInit, TextsTypeOK, NoRange
<1>2. TextsTypeOK /\ [TextsNext]_textVars => TextsTypeOK'
  <2> SUFFICES ASSUME TextsTypeOK, [TextsNext]_textVars PROVE TextsTypeOK'
    OBVIOUS
  <2> USE DEF TextsTypeOK
  <2>1. Len(strings) \in DOMAIN strings
    OBVIOUS
  <2>2. CASE NextChar
    <3>1. PICK c \in chars :
              strings' = [strings EXCEPT ![Len(strings)] = Append(@, c)]
      BY <2>2 DEF NextChar
    <3>2. strings[Len(strings)] \in Seq(Chars)
      BY <2>1
    <3>3. Append(strings[Len(strings)], c) \in Seq(Chars)
      BY <3>2 DEF Chars
    <3>4. strings' \in Seq(Seq(Chars)) /\ strings' # <<>>
      BY <2>1, <3>1, <3>3
    <3> QED
      BY <2>2, <3>4 DEF NextChar
  <2>3. CASE NextText
    BY <2>3 DEF NextText
  <2>4. CASE PickRange
    BY <2>4 DEF PickRange
  <2>5. CASE UNCHANGED textVars
    BY <2>5 DEF textVars
  <2> QED
    BY <2>2, <2>3, <2>4, <2>5 DEF TextsNext
<1> QED
  BY <1>1, <1>2, PTL DEF TextsSpec

\* partition_indexes covers every range, in the arithmetic of any width.
THEOREM PartsCorrect == TextsSpec => []PartsCoverRange
<1>1. TextsTypeOK => PartsCoverRange
  <2> SUFFICES ASSUME TextsTypeOK PROVE PartsCoverRange
    OBVIOUS
  <2> DEFINE s == range.start
             e == range.end
             n == range.parts
             parts == PartitionIndexes(s, e, n)
             count == e - s + 1
             In(k) == {i \in DOMAIN parts : parts[i][1] <= k /\ k <= parts[i][2]}
  <2>1. s \in 0..Word - 1 /\ e \in 0..Word - 1 /\ n \in Nat \ {0}
    BY DEF TextsTypeOK
  <2> HIDE DEF s, e, n
  <2>2. ASSUME s <= e, s > 0 \/ (n <= count /\ count < Word), NEW k \in 0..Word - 1
        PROVE  IF s <= k /\ k <= e THEN \E i \in DOMAIN parts : In(k) = {i}
                                   ELSE In(k) = {}
    <3>1. count < Word
      BY <2>1, <2>2, WordAssumption
    <3>2. s > 0 \/ n <= count
      BY <2>2
    <3> QED
      BY <2>1, <2>2, <3>1, <3>2, PartsCover
  <2>3. ASSUME s = 0, n > count
        PROVE  parts[1] = <<0, Word - 1>>
    <3>1. count \in Nat \ {0} /\ n > 1
      BY <2>1, <2>3
    <3>4. ASSUME (count % Word) \div n = 0 PROVE parts[1] = <<0, Word - 1>>
      <4>1. 0 % Word = 0 /\ (0 - 1) % Word = Word - 1
        BY WordAssumption
      <4>2. (0 + (1 - 1) * 0) % Word = 0 /\ (0 + 0 - 1) % Word = Word - 1
        BY <4>1
      <4>3. 1 \in 1..n /\ 1 < n
        BY <2>1, <3>1
      <4> HIDE DEF count
      <4>4. parts = [i \in 1..n |->
                IF i < n THEN <<(0 + (i - 1) * 0) % Word,
                                (((0 + (i - 1) * 0) % Word) + 0 - 1) % Word>>
                         ELSE <<(0 + (i - 1) * 0) % Word, e>>]
        BY <2>3, <3>4 DEF PartitionIndexes, count
      <4> QED
        BY <4>2, <4>3, <4>4
    <3>2. CASE count < Word
      <4>1. count % Word = count
        BY <3>1, <3>2, WordAssumption, Remainder
      <4>2. count \div n = 0
        <5>1. /\ count \div n \in Nat
              /\ (count \div n) * n <= count
          BY <2>1, <3>1, Quotient
        <5> DEFINE q == count \div n
        <5> HIDE DEF q
        <5>2. q >= 1 => 1 * n <= q * n
          BY <2>1, <5>1, ProductGrows DEF q
        <5> QED
          BY <2>1, <2>3, <3>1, <5>1, <5>2 DEF q
      <4> QED
        BY <3>4, <4>1, <4>2
    <3>3. CASE count = Word
      <4>1. count % Word = 0
        BY <3>3, WordAssumption
      <4>2. 0 \div n = 0
        BY <2>1
      <4> QED
        BY <3>4, <4>1, <4>2
    <3> QED
      BY <2>1, <2>3, <3>2, <3>3, WordAssumption
  <2> QED
    BY <2>2, <2>3 DEF PartsCoverRange, s, e, n
<1> QED
  BY <1>1, TextsTyped, PTL

-----------------------------------------------------------------------------
(* The tokenizers agree.                                                   *)

\* What the words of all texts are made of, and what they are separated by.
LEMMA BlanksAre ==
    /\ Blanks = {Blank, "cr", "nl", "tab"} /\ <<" ">> = <<Blank>> /\ {<<" ">>} = {<<Blank>>}
    /\ Blank \in Chars /\ "nl" \in Chars /\ Newlines \subseteq Blanks
  BY DEF Blanks, Newlines, Blank, Chars, TextChars, BlankChars, UrlChars

\* The properties of the tokens of one text.
LEMMA TokensOfText ==
    ASSUME NEW s \in Seq(Chars)
    PROVE  /\ Without(TokenizeSpaced(s, Blanks), {<<Blank>>}) = Tokenize(s, Blanks)
           /\ (\A k \in DOMAIN Tokenize(s, Blanks) :
                   Tokenize(s, Blanks)[k][1] \notin {"quote", "#"})
                  => TokenizeQuoted(s, Blanks) = Tokenize(s, Blanks)
           /\ LedByBlanks(s) => Tokenize(Trim(s), Blanks) = Tokenize(s, Blanks)
           /\ Tokenize(Join(Tokenize(s, Blanks), <<Blank>>), Blanks) = Tokenize(s, Blanks)
           /\ Together(TokenizeNl(s, Newlines)) = WithNewlines(TrimEnd(s))
           /\ Together(Tokenize(s, Blanks)) = Without(s, Blanks)
<1>1. Blank \in Chars /\ "nl" \in Chars /\ Blank \in Blanks /\ Newlines \subseteq Blanks
  BY BlanksAre
<1>2. Without(TokenizeSpaced(s, Blanks), {<<Blank>>}) = Tokenize(s, Blanks)
  BY <1>1, SpacedAgrees
<1>3. (\A k \in DOMAIN Tokenize(s, Blanks) : Tokenize(s, Blanks)[k][1] \notin {"quote", "#"})
          => TokenizeQuoted(s, Blanks) = Tokenize(s, Blanks)
  BY QuotedAgrees
<1>4. LedByBlanks(s) => Tokenize(Trim(s), Blanks) = Tokenize(s, Blanks)
  BY <1>1, TrimKeepsTokens
<1>5. Tokenize(Join(Tokenize(s, Blanks), <<Blank>>), Blanks) = Tokenize(s, Blanks)
  <2> DEFINE ws == Tokenize(s, Blanks)
  <2>1. ws \in Seq(Seq(Chars)) /\ \A k \in 1..Len(ws) : IsWord(ws[k], Blanks)
    BY TokensAreWords
  <2> HIDE DEF ws
  <2>2. Tokenize(Join(ws, <<Blank>>), Blanks) = ws
    BY <1>1, <2>1, JoinedWords DEF Words
  <2> QED
    BY <2>2 DEF ws
<1>6. Together(TokenizeNl(s, Newlines)) = WithNewlines(TrimEnd(s))
  BY <1>1, LinesTogether
<1>7. Together(Tokenize(s, Blanks)) = Without(s, Blanks)
  BY TokensTogether
<1> QED
  BY <1>2, <1>3, <1>4, <1>5, <1>6, <1>7

\* The tokenizers agree with each other, on texts of any length.
THEOREM TokensCorrect == TextsSpec => []TokensAgree
<1>1. TextsTypeOK => TokensAgree
  <2> SUFFICES ASSUME TextsTypeOK PROVE TokensAgree
    OBVIOUS
  <2>1. text \in Seq(Chars)
    <3>1. strings \in Seq(Seq(Chars)) /\ strings # <<>>
      BY DEF TextsTypeOK
    <3>2. Len(strings) \in 1..Len(strings)
      BY <3>1, EmptySeq, LenProperties
    <3> QED
      BY <3>1, <3>2, ElementOfSeq DEF text
  <2>2. {<<" ">>} = {<<Blank>>} /\ <<" ">> = <<Blank>>
    BY BlanksAre
  <2> HIDE DEF text
  <2>3. TokenizersAgree
    BY <2>1, <2>2, TokensOfText, Zenon DEF TokenizersAgree, tokens
  <2>4. TokensStay
    BY <2>1, <2>2, TokensOfText, Zenon DEF TokensStay, tokens
  <2>5. TokensAreText
    BY <2>1, TokensOfText DEF TokensAreText, tokens, Together
  <2> QED
    BY <2>3, <2>4, <2>5 DEF TokensAgree
<1> QED
  BY <1>1, TextsTyped, PTL

-----------------------------------------------------------------------------
(* Replacing.                                                              *)

\* The way through a text some parts of which are replaced.
ReplaceSteps(s, from, to) ==
    [i \in 1..Len(s) |->
        IF IsAt(s, i, from) THEN [part |-> to, next |-> i + Len(from)]
                            ELSE [part |-> <<s[i]>>, next |-> i + 1]]

ReplaceFrom(s, from, to) == Along(1..Len(s) + 1, ReplaceSteps(s, from, to))

\* A part that is not empty ends behind its place.
LEMMA PartEnds ==
    ASSUME NEW T, NEW s \in Seq(T), NEW from \in Seq(T), from # <<>>, NEW i \in 1..Len(s),
           IsAt(s, i, from)
    PROVE  i + Len(from) \in i + 1..Len(s) + 1
<1>1. Len(from) \in Nat \ {0} /\ Len(s) \in Nat
  BY LenProperties, EmptySeq
<1> QED
  BY <1>1 DEF IsAt

\* The steps of the way.
LEMMA ReplaceStepsAre ==
    ASSUME NEW T, NEW s \in Seq(T), NEW from \in Seq(T), from # <<>>, NEW to \in Seq(T)
    PROVE  LET step == ReplaceSteps(s, from, to)
           IN  /\ DOMAIN step = 1..Len(s)
               /\ Forward(1, Len(s) + 1, step)
               /\ \A i \in 1..Len(s) :
                      /\ IsAt(s, i, from) =>
                             /\ step[i].part = to /\ step[i].next = i + Len(from)
                      /\ ~IsAt(s, i, from) =>
                             /\ step[i].part = <<s[i]>> /\ step[i].next = i + 1
                      /\ step[i].part \in Seq(T)
<1> DEFINE step == ReplaceSteps(s, from, to)
           n == Len(s)
<1>1. DOMAIN step = 1..n
  BY DEF ReplaceSteps
<1>2. ASSUME NEW i \in 1..n
      PROVE  /\ IsAt(s, i, from) => step[i].part = to /\ step[i].next = i + Len(from)
             /\ ~IsAt(s, i, from) => step[i].part = <<s[i]>> /\ step[i].next = i + 1
  BY DEF ReplaceSteps
<1>3. n \in Nat
  BY LenProperties
<1> HIDE DEF step
<1>4. ASSUME NEW i \in 1..n PROVE step[i].next \in i + 1..n + 1 /\ step[i].part \in Seq(T)
  <2>1. IsAt(s, i, from) => i + Len(from) \in i + 1..n + 1
    BY PartEnds
  <2>2. <<s[i]>> \in Seq(T)
    BY ElementOfSeq
  <2>3. IsAt(s, i, from) => step[i].part = to /\ step[i].next = i + Len(from)
    BY <1>2
  <2>4. ~IsAt(s, i, from) => step[i].part = <<s[i]>> /\ step[i].next = i + 1
    BY <1>2
  <2>5. i + 1 \in i + 1..n + 1
    BY <1>3
  <2> QED
    BY <2>1, <2>2, <2>3, <2>4, <2>5
<1>5. 1 \in Int /\ n + 1 \in Int /\ 1..n \subseteq 1..n + 1
  BY <1>3
<1>6. Forward(1, n + 1, step)
  BY <1>1, <1>4, <1>5 DEF Forward
<1> QED
  BY <1>1, <1>2, <1>4, <1>6 DEF step

\* What A says is left of the text from each place on.
Replaced(A, s, from, to) ==
    /\ A[Len(s) + 1] = <<>>
    /\ \A i \in 1..Len(s) :
           /\ IsAt(s, i, from) => A[i] = to \o A[i + Len(from)]
           /\ ~IsAt(s, i, from) => A[i] = <<s[i]>> \o A[i + 1]

\* ReplaceEvery, one part or character after the other.
LEMMA ReplaceFromIs ==
    ASSUME NEW T, NEW s \in Seq(T), NEW from \in Seq(T), from # <<>>, NEW to \in Seq(T)
    PROVE  /\ ReplaceEvery(s, from, to) = ReplaceFrom(s, from, to)[1]
           /\ ReplaceEvery(s, from, to) \in Seq(T)
           /\ Replaced(ReplaceFrom(s, from, to), s, from, to)
<1> DEFINE A == ReplaceFrom(s, from, to)
           step == ReplaceSteps(s, from, to)
           b == Len(s) + 1
<1>1. ReplaceEvery(s, from, to) = A[1] /\ A = Along(1..b, step)
  BY DEF ReplaceEvery, Through, ReplaceFrom, ReplaceSteps
<1>2. /\ DOMAIN step = 1..Len(s)
      /\ Forward(1, b, step)
      /\ \A i \in 1..Len(s) :
             /\ IsAt(s, i, from) => step[i].part = to /\ step[i].next = i + Len(from)
             /\ ~IsAt(s, i, from) => step[i].part = <<s[i]>> /\ step[i].next = i + 1
             /\ step[i].part \in Seq(T)
  BY ReplaceStepsAre
<1>3. b \in 1..b /\ 1 \in 1..b /\ b \notin 1..Len(s) /\ \A i \in 1..Len(s) : i \in 1..b
  BY LenProperties
<1> HIDE DEF A, b, step
<1>4. Found(Along(1..b, step), 1..b, step)
  BY <1>2, AlongRow
<1>5. \A i \in 1..b : Along(1..b, step)[i] \in Seq(T)
  BY <1>2, AlongRowType
<1>6. Found(A, 1..b, step) /\ A[1] \in Seq(T)
  BY <1>1, <1>3, <1>4, <1>5
<1>7. A[b] = <<>>
  BY <1>2, <1>3, <1>6 DEF Found
<1>8. ASSUME NEW i \in 1..Len(s) PROVE A[i] = step[i].part \o A[step[i].next]
  BY <1>2, <1>3, <1>6 DEF Found
<1>9. ASSUME NEW i \in 1..Len(s)
      PROVE  /\ IsAt(s, i, from) => A[i] = to \o A[i + Len(from)]
             /\ ~IsAt(s, i, from) => A[i] = <<s[i]>> \o A[i + 1]
  BY <1>2, <1>8
<1>10. Replaced(A, s, from, to)
  BY <1>7, <1>9 DEF Replaced, b
<1> QED
  BY <1>1, <1>6, <1>10 DEF A

\* What is at a place of the rest of a text.
LEMMA IsAtRest ==
    ASSUME NEW T, NEW s \in Seq(T), NEW from \in Seq(T), from # <<>>,
           NEW c \in 1..Len(s) + 1, NEW i \in 1..Len(s) + 1 - c
    PROVE  /\ IsAt(Rest(s, c), i, from) <=> IsAt(s, i + c - 1, from)
           /\ i + c - 1 \in 1..Len(s) /\ Rest(s, c)[i] = s[i + c - 1]
<1> DEFINE r == Rest(s, c)
           l == Len(from)
<1>1. Len(s) \in Nat /\ l \in Nat \ {0}
  BY LenProperties, EmptySeq
<1>2. Len(r) = Len(s) + 1 - c /\ r[i] = s[i + c - 1] /\ i + c - 1 \in 1..Len(s)
  <2>1. /\ Len(r) = Len(s) + 1 - c
        /\ \A m \in 1..Len(s) + 1 - c : r[m] = s[m + c - 1]
    <3>1. /\ Len(r) = Len(s) + 1 - c
          /\ \A m \in 1..Len(s) + 1 - c : r[m] = s[c + m - 1]
      BY RestIs
    <3>2. \A m \in 1..Len(s) + 1 - c : c + m - 1 = m + c - 1
      BY <1>1
    <3> QED
      BY <3>1, <3>2
  <2> QED
    BY <1>1, <2>1
<1>3. i + l - 1 <= Len(r) <=> (i + c - 1) + l - 1 <= Len(s)
  BY <1>1, <1>2
<1>4. ASSUME i + l - 1 <= Len(r)
      PROVE  SubSeq(r, i, i + l - 1) = SubSeq(s, i + c - 1, (i + c - 1) + l - 1)
  <2>1. i \in 1..1 + Len(s) - c /\ i + l - 1 \in i - 1..1 + Len(s) - c /\ c + i - 1 = i + c - 1
        /\ c + (i + l - 1) - 1 = (i + c - 1) + l - 1 /\ c \in 1..Len(s) + 1
    BY <1>1, <1>2, <1>4
  <2>2. SubSeq(SubSeq(s, c, Len(s)), i, i + l - 1) = SubSeq(s, c + i - 1, c + (i + l - 1) - 1)
    BY <2>1, SubSeqOfSubSeq
  <2> QED
    BY <2>1, <2>2 DEF Rest
<1> QED
  BY <1>2, <1>3, <1>4 DEF IsAt

\* What is found from a place on is the rest of the text with its parts replaced.
LEMMA RestReplaced ==
    ASSUME NEW T, NEW s \in Seq(T), NEW from \in Seq(T), from # <<>>, NEW to \in Seq(T),
           NEW c \in 1..Len(s) + 1
    PROVE  ReplaceFrom(s, from, to)[c] = ReplaceEvery(Rest(s, c), from, to)
<1> DEFINE r == Rest(s, c)
           n == Len(s)
           m == Len(r)
           l == Len(from)
           step1 == ReplaceSteps(r, from, to)
           step2 == ReplaceSteps(s, from, to)
           R == {y \in (1..m + 1) \X (1..n + 1) : y[2] = y[1] + c - 1}
<1>1. r \in Seq(T) /\ m = n + 1 - c /\ n \in Nat /\ m \in Nat /\ l \in Nat \ {0}
  BY RestIs, LenProperties, EmptySeq
<1>2. \A i \in 1..m : /\ IsAt(r, i, from) <=> IsAt(s, i + c - 1, from)
                      /\ i + c - 1 \in 1..n /\ r[i] = s[i + c - 1]
  BY <1>1, IsAtRest
<1>3. /\ DOMAIN step1 = 1..m /\ Forward(1, m + 1, step1)
      /\ \A i \in 1..m :
             /\ IsAt(r, i, from) => step1[i].part = to /\ step1[i].next = i + l
             /\ ~IsAt(r, i, from) => step1[i].part = <<r[i]>> /\ step1[i].next = i + 1
  <2> HIDE DEF r
  <2> QED
    BY <1>1, ReplaceStepsAre
<1>4. /\ DOMAIN step2 = 1..n /\ Forward(1, n + 1, step2)
      /\ \A i \in 1..n :
             /\ IsAt(s, i, from) => step2[i].part = to /\ step2[i].next = i + l
             /\ ~IsAt(s, i, from) => step2[i].part = <<s[i]>> /\ step2[i].next = i + 1
  BY ReplaceStepsAre
<1>5. ReplaceFrom(s, from, to) = Along(1..n + 1, step2)
  BY DEF ReplaceFrom
<1>6. ReplaceEvery(r, from, to) = Along(1..m + 1, step1)[1]
  BY DEF ReplaceEvery, Through, ReplaceSteps
<1> HIDE DEF r, n, m, l, step1, step2
<1>7. \A x \in 1..m + 1 : x + c - 1 \in 1..n + 1 /\ <<x, x + c - 1>> \in R
  BY <1>1
<1>8. \A x \in 1..m + 1, y \in 1..n + 1 : <<x, y>> \in R => y = x + c - 1
  OBVIOUS
<1> HIDE DEF R
<1>9. ASSUME NEW x \in 1..m, NEW y, y = x + c - 1
      PROVE  /\ y \in 1..n /\ step1[x].part = step2[y].part
             /\ step2[y].next = step1[x].next + c - 1
             /\ step1[x].next \in 1..m + 1
  <2>1. y \in 1..n /\ r[x] = s[y] /\ (IsAt(r, x, from) <=> IsAt(s, y, from))
    BY <1>2, <1>9
  <2>2. step1[x].next \in x + 1..m + 1
    BY <1>3 DEF Forward
  <2>3. step1[x].next \in 1..m + 1
    BY <1>1, <2>2
  <2>4. CASE IsAt(r, x, from)
    <3>1. step1[x].part = to /\ step1[x].next = x + l
      BY <1>3, <2>4
    <3>2. step2[y].part = to /\ step2[y].next = y + l
      BY <1>4, <2>1, <2>4
    <3>3. y + l = x + l + c - 1
      BY <1>1, <1>9
    <3> QED
      BY <2>1, <2>3, <3>1, <3>2, <3>3
  <2>5. CASE ~IsAt(r, x, from)
    <3>1. step1[x].part = <<r[x]>> /\ step1[x].next = x + 1
      BY <1>3, <2>5
    <3>2. step2[y].part = <<s[y]>> /\ step2[y].next = y + 1
      BY <1>4, <2>1, <2>5
    <3>3. y + 1 = x + 1 + c - 1
      BY <1>1, <1>9
    <3> QED
      BY <2>1, <2>3, <3>1, <3>2, <3>3
  <2> QED
    BY <2>4, <2>5
<1>10. Alike(R, 1..m + 1, step1, 1..n + 1, step2)
  <2> SUFFICES ASSUME NEW x \in 1..m + 1, NEW y \in 1..n + 1, <<x, y>> \in R
               PROVE  /\ x \in DOMAIN step1 <=> y \in DOMAIN step2
                      /\ x \in DOMAIN step1 => /\ step1[x].part = step2[y].part
                                               /\ step2[y].next \in 1..n + 1
                                               /\ <<step1[x].next, step2[y].next>> \in R
    BY DEF Alike
  <2>1. y = x + c - 1
    BY <1>8
  <2>2. x \in 1..m <=> y \in 1..n
    BY <1>1, <2>1
  <2>3. ASSUME x \in 1..m
        PROVE  /\ step1[x].part = step2[y].part /\ step2[y].next \in 1..n + 1
               /\ <<step1[x].next, step2[y].next>> \in R
    <3>1. /\ step1[x].part = step2[y].part
          /\ step2[y].next = step1[x].next + c - 1 /\ step1[x].next \in 1..m + 1
      BY <1>9, <2>1, <2>3
    <3> QED
      BY <1>7, <3>1
  <2> QED
    BY <1>3, <1>4, <2>2, <2>3
<1>11. \A x \in 1..m + 1, y \in 1..n + 1 : <<x, y>> \in R =>
           Along(1..m + 1, step1)[x] = Along(1..n + 1, step2)[y]
  BY <1>3, <1>4, <1>10, SameRow
<1>12. 1 \in 1..m + 1 /\ 1 + c - 1 = c
  BY <1>1
<1>13. Along(1..m + 1, step1)[1] = Along(1..n + 1, step2)[c]
  BY <1>7, <1>11, <1>12, ZenonT(60)
<1> QED
  BY <1>5, <1>6, <1>13 DEF r

\* What is replaced in s, which consists of w and y.
Goes(s, w, y, from, to) ==
    LET A == ReplaceFrom(s, from, to)
    IN  /\ ReplaceEvery(s, from, to) = A[1]
        /\ A[1 + Len(w)] = ReplaceEvery(y, from, to)
        /\ IsAt(s, 1, from) => A[1] = to \o A[1 + Len(from)]
        /\ ~IsAt(s, 1, from) => A[1] = <<s[1]>> \o A[1 + 1]

\* The beginning of a text that consists of w and y.
LEMMA ReplaceAhead ==
    ASSUME NEW T, NEW from \in Seq(T), from # <<>>, NEW to \in Seq(T),
           NEW w \in Seq(T), w # <<>>, NEW y \in Seq(T), NEW s \in Seq(T), Ahead(s, 1, w, y)
    PROVE  /\ s[1] = w[1] /\ 1 + Len(w) - 1 <= Len(s)
           /\ SubSeq(s, 1, 1 + Len(w) - 1) = w
           /\ Goes(s, w, y, from, to)
<1> DEFINE A == ReplaceFrom(s, from, to)
<1>1. Rest(s, 1) = s /\ Len(s) \in Nat
  BY RestEnds, LenProperties
<1>2. 1 \in 1..Len(s) + 1
  BY <1>1
<1>3. /\ 1 + Len(w) \in 1..Len(s) + 1 /\ Rest(s, 1 + Len(w)) = y
      /\ \A m \in 1..Len(w) : s[1 + m - 1] = w[m]
      /\ Len(s) + 1 = 1 + Len(w) + Len(y)
      /\ SubSeq(s, 1, 1 + Len(w) - 1) = w
  BY <1>2, RestSplits
<1>4. Len(w) \in Nat \ {0}
  BY LenProperties, EmptySeq
<1>5. 1 \in 1..Len(s) /\ 1 \in 1..Len(w) /\ 1 + 1 - 1 = 1 /\ 1 + Len(w) - 1 <= Len(s)
  BY <1>1, <1>3, <1>4
<1>6. s[1] = w[1]
  BY <1>3, <1>5
<1>7. A[1 + Len(w)] = ReplaceEvery(y, from, to)
  <2>1. A[1 + Len(w)] = ReplaceEvery(Rest(s, 1 + Len(w)), from, to)
    BY <1>3, RestReplaced
  <2> QED
    BY <1>3, <2>1
<1>8. ReplaceEvery(s, from, to) = A[1] /\ Replaced(A, s, from, to)
  BY ReplaceFromIs
<1> HIDE DEF A
<1>9. /\ IsAt(s, 1, from) => A[1] = to \o A[1 + Len(from)]
      /\ ~IsAt(s, 1, from) => A[1] = <<s[1]>> \o A[1 + 1]
  BY <1>5, <1>8 DEF Replaced
<1>10. Goes(s, w, y, from, to)
  BY <1>7, <1>8, <1>9 DEF A, Goes
<1> QED
  BY <1>3, <1>5, <1>6, <1>10

\* What is replaced at the beginning of a text, and what stays there.
LEMMA ReplaceRule ==
    ASSUME NEW T, NEW from \in Seq(T), from # <<>>, NEW to \in Seq(T), NEW y \in Seq(T)
    PROVE  /\ ReplaceEvery(from \o y, from, to) = to \o ReplaceEvery(y, from, to)
           /\ \A c \in T : ~IsAt(<<c>> \o y, 1, from) =>
                  ReplaceEvery(<<c>> \o y, from, to) = <<c>> \o ReplaceEvery(y, from, to)
           /\ ReplaceEvery(y, from, to) \in Seq(T)
           /\ ReplaceEvery(<<>>, from, to) = <<>>
<1>1. ReplaceEvery(from \o y, from, to) = to \o ReplaceEvery(y, from, to)
  <2> SUFFICES ASSUME NEW s \in Seq(T), Ahead(s, 1, from, y)
               PROVE  ReplaceEvery(s, from, to) = to \o ReplaceEvery(y, from, to)
    <3>1. from \o y \in Seq(T) /\ Rest(from \o y, 1) = from \o y
      BY ConcatProperties, RestEnds
    <3> QED
      BY <3>1 DEF Ahead
  <2> DEFINE A == ReplaceFrom(s, from, to)
  <2>1. /\ 1 + Len(from) - 1 <= Len(s)
        /\ SubSeq(s, 1, 1 + Len(from) - 1) = from
        /\ Goes(s, from, y, from, to)
    BY ReplaceAhead
  <2>2. IsAt(s, 1, from)
    BY <2>1 DEF IsAt
  <2>3. /\ ReplaceEvery(s, from, to) = A[1]
        /\ A[1 + Len(from)] = ReplaceEvery(y, from, to)
        /\ A[1] = to \o A[1 + Len(from)]
    BY <2>1, <2>2 DEF Goes
  <2> HIDE DEF A
  <2> QED
    BY <2>3
<1>2. ASSUME NEW c \in T, ~IsAt(<<c>> \o y, 1, from)
      PROVE  ReplaceEvery(<<c>> \o y, from, to) = <<c>> \o ReplaceEvery(y, from, to)
  <2> DEFINE w == <<c>>
  <2>1. w \in Seq(T) /\ w # <<>> /\ Len(w) = 1 /\ w[1] = c
    OBVIOUS
  <2>2. w \o y \in Seq(T) /\ ~IsAt(w \o y, 1, from)
    BY <1>2, <2>1
  <2> HIDE DEF w
  <2>5. Ahead(w \o y, 1, w, y)
    BY <2>2, RestEnds DEF Ahead
  <2>3. ASSUME NEW s \in Seq(T), Ahead(s, 1, w, y), ~IsAt(s, 1, from)
        PROVE  ReplaceEvery(s, from, to) = <<c>> \o ReplaceEvery(y, from, to)
    <3> DEFINE A == ReplaceFrom(s, from, to)
    <3>1. s[1] = w[1] /\ Goes(s, w, y, from, to)
      BY <2>1, <2>3, ReplaceAhead
    <3>2. /\ ReplaceEvery(s, from, to) = A[1]
          /\ A[1 + Len(w)] = ReplaceEvery(y, from, to)
          /\ A[1] = <<s[1]>> \o A[1 + 1]
      BY <2>3, <3>1 DEF Goes
    <3> HIDE DEF A
    <3> QED
      BY <2>1, <3>1, <3>2
  <2>4. ReplaceEvery(w \o y, from, to) = <<c>> \o ReplaceEvery(y, from, to)
    BY <2>2, <2>3, <2>5
  <2> QED
    BY <2>4 DEF w
<1>3. ReplaceEvery(y, from, to) \in Seq(T)
  BY ReplaceFromIs
<1>4. ReplaceEvery(<<>>, from, to) = <<>>
  <2> SUFFICES ASSUME NEW e \in Seq(T), e = <<>> PROVE ReplaceEvery(e, from, to) = e
    BY EmptySeq
  <2>1. Len(e) + 1 = 1
    OBVIOUS
  <2>2. /\ ReplaceEvery(e, from, to) = ReplaceFrom(e, from, to)[1]
        /\ Replaced(ReplaceFrom(e, from, to), e, from, to)
    BY ReplaceFromIs
  <2> QED
    BY <2>1, <2>2 DEF Replaced
<1> QED
  BY <1>1, <1>2, <1>3, <1>4

-----------------------------------------------------------------------------
(* Escaping.                                                               *)

\* What holds of no text and of each one with a character more in front holds of all.
LEMMA TextInduction ==
    ASSUME NEW T, NEW G, <<>> \in G,
           \A a \in T, y \in Seq(T) : y \in G => <<a>> \o y \in G
    PROVE  Seq(T) \subseteq G
<1> SUFFICES ASSUME NEW s \in Seq(T) PROVE s \in G
  OBVIOUS
<1> DEFINE n == Len(s)
           H == {i \in 1..n + 1 : Rest(s, i) \in G}
<1>1. n \in Nat /\ Rest(s, 1) = s /\ Rest(s, n + 1) = <<>>
  BY LenProperties, RestEnds
<1>2. ASSUME NEW i \in 1..n + 1, \A j \in i + 1..n + 1 : j \in H PROVE i \in H
  <2>1. CASE i = n + 1
    BY <1>1, <2>1
  <2>2. CASE i \in 1..n
    <3>1. Rest(s, i) = <<s[i]>> \o Rest(s, i + 1)
      BY <2>2, RestFirst
    <3>2. i + 1 \in i + 1..n + 1 /\ i + 1 \in 1..Len(s) + 1 /\ s[i] \in T
      BY <1>1, <2>2, ElementOfSeq
    <3>3. Rest(s, i + 1) \in G
      BY <1>2, <3>2
    <3>4. Rest(s, i + 1) \in Seq(T)
      BY <3>2, RestIs
    <3>5. <<s[i]>> \o Rest(s, i + 1) \in G
      BY <3>2, <3>3, <3>4
    <3> QED
      BY <3>1, <3>5
  <2> QED
    BY <1>1, <2>1, <2>2
<1>3. \A i \in 1..n + 1 : i \in H
  <2>1. 1 \in Int /\ n + 1 \in Int
    BY <1>1
  <2> HIDE DEF H
  <2> QED
    BY <1>2, <2>1, CountDown
<1>4. 1 \in 1..n + 1
  BY <1>1
<1> QED
  BY <1>1, <1>3, <1>4

\* A text that is not empty is a character and the others.
LEMMA HeadAndRest ==
    ASSUME NEW T, NEW y \in Seq(T)
    PROVE  y = <<>> \/ \E a \in T, r \in Seq(T) : y = <<a>> \o r /\ y[1] = a
<1> SUFFICES ASSUME y # <<>> PROVE \E a \in T, r \in Seq(T) : y = <<a>> \o r /\ y[1] = a
  OBVIOUS
<1>1. 1 \in 1..Len(y)
  BY EmptySeq, LenProperties
<1>2. Rest(y, 1) = <<y[1]>> \o Rest(y, 1 + 1) /\ Rest(y, 1) = y /\ y[1] \in T
  BY <1>1, RestFirst, RestEnds, ElementOfSeq
<1>3. 1 + 1 \in 1..Len(y) + 1
  BY <1>1
<1>4. Rest(y, 1 + 1) \in Seq(T)
  BY <1>3, RestIs
<1> QED
  BY <1>2, <1>4

\* Replacing one character.
LEMMA ReplaceOne ==
    ASSUME NEW T, NEW c \in T, NEW to \in Seq(T)
    PROVE  /\ \A a \in T, y \in Seq(T) : a # c =>
                  ReplaceEvery(<<a>> \o y, <<c>>, to) = <<a>> \o ReplaceEvery(y, <<c>>, to)
           /\ \A y \in Seq(T) : ReplaceEvery(y, <<c>>, to) \in Seq(T)
           /\ \A y \in Seq(T) :
                  ReplaceEvery(<<c>> \o y, <<c>>, to) = to \o ReplaceEvery(y, <<c>>, to)
           /\ ReplaceEvery(<<>>, <<c>>, to) = <<>>
<1> DEFINE from == <<c>>
<1>1. from \in Seq(T) /\ from # <<>> /\ Len(from) = 1 /\ from[1] = c
  OBVIOUS
<1>2. ASSUME NEW a \in T, NEW y \in Seq(T), a # c PROVE ~IsAt(<<a>> \o y, 1, from)
  <2>1. <<a>> \o y \in Seq(T) /\ (<<a>> \o y)[1] = a
    OBVIOUS
  <2>2. ASSUME NEW s \in Seq(T), s[1] = a, IsAt(s, 1, from) PROVE FALSE
    <3>1. 1 + 1 - 1 <= Len(s) /\ SubSeq(s, 1, 1 + 1 - 1) = from
      BY <1>1, <2>2 DEF IsAt
    <3>2. 1 \in 1..Len(s) /\ 1 + 1 - 1 = 1
      BY <3>1, LenProperties
    <3>3. SubSeq(s, 1, 1) = from /\ SubSeq(s, 1, 1)[1] = s[1]
      BY <3>1, <3>2
    <3> HIDE DEF from
    <3> QED
      BY <1>1, <1>2, <2>2, <3>3
  <2> QED
    BY <2>1, <2>2
<1> HIDE DEF from
<1>3. ASSUME NEW y \in Seq(T)
      PROVE  /\ ReplaceEvery(from \o y, from, to) = to \o ReplaceEvery(y, from, to)
             /\ \A b \in T : ~IsAt(<<b>> \o y, 1, from) =>
                    ReplaceEvery(<<b>> \o y, from, to) = <<b>> \o ReplaceEvery(y, from, to)
             /\ ReplaceEvery(y, from, to) \in Seq(T)
             /\ ReplaceEvery(<<>>, from, to) = <<>>
  BY <1>1, ReplaceRule
<1>4. ASSUME NEW a \in T, NEW y \in Seq(T), a # c
      PROVE  ReplaceEvery(<<a>> \o y, from, to) = <<a>> \o ReplaceEvery(y, from, to)
  BY <1>2, <1>3, <1>4
<1>5. <<>> \in Seq(T)
  BY EmptySeq
<1>6. ReplaceEvery(<<>>, from, to) = <<>>
  BY <1>3, <1>5
<1> QED
  BY <1>3, <1>4, <1>6 DEF from

\* Three characters in front of a text, one by one.
LEMMA ThreeInFront ==
    ASSUME NEW T, NEW p \in T, NEW x \in T, NEW z \in T, NEW y \in Seq(T)
    PROVE  <<p, x, z>> \o y = <<p>> \o (<<x>> \o (<<z>> \o y))
<1> DEFINE u == <<p, x, z>> \o y
           v == <<p>> \o (<<x>> \o (<<z>> \o y))
<1>1. /\ u \in Seq(T) /\ Len(u) = Len(y) + 3 /\ u[1] = p /\ u[2] = x /\ u[3] = z
      /\ \A i \in 1..Len(y) : u[i + 3] = y[i]
  OBVIOUS
<1>2. /\ v \in Seq(T) /\ Len(v) = Len(y) + 3 /\ v[1] = p /\ v[2] = x /\ v[3] = z
      /\ \A i \in 1..Len(y) : v[i + 3] = y[i]
  OBVIOUS
<1> HIDE DEF u, v
<1>3. ASSUME NEW i \in 1..Len(u) PROVE u[i] = v[i]
  <2>1. i \in {1, 2, 3} \/ (i - 3 \in 1..Len(y) /\ (i - 3) + 3 = i)
    BY <1>1
  <2> QED
    BY <1>1, <1>2, <2>1
<1>4. u = v
  BY <1>1, <1>2, <1>3, SeqEqual
<1> QED
  BY <1>4 DEF u, v

\* A character that is none of three.
Apart(c, p, x, z) == p # c /\ x # c /\ z # c

\* Three characters that do not contain c.
ThreeOthers(T, e, c) == \E p \in T, x \in T, z \in T : e = <<p, x, z>> /\ Apart(c, p, x, z)

\* Replacing c does not change e.
Unchanged(T, e, c, to) ==
    \A y \in Seq(T) : ReplaceEvery(e \o y, <<c>>, to) = e \o ReplaceEvery(y, <<c>>, to)

\* Three characters that are not replaced.
LEMMA ReplacePast ==
    ASSUME NEW T, NEW c \in T, NEW to \in Seq(T), NEW e, ThreeOthers(T, e, c)
    PROVE  Unchanged(T, e, c, to)
<1>13. PICK p \in T, x \in T, z \in T : e = <<p, x, z>> /\ Apart(c, p, x, z)
  BY DEF ThreeOthers
<1> SUFFICES ASSUME NEW y \in Seq(T)
             PROVE  ReplaceEvery(e \o y, <<c>>, to) = e \o ReplaceEvery(y, <<c>>, to)
  BY DEF Unchanged
<1> DEFINE F(s) == ReplaceEvery(s, <<c>>, to)
           y1 == <<z>> \o y
           y2 == <<x>> \o y1
<1>1. y1 \in Seq(T)
  OBVIOUS
<1>2. y2 \in Seq(T)
  BY <1>1
<1>3. /\ \A a \in T, s \in Seq(T) : a # c => F(<<a>> \o s) = <<a>> \o F(s)
      /\ \A s \in Seq(T) : F(s) \in Seq(T)
  <2>1. /\ \A a \in T, s \in Seq(T) : a # c =>
               ReplaceEvery(<<a>> \o s, <<c>>, to) = <<a>> \o ReplaceEvery(s, <<c>>, to)
        /\ \A s \in Seq(T) : ReplaceEvery(s, <<c>>, to) \in Seq(T)
        /\ \A s \in Seq(T) :
               ReplaceEvery(<<c>> \o s, <<c>>, to) = to \o ReplaceEvery(s, <<c>>, to)
        /\ ReplaceEvery(<<>>, <<c>>, to) = <<>>
    BY ReplaceOne
  <2> QED
    BY <2>1
<1>4. <<p, x, z>> \o y = <<p>> \o y2
  BY ThreeInFront, SMTT(40)
<1> HIDE DEF F
<1>0. p # c /\ x # c /\ z # c
  BY <1>13 DEF Apart
<1>5. F(y1) = <<z>> \o F(y) /\ F(y) \in Seq(T)
  BY <1>0, <1>3
<1> HIDE DEF y1
<1>6. F(y2) = <<x>> \o F(y1)
  BY <1>0, <1>1, <1>3
<1> HIDE DEF y2
<1>7. F(<<p>> \o y2) = <<p>> \o F(y2)
  BY <1>0, <1>2, <1>3
<1>8. F(<<p, x, z>> \o y) = <<p>> \o (<<x>> \o (<<z>> \o F(y)))
  BY <1>4, <1>5, <1>6, <1>7
<1> DEFINE r == F(y)
<1>9. r \in Seq(T)
  BY <1>5
<1> HIDE DEF r
<1>10. <<p, x, z>> \o r = <<p>> \o (<<x>> \o (<<z>> \o r))
  BY <1>9, ThreeInFront, SMTT(40)
<1> QED
  BY <1>8, <1>10, <1>13 DEF F, r

-----------------------------------------------------------------------------
(* Escapes: three characters for one.                                      *)

\* Where three characters are.
LEMMA IsAtThree ==
    ASSUME NEW T, NEW s \in Seq(T), NEW p, NEW x, NEW z
    PROVE  IsAt(s, 1, <<p, x, z>>) <=> Len(s) >= 3 /\ s[1] = p /\ s[2] = x /\ s[3] = z
<1> DEFINE e == <<p, x, z>>
<1>1. Len(e) = 3 /\ e[1] = p /\ e[2] = x /\ e[3] = z /\ Len(s) \in Nat /\ 1 + 3 - 1 = 3
  BY LenProperties
<1> DEFINE u == SubSeq(s, 1, 3)
<1>2. ASSUME Len(s) >= 3
      PROVE  u \in Seq(T) /\ Len(u) = 3 /\ u[1] = s[1] /\ u[2] = s[2] /\ u[3] = s[3]
  BY <1>1, <1>2
<1>3. ASSUME Len(s) >= 3, s[1] = p, s[2] = x, s[3] = z PROVE u = e
  <2>1. p \in T /\ x \in T /\ z \in T
    <3>1. 1 \in 1..Len(s) /\ 2 \in 1..Len(s) /\ 3 \in 1..Len(s)
      BY <1>1, <1>3
    <3> QED
      BY <1>3, <3>1, ElementOfSeq
  <2>2. e \in Seq(T)
    BY <2>1
  <2> HIDE DEF e, u
  <2>3. \A i \in 1..Len(u) : u[i] = e[i]
    <3>1. \A i \in 1..3 : i = 1 \/ i = 2 \/ i = 3
      OBVIOUS
    <3> QED
      BY <1>1, <1>2, <1>3, <3>1
  <2> QED
    BY <1>1, <1>2, <1>3, <2>2, <2>3, SeqEqual
<1> HIDE DEF e
<1>4. IsAt(s, 1, e) <=> Len(s) >= 3 /\ u = e
  BY <1>1 DEF IsAt
<1> HIDE DEF u
<1> QED
  BY <1>1, <1>2, <1>3, <1>4 DEF e

\* A character in front of a text.
LEMMA InFront ==
    ASSUME NEW T, NEW a \in T, NEW y \in Seq(T)
    PROVE  /\ <<a>> \o y \in Seq(T) /\ Len(<<a>> \o y) = Len(y) + 1 /\ (<<a>> \o y)[1] = a
           /\ \A i \in 1..Len(y) : (<<a>> \o y)[i + 1] = y[i]
           /\ Rest(<<a>> \o y, 2) = y /\ Len(y) \in Nat
<1> DEFINE s == <<a>> \o y
<1>1. /\ s \in Seq(T) /\ Len(s) = Len(y) + 1 /\ s[1] = a /\ Len(y) \in Nat
      /\ \A i \in 1..Len(y) : s[i + 1] = y[i]
  BY LenProperties
<1> HIDE DEF s
<1>2. 2 \in 1..Len(s) + 1
  BY <1>1
<1>3. /\ Rest(s, 2) \in Seq(T) /\ Len(Rest(s, 2)) = Len(s) + 1 - 2
      /\ \A m \in 1..Len(s) + 1 - 2 : Rest(s, 2)[m] = s[2 + m - 1]
  BY <1>1, <1>2, RestIs, ZenonT(60)
<1>4. \A m \in 1..Len(y) : Rest(s, 2)[m] = y[m]
  <2> SUFFICES ASSUME NEW m \in 1..Len(y) PROVE Rest(s, 2)[m] = y[m]
    OBVIOUS
  <2>1. m \in 1..Len(s) + 1 - 2 /\ 2 + m - 1 = m + 1
    BY <1>1
  <2> QED
    BY <1>1, <1>3, <2>1
<1>5. Len(Rest(s, 2)) = Len(y)
  BY <1>1, <1>3
<1>6. Rest(s, 2) = y
  BY <1>3, <1>4, <1>5, SeqEqual
<1> QED
  BY <1>1, <1>6 DEF s

\* Where three characters are in a text with one more in front.
LEMMA IsAtFront ==
    ASSUME NEW T, NEW a \in T, NEW y \in Seq(T), NEW p, NEW x, NEW z
    PROVE  IsAt(<<a>> \o y, 1, <<p, x, z>>)
               <=> a = p /\ Len(y) >= 2 /\ y[1] = x /\ y[2] = z
<1> DEFINE s == <<a>> \o y
<1>1. /\ s \in Seq(T) /\ Len(s) = Len(y) + 1 /\ s[1] = a
      /\ \A i \in 1..Len(y) : s[i + 1] = y[i]
      /\ Len(y) \in Nat
  BY InFront
<1> HIDE DEF s
<1>2. IsAt(s, 1, <<p, x, z>>) <=> Len(s) >= 3 /\ s[1] = p /\ s[2] = x /\ s[3] = z
  BY <1>1, IsAtThree
<1>3. Len(y) >= 2 => s[2] = y[1] /\ s[3] = y[2]
  <2>1. Len(y) >= 2 => 1 \in 1..Len(y) /\ 2 \in 1..Len(y) /\ 1 + 1 = 2 /\ 2 + 1 = 3
    BY <1>1
  <2> QED
    BY <1>1, <2>1
<1> QED
  BY <1>1, <1>2, <1>3 DEF s

\* A first character that was not put in.
LEMMA KeptHead ==
    ASSUME NEW T, NEW c \in T, NEW to \in Seq(T), to # <<>>
    PROVE  \A s \in Seq(T) :
               ReplaceEvery(s, <<c>>, to) # <<>> /\ ReplaceEvery(s, <<c>>, to)[1] # to[1] =>
                   \E h \in T, r \in Seq(T) :
                       /\ s = <<h>> \o r
                       /\ ReplaceEvery(s, <<c>>, to) = <<h>> \o ReplaceEvery(r, <<c>>, to)
                       /\ ReplaceEvery(s, <<c>>, to)[1] = h
<1> DEFINE F(s) == ReplaceEvery(s, <<c>>, to)
<1> SUFFICES ASSUME NEW y \in Seq(T), F(y) # <<>>, F(y)[1] # to[1]
             PROVE  \E h \in T, r \in Seq(T) :
                        y = <<h>> \o r /\ F(y) = <<h>> \o F(r) /\ F(y)[1] = h
  OBVIOUS
<1>1. /\ \A a \in T, s \in Seq(T) : a # c => F(<<a>> \o s) = <<a>> \o F(s)
      /\ \A s \in Seq(T) : F(s) \in Seq(T)
      /\ \A s \in Seq(T) : F(<<c>> \o s) = to \o F(s)
      /\ F(<<>>) = <<>>
  <2>1. /\ \A a \in T, s \in Seq(T) : a # c =>
               ReplaceEvery(<<a>> \o s, <<c>>, to) = <<a>> \o ReplaceEvery(s, <<c>>, to)
        /\ \A s \in Seq(T) : ReplaceEvery(s, <<c>>, to) \in Seq(T)
        /\ \A s \in Seq(T) :
               ReplaceEvery(<<c>> \o s, <<c>>, to) = to \o ReplaceEvery(s, <<c>>, to)
        /\ ReplaceEvery(<<>>, <<c>>, to) = <<>>
    BY ReplaceOne
  <2> QED
    BY <2>1
<1>2. F(y) # <<>> /\ F(y)[1] # to[1]
  OBVIOUS
<1> HIDE DEF F
<1>3. y # <<>>
  BY <1>1, <1>2
<1>4. PICK a \in T, r \in Seq(T) : y = <<a>> \o r /\ y[1] = a
  <2>1. y = <<>> \/ \E a \in T, r \in Seq(T) : y = <<a>> \o r /\ y[1] = a
    BY HeadAndRest
  <2> QED
    BY <1>3, <2>1
<1>5. a # c
  <2> SUFFICES ASSUME a = c PROVE FALSE
    OBVIOUS
  <2>1. F(y) = to \o F(r) /\ F(r) \in Seq(T)
    BY <1>1, <1>4
  <2>2. (to \o F(r))[1] = to[1]
    <3> DEFINE u == F(r)
    <3>1. u \in Seq(T)
      BY <2>1
    <3> HIDE DEF u
    <3>2. Len(to) \in Nat /\ Len(to) # 0
      BY LenProperties, EmptySeq
    <3>3. (to \o u)[1] = to[1]
      BY <3>1, <3>2
    <3> QED
      BY <3>3 DEF u
  <2> QED
    BY <1>2, <2>1, <2>2
<1>6. F(y) = <<a>> \o F(r) /\ F(r) \in Seq(T)
  BY <1>1, <1>4, <1>5
<1>7. (<<a>> \o F(r))[1] = a
  BY <1>6
<1> QED
  BY <1>4, <1>6, <1>7

\* What is put in completes no escape.
LEMMA FirstThree ==
    ASSUME NEW T, NEW c \in T, NEW to \in Seq(T), to # <<>>, NEW y \in Seq(T), NEW a \in T,
           NEW p, NEW x, NEW z, x # to[1], z # to[1]
    PROVE  IsAt(<<a>> \o ReplaceEvery(y, <<c>>, to), 1, <<p, x, z>>)
               => IsAt(<<a>> \o y, 1, <<p, x, z>>)
<1> DEFINE F(s) == ReplaceEvery(s, <<c>>, to)
<1>1. \A s \in Seq(T) : F(s) \in Seq(T)
  <2>1. /\ \A b \in T, s \in Seq(T) : b # c =>
               ReplaceEvery(<<b>> \o s, <<c>>, to) = <<b>> \o ReplaceEvery(s, <<c>>, to)
        /\ \A s \in Seq(T) : ReplaceEvery(s, <<c>>, to) \in Seq(T)
        /\ \A s \in Seq(T) :
               ReplaceEvery(<<c>> \o s, <<c>>, to) = to \o ReplaceEvery(s, <<c>>, to)
        /\ ReplaceEvery(<<>>, <<c>>, to) = <<>>
    BY ReplaceOne
  <2> QED
    BY <2>1
<1>2. \A s \in Seq(T) : F(s) # <<>> /\ F(s)[1] # to[1] =>
          \E h \in T, r \in Seq(T) :
              s = <<h>> \o r /\ F(s) = <<h>> \o F(r) /\ F(s)[1] = h
  <2>1. \A s \in Seq(T) :
            ReplaceEvery(s, <<c>>, to) # <<>> /\ ReplaceEvery(s, <<c>>, to)[1] # to[1] =>
                \E h \in T, r \in Seq(T) :
                    /\ s = <<h>> \o r
                    /\ ReplaceEvery(s, <<c>>, to) = <<h>> \o ReplaceEvery(r, <<c>>, to)
                    /\ ReplaceEvery(s, <<c>>, to)[1] = h
    BY KeptHead
  <2> QED
    BY <2>1
<1> SUFFICES ASSUME IsAt(<<a>> \o F(y), 1, <<p, x, z>>)
             PROVE  IsAt(<<a>> \o y, 1, <<p, x, z>>)
  OBVIOUS
<1> HIDE DEF F
<1>4. a = p /\ Len(F(y)) >= 2 /\ F(y)[1] = x /\ F(y)[2] = z /\ F(y) \in Seq(T)
  BY <1>1, IsAtFront
<1>5. F(y) # <<>>
  BY <1>4
<1>6. PICK h \in T, r \in Seq(T) : y = <<h>> \o r /\ F(y) = <<h>> \o F(r) /\ F(y)[1] = h
  BY <1>2, <1>4, <1>5
<1>7. F(r) \in Seq(T) /\ h = x
  BY <1>1, <1>4, <1>6
<1>8. Len(F(y)) = Len(F(r)) + 1 /\ \A i \in 1..Len(F(r)) : F(y)[i + 1] = F(r)[i]
  <2> DEFINE u == F(r)
  <2>1. u \in Seq(T)
    BY <1>7
  <2> HIDE DEF u
  <2>2. Len(<<h>> \o u) = Len(u) + 1 /\ \A i \in 1..Len(u) : (<<h>> \o u)[i + 1] = u[i]
    BY <2>1, InFront
  <2> QED
    BY <1>6, <2>2 DEF u
<1>9. F(r) # <<>> /\ F(r)[1] = z
  <2>1. Len(F(r)) >= 1 /\ 1 \in 1..Len(F(r)) /\ 1 + 1 = 2
    BY <1>4, <1>7, <1>8, LenProperties
  <2> QED
    BY <1>4, <1>8, <2>1
<1>10. PICK k \in T, r2 \in Seq(T) : r = <<k>> \o r2 /\ F(r) = <<k>> \o F(r2) /\ F(r)[1] = k
  BY <1>2, <1>9
<1>11. Len(r) >= 1 /\ r[1] = z
  <2>1. Len(r) = Len(r2) + 1 /\ r[1] = k /\ Len(r2) \in Nat
    BY <1>10, InFront
  <2> QED
    BY <1>9, <1>10, <2>1
<1>12. Len(y) >= 2 /\ y[1] = x /\ y[2] = z
  <2>1. /\ Len(y) = Len(r) + 1 /\ y[1] = x /\ Len(r) \in Nat
        /\ \A i \in 1..Len(r) : y[i + 1] = r[i]
    BY <1>6, <1>7, InFront
  <2>2. 1 \in 1..Len(r) /\ 1 + 1 = 2 /\ Len(y) >= 2
    BY <1>11, <2>1
  <2> QED
    BY <1>11, <2>1, <2>2
<1> QED
  BY <1>4, <1>12, IsAtFront

\* The part e is nowhere in s.
Free(s, e) == \A i \in 1..Len(s) : ~IsAt(s, i, e)

\* There is nothing in the empty text.
LEMMA FreeNone ==
    ASSUME NEW e
    PROVE  Free(<<>>, e)
  BY DEF Free

\* Where it is in a text with one more character in front.
LEMMA FreeFront ==
    ASSUME NEW T, NEW a \in T, NEW y \in Seq(T), NEW e \in Seq(T), e # <<>>
    PROVE  Free(<<a>> \o y, e) <=> ~IsAt(<<a>> \o y, 1, e) /\ Free(y, e)
<1> DEFINE s == <<a>> \o y
<1>1. s \in Seq(T) /\ Len(s) = Len(y) + 1 /\ Rest(s, 2) = y /\ Len(y) \in Nat
  BY InFront
<1> HIDE DEF s
<1>2. ASSUME NEW i \in 1..Len(y) PROVE IsAt(y, i, e) <=> IsAt(s, i + 1, e)
  <2>1. 2 \in 1..Len(s) + 1 /\ i \in 1..Len(s) + 1 - 2 /\ i + 2 - 1 = i + 1
    BY <1>1
  <2>2. IsAt(Rest(s, 2), i, e) <=> IsAt(s, i + 2 - 1, e)
    BY <1>1, <2>1, IsAtRest
  <2> QED
    BY <1>1, <2>1, <2>2
<1>3. ASSUME Free(s, e) PROVE ~IsAt(s, 1, e) /\ Free(y, e)
  <2>1. 1 \in 1..Len(s) /\ \A i \in 1..Len(y) : i + 1 \in 1..Len(s)
    BY <1>1
  <2> QED
    BY <1>2, <1>3, <2>1 DEF Free
<1>4. ASSUME ~IsAt(s, 1, e), Free(y, e) PROVE Free(s, e)
  <2> SUFFICES ASSUME NEW i \in 1..Len(s) PROVE ~IsAt(s, i, e)
    BY DEF Free
  <2>1. i = 1 \/ (i - 1 \in 1..Len(y) /\ (i - 1) + 1 = i)
    BY <1>1
  <2> QED
    BY <1>2, <1>4, <2>1 DEF Free
<1> QED
  BY <1>3, <1>4 DEF s

\* An escape: its first character is not in it again.
Escape(T, p, x, z) == p \in T /\ x \in T /\ z \in T /\ x # p /\ z # p

\* An escape that is put in brings about no other one.
LEMMA StaysFree ==
    ASSUME NEW T, NEW c \in T, NEW p, NEW x, NEW z, NEW u, NEW v,
           Escape(T, p, x, z), Escape(T, p, u, v), u # x
    PROVE  \A y \in Seq(T) : Free(y, <<p, x, z>>) =>
               Free(ReplaceEvery(y, <<c>>, <<p, u, v>>), <<p, x, z>>)
<1> DEFINE e == <<p, x, z>>
           to == <<p, u, v>>
           F(s) == ReplaceEvery(s, <<c>>, to)
           G == {y \in Seq(T) : Free(y, e) => Free(F(y), e)}
<1>1. /\ p \in T /\ x \in T /\ z \in T /\ u \in T /\ v \in T
      /\ x # p /\ z # p /\ u # p /\ v # p
  BY DEF Escape
<1>2. e \in Seq(T) /\ e # <<>> /\ to \in Seq(T) /\ to # <<>> /\ to[1] = p
  BY <1>1
<1>3. /\ \A a \in T, s \in Seq(T) : a # c => F(<<a>> \o s) = <<a>> \o F(s)
      /\ \A s \in Seq(T) : F(s) \in Seq(T)
      /\ \A s \in Seq(T) : F(<<c>> \o s) = to \o F(s)
      /\ F(<<>>) = <<>>
  <2> HIDE DEF to
  <2>1. /\ \A a \in T, s \in Seq(T) : a # c =>
               ReplaceEvery(<<a>> \o s, <<c>>, to) = <<a>> \o ReplaceEvery(s, <<c>>, to)
        /\ \A s \in Seq(T) : ReplaceEvery(s, <<c>>, to) \in Seq(T)
        /\ \A s \in Seq(T) :
               ReplaceEvery(<<c>> \o s, <<c>>, to) = to \o ReplaceEvery(s, <<c>>, to)
        /\ ReplaceEvery(<<>>, <<c>>, to) = <<>>
    BY <1>2, ReplaceOne
  <2> QED
    BY <2>1
<1>4. \A a \in T, y \in Seq(T) : IsAt(<<a>> \o F(y), 1, e) => IsAt(<<a>> \o y, 1, e)
  <2> HIDE DEF to
  <2> QED
    BY <1>1, <1>2, FirstThree
<1>5. \A a \in T, y \in Seq(T) :
          IsAt(<<a>> \o y, 1, e) <=> a = p /\ Len(y) >= 2 /\ y[1] = x /\ y[2] = z
  BY IsAtFront
<1>6. \A a \in T, y \in Seq(T) :
          Free(<<a>> \o y, e) <=> ~IsAt(<<a>> \o y, 1, e) /\ Free(y, e)
  <2> HIDE DEF e
  <2> QED
    BY <1>2, FreeFront
<1>7. <<>> \in G
  BY <1>3, EmptySeq, FreeNone
<1>8. \A y \in Seq(T) : to \o y = <<p>> \o (<<u>> \o (<<v>> \o y))
  BY <1>1, ThreeInFront
<1> HIDE DEF F, e, to
<1>9. ASSUME NEW a \in T, NEW y \in Seq(T), y \in G PROVE <<a>> \o y \in G
  <2> SUFFICES ASSUME Free(<<a>> \o y, e) PROVE Free(F(<<a>> \o y), e)
    BY InFront
  <2>1. Free(y, e) /\ ~IsAt(<<a>> \o y, 1, e)
    BY <1>6
  <2>2. Free(F(y), e) /\ F(y) \in Seq(T)
    BY <1>3, <1>9, <2>1
  <2>3. CASE a # c
    <3>1. F(<<a>> \o y) = <<a>> \o F(y) /\ ~IsAt(<<a>> \o F(y), 1, e)
      BY <1>3, <1>4, <2>1, <2>3
    <3> QED
      BY <1>6, <2>2, <3>1
  <2>4. CASE a = c
    <3> DEFINE r == F(y)
               r1 == <<v>> \o r
               r2 == <<u>> \o r1
    <3>1. r \in Seq(T) /\ Free(r, e)
      BY <2>2
    <3> HIDE DEF r
    <3>2. r1 \in Seq(T) /\ Free(r1, e)
      BY <1>1, <1>5, <1>6, <3>1, InFront
    <3> HIDE DEF r1
    <3>3. r2 \in Seq(T) /\ r2[1] = u
      BY <1>1, <3>2, InFront
    <3>4. Free(r2, e)
      BY <1>1, <1>5, <1>6, <3>2
    <3> HIDE DEF r2
    <3>5. ~IsAt(<<p>> \o r2, 1, e)
      BY <1>1, <1>5, <3>3
    <3>6. Free(<<p>> \o r2, e)
      BY <1>1, <1>6, <3>3, <3>4, <3>5
    <3>7. F(<<a>> \o y) = to \o r
      BY <1>3, <2>4 DEF r
    <3>8. to \o r = <<p>> \o r2
      BY <1>8, <3>1 DEF r1, r2
    <3> QED
      BY <3>6, <3>7, <3>8
  <2> QED
    BY <2>3, <2>4
<1>10. Seq(T) \subseteq G
  <2> HIDE DEF G
  <2> QED
    BY <1>7, <1>9, TextInduction
<1> QED
  BY <1>10 DEF e, to, F

\* A character that is replaced by an escape and the escape by it again.
LEMMA Undone ==
    ASSUME NEW T, NEW c \in T, NEW p, NEW x, NEW z, Escape(T, p, x, z)
    PROVE  \A y \in Seq(T) : Free(y, <<p, x, z>>) =>
               ReplaceEvery(ReplaceEvery(y, <<c>>, <<p, x, z>>), <<p, x, z>>, <<c>>) = y
<1> DEFINE e == <<p, x, z>>
           to == <<c>>
           F(s) == ReplaceEvery(s, <<c>>, e)
           B(s) == ReplaceEvery(s, e, to)
           G == {y \in Seq(T) : Free(y, e) => B(F(y)) = y}
<1>1. p \in T /\ x \in T /\ z \in T /\ x # p /\ z # p
  BY DEF Escape
<1>2. e \in Seq(T) /\ e # <<>> /\ e[1] = p /\ to \in Seq(T)
  BY <1>1
<1>3. /\ \A a \in T, s \in Seq(T) : a # c => F(<<a>> \o s) = <<a>> \o F(s)
      /\ \A s \in Seq(T) : F(s) \in Seq(T)
      /\ \A s \in Seq(T) : F(<<c>> \o s) = e \o F(s)
      /\ F(<<>>) = <<>>
  <2> HIDE DEF e
  <2>1. /\ \A a \in T, s \in Seq(T) : a # c =>
               ReplaceEvery(<<a>> \o s, <<c>>, e) = <<a>> \o ReplaceEvery(s, <<c>>, e)
        /\ \A s \in Seq(T) : ReplaceEvery(s, <<c>>, e) \in Seq(T)
        /\ \A s \in Seq(T) :
               ReplaceEvery(<<c>> \o s, <<c>>, e) = e \o ReplaceEvery(s, <<c>>, e)
        /\ ReplaceEvery(<<>>, <<c>>, e) = <<>>
    BY <1>2, ReplaceOne
  <2> QED
    BY <2>1
<1>4. \A a \in T, y \in Seq(T) : IsAt(<<a>> \o F(y), 1, e) => IsAt(<<a>> \o y, 1, e)
  <2>1. \A s \in Seq(T) : s # <<>> /\ x # s[1] /\ z # s[1] =>
            \A a \in T, y \in Seq(T) :
                IsAt(<<a>> \o ReplaceEvery(y, <<c>>, s), 1, <<p, x, z>>)
                    => IsAt(<<a>> \o y, 1, <<p, x, z>>)
    BY FirstThree
  <2> QED
    BY <1>1, <1>2, <2>1
<1>5. \A a \in T, y \in Seq(T) :
          Free(<<a>> \o y, e) <=> ~IsAt(<<a>> \o y, 1, e) /\ Free(y, e)
  <2> HIDE DEF e
  <2> QED
    BY <1>2, FreeFront
<1>6. \A y \in Seq(T) :
          /\ B(e \o y) = to \o B(y)
          /\ \A a \in T : ~IsAt(<<a>> \o y, 1, e) => B(<<a>> \o y) = <<a>> \o B(y)
          /\ B(y) \in Seq(T) /\ B(<<>>) = <<>>
  <2> HIDE DEF e, to
  <2>1. \A y \in Seq(T) :
            /\ ReplaceEvery(e \o y, e, to) = to \o ReplaceEvery(y, e, to)
            /\ \A a \in T : ~IsAt(<<a>> \o y, 1, e) =>
                   ReplaceEvery(<<a>> \o y, e, to) = <<a>> \o ReplaceEvery(y, e, to)
            /\ ReplaceEvery(y, e, to) \in Seq(T)
            /\ ReplaceEvery(<<>>, e, to) = <<>>
    BY <1>2, ReplaceRule
  <2> QED
    BY <2>1
<1>7. <<>> \in G
  <2> HIDE DEF B, F, e
  <2> QED
    BY <1>3, <1>6, EmptySeq
<1>8. to = <<c>>
  OBVIOUS
<1> HIDE DEF F, B, e, to
<1>9. ASSUME NEW a \in T, NEW y \in Seq(T), y \in G PROVE <<a>> \o y \in G
  <2> SUFFICES ASSUME Free(<<a>> \o y, e) PROVE B(F(<<a>> \o y)) = <<a>> \o y
    BY InFront
  <2>1. Free(y, e) /\ ~IsAt(<<a>> \o y, 1, e)
    BY <1>5
  <2>2. B(F(y)) = y /\ F(y) \in Seq(T)
    BY <1>3, <1>9, <2>1
  <2>3. CASE a # c
    <3>1. F(<<a>> \o y) = <<a>> \o F(y) /\ ~IsAt(<<a>> \o F(y), 1, e)
      BY <1>3, <1>4, <2>1, <2>3
    <3>2. B(<<a>> \o F(y)) = <<a>> \o B(F(y))
      BY <1>6, <2>2, <3>1
    <3> QED
      BY <2>2, <3>1, <3>2
  <2>4. CASE a = c
    <3>1. F(<<a>> \o y) = e \o F(y)
      BY <1>3, <2>4
    <3>2. B(e \o F(y)) = to \o B(F(y))
      BY <1>6, <2>2
    <3> QED
      BY <1>8, <2>2, <2>4, <3>1, <3>2
  <2> QED
    BY <2>3, <2>4
<1>10. Seq(T) \subseteq G
  <2> HIDE DEF G
  <2> QED
    BY <1>7, <1>9, TextInduction
<1> QED
  BY <1>10 DEF e, to, F, B

\* Two characters that are replaced one after the other.
LEMMA Commute ==
    ASSUME NEW T, NEW c \in T, NEW d \in T, c # d, NEW e1, NEW e2,
           ThreeOthers(T, e1, d), ThreeOthers(T, e2, c)
    PROVE  \A y \in Seq(T) :
               ReplaceEvery(ReplaceEvery(y, <<c>>, e1), <<d>>, e2)
                   = ReplaceEvery(ReplaceEvery(y, <<d>>, e2), <<c>>, e1)
<1> DEFINE F1(s) == ReplaceEvery(s, <<c>>, e1)
           F2(s) == ReplaceEvery(s, <<d>>, e2)
           G == {y \in Seq(T) : F2(F1(y)) = F1(F2(y))}
<1>1. e1 \in Seq(T) /\ e2 \in Seq(T)
  BY DEF ThreeOthers
<1>9. \A s \in Seq(T) : F1(e2 \o s) = e2 \o F1(s)
  <2>1. Unchanged(T, e2, c, e1)
    BY <1>1, ReplacePast
  <2> QED
    BY <2>1 DEF Unchanged
<1>3. \A s \in Seq(T) : F2(e1 \o s) = e1 \o F2(s)
  <2>1. Unchanged(T, e1, d, e2)
    BY <1>1, ReplacePast
  <2> QED
    BY <2>1 DEF Unchanged
<1>4. /\ \A a \in T, s \in Seq(T) : a # c => F1(<<a>> \o s) = <<a>> \o F1(s)
      /\ \A s \in Seq(T) : F1(s) \in Seq(T)
      /\ \A s \in Seq(T) : F1(<<c>> \o s) = e1 \o F1(s)
      /\ F1(<<>>) = <<>>
  <2>1. /\ \A a \in T, s \in Seq(T) : a # c =>
               ReplaceEvery(<<a>> \o s, <<c>>, e1) = <<a>> \o ReplaceEvery(s, <<c>>, e1)
        /\ \A s \in Seq(T) : ReplaceEvery(s, <<c>>, e1) \in Seq(T)
        /\ \A s \in Seq(T) :
               ReplaceEvery(<<c>> \o s, <<c>>, e1) = e1 \o ReplaceEvery(s, <<c>>, e1)
        /\ ReplaceEvery(<<>>, <<c>>, e1) = <<>>
    BY <1>1, ReplaceOne
  <2> QED
    BY <2>1
<1>5. /\ \A a \in T, s \in Seq(T) : a # d => F2(<<a>> \o s) = <<a>> \o F2(s)
      /\ \A s \in Seq(T) : F2(s) \in Seq(T)
      /\ \A s \in Seq(T) : F2(<<d>> \o s) = e2 \o F2(s)
      /\ F2(<<>>) = <<>>
  <2>1. /\ \A a \in T, s \in Seq(T) : a # d =>
               ReplaceEvery(<<a>> \o s, <<d>>, e2) = <<a>> \o ReplaceEvery(s, <<d>>, e2)
        /\ \A s \in Seq(T) : ReplaceEvery(s, <<d>>, e2) \in Seq(T)
        /\ \A s \in Seq(T) :
               ReplaceEvery(<<d>> \o s, <<d>>, e2) = e2 \o ReplaceEvery(s, <<d>>, e2)
        /\ ReplaceEvery(<<>>, <<d>>, e2) = <<>>
    BY <1>1, ReplaceOne
  <2> QED
    BY <2>1
<1> HIDE DEF F1, F2
<1>6. <<>> \in G
  BY <1>4, <1>5, EmptySeq
<1>7. ASSUME NEW a \in T, NEW y \in Seq(T), y \in G PROVE <<a>> \o y \in G
  <2> SUFFICES F2(F1(<<a>> \o y)) = F1(F2(<<a>> \o y))
    BY InFront
  <2>1. F2(F1(y)) = F1(F2(y)) /\ F1(y) \in Seq(T) /\ F2(y) \in Seq(T)
    BY <1>4, <1>5, <1>7
  <2>2. CASE a = c
    <3>1. F1(<<a>> \o y) = e1 \o F1(y) /\ F2(<<a>> \o y) = <<a>> \o F2(y)
      BY <1>4, <1>5, <2>2
    <3>2. F2(e1 \o F1(y)) = e1 \o F2(F1(y))
      BY <1>3, <2>1
    <3>3. F1(<<a>> \o F2(y)) = e1 \o F1(F2(y))
      BY <1>4, <2>1, <2>2
    <3> QED
      BY <2>1, <3>1, <3>2, <3>3
  <2>3. CASE a = d
    <3>1. F1(<<a>> \o y) = <<a>> \o F1(y) /\ F2(<<a>> \o y) = e2 \o F2(y)
      BY <1>4, <1>5, <2>3
    <3>2. F1(e2 \o F2(y)) = e2 \o F1(F2(y))
      BY <1>9, <2>1
    <3>3. F2(<<a>> \o F1(y)) = e2 \o F2(F1(y))
      BY <1>5, <2>1, <2>3
    <3> QED
      BY <2>1, <3>1, <3>2, <3>3
  <2>4. CASE a # c /\ a # d
    <3>1. F1(<<a>> \o y) = <<a>> \o F1(y) /\ F2(<<a>> \o y) = <<a>> \o F2(y)
      BY <1>4, <1>5, <2>4
    <3>2. F1(<<a>> \o F2(y)) = <<a>> \o F1(F2(y)) /\ F2(<<a>> \o F1(y)) = <<a>> \o F2(F1(y))
      BY <1>4, <1>5, <2>1, <2>4
    <3> QED
      BY <2>1, <3>1, <3>2
  <2> QED
    BY <2>2, <2>3, <2>4
<1>8. Seq(T) \subseteq G
  <2> HIDE DEF G
  <2> QED
    BY <1>6, <1>7, TextInduction
<1> QED
  BY <1>8 DEF F1, F2

\* unescape_url reads back what escape_url writes.
LEMMA EscapedRead ==
    ASSUME NEW T, NEW y \in Seq(T),
           "%" \in T, "3" \in T, "F" \in T, "2" \in T, "6" \in T, "?" \in T, "&" \in T,
           ~HasEscape(y)
    PROVE  UnescapeUrl(EscapeUrl(y)) = y
<1> DEFINE p == "%"
           three == "3"
           f == "F"
           two == "2"
           six == "6"
           c == "?"
           d == "&"
           e1 == <<p, three, f>>
           e2 == <<p, two, six>>
           F1(s) == ReplaceEvery(s, <<c>>, e1)
           F2(s) == ReplaceEvery(s, <<d>>, e2)
           B1(s) == ReplaceEvery(s, e1, <<c>>)
           B2(s) == ReplaceEvery(s, e2, <<d>>)
<1>1. /\ p \in T /\ three \in T /\ f \in T /\ two \in T /\ six \in T /\ c \in T /\ d \in T
      /\ three # p /\ f # p /\ two # p /\ six # p /\ two # three /\ c # d
      /\ p # d /\ three # d /\ f # d /\ p # c /\ two # c /\ six # c
  BY Zenon
<1>2. UnescapeUrl(EscapeUrl(y)) = B2(B1(F2(F1(y))))
  BY Zenon DEF UnescapeUrl, EscapeUrl
<1>3. Free(y, e1) /\ Free(y, e2)
  BY Zenon DEF HasEscape, Free
<1> HIDE DEF p, three, f, two, six, c, d
<1>4. F2(F1(y)) = F1(F2(y))
  <2>1. ThreeOthers(T, e1, d) /\ ThreeOthers(T, e2, c)
    BY <1>1 DEF ThreeOthers, Apart
  <2>2. e1 \in Seq(T) /\ e2 \in Seq(T)
    BY <1>1
  <2> HIDE DEF e1, e2
  <2>3. \A s \in Seq(T) : ReplaceEvery(ReplaceEvery(s, <<c>>, e1), <<d>>, e2)
                              = ReplaceEvery(ReplaceEvery(s, <<d>>, e2), <<c>>, e1)
    BY <1>1, <2>1, <2>2, Commute
  <2> QED
    BY <2>3
<1>5. Escape(T, p, three, f) /\ Escape(T, p, two, six)
  BY <1>1 DEF Escape
<1>6. Free(F2(y), e1)
  BY <1>1, <1>3, <1>5, StaysFree
<1>7. F2(y) \in Seq(T)
  <2>1. e2 \in Seq(T)
    BY <1>1
  <2> HIDE DEF e2
  <2>2. /\ \A a \in T, s \in Seq(T) : a # d =>
               ReplaceEvery(<<a>> \o s, <<d>>, e2) = <<a>> \o ReplaceEvery(s, <<d>>, e2)
        /\ \A s \in Seq(T) : ReplaceEvery(s, <<d>>, e2) \in Seq(T)
        /\ \A s \in Seq(T) :
               ReplaceEvery(<<d>> \o s, <<d>>, e2) = e2 \o ReplaceEvery(s, <<d>>, e2)
        /\ ReplaceEvery(<<>>, <<d>>, e2) = <<>>
    BY <1>1, <2>1, ReplaceOne
  <2> QED
    BY <2>2
<1>8. B1(F1(F2(y))) = F2(y)
  <2>1. \A s \in Seq(T) : Free(s, <<p, three, f>>) =>
            ReplaceEvery(ReplaceEvery(s, <<c>>, <<p, three, f>>), <<p, three, f>>, <<c>>) = s
    BY <1>1, <1>5, Undone
  <2> QED
    BY <1>6, <1>7, <2>1
<1>9. B2(F2(y)) = y
  <2>1. \A s \in Seq(T) : Free(s, <<p, two, six>>) =>
            ReplaceEvery(ReplaceEvery(s, <<d>>, <<p, two, six>>), <<p, two, six>>, <<d>>) = s
    BY <1>1, <1>5, Undone
  <2> QED
    BY <1>3, <2>1
<1> QED
  BY <1>2, <1>4, <1>8, <1>9

-----------------------------------------------------------------------------
(* What extract_filter and extract_quote find.                             *)

\* The text t is between the first two c of s, of which the first is its second character.
Between(s, t, c) ==
    /\ Len(s) >= Len(t) + 3 /\ s[1] # c /\ s[2] = c /\ s[Len(t) + 3] = c
    /\ \A i \in 1..Len(t) : s[i + 2] = t[i] /\ t[i] # c

\* FirstOf finds the two that t is between.
LEMMA BetweenIs ==
    ASSUME NEW T, NEW s \in Seq(T), NEW t \in Seq(T), NEW c, Between(s, t, c)
    PROVE  /\ FirstOf(s, {c}, 1) = 2 /\ FirstOf(s, {c}, 3) = Len(t) + 3
           /\ SubSeq(s, 3, Len(t) + 2) = t
<1> DEFINE n == Len(t)
<1>1. /\ Len(s) \in Nat /\ n \in Nat
      /\ Len(s) >= n + 3 /\ s[1] # c /\ s[2] = c /\ s[n + 3] = c
      /\ \A i \in 1..n : s[i + 2] = t[i] /\ t[i] # c
  BY LenProperties DEF Between
<1>2. FirstOf(s, {c}, 1) = 2
  <2>1. /\ 1 \in 1..Len(s) + 1 /\ 2 \in 1..Len(s) + 1
        /\ \A k \in 1..2 - 1 : s[k] \notin {c}
        /\ s[2] \in {c}
    BY <1>1
  <2> QED
    BY <1>1, <2>1, FirstOfAt
<1>3. FirstOf(s, {c}, 3) = n + 3
  <2>1. 3 \in 1..Len(s) + 1 /\ n + 3 \in 3..Len(s) + 1 /\ s[n + 3] \in {c}
    BY <1>1
  <2>2. ASSUME NEW k \in 3..n + 3 - 1 PROVE s[k] \notin {c}
    <3>1. k - 2 \in 1..n /\ (k - 2) + 2 = k
      BY <1>1
    <3> QED
      BY <1>1, <3>1
  <2> HIDE DEF n
  <2> QED
    BY <1>1, <2>1, <2>2, FirstOfAt
<1>4. SubSeq(s, 3, n + 2) = t
  <2> DEFINE u == SubSeq(s, 3, n + 2)
  <2>1. u \in Seq(T) /\ Len(u) = n /\ \A i \in 1..n : u[i] = s[3 + i - 1]
    BY <1>1
  <2>2. \A i \in 1..n : 3 + i - 1 = i + 2
    BY <1>1
  <2> HIDE DEF u
  <2>3. \A i \in 1..Len(u) : u[i] = t[i]
    BY <1>1, <2>1, <2>2
  <2> QED
    BY <2>1, <2>3, SeqEqual DEF u
<1> QED
  BY <1>2, <1>3, <1>4

\* A filter line.
LEMMA FilterRead ==
    ASSUME NEW T, NEW c \in T, NEW h \in T, h # c, NEW f \in Seq(T), NEW u \in Seq(T),
           \A i \in 1..Len(f) : f[i] # c, c = ":"
    PROVE  ExtractFilter(<<h, c>> \o f \o <<c>> \o u) = [filter |-> f, url |-> u]
<1> DEFINE s == <<h, c>> \o f \o <<c>> \o u
           n == Len(f)
<1>1. /\ s \in Seq(T) /\ n \in Nat /\ Len(u) \in Nat /\ Len(s) = n + 3 + Len(u)
      /\ s[1] = h /\ s[2] = c /\ s[n + 3] = c
      /\ \A i \in 1..n : s[i + 2] = f[i]
      /\ \A i \in 1..Len(u) : s[n + 3 + i] = u[i]
  OBVIOUS
<1> HIDE DEF s
<1>2. Between(s, f, c)
  BY <1>1 DEF Between
<1> HIDE DEF n
<1>3. FirstOf(s, {c}, 1) = 2 /\ FirstOf(s, {c}, 3) = n + 3 /\ SubSeq(s, 3, n + 2) = f
  BY <1>1, <1>2, BetweenIs DEF n
<1>4. SubSeq(s, n + 4, Len(s)) = u
  <2> DEFINE r == SubSeq(s, n + 4, Len(s))
  <2>1. n + 4 \in 1..Len(s) + 1 /\ Len(s) + 1 - (n + 4) = Len(u)
    BY <1>1
  <2>2. /\ r \in Seq(T) /\ Len(r) = Len(s) + 1 - (n + 4)
        /\ \A m \in 1..Len(s) + 1 - (n + 4) : r[m] = s[n + 4 + m - 1]
    BY <1>1, <2>1, RestIs DEF Rest
  <2> HIDE DEF r
  <2>3. ASSUME NEW m \in 1..Len(r) PROVE r[m] = u[m]
    <3>1. m \in 1..Len(u) /\ n + 4 + m - 1 = n + 3 + m
      BY <1>1, <2>1, <2>2
    <3> QED
      BY <1>1, <2>1, <2>2, <3>1
  <2>4. r = u
    BY <2>1, <2>2, <2>3, SeqEqual
  <2> QED
    BY <2>4 DEF r
<1>5. ExtractFilter(s) = [filter |-> f, url |-> u]
  <2> DEFINE pos == FirstOf(s, {c}, 1)
             pos1 == FirstOf(s, {c}, 3)
  <2>1. pos = 2 /\ pos1 = n + 3 /\ ~Ended(s, pos) /\ ~Ended(s, pos1) /\ pos + 1 = 3
        /\ pos1 - 1 = n + 2 /\ pos1 + 1 = n + 4
    BY <1>1, <1>3 DEF Ended
  <2>2. ExtractFilter(s) = [filter |-> SubSeq(s, 3, pos1 - 1),
                            url |-> SubSeq(s, pos1 + 1, Len(s))]
    BY <2>1 DEF ExtractFilter
  <2> QED
    BY <1>3, <1>4, <2>1, <2>2
<1> QED
  BY <1>5 DEF s

\* A text without the character that is replaced.
LEMMA NothingReplaced ==
    ASSUME NEW T, NEW c \in T, NEW to \in Seq(T)
    PROVE  \A y \in Seq(T) : (\A i \in 1..Len(y) : y[i] # c) => ReplaceEvery(y, <<c>>, to) = y
<1> DEFINE Lacks(y) == \A i \in 1..Len(y) : y[i] # c
           G == {y \in Seq(T) : Lacks(y) => ReplaceEvery(y, <<c>>, to) = y}
<1>1. /\ \A a \in T, s \in Seq(T) : a # c =>
             ReplaceEvery(<<a>> \o s, <<c>>, to) = <<a>> \o ReplaceEvery(s, <<c>>, to)
      /\ \A s \in Seq(T) : ReplaceEvery(s, <<c>>, to) \in Seq(T)
      /\ \A s \in Seq(T) :
             ReplaceEvery(<<c>> \o s, <<c>>, to) = to \o ReplaceEvery(s, <<c>>, to)
      /\ ReplaceEvery(<<>>, <<c>>, to) = <<>>
  BY ReplaceOne
<1>2. <<>> \in G
  BY <1>1, EmptySeq
<1>3. ASSUME NEW a \in T, NEW y \in Seq(T), y \in G PROVE <<a>> \o y \in G
  <2>1. /\ <<a>> \o y \in Seq(T) /\ Len(<<a>> \o y) = Len(y) + 1 /\ (<<a>> \o y)[1] = a
        /\ \A i \in 1..Len(y) : (<<a>> \o y)[i + 1] = y[i]
        /\ Rest(<<a>> \o y, 2) = y /\ Len(y) \in Nat
    BY InFront
  <2>2. ASSUME Lacks(<<a>> \o y) PROVE a # c /\ Lacks(y)
    <3> DEFINE s == <<a>> \o y
    <3>1. Len(s) = Len(y) + 1 /\ s[1] = a /\ \A i \in 1..Len(y) : s[i + 1] = y[i]
      BY <2>1
    <3>2. \A i \in 1..Len(s) : s[i] # c
      BY <2>2
    <3> HIDE DEF s
    <3>3. 1 \in 1..Len(s) /\ \A i \in 1..Len(y) : i + 1 \in 1..Len(s)
      BY <2>1, <3>1
    <3> QED
      BY <3>1, <3>2, <3>3
  <2> HIDE DEF Lacks
  <2>3. ASSUME Lacks(<<a>> \o y) PROVE ReplaceEvery(<<a>> \o y, <<c>>, to) = <<a>> \o y
    <3>1. a # c /\ ReplaceEvery(y, <<c>>, to) = y
      BY <1>3, <2>2, <2>3
    <3> QED
      BY <1>1, <3>1
  <2> QED
    BY <2>1, <2>3
<1>4. Seq(T) \subseteq G
  <2> HIDE DEF G
  <2> QED
    BY <1>2, <1>3, TextInduction
<1> QED
  BY <1>4

\* A quoted text without quotes.
LEMMA QuoteRead ==
    ASSUME NEW T, NEW q \in T, NEW a \in T, "backslash" \in T, a # q, q = "quote",
           NEW t \in Seq(T), \A i \in 1..Len(t) : t[i] # q
    PROVE  ExtractQuote(<<a>> \o Quote(t) \o <<a>>) = t
<1> DEFINE s == <<a>> \o (<<q>> \o t \o <<q>>) \o <<a>>
           n == Len(t)
<1>1. Quote(t) = <<q>> \o t \o <<q>>
  <2> DEFINE to == <<"backslash", q>>
  <2>1. to \in Seq(T)
    OBVIOUS
  <2>2. Quote(t) = <<q>> \o ReplaceEvery(t, <<q>>, to) \o <<q>>
    BY DEF Quote
  <2> HIDE DEF to
  <2>3. ReplaceEvery(t, <<q>>, to) = t
    BY <2>1, NothingReplaced
  <2> QED
    BY <2>2, <2>3
<1>2. /\ s \in Seq(T) /\ n \in Nat /\ Len(s) = n + 4
      /\ s[1] = a /\ s[2] = q /\ s[n + 3] = q
      /\ \A i \in 1..n : s[i + 2] = t[i]
  OBVIOUS
<1>3. <<a>> \o Quote(t) \o <<a>> = s
  BY <1>1
<1> HIDE DEF s
<1>4. Between(s, t, q)
  BY <1>2 DEF Between
<1> HIDE DEF n
<1>5. FirstOf(s, {q}, 1) = 2 /\ FirstOf(s, {q}, 3) = n + 3 /\ SubSeq(s, 3, n + 2) = t
  BY <1>2, <1>4, BetweenIs DEF n
<1>6. ExtractQuote(s) = t
  <2> DEFINE pos == FirstOf(s, {q}, 1)
             pos1 == FirstOf(s, {q}, 3)
  <2>1. pos = 2 /\ pos1 = n + 3 /\ ~Ended(s, pos) /\ ~Ended(s, pos1) /\ pos + 1 = 3
        /\ pos1 - 1 = n + 2
    BY <1>2, <1>5 DEF Ended
  <2>2. ExtractQuote(s) = SubSeq(s, 3, pos1 - 1)
    BY <2>1 DEF ExtractQuote
  <2> QED
    BY <1>5, <2>1, <2>2
<1> QED
  BY <1>3, <1>6

-----------------------------------------------------------------------------
(* What is between the quotes that quote puts around a text.               *)

\* A backslash is always before a quote, and before a quote is always a backslash.
Coded(b) ==
    \A m \in 1..Len(b) :
        /\ b[m] = "backslash" => m < Len(b) /\ b[m + 1] = "quote"
        /\ b[m] = "quote" => m > 1 /\ b[m - 1] = "backslash"

\* One more character in front.
LEMMA CodedFront ==
    ASSUME NEW T, NEW a \in T, NEW b \in Seq(T), Coded(b), a \notin {"quote", "backslash"}
    PROVE  Coded(<<a>> \o b)
<1> DEFINE s == <<a>> \o b
<1>1. /\ Len(s) = Len(b) + 1 /\ s[1] = a /\ Len(b) \in Nat
      /\ \A i \in 1..Len(b) : s[i + 1] = b[i]
  BY InFront
<1> HIDE DEF s
<1> SUFFICES ASSUME NEW m \in 1..Len(s)
             PROVE  /\ s[m] = "backslash" => m < Len(s) /\ s[m + 1] = "quote"
                    /\ s[m] = "quote" => m > 1 /\ s[m - 1] = "backslash"
  BY DEF Coded, s
<1>2. CASE m = 1
  BY <1>1, <1>2
<1>3. CASE m # 1
  <2> DEFINE k == m - 1
  <2>1. k \in 1..Len(b) /\ m = k + 1 /\ s[m] = b[k]
    BY <1>1, <1>3
  <2>2. /\ b[k] = "backslash" => k < Len(b) /\ b[k + 1] = "quote"
        /\ b[k] = "quote" => k > 1 /\ b[k - 1] = "backslash"
    BY <2>1 DEF Coded
  <2>3. k < Len(b) => m < Len(s) /\ s[m + 1] = b[k + 1]
    <3>1. k < Len(b) => k + 1 \in 1..Len(b) /\ (k + 1) + 1 = m + 1 /\ m < Len(s)
      BY <1>1, <2>1
    <3> QED
      BY <1>1, <3>1
  <2>4. k > 1 => m > 1 /\ s[m - 1] = b[k - 1]
    <3>1. k > 1 => k - 1 \in 1..Len(b) /\ (k - 1) + 1 = m - 1 /\ m > 1
      BY <1>1, <2>1
    <3> QED
      BY <1>1, <3>1
  <2> HIDE DEF k
  <2> QED
    BY <2>1, <2>2, <2>3, <2>4
<1> QED
  BY <1>2, <1>3

\* A quote with its backslash in front.
LEMMA CodedQuote ==
    ASSUME NEW T, NEW x \in T, NEW q \in T, NEW b \in Seq(T), Coded(b),
           x = "backslash", q = "quote"
    PROVE  Coded(<<x, q>> \o b)
<1> DEFINE s == <<x, q>> \o b
<1>1. /\ Len(s) = Len(b) + 2 /\ s[1] = x /\ s[2] = q /\ Len(b) \in Nat
      /\ \A i \in 1..Len(b) : s[i + 2] = b[i]
  BY LenProperties
<1> HIDE DEF s
<1> SUFFICES ASSUME NEW m \in 1..Len(s)
             PROVE  /\ s[m] = "backslash" => m < Len(s) /\ s[m + 1] = "quote"
                    /\ s[m] = "quote" => m > 1 /\ s[m - 1] = "backslash"
  BY DEF Coded, s
<1>2. CASE m = 1
  <2>1. m < Len(s) /\ m + 1 = 2
    BY <1>1, <1>2
  <2> QED
    BY <1>1, <1>2, <2>1
<1>3. CASE m = 2
  <2>1. m > 1 /\ m - 1 = 1
    BY <1>3
  <2> QED
    BY <1>1, <1>3, <2>1
<1>4. CASE m > 2
  <2> DEFINE k == m - 2
  <2>1. k \in 1..Len(b) /\ m = k + 2 /\ s[m] = b[k]
    BY <1>1, <1>4
  <2>2. /\ b[k] = "backslash" => k < Len(b) /\ b[k + 1] = "quote"
        /\ b[k] = "quote" => k > 1 /\ b[k - 1] = "backslash"
    BY <2>1 DEF Coded
  <2>3. k < Len(b) => m < Len(s) /\ s[m + 1] = b[k + 1]
    <3>1. k < Len(b) => k + 1 \in 1..Len(b) /\ (k + 1) + 2 = m + 1 /\ m < Len(s)
      BY <1>1, <2>1
    <3> QED
      BY <1>1, <3>1
  <2>4. k > 1 => m > 1 /\ s[m - 1] = b[k - 1]
    <3>1. k > 1 => k - 1 \in 1..Len(b) /\ (k - 1) + 2 = m - 1 /\ m > 1
      BY <1>1, <2>1
    <3> QED
      BY <1>1, <3>1
  <2> HIDE DEF k
  <2> QED
    BY <2>1, <2>2, <2>3, <2>4
<1> QED
  BY <1>1, <1>2, <1>3, <1>4

\* Two characters in front of a text, one by one.
LEMMA TwoInFront ==
    ASSUME NEW T, NEW p \in T, NEW x \in T, NEW y \in Seq(T)
    PROVE  <<p, x>> \o y = <<p>> \o (<<x>> \o y)
<1> DEFINE u == <<p, x>> \o y
           v == <<p>> \o (<<x>> \o y)
<1>1. /\ u \in Seq(T) /\ Len(u) = Len(y) + 2 /\ u[1] = p /\ u[2] = x
      /\ \A i \in 1..Len(y) : u[i + 2] = y[i]
  OBVIOUS
<1>2. /\ v \in Seq(T) /\ Len(v) = Len(y) + 2 /\ v[1] = p /\ v[2] = x
      /\ \A i \in 1..Len(y) : v[i + 2] = y[i]
  OBVIOUS
<1> HIDE DEF u, v
<1>3. ASSUME NEW i \in 1..Len(u) PROVE u[i] = v[i]
  <2>1. i \in {1, 2} \/ (i - 2 \in 1..Len(y) /\ (i - 2) + 2 = i)
    BY <1>1
  <2> QED
    BY <1>1, <1>2, <2>1
<1>4. u = v
  BY <1>1, <1>2, <1>3, SeqEqual
<1> QED
  BY <1>4 DEF u, v

\* The two characters of quoting.
Marks(x, q) == x = "backslash" /\ q = "quote"

\* What quote puts between its quotes is coded, and without backslashes it is the text.
LEMMA CodedIs ==
    ASSUME NEW T, NEW x \in T, NEW q \in T, Marks(x, q)
    PROVE  \A t \in Seq(T) : (\A i \in 1..Len(t) : t[i] # x) =>
               /\ Coded(ReplaceEvery(t, <<q>>, <<x, q>>))
               /\ Without(ReplaceEvery(t, <<q>>, <<x, q>>), {x}) = t
               /\ ReplaceEvery(t, <<q>>, <<x, q>>) \in Seq(T)
<1> DEFINE to == <<x, q>>
           F(s) == ReplaceEvery(s, <<q>>, to)
           Lacks(t) == \A i \in 1..Len(t) : t[i] # x
           G == {t \in Seq(T) : Lacks(t) => Coded(F(t)) /\ Without(F(t), {x}) = t}
<1>1. to \in Seq(T) /\ q # x
  BY DEF Marks
<1>2. /\ \A a \in T, s \in Seq(T) : a # q => F(<<a>> \o s) = <<a>> \o F(s)
      /\ \A s \in Seq(T) : F(s) \in Seq(T)
      /\ \A s \in Seq(T) : F(<<q>> \o s) = to \o F(s)
      /\ F(<<>>) = <<>>
  <2> HIDE DEF to
  <2>1. /\ \A a \in T, s \in Seq(T) : a # q =>
               ReplaceEvery(<<a>> \o s, <<q>>, to) = <<a>> \o ReplaceEvery(s, <<q>>, to)
        /\ \A s \in Seq(T) : ReplaceEvery(s, <<q>>, to) \in Seq(T)
        /\ \A s \in Seq(T) :
               ReplaceEvery(<<q>> \o s, <<q>>, to) = to \o ReplaceEvery(s, <<q>>, to)
        /\ ReplaceEvery(<<>>, <<q>>, to) = <<>>
    BY <1>1, ReplaceOne
  <2> QED
    BY <2>1
<1>3. \A b \in Seq(T) : Coded(b) => Coded(to \o b)
  BY CodedQuote DEF Marks
<1>4. \A a \in T, b \in Seq(T) :
          /\ Without(<<a>> \o b, {x}) = IF a \in {x} THEN Without(b, {x})
                                        ELSE <<a>> \o Without(b, {x})
          /\ Without(b, {x}) \in Seq(T)
  <2> DEFINE z == {x}
  <2> HIDE DEF z
  <2>1. ASSUME NEW a \in T, NEW b \in Seq(T)
        PROVE  /\ Without(<<a>> \o b, z) = IF a \in z THEN Without(b, z)
                                            ELSE <<a>> \o Without(b, z)
               /\ Without(b, z) \in Seq(T)
    BY WithoutCons
  <2> QED
    BY <2>1 DEF z
<1>5. \A b \in Seq(T) : Without(to \o b, {x}) = <<q>> \o Without(b, {x})
  <2> SUFFICES ASSUME NEW b \in Seq(T)
               PROVE  Without(to \o b, {x}) = <<q>> \o Without(b, {x})
    OBVIOUS
  <2>1. to \o b = <<x>> \o (<<q>> \o b)
    BY TwoInFront
  <2> DEFINE c == <<q>> \o b
  <2>2. c \in Seq(T)
    BY InFront
  <2>3. Without(c, {x}) = <<q>> \o Without(b, {x})
    BY <1>1, <1>4
  <2> HIDE DEF c
  <2>4. Without(<<x>> \o c, {x}) = Without(c, {x})
    BY <1>4, <2>2
  <2> QED
    BY <2>1, <2>3, <2>4 DEF c
<1> HIDE DEF F, to
<1>6. <<>> \in G
  <2>1. Coded(<<>>) /\ Without(<<>>, {x}) = <<>>
    BY WithoutNone DEF Coded
  <2> QED
    BY <1>2, <2>1, EmptySeq
<1>7. ASSUME NEW a \in T, NEW t \in Seq(T), t \in G PROVE <<a>> \o t \in G
  <2>1. /\ <<a>> \o t \in Seq(T) /\ Len(<<a>> \o t) = Len(t) + 1 /\ (<<a>> \o t)[1] = a
        /\ \A i \in 1..Len(t) : (<<a>> \o t)[i + 1] = t[i]
        /\ Rest(<<a>> \o t, 2) = t /\ Len(t) \in Nat
    BY InFront
  <2>2. ASSUME Lacks(<<a>> \o t) PROVE a # x /\ Lacks(t)
    <3> DEFINE s == <<a>> \o t
    <3>1. Len(s) = Len(t) + 1 /\ s[1] = a /\ \A i \in 1..Len(t) : s[i + 1] = t[i]
      BY <2>1
    <3>2. \A i \in 1..Len(s) : s[i] # x
      BY <2>2
    <3> HIDE DEF s
    <3>3. 1 \in 1..Len(s) /\ \A i \in 1..Len(t) : i + 1 \in 1..Len(s)
      BY <2>1, <3>1
    <3> QED
      BY <3>1, <3>2, <3>3
  <2> HIDE DEF Lacks
  <2>3. ASSUME Lacks(<<a>> \o t)
        PROVE  Coded(F(<<a>> \o t)) /\ Without(F(<<a>> \o t), {x}) = <<a>> \o t
    <3>1. a # x /\ Coded(F(t)) /\ Without(F(t), {x}) = t /\ F(t) \in Seq(T)
      BY <1>2, <1>7, <2>2, <2>3
    <3>2. CASE a = q
      <4>1. F(<<a>> \o t) = to \o F(t)
        BY <1>2, <3>2
      <4>2. Coded(to \o F(t)) /\ Without(to \o F(t), {x}) = <<q>> \o t
        BY <1>3, <1>5, <3>1
      <4> QED
        BY <3>2, <4>1, <4>2
    <3>3. CASE a # q
      <4>1. F(<<a>> \o t) = <<a>> \o F(t)
        BY <1>2, <3>3
      <4>2. Coded(<<a>> \o F(t))
        BY <3>1, <3>3, CodedFront DEF Marks
      <4>3. Without(<<a>> \o F(t), {x}) = <<a>> \o t
        BY <1>4, <3>1
      <4> QED
        BY <4>1, <4>2, <4>3
    <3> QED
      BY <3>2, <3>3
  <2> QED
    BY <2>1, <2>3
<1>8. Seq(T) \subseteq G
  <2> HIDE DEF G
  <2> QED
    BY <1>6, <1>7, TextInduction
<1> QED
  BY <1>2, <1>8 DEF F, to

-----------------------------------------------------------------------------
(* Reading what quote has written.                                         *)

\* Between the quotes at i and at pos every backslash is before a quote.
QuoteAt(s, i, pos) ==
    /\ i \in 1..Len(s) /\ pos \in i + 1..Len(s) /\ s[i] = "quote" /\ s[pos] = "quote"
    /\ \A k \in i + 1..pos - 1 :
           /\ s[k] = "backslash" => k < pos - 1 /\ s[k + 1] = "quote"
           /\ s[k] = "quote" => k > i + 1 /\ s[k - 1] = "backslash"

\* The quote at i ends at pos.
LEMMA QuoteEnds ==
    ASSUME NEW s, Len(s) \in Nat, NEW i, NEW pos, QuoteAt(s, i, pos)
    PROVE  EndQuote(s, i + 1) = pos
<1> DEFINE from == i + 1
           Before(k) == {j \in from..k - 1 : s[j] # "backslash"} \cup {from - 1}
           Backslashes(k) == (k - 1) - Max(Before(k))
           S == {k \in from..Len(s) : s[k] = "quote" /\ Backslashes(k) % 2 = 0}
                \cup {Len(s) + 1}
<1>1. /\ i \in 1..Len(s) /\ pos \in from..Len(s) /\ s[pos] = "quote" /\ from = i + 1
      /\ \A k \in from..pos - 1 :
             /\ s[k] = "backslash" => k < pos - 1 /\ s[k + 1] = "quote"
             /\ s[k] = "quote" => k > from /\ s[k - 1] = "backslash"
  BY DEF QuoteAt
<1>2. EndQuote(s, i + 1) = Min(S)
  BY DEF EndQuote
<1> HIDE DEF from
<1>3. ASSUME NEW k \in from..pos - 1, s[k] = "quote" PROVE Backslashes(k) % 2 # 0
  <2> DEFINE B == Before(k)
  <2>1. k > from /\ s[k - 1] = "backslash"
    BY <1>1, <1>3
  <2>2. k - 2 \in from..pos - 1 => s[k - 2] # "backslash"
    <3> SUFFICES ASSUME k - 2 \in from..pos - 1, s[k - 2] = "backslash" PROVE FALSE
      OBVIOUS
    <3>1. s[(k - 2) + 1] = "quote" /\ (k - 2) + 1 = k - 1
      BY <1>1
    <3> QED
      BY <2>1, <3>1
  <2>3. k - 2 \in B
    <3>1. k - 2 = from - 1 \/ (k - 2 \in from..k - 1 /\ k - 2 \in from..pos - 1)
      BY <1>1, <2>1
    <3> QED
      BY <2>2, <3>1
  <2>4. B \in SUBSET Int /\ \A y \in B : y <= k - 2
    <3>1. \A y \in from..k - 1 : s[y] # "backslash" => y <= k - 2
      BY <1>1, <2>1
    <3> QED
      BY <1>1, <2>1, <3>1
  <2> HIDE DEF B
  <2>5. Max(B) = k - 2
    BY <2>3, <2>4, MaxIs
  <2>6. Backslashes(k) = 1
    BY <1>1, <2>5 DEF B
  <2> HIDE DEF Backslashes
  <2> QED
    BY <2>6
<1>4. Backslashes(pos) % 2 = 0
  <2> DEFINE B == Before(pos)
  <2>1. pos - 1 \in from..pos - 1 => s[pos - 1] # "backslash"
    BY <1>1
  <2>2. pos - 1 \in B
    <3>1. pos - 1 = from - 1 \/ pos - 1 \in from..pos - 1
      BY <1>1
    <3> QED
      BY <2>1, <3>1
  <2>3. B \in SUBSET Int /\ \A y \in B : y <= pos - 1
    BY <1>1
  <2> HIDE DEF B
  <2>4. Max(B) = pos - 1
    BY <2>2, <2>3, MaxIs
  <2>5. Backslashes(pos) = 0
    BY <1>1, <2>4 DEF B
  <2> HIDE DEF Backslashes
  <2> QED
    BY <2>5
<1> HIDE DEF Backslashes
<1>5. pos \in S /\ S \in SUBSET Int /\ \A y \in S : pos <= y
  <2>1. pos \in S /\ S \in SUBSET Int
    BY <1>1, <1>4
  <2>2. \A y \in from..Len(s) : s[y] = "quote" /\ Backslashes(y) % 2 = 0 => pos <= y
    <3>1. \A y \in from..Len(s) : y \in from..pos - 1 \/ pos <= y
      BY <1>1
    <3> QED
      BY <1>3, <3>1
  <2> QED
    BY <1>1, <2>1, <2>2
<1> HIDE DEF S
<1>6. Min(S) = pos
  BY <1>5, MinIs
<1> QED
  BY <1>2, <1>6

\* There is no pair of backslashes in it.
LEMMA QuotePairs ==
    ASSUME NEW s, Len(s) \in Nat, NEW i, NEW pos, QuoteAt(s, i, pos)
    PROVE  /\ \A k \in i + 1..pos - 1 : s[k] = "backslash" => s[k - 1] # "backslash"
           /\ Attach(s, i + 1, pos, TRUE) = TRUE
<1>1. /\ i \in 1..Len(s) /\ pos \in i + 1..Len(s) /\ s[i] = "quote"
      /\ \A k \in i + 1..pos - 1 : s[k] = "backslash" => s[k + 1] = "quote"
  BY DEF QuoteAt
<1>2. ASSUME NEW k \in i + 1..pos - 1, s[k] = "backslash", s[k - 1] = "backslash"
      PROVE  FALSE
  <2>1. CASE k = i + 1
    <3>1. k - 1 = i
      BY <1>1, <2>1
    <3> QED
      BY <1>1, <1>2, <3>1
  <2>2. CASE k # i + 1
    <3>1. k - 1 \in i + 1..pos - 1 /\ (k - 1) + 1 = k
      BY <1>1, <2>2
    <3> QED
      BY <1>1, <1>2, <3>1
  <2> QED
    BY <2>1, <2>2
<1>3. Attach(s, i + 1, pos, TRUE) = TRUE
  <2> DEFINE pairs == {j \in i + 1..pos - 1 : s[j] = "backslash" /\ s[j - 1] = "backslash"}
  <2>1. pairs = {}
    BY <1>2
  <2> HIDE DEF pairs
  <2>2. Cardinality(pairs) % 2 = 0
    BY <2>1, FS_EmptySet
  <2>3. Attach(s, i + 1, pos, TRUE) = (TRUE = (Cardinality(pairs) % 2 = 0))
    BY DEF Attach, pairs
  <2> QED
    BY <2>2, <2>3
<1> QED
  BY <1>2, <1>3

\* What is read is what is between the quotes, without the backslashes.
LEMMA QuoteReads ==
    ASSUME NEW T, NEW s \in Seq(T), NEW b \in Seq(T), NEW i, QuoteAt(s, i, i + 1 + Len(b)),
           \A m \in 1..Len(b) : s[i + m] = b[m]
    PROVE  Unquoted(s, i + 1, i + 1 + Len(b), TRUE) = Without(b, {"backslash"})
<1> DEFINE from == i + 1
           n == Len(b)
           pos == i + 1 + n
           Read(k) == CASE s[k] = "backslash" /\ s[k - 1] = "backslash" ->
                               IF Attach(s, from, k, TRUE) THEN <<"backslash">> ELSE <<>>
                        [] s[k] = "backslash" /\ s[k - 1] # "backslash" -> <<>>
                        [] s[k] # "backslash" /\ s[k - 1] = "backslash" ->
                               AppendEscapes(<<>>, s[k])
                        [] OTHER -> <<s[k]>>
           step == [k \in from..pos - 1 |-> [part |-> Read(k), next |-> k + 1]]
           U == Along(from..pos, step)
           z == {"backslash"}
           L == LeftFrom(b, z)
           G == {m \in 1..n + 1 : U[i + m] = L[m]}
<1>1. /\ i \in 1..Len(s) /\ s[i] = "quote" /\ n \in Nat /\ Len(s) \in Nat
      /\ \A k \in from..pos - 1 : s[k] = "backslash" => s[k + 1] = "quote"
  BY LenProperties DEF QuoteAt
<1>2. Unquoted(s, i + 1, pos, TRUE) = U[from]
  BY DEF Unquoted
<1>3. ASSUME NEW k \in from..pos - 1
      PROVE  Read(k) = IF s[k] = "backslash" THEN <<>> ELSE <<s[k]>>
  <2>1. s[k] = "backslash" => s[k - 1] # "backslash"
    BY <1>1, QuotePairs, SMTT(40)
  <2>2. s[k - 1] = "backslash" => s[k] = "quote"
    <3>1. k - 1 = i \/ (k - 1 \in from..pos - 1 /\ (k - 1) + 1 = k)
      BY <1>1
    <3> QED
      BY <1>1, <3>1
  <2>3. AppendEscapes(<<>>, "quote") = <<"quote">>
    BY DEF AppendEscapes
  <2> QED
    BY <2>1, <2>2, <2>3
<1>4. DOMAIN step = from..pos - 1
  OBVIOUS
<1>5. \A k \in from..pos - 1 : step[k].part = Read(k) /\ step[k].next = k + 1
  OBVIOUS
<1> HIDE DEF Read, step
<1>6. Forward(from, pos, step)
  <2>1. from \in Int /\ pos \in Int /\ from..pos - 1 \subseteq from..pos
    BY <1>1
  <2>2. \A k \in from..pos - 1 : k + 1 \in k + 1..pos
    BY <1>1
  <2> QED
    BY <1>4, <1>5, <2>1, <2>2 DEF Forward
<1>7. Found(U, from..pos, step)
  BY <1>6, AlongRow
<1> HIDE DEF U
<1>8. U[pos] = <<>>
  <2>1. pos \in from..pos /\ pos \notin from..pos - 1
    BY <1>1
  <2> QED
    BY <1>4, <1>7, <2>1 DEF Found
<1>9. ASSUME NEW k \in from..pos - 1 PROVE U[k] = Read(k) \o U[k + 1]
  <2>1. k \in from..pos
    BY <1>1
  <2>2. U[k] = step[k].part \o U[step[k].next]
    BY <1>4, <1>7, <2>1 DEF Found
  <2> QED
    BY <1>5, <2>2
<1>10. /\ Without(b, z) = L[1] /\ L[n + 1] = <<>>
       /\ \A m \in 1..n + 1 : L[m] \in Seq(T)
       /\ \A m \in 1..n : L[m] = IF b[m] \in z THEN L[m + 1] ELSE <<b[m]>> \o L[m + 1]
  <2> HIDE DEF z
  <2> QED
    BY LeftFromIs
<1> HIDE DEF L
<1>11. ASSUME NEW m \in 1..n + 1, \A j \in m + 1..n + 1 : j \in G PROVE m \in G
  <2>1. CASE m = n + 1
    <3>1. i + m = pos
      BY <1>1, <2>1
    <3> QED
      BY <1>8, <1>10, <2>1, <3>1
  <2>2. CASE m \in 1..n
    <3>1. m + 1 \in m + 1..n + 1 /\ i + m \in from..pos - 1 /\ i + (m + 1) = (i + m) + 1
      BY <1>1, <2>2
    <3>2. U[(i + m) + 1] = L[m + 1]
      BY <1>11, <3>1
    <3>3. s[i + m] = b[m]
      BY <2>2
    <3>4. U[i + m] = Read(i + m) \o L[m + 1]
      BY <1>9, <3>1, <3>2
    <3>5. Read(i + m) = IF b[m] = "backslash" THEN <<>> ELSE <<b[m]>>
      BY <1>3, <3>1, <3>3
    <3>6. L[m] = IF b[m] = "backslash" THEN L[m + 1] ELSE <<b[m]>> \o L[m + 1]
      BY <1>10, <2>2
    <3>7. L[m + 1] \in Seq(T)
      BY <1>1, <1>10, <3>1
    <3>8. <<>> \o L[m + 1] = L[m + 1]
      BY <3>7, ConcatEmptySeq
    <3> QED
      BY <3>4, <3>5, <3>6, <3>8
  <2> QED
    BY <1>1, <2>1, <2>2
<1>12. \A m \in 1..n + 1 : m \in G
  <2>1. 1 \in Int /\ n + 1 \in Int
    BY <1>1
  <2> HIDE DEF G
  <2> QED
    BY <1>11, <2>1, CountDown
<1>13. 1 \in 1..n + 1 /\ i + 1 = from
  BY <1>1
<1>14. U[from] = L[1]
  BY <1>12, <1>13
<1> QED
  BY <1>2, <1>10, <1>14

-----------------------------------------------------------------------------
(* tokenize_quoted reads what quote and quote_if_necessary write.          *)

\* What tokenize_quoted reads from the first token on that begins at i or later.
ReadFrom(s, d) == [i \in 1..Len(s) + 1 |-> QuotedFrom(s, d)[<<FirstNotOf(s, d, i), TRUE>>]]

\* It reads nothing at the end, and skips delimiters.
LEMMA ReadFromIs ==
    ASSUME NEW T, NEW s \in Seq(T), NEW d
    PROVE  /\ TokenizeQuoted(s, d) = ReadFrom(s, d)[1]
           /\ Skips(s, d, ReadFrom(s, d))
<1> DEFINE n == Len(s)
           V == ReadFrom(s, d)
<1>1. n \in Nat /\ 1 \in 1..n + 1 /\ n + 1 \in 1..n + 1
  BY LenProperties
<1>2. \A i \in 1..n + 1 : V[i] = QuotedFrom(s, d)[<<FirstNotOf(s, d, i), TRUE>>]
  BY DEF ReadFrom
<1>3. /\ TokenizeQuoted(s, d) = QuotedFrom(s, d)[<<FirstNotOf(s, d, 1), TRUE>>]
      /\ \A attach \in BOOLEAN : QuotedFrom(s, d)[<<n + 1, attach>>] = <<>>
  BY <1>1, QuotedFromIs
<1> HIDE DEF V
<1>4. V[n + 1] = <<>>
  <2>1. FirstNotOf(s, d, n + 1) = n + 1
    BY <1>1, NoneAtEnd
  <2> QED
    BY <1>1, <1>2, <1>3, <2>1
<1>5. ASSUME NEW e \in 1..n, s[e] \in d PROVE V[e] = V[e + 1]
  <2>1. FirstNotOf(s, d, e) = FirstNotOf(s, d, e + 1)
    BY <1>1, <1>5, FirstNotOfStep
  <2>2. e \in 1..n + 1 /\ e + 1 \in 1..n + 1
    BY <1>1
  <2> QED
    BY <1>2, <2>1, <2>2
<1>6. Skips(s, d, V)
  BY <1>4, <1>5 DEF Skips
<1> QED
  BY <1>1, <1>2, <1>3, <1>6 DEF V

\* At i tokenize_quoted reads t and goes on behind e.
StepIs(s, d, i, t, e) ==
    /\ i \in 1..Len(s) /\ s[i] \notin d /\ s[i] # "#"
    /\ QuotedStep(s, d, i, TRUE).part = <<t>>
    /\ QuotedStep(s, d, i, TRUE).next = <<FirstNotOf(s, d, e), TRUE>>

\* One step of tokenize_quoted, from a token's first character to the next place.
LEMMA ReadStep ==
    ASSUME NEW T, NEW s \in Seq(T), NEW d, NEW i, NEW t, NEW e \in 1..Len(s) + 1,
           StepIs(s, d, i, t, e)
    PROVE  ReadFrom(s, d)[i] = <<t>> \o ReadFrom(s, d)[e]
<1>5. /\ i \in 1..Len(s) /\ s[i] \notin d /\ s[i] # "#"
      /\ QuotedStep(s, d, i, TRUE).part = <<t>>
      /\ QuotedStep(s, d, i, TRUE).next = <<FirstNotOf(s, d, e), TRUE>>
  BY DEF StepIs
<1>1. Len(s) \in Nat /\ i \in 1..Len(s) + 1
  BY <1>5, LenProperties
<1>2. /\ ReadFrom(s, d)[i] = QuotedFrom(s, d)[<<FirstNotOf(s, d, i), TRUE>>]
      /\ ReadFrom(s, d)[e] = QuotedFrom(s, d)[<<FirstNotOf(s, d, e), TRUE>>]
  BY <1>1 DEF ReadFrom
<1>3. FirstNotOf(s, d, i) = i
  BY <1>1, <1>5, FirstNotOfStep
<1>4. QuotedFrom(s, d)[<<i, TRUE>>] = QuotedStep(s, d, i, TRUE).part
                                      \o QuotedFrom(s, d)[QuotedStep(s, d, i, TRUE).next]
  BY <1>1, <1>5, QuotedFromIs
<1> QED
  BY <1>2, <1>3, <1>4, <1>5

\* A word that tokenize_quoted reads as it is.
Bare(w, d) == IsWord(w, d) /\ w[1] \notin {"quote", "#"}

\* A word that begins with neither a quote nor a # is read as it is.
LEMMA BareReads ==
    ASSUME NEW T, NEW s \in Seq(T), NEW d, NEW w \in Seq(T), Bare(w, d)
    PROVE  ReadsAs(T, s, d, ReadFrom(s, d), w, w)
<1> SUFFICES ASSUME NEW i \in 1..Len(s) + 1, NEW r \in Seq(T), Ahead(s, i, w, r), Stops(r, d)
             PROVE  ReadFrom(s, d)[i] = <<w>> \o ReadFrom(s, d)[i + Len(w)]
  BY DEF ReadsAs
<1> DEFINE e == i + Len(w)
<1>1. /\ i \in 1..Len(s) /\ s[i] = w[1] /\ s[i] \notin d
      /\ EndOf(s, d, i) = i + Len(w) /\ Token(s, d, i) = w
      /\ i + Len(w) \in i + 1..Len(s) + 1 /\ Rest(s, i + Len(w)) = r
  <2>1. WordAhead(s, d, i, w, r)
    BY DEF WordAhead, Bare
  <2> QED
    BY <2>1, WordAt
<1>2. e \in 1..Len(s) + 1 /\ NextTo(s, d, i) = FirstNotOf(s, d, e)
  <2>1. e \in 1..Len(s) + 1
    BY <1>1
  <2>2. NextTo(s, d, i) = FirstNotOf(s, d, EndOf(s, d, i))
    BY DEF NextTo, EndOf
  <2> QED
    BY <1>1, <2>1, <2>2
<1> DEFINE z == QuotedStep(s, d, i, TRUE)
           x == <<NextTo(s, d, i), TRUE>>
<1>3. z = [part |-> <<Token(s, d, i)>>, next |-> x]
  BY <1>1 DEF QuotedStep, Bare
<1> HIDE DEF z, x, e
<1>4. z.part = <<w>> /\ z.next = x
  BY <1>1, <1>3
<1>5. QuotedStep(s, d, i, TRUE).part = <<w>>
      /\ QuotedStep(s, d, i, TRUE).next = <<FirstNotOf(s, d, e), TRUE>>
  BY <1>2, <1>4 DEF z, x
<1>6. StepIs(s, d, i, w, e)
  BY <1>1, <1>5 DEF StepIs, Bare
<1>7. ReadFrom(s, d)[i] = <<w>> \o ReadFrom(s, d)[e]
  BY <1>2, <1>6, ReadStep
<1> QED
  BY <1>7 DEF e

\* The text b is between a quote at i and another one.
Around(s, i, b) ==
    /\ i \in 1..Len(s) /\ i + 1 + Len(b) \in 1..Len(s)
    /\ s[i] = "quote" /\ s[i + 1 + Len(b)] = "quote"
    /\ \A m \in 1..Len(b) : s[i + m] = b[m]

\* Then the quote at i ends at the other one, if b is coded.
LEMMA CodedAround ==
    ASSUME NEW s, NEW b, Len(s) \in Nat, Len(b) \in Nat, Coded(b), NEW i, Around(s, i, b)
    PROVE  QuoteAt(s, i, i + 1 + Len(b))
<1> DEFINE n == Len(b)
           pos == i + 1 + n
<1>1. /\ i \in 1..Len(s) /\ pos \in 1..Len(s) /\ s[i] = "quote" /\ s[pos] = "quote"
      /\ \A m \in 1..n : s[i + m] = b[m]
      /\ n \in Nat /\ i \in Int
  BY DEF Around
<1>2. ASSUME NEW k \in i + 1..pos - 1
      PROVE  /\ s[k] = "backslash" => k < pos - 1 /\ s[k + 1] = "quote"
             /\ s[k] = "quote" => k > i + 1 /\ s[k - 1] = "backslash"
  <2> DEFINE m == k - i
  <2>1. m \in 1..n /\ i + m = k
    BY <1>1
  <2>2. /\ m < n => m + 1 \in 1..n /\ i + (m + 1) = k + 1 /\ k < pos - 1
        /\ m > 1 => m - 1 \in 1..n /\ i + (m - 1) = k - 1 /\ k > i + 1
    BY <1>1, <2>1
  <2> HIDE DEF m, pos
  <2>3. /\ b[m] = "backslash" => m < n /\ b[m + 1] = "quote"
        /\ b[m] = "quote" => m > 1 /\ b[m - 1] = "backslash"
    BY <2>1 DEF Coded
  <2>4. s[k] = b[m]
    BY <1>1, <2>1
  <2>5. m < n => s[k + 1] = b[m + 1]
    BY <1>1, <2>2
  <2>6. m > 1 => s[k - 1] = b[m - 1]
    BY <1>1, <2>2
  <2> QED
    BY <2>2, <2>3, <2>4, <2>5, <2>6
<1>3. pos \in i + 1..Len(s)
  BY <1>1
<1> HIDE DEF pos
<1>4. QuoteAt(s, i, pos)
  BY <1>1, <1>2, <1>3 DEF QuoteAt
<1> QED
  BY <1>4 DEF pos

Lacks(t, x) == \A i \in 1..Len(t) : t[i] # x

\* A quoted text without backslashes is read as the text.
LEMMA QuotedReads ==
    ASSUME NEW T, NEW s \in Seq(T), NEW d, NEW x \in T, NEW q \in T, Marks(x, q), q \notin d,
           NEW t \in Seq(T), Lacks(t, x)
    PROVE  /\ Quote(t) \in Seq(T)
           /\ ReadsAs(T, s, d, ReadFrom(s, d), Quote(t), t)
<1> DEFINE w == Quote(t)
           b == ReplaceEvery(t, <<q>>, <<x, q>>)
           n == Len(b)
<1>1. Coded(b) /\ Without(b, {x}) = t /\ b \in Seq(T)
  <2>1. \A y \in Seq(T) : (\A i \in 1..Len(y) : y[i] # x) =>
               /\ Coded(ReplaceEvery(y, <<q>>, <<x, q>>))
               /\ Without(ReplaceEvery(y, <<q>>, <<x, q>>), {x}) = y
               /\ ReplaceEvery(y, <<q>>, <<x, q>>) \in Seq(T)
    BY CodedIs
  <2> QED
    BY <2>1 DEF Lacks
<1>2. w = (<<q>> \o b) \o <<q>>
  BY DEF Quote, Marks
<1> HIDE DEF b, w
<1>3. /\ w \in Seq(T) /\ n \in Nat /\ Len(w) = n + 2 /\ w[1] = q /\ w[n + 2] = q
      /\ \A m \in 1..n : w[m + 1] = b[m]
  BY <1>1, <1>2
<1>4. ASSUME NEW i \in 1..Len(s) + 1, NEW r \in Seq(T), Ahead(s, i, w, r)
      PROVE  ReadFrom(s, d)[i] = <<t>> \o ReadFrom(s, d)[i + Len(w)]
  <2> DEFINE pos == i + 1 + n
             e == i + Len(w)
  <2>1. /\ e \in 1..Len(s) + 1
        /\ \A m \in 1..Len(w) : s[i + m - 1] = w[m]
    BY <1>3, <1>4, RestSplits
  <2>2. Len(s) \in Nat /\ pos + 1 = e /\ i \in 1..Len(s) /\ pos \in 1..Len(s)
    BY <1>3, <2>1, LenProperties
  <2>3. Around(s, i, b)
    <3>1. s[i] = q
      <4>1. 1 \in 1..Len(w) /\ i + 1 - 1 = i
        BY <1>3
      <4> QED
        BY <1>3, <2>1, <4>1
    <3>2. s[pos] = q
      <4>1. n + 2 \in 1..Len(w) /\ i + (n + 2) - 1 = pos
        BY <1>3
      <4> QED
        BY <1>3, <2>1, <4>1
    <3>3. ASSUME NEW m \in 1..n PROVE s[i + m] = b[m]
      <4>1. m + 1 \in 1..Len(w) /\ i + (m + 1) - 1 = i + m
        BY <1>3
      <4>2. s[i + (m + 1) - 1] = w[m + 1]
        BY <2>1, <4>1
      <4> QED
        BY <1>3, <4>1, <4>2
    <3> QED
      BY <2>2, <3>1, <3>2, <3>3 DEF Around, Marks
  <2>4. QuoteAt(s, i, i + 1 + Len(b))
    BY <1>1, <1>3, <2>2, <2>3, CodedAround
  <2>5. /\ EndQuote(s, i + 1) = pos
        /\ Attach(s, i + 1, pos, TRUE) = TRUE
    BY <2>2, <2>4, QuoteEnds, QuotePairs
  <2>6. Unquoted(s, i + 1, pos, TRUE) = t
    <3>1. \A m \in 1..Len(b) : s[i + m] = b[m]
      BY <2>3 DEF Around
    <3>2. Unquoted(s, i + 1, i + 1 + Len(b), TRUE) = Without(b, {"backslash"})
      BY <1>1, <2>4, <3>1, QuoteReads
    <3> QED
      BY <1>1, <3>2 DEF Marks
  <2>7. s[i] = "quote"
    BY <2>3 DEF Around
  <2>8. StepIs(s, d, i, t, e)
    <3> DEFINE z == QuotedStep(s, d, i, TRUE)
               y == <<FirstNotOf(s, d, pos + 1), Attach(s, i + 1, pos, TRUE)>>
    <3>1. z = [part |-> <<Unquoted(s, i + 1, pos, TRUE)>>, next |-> y]
      BY <2>5, <2>7 DEF QuotedStep
    <3>2. y = <<FirstNotOf(s, d, e), TRUE>>
      BY <2>2, <2>5
    <3> HIDE DEF z, y, e, pos
    <3>3. z.part = <<t>> /\ z.next = y
      BY <2>6, <3>1
    <3>4. /\ QuotedStep(s, d, i, TRUE).part = <<t>>
          /\ QuotedStep(s, d, i, TRUE).next = <<FirstNotOf(s, d, e), TRUE>>
      BY <3>2, <3>3 DEF z
    <3>5. s[i] \notin d /\ s[i] # "#"
      BY <2>7 DEF Marks
    <3> QED
      BY <2>2, <3>4, <3>5 DEF StepIs
  <2> HIDE DEF e, pos
  <2>10. e \in 1..Len(s) + 1
    BY <2>1
  <2>9. ReadFrom(s, d)[i] = <<t>> \o ReadFrom(s, d)[e]
    BY <2>8, <2>10, ReadStep
  <2> QED
    BY <2>9 DEF e
<1>5. ReadsAs(T, s, d, ReadFrom(s, d), w, t)
  BY <1>4 DEF ReadsAs
<1> QED
  BY <1>3, <1>5 DEF w

\* What is joined with a delimiter is read back, if each part of it is.
LEMMA WrittenRead ==
    ASSUME NEW T, NEW d, NEW b \in T, b \in d, NEW ws \in Seq(Seq(T)), NEW ts \in Seq(Seq(T)),
           AllRead(T, Join(ws, <<b>>), d, ReadFrom(Join(ws, <<b>>), d), ws, ts)
    PROVE  TokenizeQuoted(Join(ws, <<b>>), d) = ts
<1> DEFINE s == Join(ws, <<b>>)
           V == ReadFrom(s, d)
<1>1. s \in Seq(T)
  <2> DEFINE x == <<b>>
  <2>1. x \in Seq(T)
    OBVIOUS
  <2> HIDE DEF x
  <2>2. Join(ws, x) \in Seq(T)
    BY <2>1, JoinType
  <2> QED
    BY <2>2 DEF x
<1> HIDE DEF s
<1>2. TokenizeQuoted(s, d) = V[1] /\ Skips(s, d, V)
  BY <1>1, ReadFromIs
<1>3. AllRead(T, s, d, V, ws, ts)
  BY DEF s
<1> HIDE DEF V
<1>4. V[1] = ts
  BY <1>2, <1>3, JoinedRead DEF s
<1> QED
  BY <1>2, <1>4 DEF s

\* The characters of quoting.
LEMMA MarksAre ==
    /\ Marks("backslash", "quote") /\ "backslash" \in Chars /\ "quote" \in Chars
    /\ "quote" \notin Blanks /\ Blank \in Chars /\ Blank \in Blanks
<1>1. "quote" # Blank
  BY Zenon DEF Blank
<1>2. Blanks = {Blank, "cr", "nl", "tab"}
  BY BlanksAre
<1>3. "quote" \notin Blanks /\ Blank \in Blanks
  BY <1>1, <1>2
<1> QED
  BY <1>3, BlanksAre DEF Marks, Chars, TextChars

\* The lists that quote and quote_if_necessary write.
AllQuoted(ss) == [k \in DOMAIN ss |-> Quote(ss[k])]
AllWritten(ss) == [k \in DOMAIN ss |-> QuoteIfNecessary(ss[k])]

\* A quoted text of this module's characters.
LEMMA QuotableReads ==
    ASSUME NEW s \in Seq(Chars), NEW t \in Seq(Chars), Quotable(t)
    PROVE  /\ Quote(t) \in Seq(Chars)
           /\ ReadsAs(Chars, s, Blanks, ReadFrom(s, Blanks), Quote(t), t)
<1> DEFINE x == "backslash"
           q == "quote"
<1>1. Marks(x, q) /\ x \in Chars /\ q \in Chars /\ q \notin Blanks
  BY MarksAre
<1>2. Lacks(t, x)
  <2>1. \A i \in DOMAIN t : t[i] \in ToSet(t)
    BY DEF ToSet
  <2>2. DOMAIN t = 1..Len(t)
    OBVIOUS
  <2> QED
    BY <2>1, <2>2 DEF Lacks, Quotable
<1> HIDE DEF x, q
<1> QED
  BY <1>1, <1>2, QuotedReads

\* Any list of texts without backslashes is read back when each is quoted.
LEMMA QuotedList ==
    ASSUME NEW ss \in Seq(Seq(Chars)), \A k \in DOMAIN ss : Quotable(ss[k])
    PROVE  TokenizeQuoted(Join(AllQuoted(ss), <<Blank>>), Blanks) = ss
<1> DEFINE ws == AllQuoted(ss)
           J == Join(ws, <<Blank>>)
<1>1. /\ DOMAIN ss = 1..Len(ss) /\ Len(ss) \in Nat /\ <<>> \in Seq(Chars)
      /\ \A k \in 1..Len(ss) : ss[k] \in Seq(Chars) /\ Quotable(ss[k])
  BY ElementOfSeq, LenProperties, EmptySeq
<1>2. ASSUME NEW s \in Seq(Chars), NEW k \in 1..Len(ss)
      PROVE  /\ Quote(ss[k]) \in Seq(Chars)
             /\ ReadsAs(Chars, s, Blanks, ReadFrom(s, Blanks), Quote(ss[k]), ss[k])
  BY <1>1, QuotableReads
<1>3. /\ ws \in Seq(Seq(Chars)) /\ Len(ws) = Len(ss)
      /\ \A k \in 1..Len(ws) : ws[k] = Quote(ss[k])
  <2>1. \A k \in 1..Len(ss) : Quote(ss[k]) \in Seq(Chars)
    BY <1>1, <1>2
  <2>2. ws = [k \in 1..Len(ss) |-> Quote(ss[k])]
    BY <1>1 DEF AllQuoted
  <2> QED
    BY <1>1, <2>1, <2>2
<1>4. J \in Seq(Chars)
  <2> DEFINE b == <<Blank>>
  <2>1. b \in Seq(Chars)
    BY MarksAre
  <2> HIDE DEF ws, b
  <2>2. Join(ws, b) \in Seq(Chars)
    BY <1>3, <2>1, JoinType
  <2> QED
    BY <2>2 DEF b
<1> HIDE DEF ws, J
<1>5. AllRead(Chars, J, Blanks, ReadFrom(J, Blanks), ws, ss)
  BY <1>2, <1>3, <1>4 DEF AllRead
<1>6. TokenizeQuoted(Join(ws, <<Blank>>), Blanks) = ss
  BY <1>3, <1>5, MarksAre, WrittenRead DEF J
<1> QED
  BY <1>6 DEF ws

\* A text that is quoted if necessary: it has a space, or no delimiter at all.
LEMMA BareReadsBack ==
    ASSUME NEW s \in Seq(Chars), NEW t \in Seq(Chars), BareOrQuotable(t)
    PROVE  /\ QuoteIfNecessary(t) \in Seq(Chars)
           /\ ReadsAs(Chars, s, Blanks, ReadFrom(s, Blanks), QuoteIfNecessary(t), t)
<1>1. IF Blank \in ToSet(t) THEN Quotable(t) ELSE Bareable(t)
  BY Zenon DEF BareOrQuotable, Blank
<1>2. QuoteIfNecessary(t) = IF Contains(t, Blank) THEN Quote(t) ELSE t
  BY Zenon DEF QuoteIfNecessary, Blank
<1>3. CASE Contains(t, Blank)
  <2>1. QuoteIfNecessary(t) = Quote(t)
    BY <1>2, <1>3
  <2>2. Blank \in ToSet(t)
    BY <1>3 DEF Contains, ToSet
  <2> QED
    BY <1>1, <2>1, <2>2, QuotableReads
<1>4. CASE ~Contains(t, Blank)
  <2>1. DOMAIN t = 1..Len(t)
    OBVIOUS
  <2>2. \A m \in 1..Len(t) : t[m] # Blank /\ t[m] \in ToSet(t)
    BY <1>4, <2>1 DEF Contains, ToSet
  <2>3. Blank \notin ToSet(t)
    BY <2>1, <2>2 DEF ToSet
  <2>4. t # <<>> /\ t[1] \notin {"quote", "#"} /\ ToSet(t) \cap Blanks = {}
    BY <1>1, <2>3 DEF Bareable
  <2>5. \A m \in 1..Len(t) : t[m] \notin Blanks
    BY <2>2, <2>4
  <2>6. Bare(t, Blanks)
    BY <2>4, <2>5 DEF Bare, IsWord
  <2>7. ReadsAs(Chars, s, Blanks, ReadFrom(s, Blanks), t, t)
    BY <2>6, BareReads
  <2> QED
    BY <1>2, <1>4, <2>7
<1> QED
  BY <1>3, <1>4

\* Any list of such texts is read back when each is quoted if necessary.
LEMMA BareList ==
    ASSUME NEW ss \in Seq(Seq(Chars)), \A k \in DOMAIN ss : BareOrQuotable(ss[k])
    PROVE  TokenizeQuoted(Join(AllWritten(ss), <<Blank>>), Blanks) = ss
<1> DEFINE ws == AllWritten(ss)
           J == Join(ws, <<Blank>>)
<1>1. /\ DOMAIN ss = 1..Len(ss) /\ Len(ss) \in Nat /\ <<>> \in Seq(Chars)
      /\ \A k \in 1..Len(ss) : ss[k] \in Seq(Chars) /\ BareOrQuotable(ss[k])
  BY ElementOfSeq, LenProperties, EmptySeq
<1>2. ASSUME NEW s \in Seq(Chars), NEW k \in 1..Len(ss)
      PROVE  /\ QuoteIfNecessary(ss[k]) \in Seq(Chars)
             /\ ReadsAs(Chars, s, Blanks, ReadFrom(s, Blanks), QuoteIfNecessary(ss[k]), ss[k])
  BY <1>1, BareReadsBack
<1>3. /\ ws \in Seq(Seq(Chars)) /\ Len(ws) = Len(ss)
      /\ \A k \in 1..Len(ws) : ws[k] = QuoteIfNecessary(ss[k])
  <2>1. \A k \in 1..Len(ss) : QuoteIfNecessary(ss[k]) \in Seq(Chars)
    BY <1>1, <1>2
  <2>2. ws = [k \in 1..Len(ss) |-> QuoteIfNecessary(ss[k])]
    BY <1>1 DEF AllWritten
  <2> QED
    BY <1>1, <2>1, <2>2
<1>4. J \in Seq(Chars)
  <2> DEFINE b == <<Blank>>
  <2>1. b \in Seq(Chars)
    BY MarksAre
  <2> HIDE DEF ws, b
  <2>2. Join(ws, b) \in Seq(Chars)
    BY <1>3, <2>1, JoinType
  <2> QED
    BY <2>2 DEF b
<1> HIDE DEF ws, J
<1>5. AllRead(Chars, J, Blanks, ReadFrom(J, Blanks), ws, ss)
  BY <1>2, <1>3, <1>4 DEF AllRead
<1>6. TokenizeQuoted(Join(ws, <<Blank>>), Blanks) = ss
  BY <1>3, <1>5, MarksAre, WrittenRead DEF J
<1> QED
  BY <1>6 DEF ws

-----------------------------------------------------------------------------
(* What one helper writes another one reads back.                          *)

\* quote and quote_if_necessary, extract_filter, extract_quote, escape_url.
THEOREM WrittenCorrect == TextsSpec => []WrittenIsReadBack
<1>1. TextsTypeOK => WrittenIsReadBack
  <2> SUFFICES ASSUME TextsTypeOK PROVE WrittenIsReadBack
    OBVIOUS
  <2>1. strings \in Seq(Seq(Chars)) /\ strings # <<>>
    BY DEF TextsTypeOK
  <2>2. text \in Seq(Chars)
    <3>1. Len(strings) \in 1..Len(strings)
      BY <2>1, EmptySeq, LenProperties
    <3> QED
      BY <2>1, <3>1, ElementOfSeq DEF text
  <2>3. <<" ">> = <<Blank>>
    BY BlanksAre
  <2>4. QuotedIsReadBack
    BY <2>1, <2>3, QuotedList, Zenon DEF QuotedIsReadBack, AllQuoted
  <2>5. BareIsReadBack
    BY <2>1, <2>3, BareList, Zenon DEF BareIsReadBack, AllWritten
  <2>6. FilterIsReadBack
    <3> DEFINE T == Chars \cup {"filter"}
               c == ":"
               h == "filter"
               f == strings[1]
               u == strings[2]
    <3> SUFFICES ASSUME Len(strings) = 2, c \notin ToSet(f)
                 PROVE  ExtractFilter(<<h, c>> \o f \o <<c>> \o u) = [filter |-> f, url |-> u]
      BY DEF FilterIsReadBack
    <3>1. c \in T /\ h \in T /\ h # c /\ c = ":"
      BY DEF Chars, UrlChars
    <3>2. f \in Seq(T) /\ u \in Seq(T)
      <4>1. f \in Seq(Chars) /\ u \in Seq(Chars)
        BY <2>1, ElementOfSeq
      <4> QED
        BY <4>1
    <3>3. \A i \in 1..Len(f) : f[i] # c
      <4>1. DOMAIN f = 1..Len(f)
        BY <3>2
      <4> QED
        BY <4>1 DEF ToSet
    <3> HIDE DEF T, c, h, f, u
    <3> QED
      BY <3>1, <3>2, <3>3, FilterRead, SMTT(40)
  <2>7. QuoteIsExtracted
    <3> DEFINE q == "quote"
               a == "a"
    <3> SUFFICES ASSUME q \notin ToSet(text)
                 PROVE  ExtractQuote(<<a>> \o Quote(text) \o <<a>>) = text
      BY DEF QuoteIsExtracted
    <3>1. q \in Chars /\ a \in Chars /\ "backslash" \in Chars /\ a # q /\ q = "quote"
      BY DEF Chars, TextChars
    <3> HIDE DEF text
    <3>2. \A i \in 1..Len(text) : text[i] # q
      <4>1. DOMAIN text = 1..Len(text)
        BY <2>2
      <4> QED
        BY <4>1 DEF ToSet
    <3> HIDE DEF q, a
    <3> QED
      BY <2>2, <3>1, <3>2, QuoteRead
  <2>8. EscapedIsReadBack
    <3> DEFINE T == Chars \cup {"2", "6"}
    <3>1. /\ "%" \in T /\ "3" \in T /\ "F" \in T /\ "2" \in T /\ "6" \in T
          /\ "?" \in T /\ "&" \in T
      BY DEF Chars, UrlChars
    <3> HIDE DEF text
    <3>2. text \in Seq(T)
      BY <2>2
    <3> HIDE DEF T
    <3>3. ~HasEscape(text) => UnescapeUrl(EscapeUrl(text)) = text
      BY <3>1, <3>2, EscapedRead
    <3> QED
      BY <3>3 DEF EscapedIsReadBack
  <2> QED
    BY <2>4, <2>5, <2>6, <2>7, <2>8 DEF WrittenIsReadBack
<1> QED
  BY <1>1, TextsTyped, PTL
=============================================================================
