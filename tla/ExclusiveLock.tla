---------------------------- MODULE ExclusiveLock ----------------------------
(***************************************************************************)
(* What a lock file is for: at any time one process has the lock or none   *)
(* has, and a process is told that it has the lock only when it has.       *)
(***************************************************************************)
CONSTANTS Processes, NULL

VARIABLES holder, told

LInit == holder = NULL /\ told = {}

Acquire(p) == holder = NULL /\ holder' = p /\ told' = told

Grant(p) == holder = p /\ holder' = p /\ told' = told \cup {p}

\* A process that asks again may be told that it could not be found out.
Doubt(p) == holder' = holder /\ told' = told \ {p}

\* A process that ends, or drops the lock, has it no more.
GiveUp(p) ==
    /\ holder' = IF holder = p THEN NULL ELSE holder
    /\ told' = told \ {p}

LNext == \E p \in Processes : Acquire(p) \/ Grant(p) \/ Doubt(p) \/ GiveUp(p)

LSpec == LInit /\ [][LNext]_<<holder, told>>
=============================================================================
