-------------------------- MODULE MCChildProcesses --------------------------
(***************************************************************************)
(* Instances of ChildProcesses for TLC.                                    *)
(***************************************************************************)
EXTENDS ChildProcesses, TLC

CONSTANTS c1, c2

TwoCallers  == {c1, c2}
TwoPrograms == {"copies", "collects"}

\* The most a program that copies can be fed before it is read, and one more,
\* by a thread; the other one feeds little.
AroundLimit == (c1 :> {2 * Capacity + 1, 2 * Capacity + 2}) @@ (c2 :> {1})
=============================================================================
