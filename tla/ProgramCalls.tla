---------------------------- MODULE ProgramCalls ----------------------------
(***************************************************************************)
(* What run_program and get_command_output promise the threads that call   *)
(* them: one answer to each call, with the whole output of the child or,   *)
(* only if the child failed, a part of it.  How a child is forked and how  *)
(* its output comes in is left out.                                        *)
(***************************************************************************)
EXTENDS Naturals

CONSTANTS Callers, Sizes        \* as in ChildProcesses

VARIABLES
    asked,          \* the length of the output a thread waits for, if it waits
    told            \* what its last call returned, until the next one

Answer(n, of, how) == [got |-> n, of |-> of, how |-> how]

CInit ==
    /\ asked = [c \in Callers |-> {}]
    /\ told = [c \in Callers |-> Answer(0, 0, "none")]

Ask(c, n) ==
    /\ asked[c] = {}
    /\ asked' = [asked EXCEPT ![c] = {n}]
    /\ told' = [told EXCEPT ![c] = Answer(0, 0, "none")]

Tell(c, answer) ==
    /\ asked' = [asked EXCEPT ![c] = {}]
    /\ told' = [told EXCEPT ![c] = answer]

TellAll(c) == \E n \in asked[c] : Tell(c, Answer(n, n, "done"))

TellPart(c) == \E n \in asked[c] : \E m \in 0..n : Tell(c, Answer(m, n, "failed"))

\* There was no child to ask.
TellNothing(c) == Tell(c, Answer(0, 0, "no child"))

CNext ==
    \E c \in Callers :
        (\E n \in Sizes[c] : Ask(c, n)) \/ TellAll(c) \/ TellPart(c) \/ TellNothing(c)

CSpec == CInit /\ [][CNext]_<<asked, told>>
=============================================================================
