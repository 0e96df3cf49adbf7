--------------------------- MODULE ChildProcesses ---------------------------
(***************************************************************************)
(* utils::run_program, utils::run_command and utils::get_command_output:   *)
(* the threads of a program that run other programs and talk to them over  *)
(* pipes.                                                                  *)
(*                                                                         *)
(* A step is one system call, or the part of one that has an effect: a     *)
(* write of more than a pipe holds is many steps.  Of the data only the    *)
(* amount is kept.  Pipes, fork and the programs that are run are          *)
(* external: a child inherits every descriptor the program has open, in    *)
(* all its threads, and keeps those it does not close until it ends.       *)
(*                                                                         *)
(* The pipes of the call of thread c have four ends: <<c, "ir">> and       *)
(* <<c, "iw">> of ipipe, <<c, "or">> and <<c, "ow">> of opipe.             *)
(***************************************************************************)
EXTENDS Naturals

CONSTANTS
    Callers,        \* the threads
    Sizes,          \* the lengths of a thread's inputs and outputs of commands
    Capacity,       \* what a pipe holds
    CbufSize,       \* what one read takes
    Programs        \* how the programs that are run behave: see Child

ASSUME SizesAssumption    == Sizes \in [Callers -> SUBSET Nat]
ASSUME CapacityAssumption == Capacity \in Nat \ {0} /\ CbufSize \in Nat \ {0}
ASSUME ProgramsAssumption == Programs \subseteq {"copies", "collects"}

VARIABLES
    running,        \* whether the program runs
    fds,            \* the ends the program has open
    pc,             \* where the call of a thread is
    size, left,     \* its input, and how much of it is not written
    ipipe, opipe,   \* what is in the pipes
    buf,            \* the output read so far
    child,          \* the child of the call
    notify,         \* the child of the last run_command
    result          \* what the last call returned, until the next one

pipes == <<ipipe, opipe>>
data  == <<size, left, buf>>
vars  == <<running, fds, pc, data, pipes, child, notify, result>>

Ends(c) == {<<c, "ir">>, <<c, "iw">>, <<c, "or">>, <<c, "ow">>}

NoChild  == [state |-> "none", prog |-> "none", holds |-> 0, ends |-> {}]
NoResult == [got |-> 0, of |-> 0, how |-> "none"]

Init ==
    /\ running = TRUE
    /\ fds = {}
    /\ pc = [c \in Callers |-> "idle"]
    /\ size = [c \in Callers |-> 0]
    /\ left = [c \in Callers |-> 0]
    /\ buf = [c \in Callers |-> 0]
    /\ ipipe = [c \in Callers |-> 0]
    /\ opipe = [c \in Callers |-> 0]
    /\ child = [c \in Callers |-> NoChild]
    /\ notify = NoChild
    /\ result = [c \in Callers |-> NoResult]

At(c, place) == running /\ pc[c] = place

Go(c, place) == pc' = [pc EXCEPT ![c] = place]

\* The processes that have an end open.
HeldByOther(c, e) ==
    e \in notify.ends \/ \E d \in Callers \ {c} : e \in child[d].ends

Held(c, e) == e \in fds \/ e \in child[c].ends \/ HeldByOther(c, e)

\* The end of a call.  Nobody minds any more who else has ends of its pipes.
Return(c, r) ==
    LET Drop(x) == [x EXCEPT !.ends = @ \ Ends(c)]
    IN  /\ fds' = fds \ Ends(c)
        /\ size' = [size EXCEPT ![c] = 0]
        /\ left' = [left EXCEPT ![c] = 0]
        /\ buf' = [buf EXCEPT ![c] = 0]
        /\ ipipe' = [ipipe EXCEPT ![c] = 0]
        /\ opipe' = [opipe EXCEPT ![c] = 0]
        /\ child' = [d \in Callers |-> IF d = c THEN NoChild ELSE Drop(child[d])]
        /\ notify' = Drop(notify)
        /\ result' = [result EXCEPT ![c] = r]
        /\ Go(c, "idle")
        /\ UNCHANGED running

-----------------------------------------------------------------------------
(* run_program.                                                            *)

\* The first pipe, for the input.
RunProgram(c, n) ==
    /\ At(c, "idle")
    /\ fds' = fds \cup {<<c, "ir">>, <<c, "iw">>}
    /\ size' = [size EXCEPT ![c] = n]
    /\ left' = [left EXCEPT ![c] = n]
    /\ result' = [result EXCEPT ![c] = NoResult]
    /\ Go(c, "one pipe")
    /\ UNCHANGED <<running, buf, pipes, child, notify>>

OutputPipe(c) ==
    /\ At(c, "one pipe")
    /\ fds' = fds \cup {<<c, "or">>, <<c, "ow">>}
    /\ Go(c, "two pipes")
    /\ UNCHANGED <<running, data, pipes, child, notify, result>>

\* The child closes the ends the program uses before it does anything else.
Fork(c, prog) ==
    /\ At(c, "two pipes")
    /\ child' = [child EXCEPT ![c] =
           [state |-> "running", prog |-> prog, holds |-> 0,
            ends |-> fds \ {<<c, "iw">>, <<c, "or">>}]]
    /\ Go(c, "forked")
    /\ UNCHANGED <<running, fds, data, pipes, notify, result>>

\* The code leaves the four ends open, on pipes that nobody uses any more.
ForkFails(c) ==
    /\ At(c, "two pipes")
    /\ Return(c, [got |-> 0, of |-> 0, how |-> "no child"])

\* Fault: one of the child's ends stays open.
Fault_CloseChildEnds(c) ==
    /\ At(c, "forked")
    /\ fds' = fds \ {<<c, "ir">>}
    /\ Go(c, "writing")
    /\ UNCHANGED <<running, data, pipes, child, notify, result>>

CloseChildEnds(c) ==
    /\ At(c, "forked")
    /\ fds' = fds \ {<<c, "ir">>, <<c, "ow">>}
    /\ Go(c, "writing")
    /\ UNCHANGED <<running, data, pipes, child, notify, result>>

\* The one write: as much of it as the pipe takes.
Write(c) ==
    /\ At(c, "writing") /\ left[c] > 0 /\ ipipe[c] < Capacity
    /\ Held(c, <<c, "ir">>)
    /\ ipipe' = [ipipe EXCEPT ![c] = @ + 1]
    /\ left' = [left EXCEPT ![c] = @ - 1]
    /\ UNCHANGED <<running, fds, pc, size, buf, opipe, child, notify, result>>

\* Nobody is left to read: SIGPIPE ends the program, with all its threads.
WriteKills(c) ==
    /\ At(c, "writing") /\ left[c] > 0 /\ ~Held(c, <<c, "ir">>)
    /\ running' = FALSE
    /\ UNCHANGED <<fds, pc, data, pipes, child, notify, result>>

\* Or, if it ignores SIGPIPE, the write fails, which the code does not look at.
WriteFails(c) ==
    /\ At(c, "writing") /\ left[c] > 0 /\ ~Held(c, <<c, "ir">>)
    /\ left' = [left EXCEPT ![c] = 0]
    /\ UNCHANGED <<running, fds, pc, size, buf, pipes, child, notify, result>>

\* Fault: the input is not closed before the output is read.
Fault_CloseInput(c) ==
    /\ At(c, "writing") /\ left[c] = 0
    /\ Go(c, "reading")
    /\ UNCHANGED <<running, fds, data, pipes, child, notify, result>>

CloseInput(c) ==
    /\ At(c, "writing") /\ left[c] = 0
    /\ fds' = fds \ {<<c, "iw">>}
    /\ Go(c, "reading")
    /\ UNCHANGED <<running, data, pipes, child, notify, result>>

Least(a, b) == IF a < b THEN a ELSE b

Read(c) ==
    LET n == Least(opipe[c], CbufSize)
    IN  /\ At(c, "reading") /\ n > 0
        /\ buf' = [buf EXCEPT ![c] = @ + n]
        /\ opipe' = [opipe EXCEPT ![c] = @ - n]
        /\ UNCHANGED <<running, fds, pc, size, left, ipipe, child, notify, result>>

EndRead(c) ==
    Return(c, [got |-> buf[c], of |-> size[c], how |-> child[c].state])

\* Fault: a pipe that is empty for the moment is taken for the end.
Fault_ReadEnd(c) ==
    /\ At(c, "reading") /\ opipe[c] = 0
    /\ buf[c] > 0 \/ ~Held(c, <<c, "ow">>)
    /\ EndRead(c)

\* read returns 0: nothing is in the pipe and nobody can write to it.
ReadEnd(c) ==
    /\ At(c, "reading") /\ opipe[c] = 0 /\ ~Held(c, <<c, "ow">>)
    /\ EndRead(c)

-----------------------------------------------------------------------------
(* get_command_output: popen, fread until the end, pclose.  popen lets no  *)
(* other child have the end that is written to.                            *)

GetCommandOutput(c, n) ==
    /\ At(c, "idle")
    /\ size' = [size EXCEPT ![c] = n]
    /\ result' = [result EXCEPT ![c] = NoResult]
    /\ child' = [child EXCEPT ![c] =
           [state |-> "running", prog |-> "command", holds |-> n,
            ends |-> fds \cup {<<c, "ow">>}]]
    /\ Go(c, "reading")
    /\ UNCHANGED <<running, fds, left, buf, pipes, notify>>

\* popen returned NULL.
PopenFails(c) ==
    /\ At(c, "idle")
    /\ result' = [result EXCEPT ![c] = [got |-> 0, of |-> 0, how |-> "no child"]]
    /\ UNCHANGED <<running, fds, pc, data, pipes, child, notify>>

-----------------------------------------------------------------------------
(* run_command, which does not wait.  At most one command is still         *)
(* running: a bound of the model.                                          *)

RunCommand(c) ==
    /\ At(c, "idle") /\ notify.state # "running"
    /\ notify' = [state |-> "running", prog |-> "command", holds |-> 0, ends |-> fds]
    /\ UNCHANGED <<running, fds, pc, data, pipes, child, result>>

CommandEnds ==
    /\ running /\ notify.state = "running"
    /\ notify' = NoChild
    /\ UNCHANGED <<running, fds, pc, data, pipes, child, result>>

-----------------------------------------------------------------------------
(* The children of run_program: one that "copies" writes what it has read  *)
(* before it reads on, one that "collects" writes when it has read all.    *)

InputEnded(c) == ipipe[c] = 0 /\ ~Held(c, <<c, "iw">>)

ChildReads(c) ==
    /\ running /\ child[c].state = "running" /\ ipipe[c] > 0
    /\ \/ child[c].prog = "copies" /\ child[c].holds = 0
       \/ child[c].prog = "collects"
    /\ ipipe' = [ipipe EXCEPT ![c] = @ - 1]
    /\ child' = [child EXCEPT ![c].holds = @ + 1]
    /\ UNCHANGED <<running, fds, pc, data, opipe, notify, result>>

ChildWrites(c) ==
    /\ running /\ child[c].state = "running"
    /\ child[c].holds > 0 /\ opipe[c] < Capacity
    /\ child[c].prog = "collects" => InputEnded(c)
    /\ opipe' = [opipe EXCEPT ![c] = @ + 1]
    /\ child' = [child EXCEPT ![c].holds = @ - 1]
    /\ UNCHANGED <<running, fds, pc, data, ipipe, notify, result>>

ChildEnds(c) ==
    /\ running /\ child[c].state = "running" /\ child[c].holds = 0
    /\ child[c].prog # "command" => InputEnded(c)
    /\ child' = [child EXCEPT ![c].state = "done", ![c].ends = {}]
    /\ UNCHANGED <<running, fds, pc, data, pipes, notify, result>>

\* It could not be executed, or stopped before it had read and written all.
ChildFails(c) ==
    /\ running /\ child[c].state = "running"
    /\ child' = [child EXCEPT ![c].state = "failed", ![c].ends = {}]
    /\ UNCHANGED <<running, fds, pc, data, pipes, notify, result>>

-----------------------------------------------------------------------------
Begin(c) ==
    \/ \E n \in Sizes[c] : RunProgram(c, n) \/ GetCommandOutput(c, n)
    \/ PopenFails(c)
    \/ RunCommand(c)

Continue(c) ==
    \/ OutputPipe(c)
    \/ \E prog \in Programs : Fork(c, prog)
    \/ ForkFails(c)
    \/ CloseChildEnds(c)
    \/ Write(c) \/ WriteKills(c) \/ WriteFails(c)
    \/ CloseInput(c)
    \/ Read(c) \/ ReadEnd(c)

Child(c) == ChildReads(c) \/ ChildWrites(c) \/ ChildEnds(c)

Next ==
    \/ \E c \in Callers : Begin(c) \/ Continue(c) \/ Child(c) \/ ChildFails(c)
    \/ CommandEnds

\* Threads and programs that can go on do.
Fairness == \A c \in Callers : WF_vars(Continue(c)) /\ WF_vars(Child(c))

Spec     == Init /\ [][Next]_vars
FairSpec == Spec /\ Fairness

-----------------------------------------------------------------------------
(* Properties.                                                             *)

States == {"none", "running", "done", "failed"}
Progs  == {"none", "copies", "collects", "command"}
Early  == {"idle", "one pipe", "two pipes"}
Places == Early \cup {"forked", "writing", "reading"}

AllEnds  == UNION {Ends(c) : c \in Callers}
Children == [state : States, prog : Progs, holds : Nat, ends : SUBSET AllEnds]

\* The type invariant.
TypeOK ==
    /\ running \in BOOLEAN
    /\ fds \subseteq AllEnds
    /\ pc \in [Callers -> Places]
    /\ size \in [Callers -> Nat] /\ left \in [Callers -> Nat]
    /\ buf \in [Callers -> Nat]
    /\ ipipe \in [Callers -> Nat] /\ opipe \in [Callers -> Nat]
    /\ child \in [Callers -> Children] /\ notify \in Children
    /\ result \in [Callers -> [got : Nat, of : Nat, how : States \cup {"no child"}]]

\* Of its own pipes: the ends the program has open, and those its child has.
Open(c, x) == <<c, x>> \in fds
Has(c, x)  == <<c, x>> \in child[c].ends

\* The ends that are open at each place of a call.
EndsFit(c) ==
    /\ pc[c] = "idle" => \A x \in {"ir", "iw", "or", "ow"} : ~Open(c, x)
    /\ pc[c] = "one pipe" => Open(c, "ir") /\ Open(c, "iw")
    /\ pc[c] \in {"two pipes", "forked"} =>
           \A x \in {"ir", "iw", "or", "ow"} : Open(c, x)
    /\ pc[c] = "writing" => Open(c, "iw") /\ ~Open(c, "ir") /\ ~Open(c, "ow")
    /\ pc[c] = "reading" => ~Open(c, "iw") /\ ~Open(c, "ir") /\ ~Open(c, "ow")
    /\ ~Has(c, "iw")
    /\ Has(c, "ow") <=> child[c].state = "running"
    /\ Has(c, "ir") <=> child[c].state = "running" /\ child[c].prog # "command"

\* Where the child of a call is when the call is at a place.
ChildFits(c) ==
    LET k == child[c]
    IN  /\ pc[c] \in Early <=> k.state = "none"
        /\ k.state = "none" => k.holds = 0 /\ k.prog = "none"
        /\ k.state # "none" => k.prog # "none"
        /\ k.state = "done" => pc[c] = "reading" /\ ipipe[c] = 0 /\ k.holds = 0
        /\ k.prog = "command" => pc[c] = "reading" /\ ipipe[c] = 0
        /\ k.prog = "collects" /\ pc[c] # "reading" => opipe[c] = 0

Amount(c) == left[c] + ipipe[c] + child[c].holds + opipe[c] + buf[c]

\* Nothing of the input is lost before the child fails, and nothing is made up.
DataFit(c) ==
    /\ pc[c] = "idle" => size[c] = 0
    /\ pc[c] \in Early => ipipe[c] = 0 /\ opipe[c] = 0
    /\ pc[c] # "reading" => buf[c] = 0
    /\ pc[c] = "reading" => left[c] = 0
    /\ Amount(c) <= size[c]
    /\ child[c].state # "failed" => Amount(c) = size[c]

(***************************************************************************)
(* The inductive invariant of the calls: the ends, the child and the data  *)
(* of each fit the place it is at (utils.cpp:258-270, 307-368).            *)
(***************************************************************************)
CallFits(c) == EndsFit(c) /\ ChildFits(c) /\ DataFit(c)

CallsInv == \A c \in Callers : CallFits(c)

\* A program that copies blocks with the program that feeds it when the input
\* fills both pipes and what it holds itself.
TooMuch(c) == child[c].prog = "copies" /\ size[c] > 2 * Capacity + 1

\* Another child has an end of this call's pipes: it was forked between pipe
\* and close (utils.cpp:332-355).
Inherited(c) == \E e \in Ends(c) : HeldByOther(c, e)

\* The child, if it runs, can neither read nor write, and does not end.
ChildWaits(c) ==
    /\ \/ ipipe[c] = 0
       \/ child[c].prog = "copies" /\ child[c].holds > 0
    /\ \/ child[c].holds = 0 \/ opipe[c] = Capacity
       \/ child[c].prog = "collects" /\ ~InputEnded(c)
    /\ \/ child[c].holds > 0
       \/ child[c].prog # "command" /\ ~InputEnded(c)

\* The call can neither go on nor can its child.
Blocked(c) ==
    /\ running
    /\ \/ pc[c] = "writing" /\ left[c] > 0 /\ ipipe[c] = Capacity
       \/ pc[c] = "reading" /\ opipe[c] = 0
    /\ Held(c, IF pc[c] = "writing" THEN <<c, "ir">> ELSE <<c, "ow">>)
    /\ child[c].state = "running" => ChildWaits(c)

(***************************************************************************)
(* run_program and the program it runs wait for each other only if the     *)
(* input is more than the pipes hold, because all of it is written before  *)
(* any output is read, or if a child of another thread has an end of their *)
(* pipes (utils.cpp:329-367).                                              *)
(***************************************************************************)
BlockedOnlyBySize == \A c \in Callers : Blocked(c) => TooMuch(c) \/ Inherited(c)

(***************************************************************************)
(* run_program and get_command_output implement the calls a thread counts  *)
(* on: each is answered once, with the whole output of its child or, only  *)
(* if that failed, a part of it, and no step of another thread, of a child *)
(* or of a command changes an answer, however the reads, the writes and    *)
(* the ends of children interleave (utils.cpp:258-270, 354-368).           *)
(***************************************************************************)
Abstract == INSTANCE ProgramCalls WITH
    asked <- [c \in Callers |-> IF pc[c] = "idle" THEN {} ELSE {size[c]}],
    told  <- result

ImplementsCalls == Abstract!CSpec

(***************************************************************************)
(* A call whose input fits, and whose pipes no other child has inherited,  *)
(* returns, or the program is killed by SIGPIPE (utils.cpp:354-365).       *)
(***************************************************************************)
CallsReturn ==
    \A c \in Callers :
        (child[c].state # "none" /\ ~TooMuch(c))
            ~> (pc[c] = "idle" \/ ~running \/ Inherited(c))
=============================================================================
