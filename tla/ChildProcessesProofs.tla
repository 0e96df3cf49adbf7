------------------------ MODULE ChildProcessesProofs ------------------------
(***************************************************************************)
(* Proofs about ChildProcesses, for any number of threads, any lengths of  *)
(* their inputs and outputs and any sizes of pipes and reads.              *)
(***************************************************************************)
EXTENDS ChildProcesses, TLAPS

\* The ends of the two pipes of a call.
LEMMA OwnEnds ==
    ASSUME NEW c \in Callers
    PROVE  /\ <<c, "ir">> \in AllEnds /\ <<c, "iw">> \in AllEnds
           /\ <<c, "or">> \in AllEnds /\ <<c, "ow">> \in AllEnds
  BY DEF AllEnds, Ends

\* An amount that grows, and one that shrinks by no more than there is.
LEMMA Amounts ==
    ASSUME NEW f \in [Callers -> Nat], NEW c \in Callers, NEW n \in Nat
    PROVE  /\ f[c] \in Nat
           /\ [f EXCEPT ![c] = @ + n] \in [Callers -> Nat]
           /\ n <= f[c] => [f EXCEPT ![c] = @ - n] \in [Callers -> Nat]
  OBVIOUS

\* One more, and one less than more than none.
LEMMA OneMoreOrLess ==
    ASSUME NEW n \in Nat
    PROVE  n + 1 \in Nat /\ (n > 0 => 1 <= n /\ n - 1 \in Nat)
  OBVIOUS

\* The least of two numbers is a number and above neither.
LEMMA LeastOfTwo ==
    ASSUME NEW a \in Nat, NEW b \in Nat
    PROVE  Least(a, b) \in Nat /\ Least(a, b) <= a /\ Least(a, b) <= b
  BY DEF Least

\* Every variable keeps its type: no end is closed, and no byte taken from a
\* pipe, that is not there.
THEOREM TypeCorrect == Spec => []TypeOK
<1>1. Init => TypeOK
  BY DEF Init, TypeOK, Places, Early, Children, States, Progs, NoChild, NoResult
<1>2. TypeOK /\ [Next]_vars => TypeOK'
  <2> SUFFICES ASSUME TypeOK, [Next]_vars PROVE TypeOK'
    OBVIOUS
  <2> USE DEF TypeOK, Places, Early, Children, States, Progs, NoChild, NoResult,
              pipes, data, Go, At
  <2>1. ASSUME NEW c \in Callers, NEW n \in Sizes[c], RunProgram(c, n)
        PROVE  TypeOK'
    <3>1. n \in Nat
      BY SizesAssumption
    <3>2. fds' \subseteq AllEnds
      BY <2>1, OwnEnds DEF RunProgram
    <3> QED
      BY <2>1, <3>1, <3>2 DEF RunProgram
  <2>2. ASSUME NEW c \in Callers, NEW n \in Sizes[c], GetCommandOutput(c, n)
        PROVE  TypeOK'
    <3>1. n \in Nat
      BY SizesAssumption
    <3>2. fds \cup {<<c, "ow">>} \subseteq AllEnds
      BY OwnEnds
    <3>3. child' \in [Callers -> Children]
      BY <2>2, <3>1, <3>2 DEF GetCommandOutput
    <3> QED
      BY <2>2, <3>1, <3>3 DEF GetCommandOutput
  <2>3. ASSUME NEW c \in Callers, PopenFails(c) PROVE TypeOK'
    BY <2>3 DEF PopenFails
  <2>4. ASSUME NEW c \in Callers, RunCommand(c) PROVE TypeOK'
    BY <2>4 DEF RunCommand
  <2>5. ASSUME NEW c \in Callers, OutputPipe(c) PROVE TypeOK'
    <3>1. fds' \subseteq AllEnds
      BY <2>5, OwnEnds DEF OutputPipe
    <3> QED
      BY <2>5, <3>1 DEF OutputPipe
  <2>6. ASSUME NEW c \in Callers, NEW prog \in Programs, Fork(c, prog)
        PROVE  TypeOK'
    BY <2>6, ProgramsAssumption DEF Fork
  <2>7. ASSUME NEW c \in Callers, NEW r, Return(c, r),
               r \in [got : Nat, of : Nat, how : States \cup {"no child"}]
        PROVE  TypeOK'
    BY <2>7 DEF Return
  <2>8. ASSUME NEW c \in Callers, ForkFails(c) PROVE TypeOK'
    BY <2>7, <2>8 DEF ForkFails
  <2>9. ASSUME NEW c \in Callers, CloseChildEnds(c) PROVE TypeOK'
    BY <2>9 DEF CloseChildEnds
  <2>10. ASSUME NEW c \in Callers, Write(c) PROVE TypeOK'
    <3>1. left[c] \in Nat /\ 1 <= left[c]
      BY <2>10, Amounts, OneMoreOrLess DEF Write
    <3>2. ipipe' \in [Callers -> Nat]
      BY <2>10, Amounts DEF Write
    <3>3. left' \in [Callers -> Nat]
      BY <2>10, <3>1, Amounts DEF Write
    <3> QED
      BY <2>10, <3>2, <3>3 DEF Write
  <2>11. ASSUME NEW c \in Callers, WriteKills(c) PROVE TypeOK'
    BY <2>11 DEF WriteKills
  <2>12. ASSUME NEW c \in Callers, WriteFails(c) PROVE TypeOK'
    BY <2>12 DEF WriteFails
  <2>13. ASSUME NEW c \in Callers, CloseInput(c) PROVE TypeOK'
    BY <2>13 DEF CloseInput
  <2>14. ASSUME NEW c \in Callers, Read(c) PROVE TypeOK'
    <3> DEFINE n == Least(opipe[c], CbufSize)
    <3>1. opipe[c] \in Nat /\ CbufSize \in Nat
      BY CapacityAssumption
    <3>2. n \in Nat /\ n <= opipe[c]
      BY <3>1, LeastOfTwo
    <3> HIDE DEF n
    <3>3. /\ buf' = [buf EXCEPT ![c] = @ + n]
          /\ opipe' = [opipe EXCEPT ![c] = @ - n]
      BY <2>14 DEF Read, n
    <3>4. buf' \in [Callers -> Nat]
      BY <3>2, <3>3, Amounts
    <3>5. opipe' \in [Callers -> Nat]
      BY <3>2, <3>3, Amounts
    <3> QED
      BY <2>14, <3>4, <3>5 DEF Read
  <2>15. ASSUME NEW c \in Callers, ReadEnd(c) PROVE TypeOK'
    BY <2>7, <2>15 DEF ReadEnd, EndRead
  <2>16. ASSUME NEW c \in Callers, ChildReads(c) PROVE TypeOK'
    <3>1. ipipe[c] \in Nat /\ 1 <= ipipe[c]
      BY <2>16, Amounts, OneMoreOrLess DEF ChildReads
    <3>2. child' \in [Callers -> Children]
      <4>1. child[c].holds \in Nat
        OBVIOUS
      <4>2. child[c].holds + 1 \in Nat
        BY <4>1, OneMoreOrLess
      <4> QED
        BY <2>16, <4>2 DEF ChildReads
    <3>3. ipipe' \in [Callers -> Nat]
      BY <2>16, <3>1, Amounts DEF ChildReads
    <3> QED
      BY <2>16, <3>2, <3>3 DEF ChildReads
  <2>17. ASSUME NEW c \in Callers, ChildWrites(c) PROVE TypeOK'
    <3>1. child[c].holds \in Nat
      OBVIOUS
    <3>2. child[c].holds - 1 \in Nat
      BY <2>17, <3>1, OneMoreOrLess DEF ChildWrites
    <3>3. child' \in [Callers -> Children]
      BY <2>17, <3>2 DEF ChildWrites
    <3>4. opipe' \in [Callers -> Nat]
      BY <2>17, Amounts DEF ChildWrites
    <3> QED
      BY <2>17, <3>3, <3>4 DEF ChildWrites
  <2>18. ASSUME NEW c \in Callers, ChildEnds(c) PROVE TypeOK'
    BY <2>18 DEF ChildEnds
  <2>19. ASSUME NEW c \in Callers, ChildFails(c) PROVE TypeOK'
    BY <2>19 DEF ChildFails
  <2>20. CASE CommandEnds
    BY <2>20 DEF CommandEnds
  <2>21. CASE UNCHANGED vars
    BY <2>21 DEF vars
  <2> QED
    BY <2>1, <2>2, <2>3, <2>4, <2>5, <2>6, <2>8, <2>9, <2>10, <2>11, <2>12,
       <2>13, <2>14, <2>15, <2>16, <2>17, <2>18, <2>19, <2>20, <2>21
    DEF Next, Begin, Continue, Child
<1> QED
  BY <1>1, <1>2, PTL DEF Spec

-----------------------------------------------------------------------------
(* The calls.                                                              *)

\* A step leaves alone what the call of thread d uses.
Same(d) ==
    /\ pc'[d] = pc[d] /\ size'[d] = size[d] /\ left'[d] = left[d]
    /\ buf'[d] = buf[d] /\ ipipe'[d] = ipipe[d] /\ opipe'[d] = opipe[d]
    /\ child'[d].state = child[d].state /\ child'[d].prog = child[d].prog
    /\ child'[d].holds = child[d].holds
    /\ \A x \in {"ir", "iw", "or", "ow"} :
           (Open(d, x)' <=> Open(d, x)) /\ (Has(d, x)' <=> Has(d, x))

\* What a step leaves alone keeps fitting the place its call is at.
LEMMA SameKeeps ==
    ASSUME NEW d \in Callers, CallFits(d), Same(d) PROVE CallFits(d)'
<1>1. EndsFit(d)'
  BY DEF CallFits, EndsFit, Same
<1>2. ChildFits(d)'
  BY DEF CallFits, ChildFits, Same
<1>3. Amount(d)' = Amount(d)
  BY DEF Amount, Same
<1>4. DataFit(d)'
  BY <1>3 DEF CallFits, DataFit, Same
<1> QED
  BY <1>1, <1>2, <1>4 DEF CallFits

\* A call and its child use their own pipes only.
LEMMA OthersSame ==
    ASSUME TypeOK, NEW c \in Callers, NEW d \in Callers \ {c},
           Begin(c) \/ Continue(c) \/ Child(c) \/ ChildFails(c)
    PROVE  Same(d)
<1> USE DEF TypeOK, Children, Same, Open, Has, Go, At, pipes, data
<1>1. ASSUME NEW r, Return(c, r) PROVE Same(d)
  BY <1>1 DEF Return, Ends
<1>2. ASSUME Begin(c) PROVE Same(d)
  BY <1>2 DEF Begin, RunProgram, GetCommandOutput, PopenFails, RunCommand
<1>3. ASSUME Continue(c) PROVE Same(d)
  <2>1. CASE OutputPipe(c) \/ CloseChildEnds(c) \/ CloseInput(c)
    BY <2>1 DEF OutputPipe, CloseChildEnds, CloseInput
  <2>2. ASSUME NEW prog \in Programs, Fork(c, prog) PROVE Same(d)
    BY <2>2 DEF Fork
  <2>3. CASE Write(c) \/ WriteKills(c) \/ WriteFails(c)
    BY <2>3 DEF Write, WriteKills, WriteFails
  <2>4. CASE Read(c)
    BY <2>4 DEF Read
  <2>5. CASE ForkFails(c) \/ ReadEnd(c)
    BY <1>1, <2>5 DEF ForkFails, ReadEnd, EndRead
  <2> QED
    BY <1>3, <2>1, <2>2, <2>3, <2>4, <2>5 DEF Continue
<1>4. ASSUME Child(c) PROVE Same(d)
  BY <1>4 DEF Child, ChildReads, ChildWrites, ChildEnds
<1>5. ASSUME ChildFails(c) PROVE Same(d)
  BY <1>5 DEF ChildFails
<1> QED
  BY <1>2, <1>3, <1>4, <1>5

\* The program writes the input until it closes its end.
LEMMA InputEndsAtReading ==
    ASSUME TypeOK, NEW c \in Callers, CallFits(c), child[c].state = "running",
           InputEnded(c)
    PROVE  pc[c] = "reading"
<1>1. ~Open(c, "iw")
  BY DEF InputEnded, Held, Open
<1>2. pc[c] \notin Early
  BY DEF CallFits, ChildFits
<1> QED
  BY <1>1, <1>2 DEF TypeOK, Places, CallFits, EndsFit

\* A step of a call, or of its child, keeps the call's ends and its child in
\* step with the place it is at.
LEMMA OwnEndsAndChildFit ==
    ASSUME TypeOK, NEW c \in Callers, CallFits(c),
           Begin(c) \/ Continue(c) \/ Child(c) \/ ChildFails(c)
    PROVE  EndsFit(c)' /\ ChildFits(c)'
<1> DEFINE P == EndsFit(c)' /\ ChildFits(c)'
<1> USE DEF TypeOK, Children, CallFits, EndsFit, ChildFits,
            Open, Has, Early, Go, At, pipes, data
<1>1. ASSUME NEW r, Return(c, r) PROVE P
  BY <1>1 DEF Return, Ends, NoChild
<1>2. ASSUME NEW n \in Sizes[c], RunProgram(c, n) PROVE P
  BY <1>2 DEF DataFit, RunProgram
<1>3. ASSUME NEW n \in Sizes[c], GetCommandOutput(c, n) PROVE P
  BY <1>3 DEF DataFit, GetCommandOutput
<1>4. CASE PopenFails(c) \/ RunCommand(c)
  <2>1. Same(c)
    BY <1>4 DEF PopenFails, RunCommand, Same
  <2> QED
    BY <2>1, SameKeeps
<1>5. CASE OutputPipe(c)
  BY <1>5 DEF OutputPipe
<1>6. ASSUME NEW prog \in Programs, Fork(c, prog) PROVE P
  BY <1>6, ProgramsAssumption DEF DataFit, Fork
<1>7. CASE ForkFails(c)
  BY <1>1, <1>7 DEF ForkFails
<1>8. CASE CloseChildEnds(c)
  BY <1>8 DEF CloseChildEnds
<1>9. CASE Write(c)
  BY <1>9 DEF Write
<1>10. CASE WriteKills(c)
  BY <1>10 DEF WriteKills
<1>11. CASE WriteFails(c)
  BY <1>11 DEF WriteFails
<1>12. CASE CloseInput(c)
  BY <1>12 DEF CloseInput
<1>13. CASE Read(c)
  BY <1>13 DEF Read
<1>14. CASE ReadEnd(c)
  BY <1>1, <1>14 DEF ReadEnd, EndRead
<1>15. CASE ChildReads(c)
  BY <1>15 DEF ChildReads
<1>16. CASE ChildWrites(c)
  <2>1. EndsFit(c)'
    BY <1>16 DEF ChildWrites
  <2>2. child[c].prog = "collects" => pc[c] = "reading"
    BY <1>16, InputEndsAtReading DEF ChildWrites
  <2>3. ChildFits(c)'
    BY <1>16, <2>2 DEF ChildWrites
  <2> QED
    BY <2>1, <2>3
<1>17. CASE ChildEnds(c)
  <2>1. EndsFit(c)'
    BY <1>17 DEF ChildEnds
  <2>2. pc[c] = "reading" /\ ipipe[c] = 0
    BY <1>17, InputEndsAtReading DEF ChildEnds, InputEnded
  <2>3. ChildFits(c)'
    BY <1>17, <2>2 DEF ChildEnds
  <2> QED
    BY <2>1, <2>3
<1>18. CASE ChildFails(c)
  BY <1>18 DEF ChildFails
<1> QED
  BY <1>2, <1>3, <1>4, <1>5, <1>6, <1>7, <1>8, <1>9, <1>10, <1>11, <1>12,
     <1>13, <1>14, <1>15, <1>16, <1>17, <1>18 DEF Begin, Continue, Child

\* The amounts of a call are numbers.
LEMMA Numbers ==
    ASSUME TypeOK, NEW c \in Callers
    PROVE  /\ size[c] \in Nat /\ left[c] \in Nat /\ buf[c] \in Nat
           /\ ipipe[c] \in Nat /\ opipe[c] \in Nat /\ child[c].holds \in Nat
  BY DEF TypeOK, Children

\* What a step takes from one place of the data it adds to the next one.
LEMMA OwnDataFits ==
    ASSUME TypeOK, NEW c \in Callers, CallFits(c),
           Begin(c) \/ Continue(c) \/ Child(c) \/ ChildFails(c)
    PROVE  DataFit(c)'
<1> USE DEF At, Go, pipes, data
<1>1. ASSUME NEW r, Return(c, r) PROVE DataFit(c)'
  <2>1. /\ size'[c] = 0 /\ left'[c] = 0 /\ buf'[c] = 0 /\ ipipe'[c] = 0
        /\ opipe'[c] = 0 /\ child'[c].holds = 0 /\ pc'[c] = "idle"
    BY <1>1 DEF TypeOK, Return, NoChild
  <2> QED
    BY <2>1 DEF DataFit, Amount
<1>2. ASSUME NEW n \in Sizes[c], RunProgram(c, n) PROVE DataFit(c)'
  <2>1. /\ size'[c] = n /\ left'[c] = n /\ buf'[c] = 0 /\ ipipe'[c] = 0
        /\ opipe'[c] = 0 /\ child'[c].holds = 0 /\ pc'[c] = "one pipe"
    BY <1>2 DEF TypeOK, RunProgram, CallFits, DataFit, ChildFits, Early
  <2>2. n \in Nat
    BY SizesAssumption
  <2>3. Amount(c)' = n + 0 + 0 + 0 + 0
    BY <2>1 DEF Amount
  <2>4. Amount(c)' = n /\ n <= n
    BY <2>2, <2>3
  <2> QED
    BY <2>1, <2>4 DEF DataFit
<1>3. ASSUME NEW n \in Sizes[c], GetCommandOutput(c, n) PROVE DataFit(c)'
  <2>1. left[c] + ipipe[c] + 0 + opipe[c] + buf[c] = 0
    BY <1>3, Numbers DEF GetCommandOutput, CallFits, DataFit, ChildFits, Early, Amount
  <2>2. left[c] = 0
    BY <2>1, Numbers
  <2>3. /\ size'[c] = n /\ left'[c] = 0 /\ buf'[c] = 0 /\ ipipe'[c] = 0
        /\ opipe'[c] = 0 /\ child'[c].holds = n /\ pc'[c] = "reading"
    BY <1>3, <2>2 DEF TypeOK, GetCommandOutput, CallFits, DataFit, Early
  <2>4. n \in Nat
    BY SizesAssumption
  <2> QED
    BY <2>3, <2>4 DEF DataFit, Amount, Early
<1>4. CASE PopenFails(c) \/ RunCommand(c)
  BY <1>4 DEF PopenFails, RunCommand, CallFits, DataFit, Amount
<1>5. CASE OutputPipe(c)
  BY <1>5 DEF TypeOK, OutputPipe, CallFits, DataFit, Amount, Early
<1>6. ASSUME NEW prog \in Programs, Fork(c, prog) PROVE DataFit(c)'
  BY <1>6 DEF TypeOK, Fork, CallFits, ChildFits, DataFit, Amount, Early
<1>7. CASE ForkFails(c)
  BY <1>1, <1>7 DEF ForkFails
<1>8. CASE CloseChildEnds(c)
  BY <1>8 DEF TypeOK, CloseChildEnds, CallFits, DataFit, Amount, Early
<1>9. CASE Write(c)
  <2>1. /\ size'[c] = size[c] /\ left'[c] = left[c] - 1 /\ buf'[c] = buf[c]
        /\ ipipe'[c] = ipipe[c] + 1 /\ opipe'[c] = opipe[c]
        /\ child' = child /\ pc' = pc /\ pc[c] = "writing"
    BY <1>9 DEF TypeOK, Write
  <2>2. Amount(c)' = Amount(c)
    BY <2>1, Numbers DEF Amount
  <2> QED
    BY <2>1, <2>2 DEF CallFits, DataFit, Early
<1>10. CASE WriteKills(c)
  BY <1>10 DEF WriteKills, CallFits, DataFit, Amount
<1>11. CASE WriteFails(c)
  <2>1. /\ size'[c] = size[c] /\ left'[c] = 0 /\ buf'[c] = buf[c]
        /\ ipipe'[c] = ipipe[c] /\ opipe'[c] = opipe[c]
        /\ child' = child /\ pc' = pc /\ pc[c] = "writing"
    BY <1>11 DEF TypeOK, WriteFails
  <2>2. child[c].state = "failed"
    BY <1>11 DEF TypeOK, Children, States, WriteFails, Held, CallFits, EndsFit,
                 ChildFits, Has, Early
  <2>3. Amount(c)' <= Amount(c)
    BY <2>1, Numbers DEF Amount
  <2>4. Amount(c)' \in Nat /\ Amount(c) \in Nat
    BY <2>1, Numbers DEF Amount
  <2>5. Amount(c)' <= size[c]
    BY <2>3, <2>4, Numbers DEF CallFits, DataFit
  <2> QED
    BY <2>1, <2>2, <2>5 DEF CallFits, DataFit, Early
<1>12. CASE CloseInput(c)
  BY <1>12 DEF TypeOK, CloseInput, CallFits, DataFit, Amount, Early
<1>13. CASE Read(c)
  <2> DEFINE n == Least(opipe[c], CbufSize)
  <2>1. n \in Nat /\ n <= opipe[c]
    BY CapacityAssumption, Numbers, LeastOfTwo
  <2> HIDE DEF n
  <2>2. /\ size'[c] = size[c] /\ left'[c] = left[c] /\ buf'[c] = buf[c] + n
        /\ ipipe'[c] = ipipe[c] /\ opipe'[c] = opipe[c] - n
        /\ child' = child /\ pc' = pc /\ pc[c] = "reading"
    BY <1>13 DEF TypeOK, Read, n
  <2>3. Amount(c)' = Amount(c)
    BY <2>1, <2>2, Numbers DEF Amount
  <2> QED
    BY <2>2, <2>3 DEF CallFits, DataFit, Early
<1>14. CASE ReadEnd(c)
  BY <1>1, <1>14 DEF ReadEnd, EndRead
<1>15. CASE ChildReads(c)
  <2>1. /\ size'[c] = size[c] /\ left'[c] = left[c] /\ buf'[c] = buf[c]
        /\ ipipe'[c] = ipipe[c] - 1 /\ opipe'[c] = opipe[c] /\ pc' = pc
        /\ child'[c].holds = child[c].holds + 1
        /\ child'[c].state = child[c].state
        /\ child[c].state = "running"
    BY <1>15 DEF TypeOK, Children, ChildReads
  <2>2. Amount(c)' = Amount(c)
    BY <2>1, Numbers DEF Amount
  <2> QED
    BY <2>1, <2>2 DEF CallFits, ChildFits, DataFit, Early
<1>16. CASE ChildWrites(c)
  <2>1. /\ size'[c] = size[c] /\ left'[c] = left[c] /\ buf'[c] = buf[c]
        /\ ipipe'[c] = ipipe[c] /\ opipe'[c] = opipe[c] + 1 /\ pc' = pc
        /\ child'[c].holds = child[c].holds - 1
        /\ child'[c].state = child[c].state
        /\ child[c].state = "running"
    BY <1>16 DEF TypeOK, Children, ChildWrites
  <2>2. Amount(c)' = Amount(c)
    BY <2>1, Numbers DEF Amount
  <2> QED
    BY <2>1, <2>2 DEF CallFits, ChildFits, DataFit, Early
<1>17. CASE ChildEnds(c)
  BY <1>17 DEF TypeOK, Children, ChildEnds, CallFits, DataFit, Amount
<1>18. CASE ChildFails(c)
  BY <1>18 DEF TypeOK, Children, ChildFails, CallFits, DataFit, Amount
<1> QED
  BY <1>2, <1>3, <1>4, <1>5, <1>6, <1>7, <1>8, <1>9, <1>10, <1>11, <1>12,
     <1>13, <1>14, <1>15, <1>16, <1>17, <1>18 DEF Begin, Continue, Child

\* The ends, the child and the data of each call fit the place it is at.
THEOREM CallsCorrect == Spec => []CallsInv
<1>1. Init => CallsInv
  <2> SUFFICES ASSUME Init, NEW c \in Callers PROVE CallFits(c)
    BY DEF CallsInv
  <2>1. EndsFit(c) /\ ChildFits(c)
    BY DEF Init, EndsFit, ChildFits, Open, Has, Early, NoChild
  <2>2. DataFit(c)
    BY DEF Init, DataFit, Amount, NoChild
  <2> QED
    BY <2>1, <2>2 DEF CallFits
<1>2. ASSUME TypeOK, CallsInv, [Next]_vars PROVE CallsInv'
  <2> SUFFICES ASSUME NEW d \in Callers PROVE CallFits(d)'
    BY DEF CallsInv
  <2>1. CallFits(d)
    BY <1>2 DEF CallsInv
  <2>2. ASSUME NEW c \in Callers,
               Begin(c) \/ Continue(c) \/ Child(c) \/ ChildFails(c)
        PROVE  CallFits(d)'
    <3>1. CASE c = d
      <4>1. (EndsFit(d)' /\ ChildFits(d)') /\ DataFit(d)'
        BY <1>2, <2>1, <2>2, <3>1, OwnEndsAndChildFit, OwnDataFits
      <4> QED
        BY <4>1 DEF CallFits
    <3>2. CASE c # d
      BY <1>2, <2>1, <2>2, <3>2, OthersSame, SameKeeps
    <3> QED
      BY <3>1, <3>2
  <2>3. CASE CommandEnds \/ UNCHANGED vars
    <3>1. Same(d)
      BY <2>3 DEF CommandEnds, vars, pipes, data, Same, Open, Has
    <3> QED
      BY <2>1, <3>1, SameKeeps
  <2> QED
    BY <1>2, <2>2, <2>3 DEF Next
<1> QED
  BY <1>1, <1>2, TypeCorrect, PTL DEF Spec

-----------------------------------------------------------------------------
(* What follows for the callers.                                           *)

\* A call and its child wait for each other only if the input is more than
\* the pipes hold or if another child has an end of the pipes.
THEOREM BlockedOnly == Spec => []BlockedOnlyBySize
<1>1. ASSUME TypeOK, CallsInv PROVE BlockedOnlyBySize
  <2> SUFFICES ASSUME NEW c \in Callers, Blocked(c), ~TooMuch(c), ~Inherited(c)
               PROVE  FALSE
    BY DEF BlockedOnlyBySize
  <2>1. CallFits(c)
    BY <1>1 DEF CallsInv
  <2>2. \A e \in Ends(c) : Held(c, e) => e \in fds \/ e \in child[c].ends
    BY DEF Inherited, Held
  <2>3. <<c, "ir">> \in Ends(c) /\ <<c, "iw">> \in Ends(c) /\ <<c, "ow">> \in Ends(c)
    BY DEF Ends
  <2>4. CASE pc[c] = "writing"
    <3>1. Has(c, "ir")
      BY <2>1, <2>2, <2>3, <2>4 DEF Blocked, CallFits, EndsFit, Open, Has
    <3>2. /\ child[c].state = "running" /\ child[c].prog # "command"
          /\ ChildWaits(c)
      BY <2>1, <3>1 DEF CallFits, EndsFit, Blocked
    <3>3. left[c] > 0 /\ ipipe[c] = Capacity /\ Capacity > 0 /\ Capacity \in Nat
      BY <2>4, CapacityAssumption DEF Blocked
    <3>4. child[c].prog = "copies" /\ child[c].holds > 0
      BY <3>2, <3>3 DEF ChildWaits
    <3>5. opipe[c] = Capacity
      BY <1>1, <3>2, <3>4, Numbers DEF ChildWaits
    <3>6. Amount(c) = size[c]
      BY <2>1, <3>2 DEF CallFits, DataFit
    <3>7. size[c] > 2 * Capacity + 1
      BY <1>1, <3>3, <3>4, <3>5, <3>6, Numbers DEF Amount
    <3> QED
      BY <3>4, <3>7 DEF TooMuch
  <2>5. CASE pc[c] = "reading"
    <3>1. Has(c, "ow")
      BY <2>1, <2>2, <2>3, <2>5 DEF Blocked, CallFits, EndsFit, Open, Has
    <3>2. child[c].state = "running" /\ ChildWaits(c)
      BY <2>1, <3>1 DEF CallFits, EndsFit, Blocked
    <3>3. opipe[c] = 0 /\ opipe[c] # Capacity
      BY <2>5, CapacityAssumption DEF Blocked
    <3>4. ~Held(c, <<c, "iw">>)
      BY <2>1, <2>2, <2>3, <2>5 DEF CallFits, EndsFit, Open, Has
    <3>5. InputEnded(c) <=> ipipe[c] = 0
      BY <3>4 DEF InputEnded
    <3>6. child[c].holds \in Nat
      BY <1>1, Numbers
    <3> QED
      BY <3>2, <3>3, <3>5, <3>6 DEF ChildWaits
  <2> QED
    BY <2>4, <2>5 DEF Blocked
<1> QED
  BY <1>1, TypeCorrect, CallsCorrect, PTL

-----------------------------------------------------------------------------
(* The refinement.                                                         *)

Asked == [c \in Callers |-> IF pc[c] = "idle" THEN {} ELSE {size[c]}]

\* A step that neither begins a call nor ends one.
Stutters == Asked' = Asked /\ result' = result

\* A step of a call can change what that call waits for and of no other one.
LEMMA OthersWait ==
    ASSUME TypeOK, NEW c \in Callers,
           Begin(c) \/ Continue(c) \/ Child(c) \/ ChildFails(c)
    PROVE  Asked' = [Asked EXCEPT ![c] = IF pc'[c] = "idle" THEN {} ELSE {size'[c]}]
<1>1. \A d \in Callers \ {c} : pc'[d] = pc[d] /\ size'[d] = size[d]
  BY OthersSame DEF Same
<1> QED
  BY <1>1 DEF Asked

\* The end of a call is the abstract answer to it.
LEMMA ReturnTells ==
    ASSUME TypeOK, NEW c \in Callers, Continue(c), NEW r, Return(c, r)
    PROVE  /\ Asked' = [Asked EXCEPT ![c] = {}]
           /\ result' = [result EXCEPT ![c] = r]
<1>1. pc'[c] = "idle"
  BY DEF TypeOK, Return, Go
<1>2. Asked' = [Asked EXCEPT ![c] = {}]
  BY <1>1, OthersWait
<1> QED
  BY <1>2 DEF Return

\* What read has brought in when it returns 0: all the output of a child that is
\* done, and no more than that of one that failed.
LEMMA EndOfOutput ==
    ASSUME TypeOK, NEW c \in Callers, CallFits(c), ReadEnd(c)
    PROVE  /\ pc[c] = "reading"
           /\ child[c].state \in {"done", "failed"}
           /\ buf[c] <= size[c]
           /\ child[c].state = "done" => buf[c] = size[c]
<1>1. pc[c] = "reading" /\ opipe[c] = 0 /\ child[c].state # "running"
  BY DEF ReadEnd, At, Held, CallFits, EndsFit, Has
<1>2. child[c].state \in {"done", "failed"}
  <2>1. child[c].state \in States
    BY DEF TypeOK, Children
  <2>2. child[c].state # "none"
    BY <1>1 DEF CallFits, ChildFits, EndsFit, Early
  <2> QED
    BY <1>1, <2>1, <2>2 DEF States
<1>3. buf[c] <= size[c]
  BY Numbers DEF CallFits, DataFit, Amount
<1>4. child[c].state = "done" => buf[c] = size[c]
  BY <1>1, Numbers DEF CallFits, ChildFits, DataFit, Amount
<1> QED
  BY <1>1, <1>2, <1>3, <1>4

\* The steps of a thread that can begin a call.
LEMMA BeginAsks ==
    ASSUME TypeOK, NEW c \in Callers, Begin(c)
    PROVE  Abstract!CNext \/ Stutters
<1> USE DEF At, Go
<1>1. ASSUME NEW n \in Sizes[c], RunProgram(c, n) \/ GetCommandOutput(c, n)
      PROVE  Abstract!Ask(c, n)
  <2>1. pc[c] = "idle" /\ pc'[c] # "idle" /\ size'[c] = n
    BY <1>1 DEF TypeOK, RunProgram, GetCommandOutput
  <2>2. Asked' = [Asked EXCEPT ![c] = {n}]
    BY <2>1, OthersWait
  <2>3. Asked[c] = {}
    BY <2>1 DEF Asked
  <2>4. result' = [result EXCEPT ![c] = [got |-> 0, of |-> 0, how |-> "none"]]
    BY <1>1 DEF RunProgram, GetCommandOutput, NoResult
  <2> QED
    BY <2>2, <2>3, <2>4 DEF Asked, Abstract!Ask, Abstract!Answer
<1>2. ASSUME PopenFails(c) PROVE Abstract!TellNothing(c)
  <2>1. pc'[c] = "idle"
    BY <1>2 DEF PopenFails
  <2>2. Asked' = [Asked EXCEPT ![c] = {}]
    BY <2>1, OthersWait
  <2>3. result' = [result EXCEPT ![c] = [got |-> 0, of |-> 0, how |-> "no child"]]
    BY <1>2 DEF PopenFails
  <2> QED
    BY <2>2, <2>3 DEF Asked, Abstract!TellNothing, Abstract!Tell, Abstract!Answer
<1>3. ASSUME RunCommand(c) PROVE Stutters
  BY <1>3 DEF RunCommand, data, Stutters, Asked
<1> QED
  BY <1>1, <1>2, <1>3 DEF Begin, Abstract!CNext

\* The steps of a call and of its child.
LEMMA ContinueTells ==
    ASSUME TypeOK, NEW c \in Callers, CallFits(c), Continue(c)
    PROVE  Abstract!CNext \/ Stutters
<1> USE DEF At, Go
<1>1. ASSUME OutputPipe(c) PROVE Stutters
  BY <1>1 DEF TypeOK, OutputPipe, data, Stutters, Asked
<1>2. ASSUME NEW prog \in Programs, Fork(c, prog) PROVE Stutters
  BY <1>2 DEF TypeOK, Fork, data, Stutters, Asked
<1>3. ASSUME ForkFails(c) PROVE Abstract!TellNothing(c)
  <2>1. /\ Asked' = [Asked EXCEPT ![c] = {}]
        /\ result' = [result EXCEPT ![c] = [got |-> 0, of |-> 0, how |-> "no child"]]
    BY <1>3, ReturnTells DEF ForkFails
  <2> QED
    BY <2>1 DEF Asked, Abstract!TellNothing, Abstract!Tell, Abstract!Answer
<1>4. ASSUME CloseChildEnds(c) PROVE Stutters
  BY <1>4 DEF TypeOK, CloseChildEnds, data, Stutters, Asked
<1>5. ASSUME Write(c) PROVE Stutters
  BY <1>5 DEF Write, Stutters, Asked
<1>6. ASSUME WriteKills(c) \/ WriteFails(c) PROVE Stutters
  BY <1>6 DEF WriteKills, WriteFails, data, Stutters, Asked
<1>7. ASSUME CloseInput(c) PROVE Stutters
  BY <1>7 DEF TypeOK, CloseInput, data, Stutters, Asked
<1>8. ASSUME Read(c) PROVE Stutters
  BY <1>8 DEF Read, Stutters, Asked
<1>9. ASSUME ReadEnd(c) PROVE Abstract!TellAll(c) \/ Abstract!TellPart(c)
  <2>1. /\ pc[c] = "reading"
        /\ child[c].state \in {"done", "failed"}
        /\ buf[c] <= size[c]
        /\ child[c].state = "done" => buf[c] = size[c]
    BY <1>9, EndOfOutput
  <2>2. /\ Asked' = [Asked EXCEPT ![c] = {}]
        /\ result' = [result EXCEPT ![c] =
                         [got |-> buf[c], of |-> size[c], how |-> child[c].state]]
    BY <1>9, ReturnTells DEF ReadEnd, EndRead
  <2>3. size[c] \in Asked[c]
    BY <2>1 DEF Asked
  <2>4. buf[c] \in 0..size[c]
    BY <2>1, Numbers
  <2>5. CASE child[c].state = "done"
    <3>1. result' = [result EXCEPT ![c] =
                        [got |-> size[c], of |-> size[c], how |-> "done"]]
      BY <2>1, <2>2, <2>5
    <3> QED
      BY <2>2, <2>3, <3>1
      DEF Asked, Abstract!TellAll, Abstract!Tell, Abstract!Answer
  <2>6. CASE child[c].state = "failed"
    <3>1. result' = [result EXCEPT ![c] =
                        [got |-> buf[c], of |-> size[c], how |-> "failed"]]
      BY <2>2, <2>6
    <3> QED
      BY <2>2, <2>3, <2>4, <3>1
      DEF Asked, Abstract!TellPart, Abstract!Tell, Abstract!Answer
  <2> QED
    BY <2>1, <2>5, <2>6
<1> QED
  BY <1>1, <1>2, <1>3, <1>4, <1>5, <1>6, <1>7, <1>8, <1>9
  DEF Continue, Abstract!CNext

\* Every call is answered once, with the whole output of its child or, only if
\* that failed, a part of it, and every other step of threads, children and
\* commands leaves calls and answers alone.
THEOREM CallsImplemented == Spec => ImplementsCalls
<1>1. Init => Abstract!CInit
  BY DEF Init, NoResult, Abstract!CInit, Abstract!Answer
<1>2. ASSUME TypeOK, CallsInv, [Next]_vars
      PROVE  [Abstract!CNext]_<<Asked, result>>
  <2>1. ASSUME NEW c \in Callers, Begin(c) PROVE Abstract!CNext \/ Stutters
    BY <1>2, <2>1, BeginAsks
  <2>2. ASSUME NEW c \in Callers, Continue(c) PROVE Abstract!CNext \/ Stutters
    BY <1>2, <2>2, ContinueTells DEF CallsInv
  <2>3. ASSUME NEW c \in Callers, Child(c) \/ ChildFails(c) PROVE Stutters
    BY <2>3 DEF Child, ChildReads, ChildWrites, ChildEnds, ChildFails, data,
                Stutters, Asked
  <2>4. ASSUME CommandEnds \/ UNCHANGED vars PROVE Stutters
    BY <2>4 DEF CommandEnds, vars, data, Stutters, Asked
  <2>5. Abstract!CNext \/ Stutters
    BY <1>2, <2>1, <2>2, <2>3, <2>4 DEF Next
  <2> QED
    BY <2>5 DEF Stutters
<1> QED
  BY <1>1, <1>2, TypeCorrect, CallsCorrect, PTL
  DEF Spec, ImplementsCalls, Abstract!CSpec, Asked
=============================================================================
