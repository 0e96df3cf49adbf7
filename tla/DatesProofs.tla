----------------------------- MODULE DatesProofs -----------------------------
(***************************************************************************)
(* Proofs about Dates, for any number of threads, any dates, any offset of *)
(* local time and any summer.                                              *)
(***************************************************************************)
EXTENDS Dates, TLAPS

-----------------------------------------------------------------------------
(* Times and texts.                                                        *)

\* The offset of local time is a number.
LEMMA OffsetType == ASSUME NEW x \in Int PROVE Offset(x) \in Int
BY StdAssumption DEF Offset

\* So is the present time.
LEMMA SeasonType == ASSUME TypeOK PROVE Seasons[season] \in Int
BY SeasonsAssumption DEF TypeOK

\* What localtime writes, for a time or for a mix of two.
LEMMA BufferTypes ==
    /\ \A x \in Int : LocalTime(x) \in [wall : WallTexts, gmtoff : Int]
    /\ \A a, b \in WallTexts : Mix(a, b) \in WallTexts
<1>1. \A x \in Int : <<x>> \in WallTexts
  BY DEF WallTexts
<1>2. \A x \in Int : LocalTime(x) \in [wall : WallTexts, gmtoff : Int]
  BY <1>1, OffsetType DEF LocalTime
<1>3. ASSUME NEW a \in WallTexts, NEW b \in WallTexts
      PROVE  Mix(a, b) \in WallTexts
  <2>1. Head(a) \in Int /\ b[Len(b)] \in Int
    BY DEF WallTexts
  <2>2. \A x, y \in Int : <<x, y>> \in WallTexts
    BY DEF WallTexts
  <2> QED
    BY <2>1, <2>2 DEF Mix
<1> QED
  BY <1>2, <1>3

\* What the dates of documents are made of.
LEMMA DateTypes ==
    ASSUME TypeOK, NEW c \in Threads
    PROVE  /\ date[c].wall \in Int /\ date[c].zone \in Int
           /\ date[c].seconds \in BOOLEAN
           /\ Offs(date[c]) \in Int
<1>1. date[c] \in DatesRead \cup {NoDate}
  BY DEF TypeOK
<1>2. \A d \in DatesRead \cup {NoDate} :
          d.wall \in Int /\ d.zone \in Int /\ d.seconds \in BOOLEAN
  <2>1. NoDate.wall \in Int /\ NoDate.zone \in Int /\ NoDate.seconds \in BOOLEAN
    BY DEF NoDate
  <2>2. \A d \in DatesRead : d.wall \in Int /\ d.zone \in Int /\ d.seconds \in BOOLEAN
    BY DatesAssumption
  <2> QED
    BY <2>1, <2>2
<1> QED
  BY <1>1, <1>2 DEF Offs

-----------------------------------------------------------------------------
(* Types.                                                                  *)

\* A call of localtime keeps the types of what it writes.
LEMMA CallLocaltimeType ==
    ASSUME TypeOK, NEW c \in Threads, NEW x \in Int, CallLocaltime(c, x)
    PROVE  /\ localbuf' \in [wall : WallTexts, gmtoff : Int]
           /\ crossed' \in [Threads -> BOOLEAN]
<1>1. localbuf \in [wall : WallTexts, gmtoff : Int]
  BY DEF TypeOK
<1>2. localbuf' \in [wall : WallTexts, gmtoff : Int]
  BY <1>1, BufferTypes DEF CallLocaltime
<1>3. crossed' \in [Threads -> BOOLEAN]
  BY DEF TypeOK, CallLocaltime, Cross
<1> QED
  BY <1>2, <1>3

\* Every variable keeps its type through the calls of all threads, and asctime
\* is never given an empty time.
THEOREM DatesTyped == Spec => []TypeOK
<1>1. Init => TypeOK
  <2> SUFFICES ASSUME Init PROVE TypeOK
    OBVIOUS
  <2>1. Seasons[1] \in Int /\ 1 \in 1..Len(Seasons)
    BY SeasonsAssumption
  <2>2. LocalTime(0) \in [wall : WallTexts, gmtoff : Int]
    BY BufferTypes
  <2>3. <<0>> \in WallTexts /\ <<>> \in Seq(Int)
    BY DEF WallTexts
  <2> QED
    BY <2>1, <2>2, <2>3 DEF Init, TypeOK
<1>2. TypeOK /\ [Next]_vars => TypeOK'
  <2> SUFFICES ASSUME TypeOK, [Next]_vars PROVE TypeOK'
    OBVIOUS
  <2>1. CASE UNCHANGED vars
    BY <2>1 DEF TypeOK, vars, call
  <2>2. CASE Tick
    BY <2>2, SeasonsAssumption DEF TypeOK, Tick, call
  <2>3. ASSUME NEW c \in Threads, NEW d \in DatesRead, Format(c, d)
        PROVE  TypeOK'
    <3>1. Seasons[1] \in Int
      BY SeasonsAssumption
    <3>2. MkTime(d.wall) + Offs(d) \in Int /\ Strptime(d) \in Int
      BY DatesAssumption, StdAssumption DEF MkTime, Offs, Strptime
    <3>3. <<Strptime(d)>> \in Seq(Int) /\ <<Strptime(d)>> # <<>> /\ <<>> \in Seq(Int)
      BY <3>2
    <3>4. /\ t' \in [Threads -> Int] /\ asked' \in [Threads -> Int]
          /\ date' \in [Threads -> DatesRead \cup {NoDate}]
          /\ tm' \in [Threads -> Seq(Int)] /\ text' \in [Threads -> Seq(Int)]
          /\ crossed' \in [Threads -> BOOLEAN]
      BY <2>3, <3>1, <3>2, <3>3 DEF TypeOK, Format
    <3>5. /\ pc' \in [Threads ->
                {"idle", "now", "offset", "sum", "memcpy", "tm", "copy"}]
          /\ \A e \in Threads : pc'[e] = "tm" => tm'[e] # <<>>
      BY <2>3, <3>3 DEF TypeOK, Format, Go
    <3> QED
      BY <2>3, <3>4, <3>5 DEF TypeOK, Format
  <2>4. ASSUME NEW c \in Threads, LocaltimeOfNow(c) PROVE TypeOK'
    BY <2>4, SeasonType, CallLocaltimeType DEF TypeOK, LocaltimeOfNow, Go
  <2>5. ASSUME NEW c \in Threads, AddOffset(c) PROVE TypeOK'
    <3>1. t[c] + localbuf.gmtoff \in Int
      BY DEF TypeOK
    <3> QED
      BY <2>5, <3>1 DEF TypeOK, AddOffset, Go
  <2>6. ASSUME NEW c \in Threads, LocaltimeOfSum(c) PROVE TypeOK'
    <3>1. t[c] \in Int
      BY DEF TypeOK
    <3> QED
      BY <2>6, <3>1, CallLocaltimeType DEF TypeOK, LocaltimeOfSum, Go
  <2>7. ASSUME NEW c \in Threads, Memcpy(c) PROVE TypeOK'
    BY <2>7 DEF TypeOK, Memcpy, Go, WallTexts
  <2>8. ASSUME NEW c \in Threads, Asctime(c) PROVE TypeOK'
    <3>1. tm[c] \in WallTexts
      BY <2>8 DEF TypeOK, Asctime, WallTexts
    <3>2. ascbuf' \in WallTexts
      BY <2>8, <3>1, BufferTypes DEF TypeOK, Asctime
    <3>3. crossed' \in [Threads -> BOOLEAN]
      BY <2>8 DEF TypeOK, Asctime, Cross
    <3>4. /\ tm' \in [Threads -> Seq(Int)]
          /\ pc' \in [Threads ->
                {"idle", "now", "offset", "sum", "memcpy", "tm", "copy"}]
          /\ \A e \in Threads : pc'[e] = "tm" => tm'[e] # <<>>
      BY <2>8 DEF TypeOK, Asctime, Go
    <3> QED
      BY <2>8, <3>2, <3>3, <3>4 DEF TypeOK, Asctime
  <2>9. ASSUME NEW c \in Threads, Copy(c) PROVE TypeOK'
    BY <2>9 DEF TypeOK, Copy, Go, WallTexts
  <2> QED
    BY <2>1, <2>2, <2>3, <2>4, <2>5, <2>6, <2>7, <2>8, <2>9 DEF Next
<1> QED
  BY <1>1, <1>2, PTL DEF Spec

-----------------------------------------------------------------------------
(* Calls and the buffers they share.                                       *)

\* A step of another thread leaves a call as it was, or crosses it.
LEMMA OthersStep ==
    ASSUME TypeOK, NEW c \in Threads, OnTheWay(c),
           UNCHANGED <<date[c], t[c], tm[c], asked[c], text[c], pc[c]>>,
           \/ localbuf' = localbuf
           \/ pc[c] \notin {"offset", "memcpy"},
           \/ ascbuf' = ascbuf
           \/ pc[c] # "copy"
    PROVE  OnTheWay(c)'
BY DEF OnTheWay, Expected, Summed

\* A thread that writes a buffer another call is using crosses it.
LEMMA WriterCrosses ==
    ASSUME TypeOK, NEW c \in Threads, NEW d \in Threads \ {c}, NEW places,
           Cross(c, Using(c, places)), pc[d] \in places
    PROVE  crossed'[d]
BY DEF Cross, Using

\* A call that is not crossed when it writes a buffer finds there what it wrote.
LEMMA WriterAlone ==
    ASSUME TypeOK, NEW c \in Threads, NEW users, Cross(c, users), ~crossed'[c]
    PROVE  users = {} /\ ~crossed[c]
BY DEF Cross

\* What is true of a call at every place it passes.
THEOREM DatesCorrect == Spec => []DatesInv
<1>1. Init => DatesInv
  <2> SUFFICES ASSUME Init, NEW c \in Threads PROVE OnTheWay(c)
    BY DEF DatesInv
  <2>1. pc[c] = "idle" /\ date[c].pattern = "none"
    BY DEF Init, NoDate
  <2> QED
    BY <2>1 DEF OnTheWay
<1>2. TypeOK /\ DatesInv /\ [Next]_vars => DatesInv'
  <2> SUFFICES ASSUME TypeOK, DatesInv, [Next]_vars, NEW c \in Threads,
                      ~crossed'[c]
               PROVE  OnTheWay(c)'
    BY DEF DatesInv
  <2>0. crossed[c] \/ OnTheWay(c)
    BY DEF DatesInv
  <2>1. CASE UNCHANGED vars \/ Tick
    BY <2>0, <2>1, OthersStep DEF vars, call, Tick
  <2>2. ASSUME NEW d \in Threads \ {c},
               \/ \E e \in DatesRead : Format(d, e)
               \/ LocaltimeOfNow(d) \/ AddOffset(d) \/ LocaltimeOfSum(d)
               \/ Memcpy(d) \/ Asctime(d) \/ Copy(d)
        PROVE  OnTheWay(c)'
    <3>1. UNCHANGED <<date[c], t[c], tm[c], asked[c], text[c], pc[c]>>
      BY <2>2
      DEF TypeOK, Format, LocaltimeOfNow, AddOffset, LocaltimeOfSum, Memcpy,
          Asctime, Copy, Go
    <3>2. ~crossed[c]
      BY <2>2
      DEF TypeOK, Format, LocaltimeOfNow, AddOffset, LocaltimeOfSum, Memcpy,
          Asctime, Copy, CallLocaltime, Cross
    <3>3. localbuf' = localbuf \/ pc[c] \notin {"offset", "memcpy"}
      BY <2>2, WriterCrosses
      DEF Format, LocaltimeOfNow, AddOffset, LocaltimeOfSum, Memcpy,
          Asctime, Copy, CallLocaltime
    <3>4. ascbuf' = ascbuf \/ pc[c] # "copy"
      BY <2>2, WriterCrosses
      DEF Format, LocaltimeOfNow, AddOffset, LocaltimeOfSum, Memcpy,
          Asctime, Copy
    <3> QED
      BY <2>0, <3>1, <3>2, <3>3, <3>4, OthersStep
  <2>3. ASSUME NEW d \in DatesRead, Format(c, d) PROVE OnTheWay(c)'
    <3>1. /\ date'[c] = d
          /\ t'[c] = IF d.pattern = "W3CDTF" THEN MkTime(d.wall) + Offs(d) ELSE 0
          /\ tm'[c] = IF d.pattern \in {"W3CDTF", "none"} THEN <<>> ELSE <<Strptime(d)>>
          /\ pc'[c] = CASE d.pattern = "none"   -> "idle"
                        [] d.pattern = "W3CDTF" -> "now"
                        [] OTHER                -> "tm"
      BY <2>3 DEF Format, Go, TypeOK
    <3>2. CASE d.pattern = "none"
      BY <3>1, <3>2 DEF OnTheWay
    <3>3. CASE d.pattern = "W3CDTF"
      BY <3>1, <3>3 DEF OnTheWay
    <3>4. CASE d.pattern \notin {"none", "W3CDTF"}
      BY <3>1, <3>4 DEF OnTheWay, Expected
    <3> QED
      BY <3>2, <3>3, <3>4
  <2>4. CASE LocaltimeOfNow(c)
    <3>1. localbuf' = LocalTime(Seasons[season]) /\ ~crossed[c]
      BY <2>4, WriterAlone DEF LocaltimeOfNow, CallLocaltime
    <3>2. /\ asked'[c] = Seasons[season] /\ pc[c] = "now" /\ pc'[c] = "offset"
          /\ date'[c] = date[c] /\ t'[c] = t[c]
      BY <2>4 DEF LocaltimeOfNow, Go, TypeOK
    <3>3. localbuf'.gmtoff = Offset(asked'[c])
      BY <3>1, <3>2 DEF LocalTime
    <3> QED
      BY <2>0, <3>1, <3>2, <3>3 DEF OnTheWay
  <2>5. CASE AddOffset(c)
    <3>1. /\ t'[c] = t[c] + localbuf.gmtoff /\ pc[c] = "offset" /\ pc'[c] = "sum"
          /\ date'[c] = date[c] /\ asked'[c] = asked[c] /\ ~crossed[c]
      BY <2>5 DEF AddOffset, Go, TypeOK
    <3>2. t'[c] = Summed(c)'
      BY <2>0, <3>1 DEF OnTheWay, Summed
    <3> QED
      BY <2>0, <3>1, <3>2 DEF OnTheWay
  <2>6. CASE LocaltimeOfSum(c)
    <3>1. localbuf' = LocalTime(t[c]) /\ ~crossed[c]
      BY <2>6, WriterAlone DEF LocaltimeOfSum, CallLocaltime
    <3>2. /\ asked'[c] = asked[c] /\ pc[c] = "sum" /\ pc'[c] = "memcpy"
          /\ date'[c] = date[c]
      BY <2>6 DEF LocaltimeOfSum, Go, TypeOK
    <3>3. date[c].pattern = "W3CDTF" /\ t[c] = Summed(c)
      BY <2>0, <3>1, <3>2 DEF OnTheWay
    <3>4. localbuf'.wall = Expected(c)'
      BY <3>1, <3>2, <3>3 DEF Expected, Summed
    <3> QED
      BY <3>2, <3>3, <3>4 DEF OnTheWay
  <2>7. CASE Memcpy(c)
    <3>1. /\ tm'[c] = localbuf.wall /\ pc[c] = "memcpy" /\ pc'[c] = "tm"
          /\ date'[c] = date[c] /\ asked'[c] = asked[c] /\ ~crossed[c]
      BY <2>7 DEF Memcpy, Go, TypeOK
    <3>2. tm'[c] = Expected(c)'
      BY <2>0, <3>1 DEF OnTheWay, Expected, Summed
    <3> QED
      BY <3>1, <3>2 DEF OnTheWay
  <2>8. CASE Asctime(c)
    <3>1. ascbuf' = tm[c] /\ ~crossed[c]
      BY <2>8, WriterAlone DEF Asctime
    <3>2. /\ pc[c] = "tm" /\ pc'[c] = "copy"
          /\ date'[c] = date[c] /\ asked'[c] = asked[c]
      BY <2>8 DEF Asctime, Go, TypeOK
    <3>3. ascbuf' = Expected(c)'
      BY <2>0, <3>1, <3>2 DEF OnTheWay, Expected, Summed
    <3> QED
      BY <3>2, <3>3 DEF OnTheWay
  <2>9. CASE Copy(c)
    <3>1. /\ text'[c] = ascbuf /\ pc[c] = "copy" /\ pc'[c] = "idle"
          /\ date'[c] = date[c] /\ asked'[c] = asked[c] /\ ~crossed[c]
      BY <2>9 DEF Copy, Go, TypeOK
    <3>2. text'[c] = Expected(c)'
      BY <2>0, <3>1 DEF OnTheWay, Expected, Summed
    <3> QED
      BY <3>1, <3>2 DEF OnTheWay
  <2> QED
    BY <2>1, <2>2, <2>3, <2>4, <2>5, <2>6, <2>7, <2>8, <2>9 DEF Next
<1> QED
  BY <1>1, <1>2, DatesTyped, PTL DEF Spec

-----------------------------------------------------------------------------
(* The two properties.                                                     *)

\* A W3CDTF date that is read whole, in winter, becomes the local time of its
\* instant, however many threads convert dates.
THEOREM InstantIsKept == Spec => []InstantKept
<1>1. TypeOK /\ DatesInv => InstantKept
  <2> SUFFICES ASSUME TypeOK, DatesInv, NEW c \in Threads, Undisturbed(c),
                      IsRead(date[c]), asked[c] \notin Summer
               PROVE  text[c] = LocalTime(Denoted(date[c])).wall
    BY DEF InstantKept
  <2>1. text[c] = LocalTime(Summed(c)).wall
    BY DEF DatesInv, OnTheWay, Undisturbed, Expected, IsRead
  <2>2. Offset(asked[c]) = Std /\ Std \in Int
    BY StdAssumption DEF Offset
  <2>3. Offs(date[c]) = -date[c].zone
    BY DateTypes DEF Offs, IsRead
  <2>4. Summed(c) = Denoted(date[c])
    BY <2>2, <2>3, DateTypes DEF Summed, Denoted, MkTime
  <2> QED
    BY <2>1, <2>4
<1> QED
  BY <1>1, DatesTyped, DatesCorrect, PTL

\* A date of another pattern keeps the wall time written in the document.
THEOREM WallTimeIsKept == Spec => []WallTimeKept
<1>1. TypeOK /\ DatesInv => WallTimeKept
  BY DateTypes
  DEF WallTimeKept, DatesInv, OnTheWay, Undisturbed, Expected, Strptime
<1> QED
  BY <1>1, DatesTyped, DatesCorrect, PTL
=============================================================================
