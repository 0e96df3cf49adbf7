-------------------------------- MODULE Dates --------------------------------
(***************************************************************************)
(* date::format and date::w3cdtf_to_tm, called by threads that parse feeds *)
(* at the same time.  A step ends where the code writes or has read one of *)
(* the two buffers all threads share: the struct tm of localtime and the   *)
(* text of asctime.                                                        *)
(*                                                                         *)
(* A time is a number of hours, an instant or what a clock shows at one (a *)
(* wall time).  A date in a document is what the regular expressions and   *)
(* strptime tell apart:                                                    *)
(*   pattern  the first of the patterns that matches it, "none" if none    *)
(*            does; ISO8601 is never the first, as W3CDTF matches more     *)
(*   wall     the wall time it names                                       *)
(*   zone     how far the clock that shows it is ahead of UTC              *)
(*   form     how the zone is written: "hh:mm", "hhmm", or "other" for     *)
(*            a letter, a name, or nothing                                 *)
(*   seconds  whether it has seconds                                       *)
(* localtime, mktime and the clock are external.                           *)
(***************************************************************************)
EXTENDS Integers, Sequences

CONSTANTS
    Threads,
    DatesRead,      \* the dates in documents
    Std,            \* the offset of local time in winter
    Summer,         \* the instants at which local time is one hour later
    Seasons         \* the instants the clock shows, in order

Patterns == {"RFC822", "W3CDTF", "RFC822_NTZ", "NOWEEKDAY", "none"}

ASSUME StdAssumption     == Std \in Int /\ Summer \subseteq Int
ASSUME SeasonsAssumption == Seasons \in Seq(Int) /\ Seasons # <<>>
ASSUME DatesAssumption   == DatesRead \subseteq
    [pattern : Patterns, wall : Int, zone : Int,
     form : {"hh:mm", "hhmm", "other"}, seconds : BOOLEAN]

VARIABLES
    season,         \* which of Seasons it is
    pc,             \* where the call of a thread is
    date,           \* its argument
    t,              \* the time_t of w3cdtf_to_tm
    tm,             \* tm_date, by the wall time in it
    asked,          \* the instant time() gave it
    localbuf,       \* the struct tm localtime returns a pointer to
    ascbuf,         \* the text asctime returns a pointer to
    text,           \* what the call returned
    crossed         \* another call wrote a buffer this one was using

call == <<pc, date, t, tm, asked, text>>
vars == <<season, call, localbuf, ascbuf, crossed>>

\* A text and the wall time in a struct tm are sequences: of one wall time, or
\* of two if it begins like one and ends like another; of none if it is empty.
Mix(a, b) == <<Head(a), b[Len(b)]>>

Offset(x) == IF x \in Summer THEN Std + 1 ELSE Std

LocalTime(x) == [wall |-> <<x + Offset(x)>>, gmtoff |-> Offset(x)]

\* With tm_isdst = 0: the wall time of winter, whatever the season of the date.
MkTime(wall) == wall - Std

NoDate == [pattern |-> "none", wall |-> 0, zone |-> 0, form |-> "other",
           seconds |-> FALSE]

Init ==
    /\ season = 1
    /\ pc = [c \in Threads |-> "idle"]
    /\ date = [c \in Threads |-> NoDate]
    /\ t = [c \in Threads |-> 0]
    /\ tm = [c \in Threads |-> <<>>]
    /\ asked = [c \in Threads |-> Seasons[1]]
    /\ localbuf = LocalTime(0)
    /\ ascbuf = <<0>>
    /\ text = [c \in Threads |-> <<>>]
    /\ crossed = [c \in Threads |-> FALSE]

\* Local time is put back or forward.
Tick ==
    /\ season < Len(Seasons)
    /\ season' = season + 1
    /\ UNCHANGED <<call, localbuf, ascbuf, crossed>>

Go(c, place) == pc' = [pc EXCEPT ![c] = place]

\* The other threads that have written a buffer and not yet read it.
Using(c, places) == {d \in Threads \ {c} : pc[d] \in places}

\* Two threads in one buffer: it is a race, and both may find anything there.
Cross(c, users) ==
    crossed' = [d \in Threads |->
        crossed[d] \/ d \in users \/ (d = c /\ users # {})]

-----------------------------------------------------------------------------
(* The zone of a W3CDTF date is read if everything before it is, seconds   *)
(* included, and there is a colon in it.                                   *)

ZoneIsRead(d) == d.seconds /\ d.form = "hh:mm"

\* Fault: the offset is not negated.
Fault_Offs(d) == IF ZoneIsRead(d) THEN d.zone ELSE 0

Offs(d) == IF ZoneIsRead(d) THEN -d.zone ELSE 0

\* What strptime puts into tm_date for the other patterns.  It skips the zone, or
\* reads it (NOWEEKDAY) into a member asctime does not look at.  "%T" stores
\* nothing of a time without seconds, "%H:%M:%S" (RFC822) what there is.
Strptime(d) ==
    IF d.seconds \/ d.pattern = "RFC822" THEN d.wall ELSE d.wall - (d.wall % 24)

\* The call up to the first use of a buffer.
Fault_Format(c, d) ==               \* the zone of an RFC822 date is applied
    /\ pc[c] = "idle"
    /\ date' = [date EXCEPT ![c] = d]
    /\ t' = [t EXCEPT ![c] = IF d.pattern = "W3CDTF"
                             THEN MkTime(d.wall) + Offs(d) ELSE 0]
    /\ tm' = [tm EXCEPT ![c] = IF d.pattern \in {"W3CDTF", "none"}
                               THEN <<>> ELSE <<Strptime(d) - d.zone>>]
    /\ asked' = [asked EXCEPT ![c] = Seasons[1]]
    /\ text' = [text EXCEPT ![c] = <<>>]
    /\ crossed' = [crossed EXCEPT ![c] = FALSE]
    /\ Go(c, CASE d.pattern = "none"   -> "idle"
               [] d.pattern = "W3CDTF" -> "now"
               [] OTHER                -> "tm")
    /\ UNCHANGED <<season, localbuf, ascbuf>>

Format(c, d) ==
    /\ pc[c] = "idle"
    /\ date' = [date EXCEPT ![c] = d]
    /\ t' = [t EXCEPT ![c] = IF d.pattern = "W3CDTF"
                             THEN MkTime(d.wall) + Offs(d) ELSE 0]
    /\ tm' = [tm EXCEPT ![c] = IF d.pattern \in {"W3CDTF", "none"}
                               THEN <<>> ELSE <<Strptime(d)>>]
    /\ asked' = [asked EXCEPT ![c] = Seasons[1]]
    /\ text' = [text EXCEPT ![c] = <<>>]
    /\ crossed' = [crossed EXCEPT ![c] = FALSE]
    /\ Go(c, CASE d.pattern = "none"   -> "idle"
               [] d.pattern = "W3CDTF" -> "now"
               [] OTHER                -> "tm")
    /\ UNCHANGED <<season, localbuf, ascbuf>>

-----------------------------------------------------------------------------
(* w3cdtf_to_tm from time() on: localtime of now for the offset that is    *)
(* added, then localtime of the sum, copied to tm_date.                    *)

CallLocaltime(c, x) ==
    LET users == Using(c, {"offset", "memcpy"})
        new   == LocalTime(x)
    IN  /\ \/ localbuf' = new
           \/ /\ users # {}
              /\ \E o \in {localbuf.gmtoff, new.gmtoff} :
                     localbuf' = [wall   |-> Mix(localbuf.wall, new.wall),
                                  gmtoff |-> o]
        /\ Cross(c, users)

LocaltimeOfNow(c) ==
    /\ pc[c] = "now"
    /\ asked' = [asked EXCEPT ![c] = Seasons[season]]
    /\ CallLocaltime(c, Seasons[season])
    /\ Go(c, "offset")
    /\ UNCHANGED <<season, date, t, tm, ascbuf, text>>

AddOffset(c) ==
    /\ pc[c] = "offset"
    /\ t' = [t EXCEPT ![c] = @ + localbuf.gmtoff]
    /\ Go(c, "sum")
    /\ UNCHANGED <<season, date, tm, asked, localbuf, ascbuf, text, crossed>>

LocaltimeOfSum(c) ==
    /\ pc[c] = "sum"
    /\ CallLocaltime(c, t[c])
    /\ Go(c, "memcpy")
    /\ UNCHANGED <<season, date, t, tm, asked, ascbuf, text>>

Memcpy(c) ==
    /\ pc[c] = "memcpy"
    /\ tm' = [tm EXCEPT ![c] = localbuf.wall]
    /\ t' = [t EXCEPT ![c] = 0]
    /\ Go(c, "tm")
    /\ UNCHANGED <<season, date, asked, localbuf, ascbuf, text, crossed>>

-----------------------------------------------------------------------------
(* format from asctime on.                                                 *)

Asctime(c) ==
    LET users == Using(c, {"copy"})
    IN  /\ pc[c] = "tm"
        /\ \/ ascbuf' = tm[c]
           \/ users # {} /\ ascbuf' = Mix(ascbuf, tm[c])
        /\ Cross(c, users)
        /\ tm' = [tm EXCEPT ![c] = <<>>]
        /\ Go(c, "copy")
        /\ UNCHANGED <<season, date, t, asked, localbuf, text>>

Copy(c) ==
    /\ pc[c] = "copy"
    /\ text' = [text EXCEPT ![c] = ascbuf]
    /\ Go(c, "idle")
    /\ UNCHANGED <<season, date, t, tm, asked, localbuf, ascbuf, crossed>>

Next ==
    \/ Tick
    \/ \E c \in Threads :
          \/ \E d \in DatesRead : Format(c, d)
          \/ LocaltimeOfNow(c) \/ AddOffset(c) \/ LocaltimeOfSum(c) \/ Memcpy(c)
          \/ Asctime(c) \/ Copy(c)

Spec == Init /\ [][Next]_vars

-----------------------------------------------------------------------------
(* Properties.                                                             *)

\* The calls that have returned and that no other call came across.
Undisturbed(c) == pc[c] = "idle" /\ ~crossed[c]

\* The instant a date denotes.
Denoted(d) == d.wall - d.zone

\* The dates whose whole time w3cdtf_to_tm reads.
IsRead(d) == d.pattern = "W3CDTF" /\ (ZoneIsRead(d) \/ d.zone = 0)

(***************************************************************************)
(* The text of a W3CDTF date that is read whole, in winter, is the local   *)
(* time of the instant it denotes, whatever the season of that instant,    *)
(* the zone it is written in and the local one (date.cpp:120-147).  Calls  *)
(* of other threads do no harm as long as none uses a buffer between two   *)
(* steps of this one that need it, even if they overlap otherwise.         *)
(***************************************************************************)
InstantKept ==
    \A c \in Threads :
        /\ Undisturbed(c) /\ IsRead(date[c]) /\ asked[c] \notin Summer
        => text[c] = LocalTime(Denoted(date[c])).wall

(***************************************************************************)
(* The tests want one time, that of UTC, wherever and whenever they are    *)
(* run: for 2008-12-30T08:20:00+01:00 they want                            *)
(* "Tue, 30 Dec 2008 07:20:00 +0000" (unitest.cpp:79, and :89 for Atom).   *)
(***************************************************************************)
TextIsUtc ==
    \A c \in Threads :
        Undisturbed(c) /\ IsRead(date[c]) => text[c] = <<Denoted(date[c])>>

(***************************************************************************)
(* The text of a date of the other patterns is the wall time written in    *)
(* the document, whatever its zone, the season, and the calls for W3CDTF   *)
(* dates that other threads make meanwhile (date.cpp:40-86).  Only RFC822  *)
(* dates may leave out the seconds.                                        *)
(***************************************************************************)
WallTimeKept ==
    \A c \in Threads :
        LET d == date[c]
        IN  /\ Undisturbed(c) /\ d.pattern \notin {"W3CDTF", "none"}
            /\ d.pattern = "RFC822" \/ d.seconds
            => text[c] = <<d.wall>>

-----------------------------------------------------------------------------
(* The inductive invariant of InstantKept and WallTimeKept.                *)

WallTexts == Seq(Int) \ {<<>>}

\* The types; what is copied from tm_date and from the buffers is never empty.
TypeOK ==
    /\ season \in 1..Len(Seasons)
    /\ pc \in [Threads ->
           {"idle", "now", "offset", "sum", "memcpy", "tm", "copy"}]
    /\ date \in [Threads -> DatesRead \cup {NoDate}]
    /\ t \in [Threads -> Int]
    /\ tm \in [Threads -> Seq(Int)]
    /\ \A c \in Threads : pc[c] = "tm" => tm[c] # <<>>
    /\ asked \in [Threads -> Int]
    /\ localbuf \in [wall : WallTexts, gmtoff : Int]
    /\ ascbuf \in WallTexts
    /\ text \in [Threads -> Seq(Int)]
    /\ crossed \in [Threads -> BOOLEAN]

\* The time_t of a W3CDTF date, and the text of a date, that a call that no
\* other comes across arrives at.
Summed(c) == MkTime(date[c].wall) + Offs(date[c]) + Offset(asked[c])

Expected(c) ==
    IF date[c].pattern = "W3CDTF" THEN LocalTime(Summed(c)).wall
                                  ELSE <<Strptime(date[c])>>

\* What such a call relies on at each place, the shared buffers included.
OnTheWay(c) ==
    /\ pc[c] \in {"now", "offset", "sum", "memcpy"} => date[c].pattern = "W3CDTF"
    /\ pc[c] \in {"now", "offset"} => t[c] = MkTime(date[c].wall) + Offs(date[c])
    /\ pc[c] = "offset" => localbuf.gmtoff = Offset(asked[c])
    /\ pc[c] = "sum"    => t[c] = Summed(c)
    /\ pc[c] = "memcpy" => localbuf.wall = Expected(c)
    /\ pc[c] = "tm"     => tm[c] = Expected(c)
    /\ pc[c] = "copy"   => ascbuf = Expected(c)
    /\ pc[c] = "idle"   => text[c] = Expected(c) \/ date[c].pattern = "none"

DatesInv == \A c \in Threads : crossed[c] \/ OnTheWay(c)
=============================================================================
