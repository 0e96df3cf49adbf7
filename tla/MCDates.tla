------------------------------- MODULE MCDates -------------------------------
(***************************************************************************)
(* Instances of Dates for TLC.                                             *)
(***************************************************************************)
EXTENDS Dates, TLC

CONSTANTS c1, c2, c3

ThreeThreads == {c1, c2, c3}
TwoThreads   == {c1, c2}

OneYear      == 5..9
WinterSummer == <<1, 6>>

Date(pattern, wall, zone, form, seconds) ==
    [pattern |-> pattern, wall |-> wall, zone |-> zone, form |-> form,
     seconds |-> seconds]

\* Dates of both seasons, and at their boundary; every form of the zone.
AllForms ==
    {Date("W3CDTF", w, z, "hh:mm", TRUE) : w \in {2, 5, 7}, z \in {-1, 2}}
    \cup {Date("W3CDTF", 7, 0, "other", s) : s \in BOOLEAN}
    \cup {Date("W3CDTF", 7, 2, "hh:mm", FALSE), Date("W3CDTF", 7, 2, "hhmm", TRUE)}
    \cup {Date("RFC822", 3, 2, "hhmm", FALSE), Date("RFC822_NTZ", 6, 0, "other", TRUE),
          Date("NOWEEKDAY", 4, -1, "hhmm", TRUE), Date("NOWEEKDAY", 4, 0, "hhmm", FALSE),
          NoDate}

\* A date in winter, in a zone one hour ahead of UTC, as in the data of the tests.
WinterDate == {Date("W3CDTF", 2, 1, "hh:mm", TRUE)}

\* A call that another came across is in no property, and so are the buffers it
\* is the one to use: what it writes reaches only calls that are crossed, too.
Alone == {c \in Threads : ~crossed[c]}
InUse(places) == \E c \in Alone : pc[c] \in places
View == <<season, pc, crossed,
          [c \in Alone |-> <<date[c], t[c], tm[c], asked[c], text[c]>>],
          IF InUse({"offset", "memcpy"}) THEN localbuf ELSE LocalTime(0),
          IF InUse({"copy"}) THEN ascbuf ELSE <<>> >>

ThreadSymmetry == Permutations(Threads)
=============================================================================
