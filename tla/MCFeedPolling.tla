---------------------------- MODULE MCFeedPolling ----------------------------
(***************************************************************************)
(* Instances of FeedPolling for TLC.                                       *)
(***************************************************************************)
EXTENDS FeedPolling, TLC

CONSTANTS p1, h1, d1, d2, u1, u2

OneParser    == {p1}
OneHandle    == {h1}
TwoDocs      == {d1, d2}
TwoFeeds     == {u1, u2}
Versions1to3 == 1..3

\* One feed is redirected, by a response that was changed at time 2.
OneRedirected == (u1 :> {}) @@ (u2 :> {2})

\* After an empty result it keeps the validators of the other one.
OwnOnly == {<<u1, "own">>}

\* The factory's choice is ParserSession's business: one document is enough.
OneTree == {[name |-> "RDF", ns |-> "RDF_URI", version |-> "none",
             channel |-> FALSE]}

NoSettings == [p \in Parsers |-> {}]

DocSymmetry == Permutations(Docs)
=============================================================================
