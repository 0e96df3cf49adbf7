--------------------------- MODULE MCParserSession ---------------------------
(***************************************************************************)
(* Instances of ParserSession for TLC.                                     *)
(***************************************************************************)
EXTENDS ParserSession, TLC

CONSTANTS p1, p2, h1, d1, d2

Tree(name, ns, version, channel) ==
    [name |-> name, ns |-> ns, version |-> version, channel |-> channel]

\* Every kind of root element parse_xmlnode tells apart.
AllTrees ==
    {Tree("", "none", "none", FALSE)}
    \cup {Tree("rss", "none", v, c) :
            v \in {"0.91", "0.92", "0.94", "1.0", "2", "2.0", "0.93", "none"},
            c \in BOOLEAN}
    \cup {Tree("RDF", "RDF_URI", "none", FALSE)}
    \cup {Tree("feed", ns, v, FALSE) :
            ns \in {"none", "ATOM_0_3_URI", "ATOM_1_0_URI", "other"},
            v \in {"none", "0.3", "1.0"}}
    \cup {Tree("html", "none", "none", c) : c \in BOOLEAN}

\* One object with a timeout and a proxy, one with neither: what the second
\* borrows the first has configured.
TwoConfigured == p1 :> {"USERAGENT", "TIMEOUT", "PROXY"} @@ p2 :> {"USERAGENT"}
Timeouts      == p1 :> {"TIMEOUT"} @@ p2 :> {}

TwoParsers == {p1, p2}
OneHandle  == {h1}
TwoDocs    == {d1, d2}
OneValue   == {1}
TwoValues  == {1, 2}
NoValue    == {}

\* What the handles' options, header lists and callback targets depend on.  No
\* guard reads lm, et or result, and where no document can be allocated a body
\* still ends as one that could not be parsed: states that agree on this tuple
\* have the same behaviours of it.
HandleView == <<alive, handles, slist, call>>
=============================================================================
