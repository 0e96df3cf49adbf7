---------------------------- MODULE MCRss10Parser ----------------------------
(***************************************************************************)
(* Instances of Rss10Parser for TLC.                                       *)
(***************************************************************************)
EXTENDS Rss10Parser

\* A node whose text is the same serialised.
Shape(name, uri, content) ==
    [name |-> name, ns |-> uri, attrs |-> <<>>, content |-> content,
     markup |-> content, kids |-> FALSE, sub |-> <<>>]

About(uri) == <<[name |-> "about", ns |-> uri, value |-> "u"]>>

Roots ==
    {Shape("channel", RSS, "")}
    \cup {[Shape("item", RSS, "") EXCEPT !.attrs = a] :
            a \in {<<>>, About("RDF_URI"), About("none")}}
    \cup {Shape("item", "none", "")}

OneOfEach(names) == {Shape(name, RSS, "text") : name \in names}

InChannel ==
    OneOfEach({"title", "link", "description"})
    \cup {Shape("date", "DC_URI", t) : t \in {"date", "no date"}}
    \cup {Shape("creator", "DC_URI", "text"), Shape("title", "DC_URI", "text")}

InItem ==
    OneOfEach({"title", "link", "description"})
    \cup {Shape("description", RSS, ""),
          [Shape("description", RSS, "has <") EXCEPT !.markup = "has &lt;"],
          [Shape("description", RSS, "text") EXCEPT !.kids = TRUE, !.markup = "markup"]}
    \cup {Shape("date", "DC_URI", "date"), Shape("encoded", "CONTENT_URI", "text"),
          Shape("summary", "ITUNES_URI", "text"), Shape("title", "DC_URI", "text")}
=============================================================================
