----------------------------- MODULE MCAtomParser -----------------------------
(***************************************************************************)
(* Instances of AtomParser for TLC.                                        *)
(***************************************************************************)
EXTENDS AtomParser

Attr(name, value) == [name |-> name, ns |-> "none", value |-> value]

Base(value) == [name |-> "base", ns |-> "XML_URI", value |-> value]

\* A node whose text is the same serialised.
Shape(name, uri, attrs, content) ==
    [name |-> name, ns |-> uri, attrs |-> attrs, content |-> content,
     markup |-> content, kids |-> FALSE, sub |-> <<>>]

\* No attribute, or one with one of the values.
Optional(name, values) == {<<>>} \cup {<<Attr(name, v)>> : v \in values}

TextConstructs(name, uri) ==
    {Shape(name, uri, mode \o type, "text") :
        mode \in Optional("mode", {"escaped", "base64"}),
        type \in Optional("type", {"html", "xhtml"})}
    \cup {Shape(name, uri, <<Attr("type", "html")>>, "")}

\* A content whose text is in child elements, and one with a base of its own.
Markup(uri) ==
    {[Shape("content", uri, attrs, content) EXCEPT !.markup = "markup", !.kids = TRUE] :
        attrs \in {<<Attr("type", "xhtml")>>, <<Attr("mode", "xml")>>},
        content \in {"", "text"}}
    \cup {[Shape("content", uri, <<>>, "has <") EXCEPT !.markup = "has &lt;"],
          Shape("content", uri, <<Base("content base")>>, "text")}

Links(uri) ==
    {Shape("link", uri, rel \o href, "") :
        rel  \in Optional("rel", {"alternate", "enclosure", "comments"}),
        href \in Optional("href", {"relative", "absolute"})}
    \cup {Shape("link", uri, <<Attr("rel", "enclosure"), Attr("type", "t")>> \o href, "") :
            href \in Optional("href", {"relative"})}

Dates(uri) ==
    {Shape(name, uri, <<>>, text) : name \in {"published", "updated"},
                                    text \in {"date", "no date"}}

Authors(uri) ==
    {[Shape("author", uri, <<>>, "") EXCEPT !.sub = s] :
        s \in {<<Shape("email", uri, <<>>, "text")>>,
               <<Shape("name", uri, <<>>, "text"), Shape("name", uri, <<>>, "")>>}}

Plain(uri) ==
    {Shape(name, uri, <<>>, "text") : name \in {"title", "id", "rights"}}
    \cup {Shape("category", uri, <<Attr("scheme", s), Attr("label", "l")>>, "") :
            s \in {"google", "other"}}

\* The kinds of text, date and link of an entry, where one document has them all.
EntryOf(uri) ==
    TextConstructs("content", uri) \cup TextConstructs("summary", uri)
        \cup Markup(uri) \cup Links(uri) \cup Dates(uri) \cup Authors(uri) \cup Plain(uri)

\* A few of each, for the namespaces of the other versions.
FewOf(uri) ==
    {Shape("summary", uri, <<>>, "text"), Shape("content", uri, <<>>, "text"),
     Shape("updated", uri, <<>>, "date"), Shape("published", uri, <<>>, "no date"),
     Shape("link", uri, <<Attr("href", "relative")>>, ""),
     Shape("link", uri, <<>>, ""), Shape("id", uri, <<>>, "text")}

AtomShapes ==
    EntryOf("ATOM_1_0_URI")
        \cup UNION {FewOf(uri) : uri \in {"ATOM_0_3_URI", "none"}}

FeedOf(uri) ==
    {Shape(name, uri, <<>>, "text") : name \in {"title", "subtitle"}}
    \cup {Shape("updated", uri, <<>>, "date"), Shape("title", uri, <<Attr("type", "html")>>, "")}
    \cup {Shape("link", uri, rel \o <<Attr("href", "relative")>>, "") :
            rel \in Optional("rel", {"alternate"})}

FeedElements == UNION {FeedOf(uri) : uri \in {"ATOM_1_0_URI", "none"}}

AllVersions == {"ATOM_0_3", "ATOM_1_0", "ATOM_0_3_NONS"}
Bases       ==
    {<<>>, <<Base("feed base"), [name |-> "lang", ns |-> "XML_URI", value |-> "en"]>>}
EntryBases  == {<<>>, <<Base("entry base")>>}
=============================================================================
