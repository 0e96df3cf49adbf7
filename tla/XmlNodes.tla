------------------------------ MODULE XmlNodes ------------------------------
(***************************************************************************)
(* What the four feed parsers read of an XML node (class rss_parser), and  *)
(* the feed and the items they fill in (types.h).                          *)
(*                                                                         *)
(* A node has                                                              *)
(*   id       its place among the nodes visited, from 1                    *)
(*   name     its local name                                               *)
(*   ns       its namespace, by the macro that holds the URI, "none" for   *)
(*            a node without one                                           *)
(*   attrs    its attributes in document order, each [name, ns, value]     *)
(*   content  its text, with the text below it                             *)
(*   markup   the serialisation of its children, its text included         *)
(*   kids     whether it has child elements                                *)
(*   sub      the nodes below it that a parser goes through, in order      *)
(* A text that a parser stores carries the id of the node it was read      *)
(* from, so that what ends up in a feed can be traced to its origin.       *)
(***************************************************************************)
EXTENDS Naturals, Sequences, FiniteSetsExt

Empty == [of |-> 0, s |-> ""]

Text(node, s) == IF s = "" THEN Empty ELSE [of |-> node.id, s |-> s]

GetContent(node) == Text(node, node.content)

\* get_xml_content also takes the node and what is below it out of their
\* namespaces; no parser looks at them again.
GetXmlContent(node) ==
    IF node.markup = "" THEN GetContent(node) ELSE Text(node, node.markup)

\* Fault: an element in any namespace matches when none is asked for.
Fault_NodeIs(node, name, uri) ==
    node.name = name /\ (uri = "none" \/ node.ns = uri)

\* Fault: the namespace of an element is not compared.
Fault_NodeIsNameOnly(node, name, uri) == node.name = name

NodeIs(node, name, uri) == node.name = name /\ node.ns = uri

(***************************************************************************)
(* With a namespace, xmlGetProp: the first attribute of that name in any   *)
(* namespace.  Without one, xmlGetNsProp for no namespace.                 *)
(***************************************************************************)
GetProp(node, prop, uri) ==
    LET Is(a)   == a.name = prop /\ (uri # "none" \/ a.ns = "none")
        matches == SelectSeq(node.attrs, Is)
    IN  IF matches = <<>> THEN Empty ELSE Text(node, Head(matches).value)

\* date::format: asctime of a text that one of the patterns matches, the empty
\* string for any other.
FormatDate(text) ==
    IF text.s = "date" THEN [text EXCEPT !.s = "formatted date"] ELSE Empty

\* utils::absolute_url (xmlBuildURI): an empty reference is the base itself, a
\* relative one that is resolved is named by the base it was resolved against.
AbsoluteUrl(base, link) ==
    CASE link = Empty                         -> base
      [] link.s = "relative" /\ base # Empty  -> [link EXCEPT !.s = base.s]
      [] OTHER                                -> link

\* The type given to a description: "html" if it has child elements or a "<".
DescriptionType(node) ==
    Text(node, IF node.kids \/ node.content = "has <" THEN "html" ELSE "text")

\* An element of a document: a shape without its id, at its place.
Node(shape, id) ==
    [id |-> id, name |-> shape.name, ns |-> shape.ns, attrs |-> shape.attrs,
     content |-> shape.content, markup |-> shape.markup, kids |-> shape.kids,
     sub |-> shape.sub]

\* The places, below a node, of those that have a name and namespace.
Children(node, name, uri) ==
    {i \in DOMAIN node.sub : NodeIs(node.sub[i], name, uri)}

\* The last of them, where there is one.
LastChild(node, name, uri) ==
    Node(node.sub[Max(Children(node, name, uri))], node.id)

-----------------------------------------------------------------------------
Uninitialized == "uninitialized"

EmptyItem ==
    [title |-> Empty, title_type |-> Empty, link |-> Empty,
     description |-> Empty, description_type |-> Empty,
     author |-> Empty, author_email |-> Empty, pubDate |-> Empty,
     guid |-> Empty, guid_isPermaLink |-> Uninitialized,
     enclosure_url |-> Empty, enclosure_type |-> Empty,
     content_encoded |-> Empty, itunes_summary |-> Empty,
     base |-> Empty, labels |-> <<>>]

EmptyFeed ==
    [title |-> Empty, title_type |-> Empty, description |-> Empty,
     link |-> Empty, language |-> Empty, managingeditor |-> Empty,
     dc_creator |-> Empty, pubDate |-> Empty, items |-> <<>>]

\* The members of an item that hold a text.
TextFields == DOMAIN EmptyItem \ {"guid_isPermaLink", "labels"}

\* The nodes an item was made from.
Origins(it) ==
    ({it[x].of : x \in TextFields} \cup {it.labels[i].of : i \in DOMAIN it.labels})
        \ {0}

\* The items of a feed are in the order of their elements and none holds a
\* text read from the element of another.
KeepToThemselves(items) ==
    \A i, j \in DOMAIN items : i < j =>
        \A a \in Origins(items[i]), b \in Origins(items[j]) : a < b

-----------------------------------------------------------------------------
(* What the properties say of the nodes visited so far.                    *)

\* The places of the nodes in s that have a name and namespace.
Visits(s, name, uri) == {i \in DOMAIN s : s[i].name = name /\ s[i].ns = uri}

\* A node without texts, for one that was not visited.
NoNode ==
    [id |-> 0, name |-> "", ns |-> "none", attrs |-> <<>>, content |-> "",
     markup |-> "", kids |-> FALSE, sub |-> <<>>]

\* A sequence, whatever its members.
IsSequence(s) == Len(s) \in Nat /\ s = [i \in 1 .. Len(s) |-> s[i]]

\* The last of the nodes of s at the places A.
LastAmong(s, A) == IF A = {} THEN NoNode ELSE s[Max(A)]
=============================================================================
