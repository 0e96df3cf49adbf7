----------------------------- MODULE AtomParser -----------------------------
(***************************************************************************)
(* atom_parser: the children of the feed element and those of its entries, *)
(* in whatever order a document has them.  One step is the visit of one    *)
(* child, by the branch of the if-chain that takes it.                     *)
(***************************************************************************)
EXTENDS XmlNodes

CONSTANTS
    Versions,           \* the versions the root element announced
    RootAttrs,          \* the attributes of the root element
    FeedShapes,         \* the elements a feed may hold besides its entries
    EntryAttrs,         \* the attributes of an entry
    EntryShapes,        \* the elements an entry may hold
    MaxItems,           \* bound: how many entries a document has
    MaxNodes            \* bound: how many nodes it has

ASSUME BoundsAssumption == MaxItems \in Nat /\ MaxNodes \in Nat

VARIABLES
    at,                 \* "feed", or "entry" within parse_entry
    ns, globalbase,     \* the members of the parser
    n,                  \* the nodes visited so far
    f,                  \* the feed
    it,                 \* the locals of parse_entry: the item,
    base,               \* the base of its links,
    summary, summary_type, updated,
    seen                \* the entry element and the nodes of it visited so far

members == <<ns, globalbase>>
others  == <<summary, summary_type, updated>>
locals  == <<it, base, others>>
vars    == <<at, members, n, f, locals, seen>>

\* The namespace parse_feed looks in.
NamespaceFor(version) ==
    CASE version = "ATOM_0_3" -> "ATOM_0_3_URI"
      [] version = "ATOM_1_0" -> "ATOM_1_0_URI"
      [] OTHER                -> "none"

Element(attrs, id) ==
    [id |-> id, name |-> "container", ns |-> "none", attrs |-> attrs, content |-> "",
     markup |-> "", kids |-> FALSE, sub |-> <<>>]

Init ==
    /\ at = "feed" /\ n = 0
    /\ \E version \in Versions, attrs \in RootAttrs :
           LET root == Element(attrs, 0)
           IN  /\ ns = NamespaceFor(version)
               /\ globalbase = GetProp(root, "base", "XML_URI")
               /\ f = [EmptyFeed EXCEPT !.language = GetProp(root, "lang", "none")]
    /\ it = EmptyItem /\ base = Empty
    /\ summary = Empty /\ summary_type = Empty /\ updated = Empty
    /\ seen = <<>>

-----------------------------------------------------------------------------
(* The feed: parse_feed.                                                   *)

\* The type attribute of a text construct, "text" without one.
TypeOrText(node) ==
    LET type == GetProp(node, "type", "none")
    IN  IF type = Empty THEN Text(node, "text") ELSE type

FeedTitle(node) ==
    /\ NodeIs(node, "title", ns)
    /\ f' = [f EXCEPT !.title = GetContent(node), !.title_type = TypeOrText(node)]

FeedSubtitle(node) ==
    /\ NodeIs(node, "subtitle", ns)
    /\ f' = [f EXCEPT !.description = GetContent(node)]

\* Only a link that says "alternate" is the feed's.
FeedLink(node) ==
    /\ NodeIs(node, "link", ns)
    /\ f' = IF GetProp(node, "rel", "none").s = "alternate"
            THEN [f EXCEPT !.link =
                     AbsoluteUrl(globalbase, GetProp(node, "href", "none"))]
            ELSE f

FeedUpdated(node) ==
    /\ NodeIs(node, "updated", ns)
    /\ f' = [f EXCEPT !.pubDate = FormatDate(GetContent(node))]

FeedOther(node) ==
    /\ \A name \in {"title", "subtitle", "link", "updated", "entry"} :
           ~NodeIs(node, name, ns)
    /\ f' = f

FeedStep ==
    \E shape \in FeedShapes :
        LET node == Node(shape, n + 1)
        IN  /\ at = "feed" /\ n < MaxNodes
            /\ \/ FeedTitle(node) \/ FeedSubtitle(node) \/ FeedLink(node)
               \/ FeedUpdated(node) \/ FeedOther(node)
            /\ n' = n + 1
            /\ UNCHANGED <<at, members, locals, seen>>

\* Fault: the base of an entry becomes that of the feed.
Fault_BaseOf(entry) ==
    LET own == GetProp(entry, "base", "XML_URI")
    IN  IF own = Empty THEN base ELSE own

BaseOf(entry) ==
    LET own == GetProp(entry, "base", "XML_URI")
    IN  IF own = Empty THEN globalbase ELSE own

\* Fault: the summary of the entry before is still there.
Fault_BeginEntry ==
    /\ at = "feed" /\ n < MaxNodes /\ Len(f.items) < MaxItems
    /\ at' = "entry" /\ n' = n + 1
    /\ \E attrs \in EntryAttrs :
           LET entry == Element(attrs, n + 1)
           IN  base' = BaseOf(entry) /\ seen' = <<entry>>
    /\ it' = EmptyItem /\ updated' = Empty
    /\ UNCHANGED <<members, f, summary, summary_type>>

\* An entry element: parse_entry starts with fresh locals.
BeginEntry ==
    /\ at = "feed" /\ n < MaxNodes /\ Len(f.items) < MaxItems
    /\ at' = "entry" /\ n' = n + 1
    /\ \E attrs \in EntryAttrs :
           LET entry == Element(attrs, n + 1)
           IN  base' = BaseOf(entry) /\ seen' = <<entry>>
    /\ it' = EmptyItem
    /\ summary' = Empty /\ summary_type' = Empty /\ updated' = Empty
    /\ UNCHANGED <<members, f>>

-----------------------------------------------------------------------------
(* An entry: parse_entry.                                                  *)

\* The last name among the author elements; one without a name changes nothing.
Author(node) ==
    /\ NodeIs(node, "author", ns)
    /\ it' = IF Children(node, "name", ns) = {} THEN it
             ELSE [it EXCEPT !.author = GetContent(LastChild(node, "name", ns))]
    /\ UNCHANGED others

Title(node) ==
    /\ NodeIs(node, "title", ns)
    /\ it' = [it EXCEPT !.title = GetContent(node), !.title_type = TypeOrText(node)]
    /\ UNCHANGED others

\* The text of a content or summary element, "old" if its mode is not known.
Construct(node, old) ==
    LET mode == GetProp(node, "mode", "none").s
        type == GetProp(node, "type", "none").s
    IN  CASE mode \in {"xml", ""} -> IF type \in {"html", "text"}
                                     THEN GetContent(node) ELSE GetXmlContent(node)
          [] mode = "escaped"     -> GetContent(node)
          [] OTHER                -> old

\* Fault: a content of unknown mode empties the description.
Fault_Content(node) ==
    /\ NodeIs(node, "content", ns)
    /\ it' = [it EXCEPT !.description = Construct(node, Empty),
                        !.description_type = TypeOrText(node),
                        !.base = GetProp(node, "base", "XML_URI")]
    /\ UNCHANGED others

Content(node) ==
    /\ NodeIs(node, "content", ns)
    /\ it' = [it EXCEPT !.description = Construct(node, @),
                        !.description_type = TypeOrText(node),
                        !.base = GetProp(node, "base", "XML_URI")]
    /\ UNCHANGED others

Id(node) ==
    /\ NodeIs(node, "id", ns)
    /\ it' = [it EXCEPT !.guid = GetContent(node), !.guid_isPermaLink = FALSE]
    /\ UNCHANGED others

Published(node) ==
    /\ NodeIs(node, "published", ns)
    /\ it' = [it EXCEPT !.pubDate = FormatDate(GetContent(node))]
    /\ UNCHANGED others

\* Fault: the later of published and updated in the document is taken.
Fault_Updated(node) ==
    /\ NodeIs(node, "updated", ns)
    /\ it' = [it EXCEPT !.pubDate = FormatDate(GetContent(node))]
    /\ UNCHANGED others

Updated(node) ==
    /\ NodeIs(node, "updated", ns)
    /\ updated' = FormatDate(GetContent(node))
    /\ UNCHANGED <<it, summary, summary_type>>

\* Fault: a link of any relation is taken for the entry's.
Fault_Link(node) ==
    LET rel == GetProp(node, "rel", "none").s
        href == GetProp(node, "href", "none")
    IN  /\ NodeIs(node, "link", ns)
        /\ it' = IF rel = "enclosure"
                 THEN [it EXCEPT !.enclosure_url = href,
                                 !.enclosure_type = GetProp(node, "type", "none")]
                 ELSE [it EXCEPT !.link = AbsoluteUrl(base, href)]
        /\ UNCHANGED others

Link(node) ==
    LET rel == GetProp(node, "rel", "none").s
        href == GetProp(node, "href", "none")
    IN  /\ NodeIs(node, "link", ns)
        /\ it' = CASE rel \in {"", "alternate"} ->
                          [it EXCEPT !.link = AbsoluteUrl(base, href)]
                   [] rel = "enclosure" ->
                          [it EXCEPT !.enclosure_url = href,
                                     !.enclosure_type = GetProp(node, "type", "none")]
                   [] OTHER -> it
        /\ UNCHANGED others

Summary(node) ==
    /\ NodeIs(node, "summary", ns)
    /\ summary' = Construct(node, summary)
    /\ summary_type' = TypeOrText(node)
    /\ UNCHANGED <<it, updated>>

IsLabel(node) ==
    NodeIs(node, "category", ns) /\ GetProp(node, "scheme", "none").s = "google"

Category(node) ==
    /\ IsLabel(node)
    /\ it' = [it EXCEPT !.labels = Append(@, GetProp(node, "label", "none"))]
    /\ UNCHANGED others

EntryNames == {"author", "title", "content", "id", "published", "updated",
               "link", "summary"}

Other(node) ==
    /\ \A name \in EntryNames : ~NodeIs(node, name, ns)
    /\ ~IsLabel(node)
    /\ UNCHANGED <<it, others>>

EntryStep ==
    \E shape \in EntryShapes :
        LET node == Node(shape, n + 1)
        IN  /\ at = "entry" /\ n < MaxNodes
            /\ \/ Author(node) \/ Title(node) \/ Content(node) \/ Id(node)
               \/ Published(node) \/ Updated(node) \/ Link(node)
               \/ Summary(node) \/ Category(node) \/ Other(node)
            /\ n' = n + 1
            /\ seen' = Append(seen, node)
            /\ UNCHANGED <<at, members, f, base>>

\* Fault: the summary replaces the text but not its type.
Fault_Completed(i) ==
    [i EXCEPT !.description = IF @ = Empty THEN summary ELSE @,
              !.pubDate = IF @ = Empty THEN updated ELSE @]

\* What parse_entry returns: the summary stands in for a missing content with
\* its type, updated for a missing published.
Completed(i) ==
    [i EXCEPT !.description = IF @ = Empty THEN summary ELSE @,
              !.description_type = IF i.description = Empty THEN summary_type ELSE @,
              !.pubDate = IF @ = Empty THEN updated ELSE @]

EndEntry ==
    /\ at = "entry" /\ at' = "feed"
    /\ f' = [f EXCEPT !.items = Append(@, Completed(it))]
    /\ it' = EmptyItem /\ seen' = <<>>
    /\ UNCHANGED <<members, n, base, others>>

Next == FeedStep \/ BeginEntry \/ EntryStep \/ EndEntry

Spec == Init /\ [][Next]_vars

-----------------------------------------------------------------------------
(* Properties.                                                             *)

\* The places, among the nodes of the entry, of its elements of a name, and of
\* those of them with one of some values of an attribute.
Named(name) == Visits(seen, name, ns)

With(name, prop, values) ==
    {k \in Named(name) : GetProp(seen[k], prop, "none").s \in values}

\* The text of the last of the elements at A, all of a known mode.
Described(A) == IF A = {} THEN Empty ELSE Construct(LastAmong(seen, A), Empty)

KnownModes == {"", "xml", "escaped"}

(***************************************************************************)
(* No text of one entry reaches another, neither through the locals that   *)
(* hold its summary and its updated date nor through the base of its       *)
(* links, and the items keep the order of the document                     *)
(* (atom_parser.cpp:60-68, 132-141).                                       *)
(***************************************************************************)
ItemsKeepToThemselves == KeepToThemselves(f.items)

(***************************************************************************)
(* Wherever content and summary stand, the description is the text of the  *)
(* last content element whose mode is known, or, if there is no such text, *)
(* that of the last such summary (atom_parser.cpp:82-97, 113-126, 132-135).*)
(***************************************************************************)
SummaryStandsIn ==
    at = "entry" =>
        LET content  == Described(With("content", "mode", KnownModes))
            abstract == Described(With("summary", "mode", KnownModes))
        IN  Completed(it).description = IF content # Empty THEN content ELSE abstract

(***************************************************************************)
(* The type of a description is that of the element its text was read      *)
(* from, never that of a summary for the text of a content or the other    *)
(* way round.  This needs what Atom prescribes, one content and one        *)
(* summary at most: the type of a second one of unknown mode is taken      *)
(* without its text (atom_parser.cpp:94-96, 125-126, 132-135).             *)
(***************************************************************************)
TypeBelongsToText ==
    LET OneAtMost(A) == \A i, j \in A : i = j
        done == Completed(it)
    IN  at = "entry" /\ OneAtMost(Named("content")) /\ OneAtMost(Named("summary")) =>
            (done.description # Empty =>
                 done.description_type.of = done.description.of)

(***************************************************************************)
(* Whatever the order of published and updated, the date is the last       *)
(* published, or if that is missing or not recognised, the last updated    *)
(* (atom_parser.cpp:101-104, 137-139).                                     *)
(***************************************************************************)
DateDoesNotDependOnOrder ==
    at = "entry" =>
        LET Date(name) == FormatDate(GetContent(LastAmong(seen, Named(name))))
        IN  Completed(it).pubDate =
                IF Date("published") # Empty THEN Date("published") ELSE Date("updated")

(***************************************************************************)
(* The link of an entry is that of its last link element without a         *)
(* relation or with "alternate", never that of one with another relation,  *)
(* and the enclosure's URL and type are those of one and the same link     *)
(* (atom_parser.cpp:105-112).                                              *)
(***************************************************************************)
LinksByRelation ==
    at = "entry" =>
        LET own == With("link", "rel", {"", "alternate"})
        IN  /\ it.link =
                   IF own = {} THEN Empty
                   ELSE AbsoluteUrl(base, GetProp(LastAmong(seen, own), "href", "none"))
            /\ it.enclosure_url # Empty /\ it.enclosure_type # Empty
                   => it.enclosure_url.of = it.enclosure_type.of

(***************************************************************************)
(* The link of an entry is an absolute one of its own, or resolved against *)
(* the base of its own entry if that has one, else against the feed's, and *)
(* stays relative without either; it is never resolved against the base of *)
(* another entry (atom_parser.cpp:66-68, 107-108).                         *)
(***************************************************************************)
LinkUsesNearestBase ==
    at = "entry" =>
        LET own     == GetProp(seen[1], "base", "XML_URI")
            nearest == IF own = Empty THEN globalbase ELSE own
            hrefs   == {GetProp(seen[k], "href", "none").s : k \in Named("link")}
        IN  \/ it.link.s \in {"", IF nearest = Empty THEN "relative" ELSE nearest.s}
            \/ it.link.s \in hrefs \ {"relative"}

-----------------------------------------------------------------------------
(* The inductive invariant of the proofs.                                  *)

TypeOK ==
    /\ at \in {"feed", "entry"}
    /\ n \in Nat
    /\ globalbase.of = 0
    /\ DOMAIN f = DOMAIN EmptyFeed
    /\ IsSequence(f.items)
    /\ DOMAIN it = DOMAIN EmptyItem
    /\ IsSequence(it.labels)
    /\ IsSequence(seen)
    /\ \A k \in DOMAIN seen : seen[k].id \in 1 .. n

\* The nodes the entry was made from, as far as it is read.
EntryOrigins ==
    Origins(it) \cup ({base.of, summary.of, summary_type.of, updated.of} \ {0})

\* What was read was visited, and the items before this one were read before.
OriginsInOrder ==
    /\ \A i \in DOMAIN f.items : Origins(f.items[i]) \subseteq 1 .. n
    /\ EntryOrigins \subseteq 1 .. n
    /\ at = "entry" =>
           \A i \in DOMAIN f.items : \A a \in Origins(f.items[i]), b \in EntryOrigins : a < b

\* The members of the item and the locals are as the last of their own elements
\* says, a description and its type each as its own.
LastOfItsKind ==
    LET Last(name) == LastAmong(seen, Named(name))
        enclosing  == LastAmong(seen, With("link", "rel", {"enclosure"}))
    IN  /\ it.description = Described(With("content", "mode", KnownModes))
        /\ summary = Described(With("summary", "mode", KnownModes))
        /\ it.description_type.of = Last("content").id
        /\ summary_type.of = Last("summary").id
        /\ it.pubDate = FormatDate(GetContent(Last("published")))
        /\ updated = FormatDate(GetContent(Last("updated")))
        /\ it.enclosure_url # Empty => it.enclosure_url.of = enclosing.id
        /\ it.enclosure_type # Empty => it.enclosure_type.of = enclosing.id

EntryInv ==
    /\ TypeOK
    /\ at = "feed" => it = EmptyItem /\ seen = <<>>
    /\ at = "entry" => Len(seen) > 0 /\ base = BaseOf(seen[1]) /\ LastOfItsKind
    /\ OriginsInOrder
    /\ KeepToThemselves(f.items)
    /\ LinksByRelation
=============================================================================
