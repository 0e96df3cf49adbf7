---------------------------- MODULE Rss09xParser ----------------------------
(***************************************************************************)
(* rss_09x_parser and rss_20_parser: how the elements of a channel and of  *)
(* its items, in whatever order a document has them, become a feed.        *)
(*                                                                         *)
(* One step is the visit of one child, by the branch of the if-chain that  *)
(* takes it.  The document is any sequence of the given elements.          *)
(***************************************************************************)
EXTENDS XmlNodes

CONSTANTS
    ChannelShapes,      \* the elements a channel may hold, without their ids
    ItemShapes,         \* the elements an item may hold
    RootNamespaces,     \* the namespaces of the root element
    MaxItems,           \* bound: how many items a document has
    MaxNodes            \* bound: how many nodes it has

ASSUME BoundsAssumption == MaxItems \in Nat /\ MaxNodes \in Nat

VARIABLES
    at,                 \* "channel", "item" within parse_item, or "gone" after
                        \* a read outside of a string
    ns,                 \* the namespace the parser looks in
    n,                  \* the nodes visited so far
    f,                  \* the feed
    it, author, dc_date,\* the locals of parse_item
    seen                \* the nodes of the item that were visited

locals == <<it, author, dc_date>>
vars   == <<at, ns, n, f, locals, seen>>

\* rss_20_parser looks in the namespace of the root if it is the Userland one;
\* rss_09x_parser, and rss_20_parser otherwise, in none.
NamespaceFor(root) == IF root = "RSS20USERLAND_URI" THEN root ELSE "none"

Init ==
    /\ at = "channel"
    /\ ns \in {NamespaceFor(root) : root \in RootNamespaces}
    /\ n = 0
    /\ f = EmptyFeed
    /\ it = EmptyItem /\ author = Empty /\ dc_date = Empty
    /\ seen = <<>>

-----------------------------------------------------------------------------
(* The channel: parse_feed.                                                *)

ChannelTitle(node) ==
    /\ NodeIs(node, "title", ns)
    /\ f' = [f EXCEPT !.title = GetContent(node), !.title_type = Text(node, "text")]

ChannelLink(node) ==
    /\ NodeIs(node, "link", ns)
    /\ f' = [f EXCEPT !.link = GetContent(node)]

ChannelDescription(node) ==
    /\ NodeIs(node, "description", ns)
    /\ f' = [f EXCEPT !.description = GetContent(node)]

ChannelLanguage(node) ==
    /\ NodeIs(node, "language", ns)
    /\ f' = [f EXCEPT !.language = GetContent(node)]

ChannelEditor(node) ==
    /\ NodeIs(node, "managingEditor", ns)
    /\ f' = [f EXCEPT !.managingeditor = GetContent(node)]

ChannelNames == {"title", "link", "description", "language", "managingEditor"}

ChannelOther(node) ==
    /\ \A name \in ChannelNames \cup {"item"} : ~NodeIs(node, name, ns)
    /\ f' = f

ChannelStep ==
    \E shape \in ChannelShapes :
        LET node == Node(shape, n + 1)
        IN  /\ at = "channel" /\ n < MaxNodes
            /\ \/ ChannelTitle(node) \/ ChannelLink(node)
               \/ ChannelDescription(node) \/ ChannelLanguage(node)
               \/ ChannelEditor(node) \/ ChannelOther(node)
            /\ n' = n + 1
            /\ UNCHANGED <<at, ns, locals, seen>>

\* Fault: the locals of parse_item outlive it.
Fault_BeginItem ==
    /\ at = "channel" /\ n < MaxNodes /\ Len(f.items) < MaxItems
    /\ at' = "item"
    /\ n' = n + 1
    /\ it' = EmptyItem
    /\ seen' = <<>>
    /\ UNCHANGED <<ns, f, author, dc_date>>

\* An item element of the channel: parse_item starts with fresh locals.
BeginItem ==
    /\ at = "channel" /\ n < MaxNodes /\ Len(f.items) < MaxItems
    /\ at' = "item"
    /\ n' = n + 1
    /\ it' = EmptyItem /\ author' = Empty /\ dc_date' = Empty
    /\ seen' = <<>>
    /\ UNCHANGED <<ns, f>>

-----------------------------------------------------------------------------
(* An item: parse_item.                                                    *)

Title(node) ==
    /\ NodeIs(node, "title", ns)
    /\ it' = [it EXCEPT !.title = GetContent(node), !.title_type = Text(node, "text")]
    /\ UNCHANGED <<author, dc_date>>

Link(node) ==
    /\ NodeIs(node, "link", ns)
    /\ it' = [it EXCEPT !.link = GetContent(node)]
    /\ UNCHANGED <<author, dc_date>>

Description(node) ==
    /\ NodeIs(node, "description", ns)
    /\ it' = [it EXCEPT !.description = GetContent(node),
                        !.description_type = DescriptionType(node)]
    /\ UNCHANGED <<author, dc_date>>

Encoded(node) ==
    /\ NodeIs(node, "encoded", "CONTENT_URI")
    /\ it' = [it EXCEPT !.content_encoded = GetContent(node)]
    /\ UNCHANGED <<author, dc_date>>

Summary(node) ==
    /\ NodeIs(node, "summary", "ITUNES_URI")
    /\ it' = [it EXCEPT !.itunes_summary = GetContent(node)]
    /\ UNCHANGED <<author, dc_date>>

\* Fault: only a guid that says "true" is a link.
Fault_Guid(node) ==
    /\ NodeIs(node, "guid", ns)
    /\ it' = [it EXCEPT !.guid = GetContent(node),
                        !.guid_isPermaLink =
                            GetProp(node, "isPermaLink", "none").s = "true"]
    /\ UNCHANGED <<author, dc_date>>

Guid(node) ==
    /\ NodeIs(node, "guid", ns)
    /\ it' = [it EXCEPT !.guid = GetContent(node),
                        !.guid_isPermaLink =
                            GetProp(node, "isPermaLink", "none").s # "false"]
    /\ UNCHANGED <<author, dc_date>>

PubDate(node) ==
    /\ NodeIs(node, "pubDate", ns)
    /\ it' = [it EXCEPT !.pubDate = FormatDate(GetContent(node))]
    /\ UNCHANGED <<author, dc_date>>

\* Fault: dc:date is stored like pubDate, whichever comes last.
Fault_DcDate(node) ==
    /\ NodeIs(node, "date", "DC_URI")
    /\ it' = [it EXCEPT !.pubDate = FormatDate(GetContent(node))]
    /\ UNCHANGED <<author, dc_date>>

DcDate(node) ==
    /\ NodeIs(node, "date", "DC_URI")
    /\ dc_date' = FormatDate(GetContent(node))
    /\ UNCHANGED <<it, author>>

CharAt(text, k) == SubSeq(text, k, k)

\* tokenize(text, " ")[0], for a text that is not blank.
FirstWord(text) ==
    LET begin == Min({k \in 1 .. Len(text) : CharAt(text, k) # " "})
        ends  == {k \in begin .. Len(text) : CharAt(text, k) = " "}
    IN  SubSeq(text, begin, IF ends = {} THEN Len(text) ELSE Min(ends) - 1)

(***************************************************************************)
(* An author field that ends in ")" is split into the address, its first   *)
(* word, and the name, from the last "(" on up to that ")".  Without a "(" *)
(* the search stops at the first character, which is lost; "mail ()" has   *)
(* an address and no name.  Any other field is both.  Of an empty field    *)
(* the code looks at the character before the first, which in the string   *)
(* is a byte of its length, never a ")".                                   *)
(***************************************************************************)
AuthorParts(text) ==
    LET last  == Len(text) - 1
        start == Max({1} \cup {k \in 2 .. last : CharAt(text, k) = "("})
    IN  IF text # "" /\ CharAt(text, Len(text)) = ")"
        THEN [email |-> FirstWord(text), name |-> SubSeq(text, start + 1, last)]
        ELSE [email |-> text, name |-> text]

Author(node) ==
    LET parts == AuthorParts(node.content)
    IN  /\ NodeIs(node, "author", ns)
        /\ it' = [it EXCEPT !.author_email = Text(node, parts.email),
                            !.author = Text(node, parts.name)]
        /\ UNCHANGED <<author, dc_date>>

(***************************************************************************)
(* For the field ")" the place to search from wraps around to the largest  *)
(* unsigned: the code reads far outside of the string.  Author is the      *)
(* outcome if what it finds there makes the name empty; any other one, a   *)
(* crash or an exception of substr, ends the parse without a feed.         *)
(***************************************************************************)
AuthorReadsOutside ==
    \E shape \in ItemShapes :
        /\ at = "item" /\ n < MaxNodes
        /\ NodeIs(shape, "author", ns) /\ shape.content = ")"
        /\ at' = "gone"
        /\ UNCHANGED <<ns, n, f, locals, seen>>

Creator(node) ==
    /\ NodeIs(node, "creator", "DC_URI")
    /\ author' = GetContent(node)
    /\ UNCHANGED <<it, dc_date>>

\* Fault: an empty type leaves that of an earlier enclosure.
Fault_EnclosureOf(node, i) ==
    LET type == GetProp(node, "type", "none")
    IN  [i EXCEPT !.enclosure_url = GetProp(node, "url", "none"),
                  !.enclosure_type = IF type = Empty THEN @ ELSE type]

EnclosureOf(node, i) ==
    [i EXCEPT !.enclosure_url = GetProp(node, "url", "none"),
              !.enclosure_type = GetProp(node, "type", "none")]

Enclosure(node) ==
    /\ NodeIs(node, "enclosure", ns) \/ NodeIs(node, "content", "MEDIA_RSS_URI")
    /\ it' = EnclosureOf(node, it)
    /\ UNCHANGED <<author, dc_date>>

\* Of the media:content elements of a media:group the last wins.
MediaGroup(node) ==
    /\ NodeIs(node, "group", "MEDIA_RSS_URI")
    /\ it' = IF Children(node, "content", "MEDIA_RSS_URI") = {} THEN it
             ELSE EnclosureOf(LastChild(node, "content", "MEDIA_RSS_URI"), it)
    /\ UNCHANGED <<author, dc_date>>

Tests ==
    {<<name, ns>> : name \in {"title", "link", "description", "guid", "pubDate",
                              "author", "enclosure"}}
    \cup {<<"encoded", "CONTENT_URI">>, <<"summary", "ITUNES_URI">>,
          <<"date", "DC_URI">>, <<"creator", "DC_URI">>,
          <<"content", "MEDIA_RSS_URI">>, <<"group", "MEDIA_RSS_URI">>}

Other(node) ==
    /\ \A t \in Tests : ~NodeIs(node, t[1], t[2])
    /\ UNCHANGED locals

ItemStep ==
    \E shape \in ItemShapes :
        LET node == Node(shape, n + 1)
        IN  /\ at = "item" /\ n < MaxNodes
            /\ \/ Title(node) \/ Link(node) \/ Description(node)
               \/ Encoded(node) \/ Summary(node) \/ Guid(node)
               \/ PubDate(node) \/ DcDate(node)
               \/ Author(node) \/ Creator(node)
               \/ Enclosure(node) \/ MediaGroup(node) \/ Other(node)
            /\ n' = n + 1
            /\ seen' = Append(seen, node)
            /\ UNCHANGED <<at, ns, f>>

\* Fault: dc:creator is preferred to the author.
Fault_Completed(i) ==
    [i EXCEPT !.author = IF author = Empty THEN @ ELSE author,
              !.pubDate = IF @ = Empty THEN dc_date ELSE @]

\* What parse_item returns: the Dublin Core elements stand in for those missing.
Completed(i) ==
    [i EXCEPT !.author = IF @ = Empty THEN author ELSE @,
              !.pubDate = IF @ = Empty THEN dc_date ELSE @]

EndItem ==
    /\ at = "item"
    /\ at' = "channel"
    /\ f' = [f EXCEPT !.items = Append(@, Completed(it))]
    /\ it' = EmptyItem
    /\ seen' = <<>>
    /\ UNCHANGED <<ns, n, author, dc_date>>

Next == ChannelStep \/ BeginItem \/ ItemStep \/ AuthorReadsOutside \/ EndItem

Spec == Init /\ [][Next]_vars

-----------------------------------------------------------------------------
(* Properties.                                                             *)

(***************************************************************************)
(* No text of one item reaches another, and the items keep the order of    *)
(* the document: the locals of parse_item live for one item                *)
(* (rss_09x_parser.cpp:58-59, 64-68, 162-172).                             *)
(***************************************************************************)
ItemsKeepToThemselves ==
    /\ KeepToThemselves(f.items)
    /\ at = "item" =>
           \A i \in DOMAIN f.items :
               \A a \in Origins(f.items[i]), b \in Origins(Completed(it)) : a < b

(***************************************************************************)
(* Whatever the order of pubDate and dc:date, the item's date is that of   *)
(* its last pubDate, or, if that is missing or not recognised, of its last *)
(* dc:date (rss_09x_parser.cpp:110-117, 167-170).                          *)
(***************************************************************************)
DateDoesNotDependOnOrder ==
    at = "item" =>
        LET Date(name, uri) ==
                FormatDate(GetContent(LastAmong(seen, Visits(seen, name, uri))))
        IN  Completed(it).pubDate =
                IF Date("pubDate", ns) # Empty THEN Date("pubDate", ns)
                ELSE Date("date", "DC_URI")

(***************************************************************************)
(* Whatever the order of author and dc:creator, the author and his address *)
(* are those of the last author element; if that is missing, empty or      *)
(* without a name, as in "mail ()", the author is the last dc:creator, and *)
(* the address stays (rss_09x_parser.cpp:118-138, 162-165).                *)
(***************************************************************************)
AuthorDoesNotDependOnOrder ==
    at = "item" =>
        LET own   == LastAmong(seen, Visits(seen, "author", ns))
            parts == AuthorParts(own.content)
        IN  /\ Completed(it).author =
                   IF parts.name # "" THEN Text(own, parts.name)
                   ELSE GetContent(LastAmong(seen, Visits(seen, "creator", "DC_URI")))
            /\ Completed(it).author_email = Text(own, parts.email)

\* The elements that name an enclosure.
NamesEnclosure(node) ==
    \/ node.name = "enclosure" /\ node.ns = ns
    \/ node.name = "content" /\ node.ns = "MEDIA_RSS_URI"
    \/ /\ node.name = "group" /\ node.ns = "MEDIA_RSS_URI"
       /\ \E i \in DOMAIN node.sub :
              node.sub[i].name = "content" /\ node.sub[i].ns = "MEDIA_RSS_URI"

(***************************************************************************)
(* The type of an enclosure is that of the element its URL was read from,  *)
(* among all that name one: enclosure, media:content and the contents of a *)
(* media:group (rss_09x_parser.cpp:139-159).                               *)
(***************************************************************************)
EnclosureIsWhole ==
    LET named == {k \in DOMAIN seen : NamesEnclosure(seen[k])}
    IN  \A t \in {"enclosure_url", "enclosure_type"} :
            it[t] # Empty => it[t].of = LastAmong(seen, named).id

(***************************************************************************)
(* An item with a guid says whether it is a link, as its last guid element *)
(* does: a link unless that says "false".  (Without a guid the flag is     *)
(* never assigned.)  (rss_09x_parser.cpp:102-109)                          *)
(***************************************************************************)
GuidSaysWhetherLink ==
    LET guids == Visits(seen, "guid", ns)
    IN  IF guids = {} THEN it.guid_isPermaLink = Uninitialized
        ELSE it.guid_isPermaLink =
                 (GetProp(LastAmong(seen, guids), "isPermaLink", "none").s # "false")

(***************************************************************************)
(* Elements of other vocabularies that share a name with an element of RSS *)
(* (media:title, itunes:author, atom:link) change nothing: every text of   *)
(* an item was read from an element of RSS, or one of the extensions that  *)
(* are asked for (rss_parser.cpp:89-102, rss_09x_parser.cpp:70-160).       *)
(***************************************************************************)
ForeignElementsIgnored ==
    \A i \in DOMAIN seen :
        seen[i].id \in Origins(it) \cup {author.of, dc_date.of} =>
            <<seen[i].name, seen[i].ns>> \in Tests

-----------------------------------------------------------------------------
(* The inductive invariant of the proofs.                                  *)

TypeOK ==
    /\ at \in {"channel", "item", "gone"}
    /\ n \in Nat
    /\ DOMAIN f = DOMAIN EmptyFeed
    /\ IsSequence(f.items)
    /\ DOMAIN it = DOMAIN EmptyItem
    /\ it.labels = <<>>
    /\ IsSequence(seen)
    /\ \A k \in DOMAIN seen : seen[k].id \in 1 .. n

\* The nodes the item was made from, as far as it is read.
ItemOrigins == Origins(it) \cup ({author.of, dc_date.of} \ {0})

\* What was read was visited, and the items before this one were read before.
OriginsInOrder ==
    /\ \A i \in DOMAIN f.items : Origins(f.items[i]) \subseteq 1 .. n
    /\ ItemOrigins \subseteq 1 .. n
    /\ at = "item" =>
           \A i \in DOMAIN f.items : \A a \in Origins(f.items[i]), b \in ItemOrigins : a < b

\* Each member of the item that several elements could set is as the last of
\* its own elements says.
LastOfItsKind ==
    LET Last(name, uri) == LastAmong(seen, Visits(seen, name, uri))
    IN  /\ it.pubDate = FormatDate(GetContent(Last("pubDate", ns)))
        /\ it.author = Text(Last("author", ns), AuthorParts(Last("author", ns).content).name)
        /\ it.author_email =
               Text(Last("author", ns), AuthorParts(Last("author", ns).content).email)
        /\ at = "item" => /\ dc_date = FormatDate(GetContent(Last("date", "DC_URI")))
                          /\ author = GetContent(Last("creator", "DC_URI"))

ItemInv ==
    /\ TypeOK
    /\ at = "channel" => it = EmptyItem /\ seen = <<>>
    /\ OriginsInOrder
    /\ KeepToThemselves(f.items)
    /\ LastOfItsKind
    /\ EnclosureIsWhole
    /\ GuidSaysWhetherLink
    /\ ForeignElementsIgnored
=============================================================================
