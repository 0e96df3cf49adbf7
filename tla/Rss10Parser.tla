---------------------------- MODULE Rss10Parser ----------------------------
(***************************************************************************)
(* rss_10_parser: the children of rdf:RDF, channels and items in any       *)
(* order, and their children.  One step is the visit of one child.         *)
(***************************************************************************)
EXTENDS XmlNodes

CONSTANTS
    RootShapes,         \* the elements a document may hold
    ChannelShapes,      \* the elements a channel may hold
    ItemShapes,         \* the elements an item may hold
    MaxNodes            \* bound: how many nodes a document has

ASSUME MaxNodesAssumption == MaxNodes \in Nat

VARIABLES
    at,                 \* the loop that is running: "root", "channel", "item"
    n,                  \* the nodes visited so far
    f,                  \* the feed
    it,                 \* the item being read
    seen                \* the nodes visited, with the loop that visited them

vars == <<at, n, f, it, seen>>

RSS == "RSS_1_0_NS"

Init ==
    /\ at = "root" /\ n = 0
    /\ f = EmptyFeed /\ it = EmptyItem
    /\ seen = <<>>

\* The next child is visited by the loop that is running.
Visit(node) ==
    /\ n < MaxNodes
    /\ n' = n + 1
    /\ seen' = Append(seen, [node |-> node, at |-> at])

-----------------------------------------------------------------------------
(* The children of the root.                                               *)

BeginChannel(node) ==
    /\ NodeIs(node, "channel", RSS)
    /\ at' = "channel"
    /\ UNCHANGED <<f, it>>

\* Fault: one item variable for all items.
Fault_BeginItem(node) ==
    /\ NodeIs(node, "item", RSS)
    /\ at' = "item"
    /\ it' = [it EXCEPT !.guid = GetProp(node, "about", "RDF_URI")]
    /\ f' = f

BeginItem(node) ==
    /\ NodeIs(node, "item", RSS)
    /\ at' = "item"
    /\ it' = [EmptyItem EXCEPT !.guid = GetProp(node, "about", "RDF_URI")]
    /\ f' = f

RootOther(node) ==
    /\ ~NodeIs(node, "channel", RSS) /\ ~NodeIs(node, "item", RSS)
    /\ UNCHANGED <<at, f, it>>

RootStep ==
    \E shape \in RootShapes :
        LET node == Node(shape, n + 1)
        IN  /\ at = "root" /\ Visit(node)
            /\ BeginChannel(node) \/ BeginItem(node) \/ RootOther(node)

-----------------------------------------------------------------------------
(* The children of a channel.                                              *)

ChannelTitle(node) ==
    /\ NodeIs(node, "title", RSS)
    /\ f' = [f EXCEPT !.title = GetContent(node), !.title_type = Text(node, "text")]

ChannelLink(node) ==
    /\ NodeIs(node, "link", RSS)
    /\ f' = [f EXCEPT !.link = GetContent(node)]

ChannelDescription(node) ==
    /\ NodeIs(node, "description", RSS)
    /\ f' = [f EXCEPT !.description = GetContent(node)]

ChannelDate(node) ==
    /\ NodeIs(node, "date", "DC_URI")
    /\ f' = [f EXCEPT !.pubDate = FormatDate(GetContent(node))]

ChannelCreator(node) ==
    /\ NodeIs(node, "creator", "DC_URI")
    /\ f' = [f EXCEPT !.dc_creator = GetContent(node)]

ChannelTests ==
    {<<name, RSS>> : name \in {"title", "link", "description"}}
    \cup {<<"date", "DC_URI">>, <<"creator", "DC_URI">>}

ChannelOther(node) ==
    /\ \A t \in ChannelTests : ~NodeIs(node, t[1], t[2])
    /\ f' = f

ChannelStep ==
    \E shape \in ChannelShapes :
        LET node == Node(shape, n + 1)
        IN  /\ at = "channel" /\ Visit(node)
            /\ \/ ChannelTitle(node) \/ ChannelLink(node)
               \/ ChannelDescription(node) \/ ChannelDate(node)
               \/ ChannelCreator(node) \/ ChannelOther(node)
            /\ UNCHANGED <<at, it>>

EndChannel ==
    /\ at = "channel" /\ at' = "root"
    /\ UNCHANGED <<n, f, it, seen>>

-----------------------------------------------------------------------------
(* The children of an item.                                                *)

Title(node) ==
    /\ NodeIs(node, "title", RSS)
    /\ it' = [it EXCEPT !.title = GetContent(node), !.title_type = Text(node, "text")]

Link(node) ==
    /\ NodeIs(node, "link", RSS)
    /\ it' = [it EXCEPT !.link = GetContent(node)]

Description(node) ==
    /\ NodeIs(node, "description", RSS)
    /\ it' = [it EXCEPT !.description = GetContent(node),
                        !.description_type = DescriptionType(node)]

Date(node) ==
    /\ NodeIs(node, "date", "DC_URI")
    /\ it' = [it EXCEPT !.pubDate = FormatDate(GetContent(node))]

Encoded(node) ==
    /\ NodeIs(node, "encoded", "CONTENT_URI")
    /\ it' = [it EXCEPT !.content_encoded = GetContent(node)]

Summary(node) ==
    /\ NodeIs(node, "summary", "ITUNES_URI")
    /\ it' = [it EXCEPT !.itunes_summary = GetContent(node)]

ItemTests ==
    {<<name, RSS>> : name \in {"title", "link", "description"}}
    \cup {<<"date", "DC_URI">>, <<"encoded", "CONTENT_URI">>,
          <<"summary", "ITUNES_URI">>}

Other(node) ==
    /\ \A t \in ItemTests : ~NodeIs(node, t[1], t[2])
    /\ it' = it

ItemStep ==
    \E shape \in ItemShapes :
        LET node == Node(shape, n + 1)
        IN  /\ at = "item" /\ Visit(node)
            /\ \/ Title(node) \/ Link(node) \/ Description(node) \/ Date(node)
               \/ Encoded(node) \/ Summary(node) \/ Other(node)
            /\ UNCHANGED <<at, f>>

EndItem ==
    /\ at = "item" /\ at' = "root"
    /\ f' = [f EXCEPT !.items = Append(@, it)]
    /\ UNCHANGED <<n, it, seen>>

Next == RootStep \/ ChannelStep \/ EndChannel \/ ItemStep \/ EndItem

Spec == Init /\ [][Next]_vars

-----------------------------------------------------------------------------
(* Properties.                                                             *)

\* The nodes the members of the feed itself were read from.
FeedOrigins ==
    {f[x].of : x \in DOMAIN EmptyFeed \ {"items"}} \ {0}

\* The k-th node was visited by a loop, and has a name that was asked for.
ReadBy(k, loop, tests) ==
    seen[k].at = loop /\ <<seen[k].node.name, seen[k].node.ns>> \in tests

\* The item elements visited.
ItemElements ==
    {k \in DOMAIN seen : seen[k].at = "root" /\ NodeIs(seen[k].node, "item", RSS)}

\* What an item may be made from: its own element and those below it.
ReadInItem(k) ==
    ReadBy(k, "item", ItemTests) \/ ReadBy(k, "root", {<<"item", RSS>>})

(***************************************************************************)
(* Channels and items name their elements alike and come in any order; no  *)
(* text of the feed was read in an item, none of an item in a channel, and *)
(* every one was read from an element the parser asks for there            *)
(* (rss_10_parser.cpp:21-94).                                              *)
(***************************************************************************)
FeedAndItemsApart ==
    /\ \A k \in FeedOrigins : ReadBy(k, "channel", ChannelTests)
    /\ \A i \in DOMAIN f.items : \A k \in Origins(f.items[i]) : ReadInItem(k)

(***************************************************************************)
(* Every item element becomes one item, in document order, with the texts  *)
(* of its own element only (rss_10_parser.cpp:50-92).                      *)
(***************************************************************************)
ItemsKeepToThemselves ==
    /\ KeepToThemselves(f.items)
    /\ Len(f.items) + (IF at = "item" THEN 1 ELSE 0) = Cardinality(ItemElements)

-----------------------------------------------------------------------------
(* The inductive invariant of the proofs.                                  *)

TypeOK ==
    /\ at \in {"root", "channel", "item"}
    /\ n \in Nat
    /\ DOMAIN f = DOMAIN EmptyFeed
    /\ IsSequence(f.items)
    /\ DOMAIN it = DOMAIN EmptyItem
    /\ it.labels = <<>>
    /\ IsSequence(seen) /\ Len(seen) = n
    /\ \A k \in DOMAIN seen : seen[k].node.id = k

\* What was read was visited, and the items before this one were read before.
OriginsInOrder ==
    /\ FeedOrigins \subseteq 1 .. n
    /\ \A i \in DOMAIN f.items : Origins(f.items[i]) \subseteq 1 .. n
    /\ Origins(it) \subseteq 1 .. n
    /\ at = "item" =>
           \A i \in DOMAIN f.items : \A a \in Origins(f.items[i]), b \in Origins(it) : a < b

ItemInv ==
    /\ TypeOK
    /\ OriginsInOrder
    /\ FeedAndItemsApart
    /\ at = "item" => \A k \in Origins(it) : ReadInItem(k)
    /\ ItemsKeepToThemselves
=============================================================================
