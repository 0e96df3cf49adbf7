-------------------------- MODULE Rss10ParserProofs --------------------------
(***************************************************************************)
(* What rss_10_parser promises, proved for documents of any elements in    *)
(* any order and of any length.                                            *)
(***************************************************************************)
EXTENDS Rss10Parser, XmlNodesProofs, FiniteSetTheorems

FeedTexts == DOMAIN EmptyFeed \ {"items"}

RootBranch(node) == BeginChannel(node) \/ BeginItem(node) \/ RootOther(node)

ChannelBranch(node) ==
    \/ ChannelTitle(node) \/ ChannelLink(node) \/ ChannelDescription(node)
    \/ ChannelDate(node) \/ ChannelCreator(node) \/ ChannelOther(node)

ItemBranch(node) ==
    \/ Title(node) \/ Link(node) \/ Description(node) \/ Date(node)
    \/ Encoded(node) \/ Summary(node) \/ Other(node)

(***************************************************************************)
(* What one element does, whichever branch takes it.                       *)
(***************************************************************************)

\* An element of an item is asked for, and its texts are its own, or nothing changes.
LEMMA ItemBranchReads ==
  ASSUME NEW node, DOMAIN it = DOMAIN EmptyItem, it.labels = <<>>, ItemBranch(node)
  PROVE  /\ DOMAIN it' = DOMAIN EmptyItem /\ it'.labels = <<>>
         /\ Origins(it') \subseteq Origins(it) \cup {node.id}
         /\ <<node.name, node.ns>> \in ItemTests \/ it' = it
<1> USE FieldNames
<1>1. /\ DOMAIN it' = DOMAIN EmptyItem /\ it'.labels = <<>>
      /\ \A x \in TextFields : it'[x].of \in {it[x].of, 0, node.id}
  <2>1. CASE Title(node)
    BY <2>1, ContentOrigin, TextOrigin DEF Title
  <2>2. CASE Link(node)
    BY <2>2, ContentOrigin DEF Link
  <2>3. CASE Description(node)
    BY <2>3, ContentOrigin, DescriptionTypeOrigin DEF Description
  <2>4. CASE Date(node)
    BY <2>4, DateOrigin DEF Date
  <2>5. CASE Encoded(node)
    BY <2>5, ContentOrigin DEF Encoded
  <2>6. CASE Summary(node)
    BY <2>6, ContentOrigin DEF Summary
  <2>7. CASE Other(node)
    BY <2>7 DEF Other
  <2> QED
    BY <2>1, <2>2, <2>3, <2>4, <2>5, <2>6, <2>7 DEF ItemBranch
<1>2. Origins(it') \subseteq Origins(it) \cup {node.id}
  <2>1. \A x \in TextFields : it'[x].of \in {it[x].of, 0} \cup {node.id}
    BY <1>1
  <2> QED
    BY <1>1, <2>1, OriginsGrow
<1>3. <<node.name, node.ns>> \in ItemTests \/ it' = it
  BY DEF ItemBranch, Title, Link, Description, Date, Encoded, Summary, Other,
     NodeIs, ItemTests, RSS
<1> QED
  BY <1>1, <1>2, <1>3

\* The same for an element of a channel and the texts of the feed.
LEMMA ChannelBranchReads ==
  ASSUME NEW node, DOMAIN f = DOMAIN EmptyFeed, ChannelBranch(node)
  PROVE  /\ DOMAIN f' = DOMAIN EmptyFeed
         /\ f'.items = f.items
         /\ FeedOrigins' \subseteq FeedOrigins \cup {node.id}
         /\ <<node.name, node.ns>> \in ChannelTests \/ f' = f
<1> USE FeedNames
<1>1. /\ DOMAIN f' = DOMAIN EmptyFeed
      /\ f'.items = f.items
      /\ \A x \in FeedTexts : f'[x].of \in {f[x].of, 0, node.id}
  <2>1. CASE ChannelTitle(node)
    BY <2>1, ContentOrigin, TextOrigin DEF ChannelTitle, FeedTexts
  <2>2. CASE ChannelLink(node)
    BY <2>2, ContentOrigin DEF ChannelLink, FeedTexts
  <2>3. CASE ChannelDescription(node)
    BY <2>3, ContentOrigin DEF ChannelDescription, FeedTexts
  <2>4. CASE ChannelDate(node)
    BY <2>4, DateOrigin DEF ChannelDate, FeedTexts
  <2>5. CASE ChannelCreator(node)
    BY <2>5, ContentOrigin DEF ChannelCreator, FeedTexts
  <2>6. CASE ChannelOther(node)
    BY <2>6 DEF ChannelOther
  <2> QED
    BY <2>1, <2>2, <2>3, <2>4, <2>5, <2>6 DEF ChannelBranch
<1>2. FeedOrigins' \subseteq FeedOrigins \cup {node.id}
  BY <1>1 DEF FeedOrigins, FeedTexts
<1>3. <<node.name, node.ns>> \in ChannelTests \/ f' = f
  BY DEF ChannelBranch, ChannelTitle, ChannelLink, ChannelDescription, ChannelDate,
     ChannelCreator, ChannelOther, NodeIs, ChannelTests, RSS
<1> QED
  BY <1>1, <1>2, <1>3

(***************************************************************************)
(* The nodes visited, after one more.                                      *)
(***************************************************************************)

\* The node visited is the next one, and those before it stay.
LEMMA SeenGrows ==
  ASSUME TypeOK, NEW node, node.id = n + 1, Visit(node)
  PROVE  /\ n \in Nat /\ n' = n + 1
         /\ IsSequence(seen') /\ Len(seen') = n'
         /\ DOMAIN seen = 1 .. n
         /\ \A k \in DOMAIN seen' : k \in DOMAIN seen \/ k = n + 1
         /\ n + 1 \in DOMAIN seen'
         /\ \A k \in DOMAIN seen : seen'[k] = seen[k]
         /\ seen'[n + 1] = [node |-> node, at |-> at]
         /\ \A k \in DOMAIN seen' : seen'[k].node.id = k
<1>1. n \in Nat /\ IsSequence(seen) /\ Len(seen) = n /\ n' = n + 1
  BY DEF TypeOK, Visit
<1>2. /\ IsSequence(seen')
      /\ DOMAIN seen = 1 .. n
      /\ DOMAIN seen' = 1 .. n + 1
      /\ \A k \in DOMAIN seen : seen'[k] = seen[k]
      /\ seen'[n + 1] = [node |-> node, at |-> at]
  BY <1>1, AppendToSequence DEF Visit
<1>3. Len(seen') = n'
  BY <1>1, <1>2, LenProperties, SequenceOfItsMembers
<1>4. /\ \A k \in DOMAIN seen' : k \in DOMAIN seen \/ k = n + 1
      /\ n + 1 \in DOMAIN seen'
  BY <1>1, <1>2
<1>5. \A k \in DOMAIN seen : seen[k].node.id = k
  BY DEF TypeOK
<1> QED
  BY <1>1, <1>2, <1>3, <1>4, <1>5

\* What was read by a loop still is.
LEMMA ReadStays ==
  ASSUME TypeOK, NEW node, node.id = n + 1, Visit(node), NEW k \in 1 .. n
  PROVE  /\ \A loop, tests : ReadBy(k, loop, tests)' <=> ReadBy(k, loop, tests)
         /\ ReadInItem(k)' <=> ReadInItem(k)
<1>1. seen'[k] = seen[k]
  BY SeenGrows
<1> QED
  BY <1>1 DEF ReadBy, ReadInItem, ItemTests, RSS

\* The item elements are one more if the root's loop visited one.
LEMMA ElementsGrow ==
  ASSUME TypeOK, NEW node, node.id = n + 1, Visit(node)
  PROVE  /\ Cardinality(ItemElements) \in Nat
         /\ Cardinality(ItemElements') = Cardinality(ItemElements)
                + (IF at = "root" /\ NodeIs(node, "item", RSS) THEN 1 ELSE 0)
<1> DEFINE new == at = "root" /\ NodeIs(node, "item", RSS)
<1>1. /\ n \in Nat
      /\ DOMAIN seen = 1 .. n
      /\ \A k \in DOMAIN seen' : k \in DOMAIN seen \/ k = n + 1
      /\ n + 1 \in DOMAIN seen'
      /\ \A k \in DOMAIN seen : seen'[k] = seen[k]
      /\ seen'[n + 1] = [node |-> node, at |-> at]
      /\ DOMAIN seen \subseteq DOMAIN seen'
  <2>1. DOMAIN seen' = 1 .. n' /\ n' = n + 1
    BY SeenGrows DEF IsSequence
  <2>2. 1 .. n \subseteq 1 .. n + 1
    <3>1. n \in Nat
      BY DEF TypeOK
    <3> QED
      BY <3>1
  <2> QED
    BY <2>1, <2>2, SeenGrows
<1>2. ItemElements' = {k \in DOMAIN seen' :
          seen'[k].at = "root" /\ NodeIs(seen'[k].node, "item", RSS)}
  BY DEF ItemElements, NodeIs, RSS
<1>3. ItemElements' = ItemElements \cup (IF new THEN {n + 1} ELSE {})
  <2>1. \A k \in DOMAIN seen : k \in ItemElements' <=> k \in ItemElements
    BY <1>1, <1>2 DEF ItemElements
  <2>2. n + 1 \in ItemElements' <=> new
    BY <1>1, <1>2
  <2>3. ItemElements' \subseteq DOMAIN seen \cup {n + 1}
    BY <1>1, <1>2
  <2>4. ItemElements \subseteq DOMAIN seen
    BY DEF ItemElements
  <2> HIDE DEF new
  <2> QED
    BY <2>1, <2>2, <2>3, <2>4
<1>4. IsFiniteSet(ItemElements) /\ n + 1 \notin ItemElements
  <2>1. ItemElements \in SUBSET (1 .. n)
    BY <1>1 DEF ItemElements
  <2>2. IsFiniteSet(1 .. n)
    BY <1>1, FS_Interval
  <2>3. n + 1 \notin 1 .. n
    BY <1>1
  <2> QED
    BY <2>1, <2>2, <2>3, FS_Subset
<1>5. Cardinality(ItemElements) \in Nat
  BY <1>4, FS_CardinalityType
<1> HIDE DEF new
<1>6. CASE new
  <2>1. ItemElements' = ItemElements \cup {n + 1}
    BY <1>3, <1>6
  <2>2. Cardinality(ItemElements') = Cardinality(ItemElements) + 1
    BY <1>4, <2>1, FS_AddElement
  <2> QED
    BY <1>5, <1>6, <2>2 DEF new
<1>7. CASE ~new
  <2>1. ItemElements' = ItemElements
    BY <1>3, <1>7
  <2> QED
    BY <1>5, <1>7, <2>1 DEF new
<1> QED
  BY <1>6, <1>7

(***************************************************************************)
(* The invariant, action by action.                                        *)
(***************************************************************************)

\* The invariant holds before the first element.
LEMMA InitInv ==
  ASSUME Init
  PROVE  ItemInv
<1> USE DEF Init
<1>1. IsSequence(<<>>) /\ DOMAIN <<>> = {} /\ Len(<<>>) = 0
  BY EmptySeq DEF IsSequence
<1>2. f.items = <<>> /\ DOMAIN f = DOMAIN EmptyFeed
  BY DEF EmptyFeed
<1>3. it.labels = <<>> /\ Origins(it) = {}
  BY EmptyItemOrigins DEF EmptyItem
<1>4. FeedOrigins = {}
  <2>1. \A x \in FeedTexts : f[x] = Empty
    BY FeedNames DEF EmptyFeed, FeedTexts
  <2>2. Empty.of = 0
    BY DEF Empty
  <2> QED
    BY <2>1, <2>2 DEF FeedOrigins, FeedTexts
<1>5. TypeOK
  BY <1>1, <1>2, <1>3 DEF TypeOK
<1>6. OriginsInOrder
  BY <1>1, <1>2, <1>3, <1>4 DEF OriginsInOrder
<1>7. FeedAndItemsApart
  BY <1>1, <1>2, <1>4 DEF FeedAndItemsApart
<1>8. ItemsKeepToThemselves
  <2>1. ItemElements = {}
    BY <1>1 DEF ItemElements
  <2>2. KeepToThemselves(f.items)
    BY <1>1, <1>2 DEF KeepToThemselves
  <2> QED
    BY <1>1, <1>2, <2>1, <2>2, FS_EmptySet DEF ItemsKeepToThemselves
<1> QED
  BY <1>5, <1>6, <1>7, <1>8 DEF ItemInv

\* What the invariant says of the items read so far, whatever is visited next.
LEMMA ItemsStay ==
  ASSUME ItemInv, NEW node, node.id = n + 1, Visit(node), f'.items = f.items
  PROVE  /\ \A i \in DOMAIN f'.items :
                /\ Origins(f'.items[i]) \subseteq 1 .. n'
                /\ \A k \in Origins(f'.items[i]) : ReadInItem(k)'
                /\ \A k \in Origins(f'.items[i]) : k < n'
         /\ 1 .. n \subseteq 1 .. n' /\ n + 1 \in 1 .. n'
         /\ KeepToThemselves(f'.items)
         /\ IsSequence(f'.items)
<1>1. TypeOK /\ n \in Nat /\ n' = n + 1
  BY DEF ItemInv, TypeOK, Visit
<1>2. /\ \A i \in DOMAIN f.items : Origins(f.items[i]) \subseteq 1 .. n
      /\ \A i \in DOMAIN f.items : \A k \in Origins(f.items[i]) : ReadInItem(k)
      /\ KeepToThemselves(f.items)
      /\ IsSequence(f.items)
  BY DEF ItemInv, OriginsInOrder, FeedAndItemsApart, ItemsKeepToThemselves, TypeOK
<1>3. 1 .. n \subseteq 1 .. n' /\ n + 1 \in 1 .. n' /\ \A k \in 1 .. n : k < n'
  BY <1>1
<1>4. \A k \in 1 .. n : ReadInItem(k)' <=> ReadInItem(k)
  BY <1>1, ReadStays
<1> QED
  BY <1>2, <1>3, <1>4

\* An element below the root, among them those that begin a channel or an item.
LEMMA RootStepInv ==
  ASSUME ItemInv, at = "root", NEW node, node.id = n + 1, Visit(node), RootBranch(node)
  PROVE  ItemInv'
<1>1. TypeOK /\ DOMAIN it = DOMAIN EmptyItem /\ it.labels = <<>>
  BY DEF ItemInv, TypeOK
<1>2. f' = f
  BY DEF RootBranch, BeginChannel, BeginItem, RootOther
<1>3. /\ n' = n + 1 /\ n \in Nat
      /\ IsSequence(seen') /\ Len(seen') = n'
      /\ \A k \in DOMAIN seen' : seen'[k].node.id = k
      /\ seen'[n + 1] = [node |-> node, at |-> at]
  BY <1>1, SeenGrows
<1>4. /\ at' = "item"
      /\ NodeIs(node, "item", RSS)
      /\ it' = [EmptyItem EXCEPT !.guid = GetProp(node, "about", "RDF_URI")]
      \/ /\ at' \in {"root", "channel"}
         /\ it' = it
         /\ ~NodeIs(node, "item", RSS)
  BY DEF RootBranch, BeginChannel, BeginItem, RootOther, NodeIs
<1>5. /\ DOMAIN it' = DOMAIN EmptyItem /\ it'.labels = <<>>
      /\ at' = "item" => Origins(it') \subseteq {n + 1}
      /\ at' # "item" => it' = it
  <2>1. CASE it' = it /\ at' # "item"
    BY <1>1, <2>1
  <2>2. CASE it' = [EmptyItem EXCEPT !.guid = GetProp(node, "about", "RDF_URI")]
             /\ at' = "item"
    <3> DEFINE guid == GetProp(node, "about", "RDF_URI")
    <3>1. guid.of \in {0, n + 1}
      BY PropOrigin
    <3> HIDE DEF guid
    <3>2. /\ DOMAIN it' = DOMAIN EmptyItem
          /\ it'.labels = EmptyItem.labels
          /\ \A x \in TextFields : it'[x] = EmptyItem[x] \/ it'[x] = guid
      BY <2>2, FieldNames DEF guid
    <3>3. \A x \in TextFields : it'[x].of \in {EmptyItem[x].of, 0} \cup {n + 1}
      BY <3>1, <3>2
    <3>4. EmptyItem.labels = <<>>
      BY DEF EmptyItem
    <3>5. Origins(it') \subseteq Origins(EmptyItem) \cup {n + 1}
      BY <3>2, <3>3, OriginsGrow
    <3> QED
      BY <2>2, <3>2, <3>4, <3>5, EmptyItemOrigins
  <2> QED
    BY <1>4, <2>1, <2>2
<1>6. /\ \A i \in DOMAIN f'.items :
             /\ Origins(f'.items[i]) \subseteq 1 .. n'
             /\ \A k \in Origins(f'.items[i]) : ReadInItem(k)'
             /\ \A k \in Origins(f'.items[i]) : k < n'
      /\ 1 .. n \subseteq 1 .. n' /\ n + 1 \in 1 .. n'
      /\ KeepToThemselves(f'.items)
      /\ IsSequence(f'.items)
  BY <1>2, ItemsStay
<1>7. /\ FeedOrigins \subseteq 1 .. n /\ Origins(it) \subseteq 1 .. n
      /\ FeedOrigins' = FeedOrigins
      /\ \A k \in FeedOrigins : ReadBy(k, "channel", ChannelTests)
  BY <1>2 DEF ItemInv, OriginsInOrder, FeedAndItemsApart, FeedOrigins
<1>8. TypeOK'
  <2>1. DOMAIN f' = DOMAIN EmptyFeed
    BY <1>1, <1>2 DEF TypeOK
  <2>2. at' \in {"root", "channel", "item"}
    BY <1>4
  <2> QED
    BY <1>3, <1>5, <1>6, <2>1, <2>2 DEF TypeOK
<1>9. OriginsInOrder'
  <2>1. Origins(it') \subseteq 1 .. n'
    BY <1>5, <1>6, <1>7
  <2>2. at' = "item" => \A i \in DOMAIN f'.items :
            \A a \in Origins(f'.items[i]), b \in Origins(it') : a < b
    BY <1>3, <1>5, <1>6
  <2> QED
    BY <1>6, <1>7, <2>1, <2>2 DEF OriginsInOrder
<1>10. FeedAndItemsApart'
  <2>1. \A k \in FeedOrigins' : ReadBy(k, "channel", ChannelTests)'
    <3>1. ChannelTests' = ChannelTests
      BY DEF ChannelTests, RSS
    <3> QED
      BY <1>1, <1>7, <3>1, ReadStays
  <2> QED
    BY <1>6, <2>1 DEF FeedAndItemsApart
<1>11. at' = "item" => \A k \in Origins(it') : ReadInItem(k)'
  <2>1. \A k : at' = "item" /\ k = n + 1 => ReadInItem(k)'
    BY <1>3, <1>4 DEF ReadInItem, ReadBy, NodeIs, RSS
  <2> QED
    BY <1>5, <2>1
<1>12. ItemsKeepToThemselves'
  <2>1. Len(f.items) = Cardinality(ItemElements)
    BY <1>1, FS_CardinalityType DEF ItemInv, ItemsKeepToThemselves, TypeOK, IsSequence
  <2>2. /\ Cardinality(ItemElements) \in Nat
        /\ Cardinality(ItemElements') = Cardinality(ItemElements)
               + (IF NodeIs(node, "item", RSS) THEN 1 ELSE 0)
    BY <1>1, ElementsGrow
  <2>3. Len(f'.items) + (IF at' = "item" THEN 1 ELSE 0) = Cardinality(ItemElements')
    BY <1>2, <1>4, <2>1, <2>2
  <2> QED
    BY <1>6, <2>3 DEF ItemsKeepToThemselves
<1> QED
  BY <1>8, <1>9, <1>10, <1>11, <1>12 DEF ItemInv

\* An element of a channel.
LEMMA ChannelStepInv ==
  ASSUME ItemInv, at = "channel", NEW node, node.id = n + 1, Visit(node),
         ChannelBranch(node), UNCHANGED <<at, it>>
  PROVE  ItemInv'
<1>1. TypeOK /\ DOMAIN f = DOMAIN EmptyFeed
  BY DEF ItemInv, TypeOK
<1>2. /\ DOMAIN f' = DOMAIN EmptyFeed
      /\ f'.items = f.items
      /\ FeedOrigins' \subseteq FeedOrigins \cup {n + 1}
      /\ <<node.name, node.ns>> \in ChannelTests \/ f' = f
  BY <1>1, ChannelBranchReads
<1>3. /\ n' = n + 1 /\ n \in Nat
      /\ IsSequence(seen') /\ Len(seen') = n'
      /\ \A k \in DOMAIN seen' : seen'[k].node.id = k
      /\ seen'[n + 1] = [node |-> node, at |-> at]
  BY <1>1, SeenGrows
<1>4. /\ \A i \in DOMAIN f'.items :
             /\ Origins(f'.items[i]) \subseteq 1 .. n'
             /\ \A k \in Origins(f'.items[i]) : ReadInItem(k)'
             /\ \A k \in Origins(f'.items[i]) : k < n'
      /\ 1 .. n \subseteq 1 .. n' /\ n + 1 \in 1 .. n'
      /\ KeepToThemselves(f'.items)
      /\ IsSequence(f'.items)
  BY <1>2, ItemsStay
<1>5. /\ FeedOrigins \subseteq 1 .. n /\ Origins(it) \subseteq 1 .. n
      /\ \A k \in FeedOrigins : ReadBy(k, "channel", ChannelTests)
  BY DEF ItemInv, OriginsInOrder, FeedAndItemsApart
<1>6. TypeOK'
  <2>1. DOMAIN it' = DOMAIN EmptyItem /\ it'.labels = <<>> /\ at' = "channel"
    BY DEF ItemInv, TypeOK
  <2> QED
    BY <1>2, <1>3, <1>4, <2>1 DEF TypeOK
<1>7. OriginsInOrder'
  BY <1>2, <1>4, <1>5 DEF OriginsInOrder
<1>8. FeedAndItemsApart'
  <2> SUFFICES ASSUME NEW k \in FeedOrigins'
               PROVE  ReadBy(k, "channel", ChannelTests)'
    BY <1>4 DEF FeedAndItemsApart
  <2>1. ChannelTests' = ChannelTests
    BY DEF ChannelTests, RSS
  <2>2. CASE k \in FeedOrigins
    BY <1>1, <1>5, <2>1, <2>2, ReadStays
  <2>3. CASE k \notin FeedOrigins
    <3>1. k = n + 1
      BY <1>2, <2>3
    <3>2. f' # f
      BY <2>3 DEF FeedOrigins
    <3> QED
      BY <1>2, <1>3, <2>1, <3>1, <3>2 DEF ReadBy
  <2> QED
    BY <2>2, <2>3
<1>9. ItemsKeepToThemselves'
  <2>1. Len(f.items) = Cardinality(ItemElements)
    BY <1>1, FS_CardinalityType DEF ItemInv, ItemsKeepToThemselves, TypeOK, IsSequence
  <2>2. Cardinality(ItemElements) \in Nat /\ Cardinality(ItemElements') = Cardinality(ItemElements)
    BY <1>1, ElementsGrow
  <2> QED
    BY <1>2, <1>4, <2>1, <2>2 DEF ItemsKeepToThemselves
<1> QED
  BY <1>6, <1>7, <1>8, <1>9 DEF ItemInv

\* An element of an item.
LEMMA ItemStepInv ==
  ASSUME ItemInv, at = "item", NEW node, node.id = n + 1, Visit(node),
         ItemBranch(node), UNCHANGED <<at, f>>
  PROVE  ItemInv'
<1>1. TypeOK /\ DOMAIN it = DOMAIN EmptyItem /\ it.labels = <<>>
  BY DEF ItemInv, TypeOK
<1>2. /\ DOMAIN it' = DOMAIN EmptyItem /\ it'.labels = <<>>
      /\ Origins(it') \subseteq Origins(it) \cup {n + 1}
      /\ <<node.name, node.ns>> \in ItemTests \/ it' = it
  BY <1>1, ItemBranchReads
<1>3. /\ n' = n + 1 /\ n \in Nat
      /\ IsSequence(seen') /\ Len(seen') = n'
      /\ \A k \in DOMAIN seen' : seen'[k].node.id = k
      /\ seen'[n + 1] = [node |-> node, at |-> at]
  BY <1>1, SeenGrows
<1>4. /\ \A i \in DOMAIN f'.items :
             /\ Origins(f'.items[i]) \subseteq 1 .. n'
             /\ \A k \in Origins(f'.items[i]) : ReadInItem(k)'
             /\ \A k \in Origins(f'.items[i]) : k < n'
      /\ 1 .. n \subseteq 1 .. n' /\ n + 1 \in 1 .. n'
      /\ KeepToThemselves(f'.items)
      /\ IsSequence(f'.items)
  BY ItemsStay
<1>5. /\ FeedOrigins \subseteq 1 .. n /\ Origins(it) \subseteq 1 .. n
      /\ FeedOrigins' = FeedOrigins
      /\ \A k \in FeedOrigins : ReadBy(k, "channel", ChannelTests)
      /\ \A k \in Origins(it) : ReadInItem(k)
      /\ \A i \in DOMAIN f.items : \A a \in Origins(f.items[i]), b \in Origins(it) : a < b
  BY DEF ItemInv, OriginsInOrder, FeedAndItemsApart, FeedOrigins
<1>6. TypeOK'
  <2>1. at' = "item" /\ DOMAIN f' = DOMAIN EmptyFeed
    BY <1>1 DEF TypeOK
  <2> QED
    BY <1>2, <1>3, <1>4, <2>1 DEF TypeOK
<1>7. OriginsInOrder'
  <2>1. Origins(it') \subseteq 1 .. n'
    BY <1>2, <1>4, <1>5
  <2>2. ASSUME NEW i \in DOMAIN f'.items, NEW a \in Origins(f'.items[i]),
               NEW b \in Origins(it')
        PROVE  a < b
    BY <1>2, <1>3, <1>4, <1>5
  <2> QED
    BY <1>4, <1>5, <2>1, <2>2 DEF OriginsInOrder
<1>8. FeedAndItemsApart'
  <2>1. \A k \in FeedOrigins' : ReadBy(k, "channel", ChannelTests)'
    <3>1. ChannelTests' = ChannelTests
      BY DEF ChannelTests, RSS
    <3> QED
      BY <1>1, <1>5, <3>1, ReadStays
  <2> QED
    BY <1>4, <2>1 DEF FeedAndItemsApart
<1>9. \A k \in Origins(it') : ReadInItem(k)'
  <2> SUFFICES ASSUME NEW k \in Origins(it')
               PROVE  ReadInItem(k)'
    OBVIOUS
  <2>1. CASE k \in Origins(it)
    BY <1>1, <1>5, <2>1, ReadStays
  <2>2. CASE k \notin Origins(it)
    <3>1. k = n + 1
      BY <1>2, <2>2
    <3>2. it' # it
      BY <2>2
    <3>3. ItemTests' = ItemTests
      BY DEF ItemTests, RSS
    <3> QED
      BY <1>2, <1>3, <3>1, <3>2, <3>3 DEF ReadInItem, ReadBy
  <2> QED
    BY <2>1, <2>2
<1>10. ItemsKeepToThemselves'
  <2>1. Len(f.items) + 1 = Cardinality(ItemElements)
    BY DEF ItemInv, ItemsKeepToThemselves
  <2>2. Cardinality(ItemElements) \in Nat /\ Cardinality(ItemElements') = Cardinality(ItemElements)
    BY <1>1, ElementsGrow
  <2> QED
    BY <1>4, <2>1, <2>2 DEF ItemsKeepToThemselves
<1> QED
  BY <1>6, <1>7, <1>8, <1>9, <1>10 DEF ItemInv

\* The end of a channel.
LEMMA EndChannelInv ==
  ASSUME ItemInv, EndChannel
  PROVE  ItemInv'
<1>1. /\ at = "channel" /\ at' = "root"
      /\ n' = n /\ f' = f /\ it' = it /\ seen' = seen
  BY DEF EndChannel
<1>2. TypeOK'
  BY <1>1 DEF ItemInv, TypeOK
<1>3. OriginsInOrder'
  BY <1>1 DEF ItemInv, OriginsInOrder, FeedOrigins
<1>4. FeedAndItemsApart'
  BY <1>1 DEF ItemInv, FeedAndItemsApart, FeedOrigins, ReadInItem, ReadBy, ItemTests,
     ChannelTests, RSS
<1>5. ItemsKeepToThemselves'
  BY <1>1 DEF ItemInv, ItemsKeepToThemselves, ItemElements, NodeIs, RSS
<1> QED
  BY <1>1, <1>2, <1>3, <1>4, <1>5 DEF ItemInv

\* The end of an item, which appends it to the feed.
LEMMA EndItemInv ==
  ASSUME ItemInv, EndItem
  PROVE  ItemInv'
<1>1. /\ at = "item" /\ at' = "root"
      /\ f' = [f EXCEPT !.items = Append(f.items, it)]
      /\ n' = n /\ it' = it /\ seen' = seen
  BY DEF EndItem
<1>2. /\ DOMAIN f' = DOMAIN EmptyFeed
      /\ f'.items = Append(f.items, it)
      /\ FeedOrigins' = FeedOrigins
  <2>1. DOMAIN f = DOMAIN EmptyFeed
    BY DEF ItemInv, TypeOK
  <2>2. /\ DOMAIN f' = DOMAIN EmptyFeed
        /\ f'.items = Append(f.items, it)
        /\ \A x \in FeedTexts : f'[x] = f[x]
    BY <1>1, <2>1, FeedNames DEF FeedTexts
  <2> QED
    BY <2>2 DEF FeedOrigins, FeedTexts
<1>3. /\ FeedOrigins \subseteq 1 .. n /\ Origins(it) \subseteq 1 .. n
      /\ \A i \in DOMAIN f.items : Origins(f.items[i]) \subseteq 1 .. n
      /\ \A i \in DOMAIN f.items : \A a \in Origins(f.items[i]), b \in Origins(it) : a < b
      /\ \A i \in DOMAIN f.items : \A k \in Origins(f.items[i]) : ReadInItem(k)
      /\ \A k \in Origins(it) : ReadInItem(k)
      /\ \A k \in FeedOrigins : ReadBy(k, "channel", ChannelTests)
  BY <1>1 DEF ItemInv, OriginsInOrder, FeedAndItemsApart
<1>4. IsSequence(f.items)
  BY DEF ItemInv, TypeOK
<1>5. /\ IsSequence(f'.items)
      /\ Len(f.items) \in Nat
      /\ \A i \in DOMAIN f'.items : i \in DOMAIN f.items \/ i = Len(f.items) + 1
      /\ \A i \in DOMAIN f.items : f'.items[i] = f.items[i]
      /\ f'.items[Len(f.items) + 1] = it
      /\ Len(f'.items) = Len(f.items) + 1
  <2>1. /\ IsSequence(f'.items)
        /\ Len(f.items) \in Nat
        /\ DOMAIN f'.items = 1 .. Len(f.items) + 1
        /\ \A i \in DOMAIN f'.items : i \in DOMAIN f.items \/ i = Len(f.items) + 1
        /\ \A i \in DOMAIN f.items : f'.items[i] = f.items[i]
        /\ f'.items[Len(f.items) + 1] = it
    BY <1>2, <1>4, AppendToSequence
  <2>2. Len(f'.items) = Len(f.items) + 1
    BY <2>1, LenProperties, SequenceOfItsMembers
  <2> QED
    BY <2>1, <2>2
<1>6. TypeOK'
  BY <1>1, <1>2, <1>5 DEF ItemInv, TypeOK
<1>7. OriginsInOrder'
  <2>1. \A i \in DOMAIN f'.items : Origins(f'.items[i]) \subseteq 1 .. n
    BY <1>3, <1>5
  <2> QED
    BY <1>1, <1>2, <1>3, <2>1 DEF OriginsInOrder
<1>8. FeedAndItemsApart'
  <2>1. /\ \A k : ReadInItem(k)' <=> ReadInItem(k)
        /\ \A k : ReadBy(k, "channel", ChannelTests)' <=> ReadBy(k, "channel", ChannelTests)
    BY <1>1 DEF ReadInItem, ReadBy, ItemTests, ChannelTests, RSS
  <2>2. \A i \in DOMAIN f'.items : \A k \in Origins(f'.items[i]) : ReadInItem(k)
    BY <1>3, <1>5
  <2> QED
    BY <1>2, <1>3, <2>1, <2>2 DEF FeedAndItemsApart
<1>9. ItemsKeepToThemselves'
  <2>1. KeepToThemselves(f.items) /\ Len(f.items) + 1 = Cardinality(ItemElements)
    BY <1>1 DEF ItemInv, ItemsKeepToThemselves
  <2>2. KeepToThemselves(f'.items)
    BY <1>2, <1>3, <1>4, <2>1, KeepAppend
  <2>3. ItemElements' = ItemElements
    BY <1>1 DEF ItemElements, NodeIs, RSS
  <2> QED
    BY <1>1, <1>5, <2>1, <2>2, <2>3 DEF ItemsKeepToThemselves
<1> QED
  BY <1>1, <1>6, <1>7, <1>8, <1>9 DEF ItemInv

\* Steps that leave the parser alone.
LEMMA StutterInv ==
  ASSUME ItemInv, UNCHANGED vars
  PROVE  ItemInv'
<1>1. at' = at /\ n' = n /\ f' = f /\ it' = it /\ seen' = seen
  BY DEF vars
<1>2. TypeOK'
  BY <1>1 DEF ItemInv, TypeOK
<1>3. OriginsInOrder'
  BY <1>1 DEF ItemInv, OriginsInOrder, FeedOrigins
<1>4. FeedAndItemsApart'
  BY <1>1 DEF ItemInv, FeedAndItemsApart, FeedOrigins, ReadInItem, ReadBy, ItemTests,
     ChannelTests, RSS
<1>5. (at = "item" => \A k \in Origins(it) : ReadInItem(k))'
  BY <1>1 DEF ItemInv, ReadInItem, ReadBy, ItemTests, RSS
<1>6. ItemsKeepToThemselves'
  BY <1>1 DEF ItemInv, ItemsKeepToThemselves, ItemElements, NodeIs, RSS
<1> QED
  BY <1>2, <1>3, <1>4, <1>5, <1>6 DEF ItemInv

(***************************************************************************)
(* Whatever a document holds, the invariant does.                          *)
(***************************************************************************)
THEOREM DocumentsCorrect == Spec => []ItemInv
<1>1. Init => ItemInv
  BY InitInv
<1>2. ItemInv /\ [Next]_vars => ItemInv'
  <2> SUFFICES ASSUME ItemInv, [Next]_vars
               PROVE  ItemInv'
    OBVIOUS
  <2> DEFINE N(shape) == Node(shape, n + 1)
  <2>0. \A shape : N(shape).id = n + 1
    BY DEF Node
  <2>1. CASE RootStep
    <3>1. PICK shape \in RootShapes :
             at = "root" /\ Visit(N(shape)) /\ RootBranch(N(shape))
      BY <2>1 DEF RootStep, RootBranch
    <3> HIDE DEF N
    <3> QED
      BY <2>0, <3>1, RootStepInv
  <2>2. CASE ChannelStep
    <3>1. PICK shape \in ChannelShapes :
             at = "channel" /\ Visit(N(shape)) /\ ChannelBranch(N(shape))
      BY <2>2 DEF ChannelStep, ChannelBranch
    <3>2. UNCHANGED <<at, it>>
      BY <2>2 DEF ChannelStep
    <3> HIDE DEF N
    <3> QED
      BY <2>0, <3>1, <3>2, ChannelStepInv
  <2>3. CASE EndChannel
    BY <2>3, EndChannelInv
  <2>4. CASE ItemStep
    <3>1. PICK shape \in ItemShapes :
             at = "item" /\ Visit(N(shape)) /\ ItemBranch(N(shape))
      BY <2>4 DEF ItemStep, ItemBranch
    <3>2. UNCHANGED <<at, f>>
      BY <2>4 DEF ItemStep
    <3> HIDE DEF N
    <3> QED
      BY <2>0, <3>1, <3>2, ItemStepInv
  <2>5. CASE EndItem
    BY <2>5, EndItemInv
  <2>6. CASE UNCHANGED vars
    BY <2>6, StutterInv
  <2> QED
    BY <2>1, <2>2, <2>3, <2>4, <2>5, <2>6 DEF Next
<1> QED
  BY <1>1, <1>2, PTL DEF Spec

(***************************************************************************)
(* No text of the feed was read in an item and none of an item in a        *)
(* channel, in whatever order channels and items come.                     *)
(***************************************************************************)
THEOREM ChannelsAndItemsAreApart == Spec => []FeedAndItemsApart
<1>1. ItemInv => FeedAndItemsApart
  BY DEF ItemInv
<1> QED
  BY <1>1, DocumentsCorrect, PTL

(***************************************************************************)
(* Every item element becomes one item, in the order of the document, with *)
(* the texts of its own element only.                                      *)
(***************************************************************************)
THEOREM ItemsAreApart == Spec => []ItemsKeepToThemselves
<1>1. ItemInv => ItemsKeepToThemselves
  BY DEF ItemInv
<1> QED
  BY <1>1, DocumentsCorrect, PTL
=============================================================================
