------------------------- MODULE Rss09xParserProofs -------------------------
(***************************************************************************)
(* What rss_09x_parser and rss_20_parser promise, proved for documents of  *)
(* any elements in any order and of any length.                            *)
(***************************************************************************)
EXTENDS Rss09xParser, XmlNodesProofs

ItemBranch(node) ==
    \/ Title(node) \/ Link(node) \/ Description(node)
    \/ Encoded(node) \/ Summary(node) \/ Guid(node)
    \/ PubDate(node) \/ DcDate(node)
    \/ Author(node) \/ Creator(node)
    \/ Enclosure(node) \/ MediaGroup(node) \/ Other(node)

(***************************************************************************)
(* What one element does to the item, whichever branch takes it.           *)
(***************************************************************************)

\* Texts are read from that element only.
LEMMA BranchReads ==
  ASSUME NEW node, DOMAIN it = DOMAIN EmptyItem, ItemBranch(node)
  PROVE  /\ DOMAIN it' = DOMAIN EmptyItem
         /\ it'.labels = it.labels
         /\ \A x \in TextFields : it'[x].of \in {it[x].of, 0, node.id}
         /\ author'.of \in {author.of, 0, node.id}
         /\ dc_date'.of \in {dc_date.of, 0, node.id}
<1> USE FieldNames
<1>1. CASE Title(node)
  BY <1>1, ContentOrigin, TextOrigin DEF Title
<1>2. CASE Link(node)
  BY <1>2, ContentOrigin DEF Link
<1>3. CASE Description(node)
  BY <1>3, ContentOrigin, DescriptionTypeOrigin DEF Description
<1>4. CASE Encoded(node)
  BY <1>4, ContentOrigin DEF Encoded
<1>5. CASE Summary(node)
  BY <1>5, ContentOrigin DEF Summary
<1>6. CASE Guid(node)
  BY <1>6, ContentOrigin DEF Guid
<1>7. CASE PubDate(node)
  BY <1>7, DateOrigin DEF PubDate
<1>8. CASE DcDate(node)
  BY <1>8, DateOrigin DEF DcDate
<1>9. CASE Author(node)
  BY <1>9, TextOrigin DEF Author
<1>10. CASE Creator(node)
  BY <1>10, ContentOrigin DEF Creator
<1>11. CASE Enclosure(node)
  BY <1>11, PropOrigin DEF Enclosure, EnclosureOf
<1>12. CASE MediaGroup(node)
  <2> DEFINE content == LastChild(node, "content", "MEDIA_RSS_URI")
  <2>1. content.id = node.id
    BY DEF LastChild, Node
  <2>2. it' = it \/ it' = EnclosureOf(content, it)
    BY <1>12 DEF MediaGroup
  <2> HIDE DEF content
  <2>3. CASE it' = it
    BY <1>12, <2>3 DEF MediaGroup
  <2>4. CASE it' = EnclosureOf(content, it)
    <3> DEFINE url  == GetProp(content, "url", "none")
               type == GetProp(content, "type", "none")
    <3>1. url.of \in {0, node.id} /\ type.of \in {0, node.id}
      BY <2>1, PropOrigin
    <3>2. it' = [it EXCEPT !.enclosure_url = url, !.enclosure_type = type]
      BY <2>4 DEF EnclosureOf
    <3> HIDE DEF url, type
    <3> QED
      BY <1>12, <3>1, <3>2 DEF MediaGroup
  <2> QED
    BY <2>2, <2>3, <2>4
<1>13. CASE Other(node)
  BY <1>13 DEF Other, locals
<1> QED
  BY <1>1, <1>2, <1>3, <1>4, <1>5, <1>6, <1>7, <1>8, <1>9, <1>10, <1>11, <1>12, <1>13
     DEF ItemBranch

\* The members that several elements could set change with their own only.
LEMMA BranchSets ==
  ASSUME NEW node, DOMAIN it = DOMAIN EmptyItem, ItemBranch(node)
  PROVE  /\ it'.pubDate = IF node.name = "pubDate" /\ node.ns = ns
                          THEN FormatDate(GetContent(node)) ELSE it.pubDate
         /\ it'.author = IF node.name = "author" /\ node.ns = ns
                         THEN Text(node, AuthorParts(node.content).name) ELSE it.author
         /\ it'.author_email = IF node.name = "author" /\ node.ns = ns
                               THEN Text(node, AuthorParts(node.content).email)
                               ELSE it.author_email
         /\ dc_date' = IF node.name = "date" /\ node.ns = "DC_URI"
                       THEN FormatDate(GetContent(node)) ELSE dc_date
         /\ author' = IF node.name = "creator" /\ node.ns = "DC_URI"
                      THEN GetContent(node) ELSE author
         /\ it'.guid_isPermaLink =
                IF node.name = "guid" /\ node.ns = ns
                THEN GetProp(node, "isPermaLink", "none").s # "false"
                ELSE it.guid_isPermaLink
<1> USE FieldNames DEF NodeIs
<1>1. CASE Title(node)
  BY <1>1 DEF Title
<1>2. CASE Link(node)
  BY <1>2 DEF Link
<1>3. CASE Description(node)
  BY <1>3 DEF Description
<1>4. CASE Encoded(node)
  BY <1>4 DEF Encoded
<1>5. CASE Summary(node)
  BY <1>5 DEF Summary
<1>6. CASE Guid(node)
  BY <1>6 DEF Guid
<1>7. CASE PubDate(node)
  BY <1>7 DEF PubDate
<1>8. CASE DcDate(node)
  BY <1>8 DEF DcDate
<1>9. CASE Author(node)
  BY <1>9 DEF Author
<1>10. CASE Creator(node)
  BY <1>10 DEF Creator
<1>11. CASE Enclosure(node)
  BY <1>11 DEF Enclosure, EnclosureOf
<1>12. CASE MediaGroup(node)
  BY <1>12 DEF MediaGroup, EnclosureOf
<1>13. CASE Other(node)
  <2>1. it' = it /\ author' = author /\ dc_date' = dc_date
    BY <1>13 DEF Other, locals
  <2>2. /\ ~(node.name = "pubDate" /\ node.ns = ns)
        /\ ~(node.name = "author" /\ node.ns = ns)
        /\ ~(node.name = "guid" /\ node.ns = ns)
        /\ ~(node.name = "date" /\ node.ns = "DC_URI")
        /\ ~(node.name = "creator" /\ node.ns = "DC_URI")
    <3>1. {<<"pubDate", ns>>, <<"author", ns>>, <<"guid", ns>>, <<"date", "DC_URI">>,
           <<"creator", "DC_URI">>} \subseteq Tests
      BY DEF Tests
    <3> QED
      BY <1>13, <3>1 DEF Other
  <2> QED
    BY <2>1, <2>2
<1> QED
  BY <1>1, <1>2, <1>3, <1>4, <1>5, <1>6, <1>7, <1>8, <1>9, <1>10, <1>11, <1>12, <1>13
     DEF ItemBranch

\* The enclosure comes whole from an element that names one.
LEMMA BranchEncloses ==
  ASSUME NEW node, DOMAIN it = DOMAIN EmptyItem, ItemBranch(node),
         NEW t \in {"enclosure_url", "enclosure_type"}
  PROVE  IF NamesEnclosure(node) THEN it'[t] = Empty \/ it'[t].of = node.id
         ELSE it'[t] = it[t]
<1> USE FieldNames DEF NodeIs, NamesEnclosure
<1>1. CASE Title(node)
  BY <1>1 DEF Title
<1>2. CASE Link(node)
  BY <1>2 DEF Link
<1>3. CASE Description(node)
  BY <1>3 DEF Description
<1>4. CASE Encoded(node)
  BY <1>4 DEF Encoded
<1>5. CASE Summary(node)
  BY <1>5 DEF Summary
<1>6. CASE Guid(node)
  BY <1>6 DEF Guid
<1>7. CASE PubDate(node)
  BY <1>7 DEF PubDate
<1>8. CASE DcDate(node)
  BY <1>8 DEF DcDate
<1>9. CASE Author(node)
  BY <1>9 DEF Author
<1>10. CASE Creator(node)
  BY <1>10 DEF Creator
<1>11. CASE Enclosure(node)
  BY <1>11, PropOrigin DEF Enclosure, EnclosureOf
<1>12. CASE MediaGroup(node)
  <2> DEFINE content == LastChild(node, "content", "MEDIA_RSS_URI")
             contents == Children(node, "content", "MEDIA_RSS_URI")
  <2>1. content.id = node.id
    BY DEF LastChild, Node
  <2>2. contents = {} <=> ~\E i \in DOMAIN node.sub :
            node.sub[i].name = "content" /\ node.sub[i].ns = "MEDIA_RSS_URI"
    BY DEF Children
  <2>3. NamesEnclosure(node) <=> contents # {}
    BY <1>12, <2>2 DEF MediaGroup
  <2>4. it' = IF contents = {} THEN it ELSE EnclosureOf(content, it)
    BY <1>12 DEF MediaGroup
  <2> HIDE DEF content, contents, NamesEnclosure
  <2>5. CASE contents = {}
    BY <2>3, <2>4, <2>5
  <2>6. CASE contents # {}
    <3>1. it' = EnclosureOf(content, it)
      BY <2>4, <2>6
    <3>2. it'[t] = Empty \/ it'[t].of = node.id
      BY <2>1, <3>1, PropOrigin DEF EnclosureOf
    <3> QED
      BY <2>3, <2>6, <3>2
  <2> QED
    BY <2>5, <2>6
<1>13. CASE Other(node)
  <2>1. it' = it
    BY <1>13 DEF Other, locals
  <2>2. ~NamesEnclosure(node)
    <3>1. {<<"enclosure", ns>>, <<"content", "MEDIA_RSS_URI">>,
           <<"group", "MEDIA_RSS_URI">>} \subseteq Tests
      BY DEF Tests
    <3> QED
      BY <1>13, <3>1 DEF Other
  <2> QED
    BY <2>1, <2>2
<1> QED
  BY <1>1, <1>2, <1>3, <1>4, <1>5, <1>6, <1>7, <1>8, <1>9, <1>10, <1>11, <1>12, <1>13
     DEF ItemBranch

\* An element that no test asks for changes nothing.
LEMMA ForeignBranch ==
  ASSUME NEW node, ItemBranch(node)
  PROVE  <<node.name, node.ns>> \in Tests \/ UNCHANGED locals
<1>1. CASE Title(node)
  BY <1>1 DEF Title, NodeIs, Tests
<1>2. CASE Link(node)
  BY <1>2 DEF Link, NodeIs, Tests
<1>3. CASE Description(node)
  BY <1>3 DEF Description, NodeIs, Tests
<1>4. CASE Encoded(node)
  BY <1>4 DEF Encoded, NodeIs, Tests
<1>5. CASE Summary(node)
  BY <1>5 DEF Summary, NodeIs, Tests
<1>6. CASE Guid(node)
  BY <1>6 DEF Guid, NodeIs, Tests
<1>7. CASE PubDate(node)
  BY <1>7 DEF PubDate, NodeIs, Tests
<1>8. CASE DcDate(node)
  BY <1>8 DEF DcDate, NodeIs, Tests
<1>9. CASE Author(node)
  BY <1>9 DEF Author, NodeIs, Tests
<1>10. CASE Creator(node)
  BY <1>10 DEF Creator, NodeIs, Tests
<1>11. CASE Enclosure(node)
  BY <1>11 DEF Enclosure, NodeIs, Tests
<1>12. CASE MediaGroup(node)
  BY <1>12 DEF MediaGroup, NodeIs, Tests
<1>13. CASE Other(node)
  BY <1>13 DEF Other
<1> QED
  BY <1>1, <1>2, <1>3, <1>4, <1>5, <1>6, <1>7, <1>8, <1>9, <1>10, <1>11, <1>12, <1>13
     DEF ItemBranch

(***************************************************************************)
(* The invariant, conjunct by conjunct.                                    *)
(***************************************************************************)

\* What is read, after one element more.
LEMMA ItemOriginsGrow ==
  ASSUME NEW node, DOMAIN it = DOMAIN EmptyItem, it.labels = <<>>, ItemBranch(node)
  PROVE  ItemOrigins' \subseteq ItemOrigins \cup {node.id}
<1>1. /\ it'.labels = it.labels
      /\ \A x \in TextFields : it'[x].of \in {it[x].of, 0, node.id}
      /\ author'.of \in {author.of, 0, node.id}
      /\ dc_date'.of \in {dc_date.of, 0, node.id}
  BY BranchReads
<1>2. Origins(it') \subseteq Origins(it) \cup {node.id}
  <2>1. \A x \in TextFields : it'[x].of \in {it[x].of, 0} \cup {node.id}
    BY <1>1
  <2> QED
    BY <1>1, <2>1, OriginsGrow
<1>3. ({author'.of, dc_date'.of} \ {0}) \subseteq
          ({author.of, dc_date.of} \ {0}) \cup {node.id}
  BY <1>1
<1> QED
  BY <1>2, <1>3 DEF ItemOrigins

\* What parse_item returns was made from what it read.
LEMMA CompletedReads ==
  ASSUME DOMAIN it = DOMAIN EmptyItem
  PROVE  Origins(Completed(it)) \subseteq ItemOrigins
<1> DEFINE done == Completed(it)
<1>1. done.labels = it.labels
  BY FieldNames DEF Completed
<1>2. /\ done.author \in {it.author, author}
      /\ done.pubDate \in {it.pubDate, dc_date}
      /\ \A x \in TextFields \ {"author", "pubDate"} : done[x] = it[x]
  BY FieldNames DEF Completed
<1>3. \A x \in TextFields : done[x].of \in {it[x].of, author.of, dc_date.of}
  <2> HIDE DEF done
  <2> QED
    BY <1>2
<1> HIDE DEF done
<1>4. Origins(done) \subseteq ItemOrigins
  <2> SUFFICES ASSUME NEW a \in Origins(done)
               PROVE  a \in ItemOrigins
    OBVIOUS
  <2>1. a # 0
    BY DEF Origins
  <2>2. CASE \E x \in TextFields : a = done[x].of
    BY <1>3, <2>1, <2>2 DEF Origins, ItemOrigins
  <2>3. CASE \E l \in DOMAIN done.labels : a = done.labels[l].of
    BY <1>1, <2>1, <2>3 DEF Origins, ItemOrigins
  <2> QED
    BY <2>2, <2>3 DEF Origins
<1> QED
  BY <1>4 DEF done

\* A visited element is appended to those before it.
LEMMA SeenGrows ==
  ASSUME NEW node, IsSequence(seen), seen' = Append(seen, node)
  PROVE  /\ IsSequence(seen')
         /\ Len(seen) \in Nat
         /\ DOMAIN seen = 1 .. Len(seen)
         /\ DOMAIN seen' = 1 .. Len(seen) + 1
         /\ \A k \in DOMAIN seen : seen'[k] = seen[k]
         /\ seen'[Len(seen) + 1] = node
         /\ \A name, uri : LastAmong(seen', Visits(seen', name, uri)) =
                IF node.name = name /\ node.ns = uri THEN node
                ELSE LastAmong(seen, Visits(seen, name, uri))
BY AppendToSequence, LastVisit

\* The visit of an element of the item keeps the invariant.
LEMMA ItemStepInv ==
  ASSUME ItemInv, at = "item", NEW node, node.id = n + 1, ItemBranch(node),
         n' = n + 1, seen' = Append(seen, node), UNCHANGED <<at, ns, f>>
  PROVE  ItemInv'
<1>1. /\ n \in Nat
      /\ DOMAIN it = DOMAIN EmptyItem
      /\ it.labels = <<>>
      /\ IsSequence(seen)
      /\ \A k \in DOMAIN seen : seen[k].id \in 1 .. n
  BY DEF ItemInv, TypeOK
<1>2. /\ IsSequence(seen')
      /\ Len(seen) \in Nat
      /\ DOMAIN seen = 1 .. Len(seen)
      /\ DOMAIN seen' = 1 .. Len(seen) + 1
      /\ \A k \in DOMAIN seen : seen'[k] = seen[k]
      /\ seen'[Len(seen) + 1] = node
      /\ \A name, uri : LastAmong(seen', Visits(seen', name, uri)) =
             IF node.name = name /\ node.ns = uri THEN node
             ELSE LastAmong(seen, Visits(seen, name, uri))
  BY <1>1, SeenGrows
<1>3. \A k \in DOMAIN seen' : k \in DOMAIN seen \/ k = Len(seen) + 1
  BY <1>2
<1>4. ItemOrigins' \subseteq ItemOrigins \cup {n + 1}
  BY <1>1, ItemOriginsGrow
<1>5. TypeOK'
  <2>1. /\ at' \in {"channel", "item", "gone"}
        /\ DOMAIN f' = DOMAIN EmptyFeed
        /\ IsSequence(f'.items)
    BY DEF ItemInv, TypeOK
  <2>2. DOMAIN it' = DOMAIN EmptyItem /\ it'.labels = <<>>
    BY <1>1, BranchReads
  <2>3. \A k \in DOMAIN seen' : seen'[k].id \in 1 .. n'
    <3> SUFFICES ASSUME NEW k \in DOMAIN seen'
                 PROVE  seen'[k].id \in 1 .. n'
      OBVIOUS
    <3>1. seen'[k].id \in 1 .. n \/ seen'[k].id = n + 1
      BY <1>1, <1>2, <1>3
    <3> QED
      BY <1>1, <3>1
  <2> QED
    BY <1>1, <1>2, <2>1, <2>2, <2>3 DEF TypeOK
<1>6. (at = "channel" => it = EmptyItem /\ seen = <<>>)'
  OBVIOUS
<1>7. OriginsInOrder'
  <2>1. /\ \A i \in DOMAIN f.items : Origins(f.items[i]) \subseteq 1 .. n
        /\ ItemOrigins \subseteq 1 .. n
        /\ \A i \in DOMAIN f.items :
               \A a \in Origins(f.items[i]), b \in ItemOrigins : a < b
    BY DEF ItemInv, OriginsInOrder
  <2>2. 1 .. n \subseteq 1 .. n + 1 /\ n + 1 \in 1 .. n + 1
    BY <1>1
  <2>3. \A i \in DOMAIN f'.items : Origins(f'.items[i]) \subseteq 1 .. n'
    BY <2>1, <2>2
  <2>4. ItemOrigins' \subseteq 1 .. n'
    BY <1>4, <2>1, <2>2
  <2>5. ASSUME NEW i \in DOMAIN f'.items, NEW a \in Origins(f'.items[i]),
               NEW b \in ItemOrigins'
        PROVE  a < b
    <3>1. a \in 1 .. n /\ (b \in ItemOrigins => a < b)
      BY <2>1
    <3>2. b \in ItemOrigins \/ b = n + 1
      BY <1>4
    <3> QED
      BY <1>1, <3>1, <3>2
  <2> QED
    BY <2>3, <2>4, <2>5 DEF OriginsInOrder
<1>8. KeepToThemselves(f.items)'
  BY DEF ItemInv
<1>9. LastOfItsKind'
  <2>1. /\ it.pubDate = FormatDate(GetContent(LastAmong(seen, Visits(seen, "pubDate", ns))))
        /\ it.author = Text(LastAmong(seen, Visits(seen, "author", ns)),
               AuthorParts(LastAmong(seen, Visits(seen, "author", ns)).content).name)
        /\ it.author_email = Text(LastAmong(seen, Visits(seen, "author", ns)),
               AuthorParts(LastAmong(seen, Visits(seen, "author", ns)).content).email)
        /\ dc_date = FormatDate(GetContent(LastAmong(seen, Visits(seen, "date", "DC_URI"))))
        /\ author = GetContent(LastAmong(seen, Visits(seen, "creator", "DC_URI")))
    BY DEF ItemInv, LastOfItsKind
  <2>2. /\ it'.pubDate = IF node.name = "pubDate" /\ node.ns = ns
                         THEN FormatDate(GetContent(node)) ELSE it.pubDate
        /\ it'.author = IF node.name = "author" /\ node.ns = ns
                        THEN Text(node, AuthorParts(node.content).name) ELSE it.author
        /\ it'.author_email = IF node.name = "author" /\ node.ns = ns
                              THEN Text(node, AuthorParts(node.content).email)
                              ELSE it.author_email
        /\ dc_date' = IF node.name = "date" /\ node.ns = "DC_URI"
                      THEN FormatDate(GetContent(node)) ELSE dc_date
        /\ author' = IF node.name = "creator" /\ node.ns = "DC_URI"
                     THEN GetContent(node) ELSE author
    BY <1>1, BranchSets
  <2>3. it'.pubDate = FormatDate(GetContent(LastAmong(seen', Visits(seen', "pubDate", ns'))))
    BY <1>2, <2>1, <2>2
  <2>4. it'.author = Text(LastAmong(seen', Visits(seen', "author", ns')),
            AuthorParts(LastAmong(seen', Visits(seen', "author", ns')).content).name)
    BY <1>2, <2>1, <2>2
  <2>5. it'.author_email = Text(LastAmong(seen', Visits(seen', "author", ns')),
            AuthorParts(LastAmong(seen', Visits(seen', "author", ns')).content).email)
    BY <1>2, <2>1, <2>2
  <2>6. dc_date' = FormatDate(GetContent(LastAmong(seen', Visits(seen', "date", "DC_URI"))))
    BY <1>2, <2>1, <2>2
  <2>7. author' = GetContent(LastAmong(seen', Visits(seen', "creator", "DC_URI")))
    BY <1>2, <2>1, <2>2
  <2> QED
    BY <2>3, <2>4, <2>5, <2>6, <2>7 DEF LastOfItsKind
<1>10. EnclosureIsWhole'
  <2> DEFINE named == {k \in DOMAIN seen : NamesEnclosure(seen[k])}
             later == {k \in DOMAIN seen' : NamesEnclosure(seen'[k])}
  <2>1. named \in SUBSET (DOMAIN seen)
    OBVIOUS
  <2>2. NamesEnclosure(node) => later = named \cup {Len(seen) + 1}
    BY <1>2, <1>3
  <2>3. ~NamesEnclosure(node) => later = named
    BY <1>2, <1>3
  <2>4. \A x : NamesEnclosure(x)' <=> NamesEnclosure(x)
    BY DEF NamesEnclosure
  <2>5. ASSUME NEW t \in {"enclosure_url", "enclosure_type"}, it'[t] # Empty
        PROVE  it'[t].of = LastAmong(seen', later).id
    <3>1. it[t] # Empty => it[t].of = LastAmong(seen, named).id
      BY DEF ItemInv, EnclosureIsWhole
    <3>2. IF NamesEnclosure(node) THEN it'[t] = Empty \/ it'[t].of = node.id
          ELSE it'[t] = it[t]
      BY <1>1, BranchEncloses
    <3> HIDE DEF named, later
    <3>3. CASE NamesEnclosure(node)
      <4>1. LastAmong(Append(seen, node), named \cup {Len(seen) + 1}) = node
        BY <1>1, <2>1, LastIsNew
      <4> QED
        BY <2>2, <2>5, <3>2, <3>3, <4>1
    <3>4. CASE ~NamesEnclosure(node)
      <4>1. LastAmong(Append(seen, node), named) = LastAmong(seen, named)
        BY <1>1, <2>1, LastStays
      <4> QED
        BY <2>3, <2>5, <3>1, <3>2, <3>4, <4>1
    <3> QED
      BY <3>3, <3>4
  <2>6. {k \in DOMAIN seen' : NamesEnclosure(seen[k])'} = later
    BY <2>4 DEF NamesEnclosure
  <2> QED
    BY <2>5, <2>6 DEF EnclosureIsWhole
<1>11. GuidSaysWhetherLink'
  <2> DEFINE guids == Visits(seen, "guid", ns)
             later == Visits(seen', "guid", ns')
  <2>1. it'.guid_isPermaLink =
            IF node.name = "guid" /\ node.ns = ns
            THEN GetProp(node, "isPermaLink", "none").s # "false"
            ELSE it.guid_isPermaLink
    BY <1>1, BranchSets
  <2>2. later = guids \cup (IF node.name = "guid" /\ node.ns = ns
                            THEN {Len(seen) + 1} ELSE {})
    BY <1>1, VisitsAppend
  <2>3. LastAmong(seen', later) = IF node.name = "guid" /\ node.ns = ns THEN node
                                  ELSE LastAmong(seen, guids)
    BY <1>2
  <2>4. IF guids = {} THEN it.guid_isPermaLink = Uninitialized
        ELSE it.guid_isPermaLink =
                 (GetProp(LastAmong(seen, guids), "isPermaLink", "none").s # "false")
    BY DEF ItemInv, GuidSaysWhetherLink
  <2> HIDE DEF guids, later
  <2>5. CASE node.name = "guid" /\ node.ns = ns
    <3>1. later # {}
      BY <2>2, <2>5
    <3>2. it'.guid_isPermaLink =
              (GetProp(LastAmong(seen', later), "isPermaLink", "none").s # "false")
      BY <2>1, <2>3, <2>5
    <3> QED
      BY <3>1, <3>2 DEF GuidSaysWhetherLink, later
  <2>6. CASE ~(node.name = "guid" /\ node.ns = ns)
    <3>1. later = guids
      BY <2>2, <2>6
    <3>2. it'.guid_isPermaLink = it.guid_isPermaLink
      BY <2>1, <2>6
    <3>3. LastAmong(seen', later) = LastAmong(seen, guids)
      BY <2>3, <2>6
    <3> QED
      BY <2>4, <3>1, <3>2, <3>3 DEF GuidSaysWhetherLink, later
  <2> QED
    BY <2>5, <2>6
<1>12. ForeignElementsIgnored'
  <2> SUFFICES ASSUME NEW k \in DOMAIN seen', seen'[k].id \in ItemOrigins' \cup {0}
               PROVE  <<seen'[k].name, seen'[k].ns>> \in Tests
    BY DEF ForeignElementsIgnored, ItemOrigins, Tests
  <2>1. ItemOrigins \subseteq 1 .. n
    BY DEF ItemInv, OriginsInOrder
  <2>2. CASE k \in DOMAIN seen
    <3>1. seen'[k] = seen[k] /\ seen[k].id \in 1 .. n
      BY <1>1, <1>2, <2>2
    <3>2. seen[k].id \in ItemOrigins
      BY <1>1, <1>4, <3>1
    <3>3. <<seen[k].name, seen[k].ns>> \in Tests
      BY <2>2, <3>2 DEF ItemInv, ForeignElementsIgnored, ItemOrigins
    <3> QED
      BY <3>1, <3>3
  <2>3. CASE k = Len(seen) + 1
    <3>1. seen'[k] = node
      BY <1>2, <2>3
    <3>2. CASE <<node.name, node.ns>> \in Tests
      BY <3>1, <3>2
    <3>3. CASE UNCHANGED locals
      <4>1. ItemOrigins' = ItemOrigins
        BY <3>3 DEF ItemOrigins, locals, Origins
      <4>2. n + 1 \in 1 .. n \cup {0}
        BY <2>1, <3>1, <4>1
      <4> QED
        BY <1>1, <4>2
    <3> QED
      BY <3>2, <3>3, ForeignBranch
  <2> QED
    BY <1>3, <2>2, <2>3
<1> QED
  BY <1>5, <1>6, <1>7, <1>8, <1>9, <1>10, <1>11, <1>12 DEF ItemInv

\* An item of which nothing was visited is empty, as the invariant has it.
LEMMA NothingVisited ==
  ASSUME it = EmptyItem, seen = <<>>
  PROVE  /\ Origins(it) = {}
         /\ DOMAIN it = DOMAIN EmptyItem
         /\ it.labels = <<>>
         /\ IsSequence(seen)
         /\ DOMAIN seen = {}
         /\ \A name, uri : LastAmong(seen, Visits(seen, name, uri)) = NoNode
         /\ it.pubDate = FormatDate(GetContent(NoNode))
         /\ it.author = Text(NoNode, AuthorParts(NoNode.content).name)
         /\ it.author_email = Text(NoNode, AuthorParts(NoNode.content).email)
         /\ EnclosureIsWhole
         /\ GuidSaysWhetherLink
         /\ ForeignElementsIgnored
<1>1. /\ IsSequence(seen)
      /\ DOMAIN seen = {}
  BY EmptySeq DEF IsSequence
<1>2. \A name, uri : Visits(seen, name, uri) = {}
  BY <1>1 DEF Visits
<1>3. \A name, uri : LastAmong(seen, Visits(seen, name, uri)) = NoNode
  BY <1>2 DEF LastAmong
<1>4. /\ it.labels = <<>>
      /\ it.pubDate = Empty
      /\ it.author = Empty
      /\ it.author_email = Empty
      /\ it.enclosure_url = Empty
      /\ it.enclosure_type = Empty
      /\ it.guid_isPermaLink = Uninitialized
  BY DEF EmptyItem
<1>5. /\ Text(NoNode, AuthorParts(NoNode.content).name) = Empty
      /\ Text(NoNode, AuthorParts(NoNode.content).email) = Empty
  BY DEF Text, NoNode, AuthorParts
<1>6. EnclosureIsWhole
  BY <1>4 DEF EnclosureIsWhole
<1>7. GuidSaysWhetherLink
  BY <1>2, <1>4 DEF GuidSaysWhetherLink
<1>8. ForeignElementsIgnored
  BY <1>1 DEF ForeignElementsIgnored
<1> QED
  BY <1>1, <1>3, <1>4, <1>5, <1>6, <1>7, <1>8, EmptyItemOrigins, NoNodeHasNoTexts

\* The same for the state after a step.
LEMMA NothingVisitedNext ==
  ASSUME it' = EmptyItem, seen' = <<>>
  PROVE  /\ Origins(it') = {}
         /\ DOMAIN it' = DOMAIN EmptyItem
         /\ it'.labels = <<>>
         /\ IsSequence(seen')
         /\ DOMAIN seen' = {}
         /\ \A name, uri : LastAmong(seen', Visits(seen', name, uri)) = NoNode
         /\ it'.pubDate = FormatDate(GetContent(NoNode))
         /\ it'.author = Text(NoNode, AuthorParts(NoNode.content).name)
         /\ it'.author_email = Text(NoNode, AuthorParts(NoNode.content).email)
         /\ EnclosureIsWhole'
         /\ GuidSaysWhetherLink'
         /\ ForeignElementsIgnored'
<1>1. /\ IsSequence(seen')
      /\ DOMAIN seen' = {}
  BY EmptySeq DEF IsSequence
<1>2. \A name, uri : Visits(seen', name, uri) = {}
  BY <1>1 DEF Visits
<1>3. \A name, uri : LastAmong(seen', Visits(seen', name, uri)) = NoNode
  BY <1>2 DEF LastAmong
<1>4. /\ it'.labels = <<>>
      /\ it'.pubDate = Empty
      /\ it'.author = Empty
      /\ it'.author_email = Empty
      /\ it'.enclosure_url = Empty
      /\ it'.enclosure_type = Empty
      /\ it'.guid_isPermaLink = Uninitialized
  BY DEF EmptyItem
<1>5. /\ Text(NoNode, AuthorParts(NoNode.content).name) = Empty
      /\ Text(NoNode, AuthorParts(NoNode.content).email) = Empty
  BY DEF Text, NoNode, AuthorParts
<1>6. EnclosureIsWhole'
  BY <1>4 DEF EnclosureIsWhole
<1>7. GuidSaysWhetherLink'
  BY <1>2, <1>4 DEF GuidSaysWhetherLink
<1>8. ForeignElementsIgnored'
  BY <1>1 DEF ForeignElementsIgnored
<1> QED
  BY <1>1, <1>3, <1>4, <1>5, <1>6, <1>7, <1>8, EmptyItemOrigins, NoNodeHasNoTexts

\* The invariant holds of a document of which only the root was read.
LEMMA InitInv ==
  ASSUME Init
  PROVE  ItemInv
<1> USE DEF Init
<1>1. DOMAIN f.items = {} /\ IsSequence(f.items) /\ DOMAIN f = DOMAIN EmptyFeed
  BY EmptySeq DEF EmptyFeed, IsSequence
<1>2. ItemOrigins = {}
  BY EmptyItemOrigins DEF ItemOrigins, Empty
<1>3. TypeOK
  BY <1>1, NothingVisited DEF TypeOK
<1>4. OriginsInOrder
  BY <1>1, <1>2 DEF OriginsInOrder
<1>5. KeepToThemselves(f.items)
  BY <1>1 DEF KeepToThemselves
<1>6. LastOfItsKind
  BY NothingVisited DEF LastOfItsKind
<1> QED
  BY <1>3, <1>4, <1>5, <1>6, NothingVisited DEF ItemInv

\* The visit of an element of the channel leaves the items alone.
LEMMA ChannelStepInv ==
  ASSUME ItemInv, ChannelStep
  PROVE  ItemInv'
<1>1. /\ at = "channel"
      /\ n' = n + 1
      /\ at' = at /\ ns' = ns /\ it' = it /\ author' = author /\ dc_date' = dc_date
      /\ seen' = seen
  BY DEF ChannelStep, locals
<1>2. DOMAIN f' = DOMAIN EmptyFeed /\ f'.items = f.items
  <2>1. DOMAIN f = DOMAIN EmptyFeed
    BY DEF ItemInv, TypeOK
  <2> QED
    BY <2>1, FeedNames DEF ChannelStep, ChannelTitle, ChannelLink, ChannelDescription,
       ChannelLanguage, ChannelEditor, ChannelOther
<1>3. 1 .. n \subseteq 1 .. n'
  BY <1>1 DEF ItemInv, TypeOK
<1>4. it = EmptyItem /\ seen = <<>>
  BY <1>1 DEF ItemInv
<1>5. TypeOK'
  <2>1. n' \in Nat /\ at' \in {"channel", "item"} /\ IsSequence(f'.items)
    BY <1>1, <1>2 DEF ItemInv, TypeOK
  <2> QED
    BY <1>1, <1>2, <1>4, <2>1, NothingVisitedNext DEF TypeOK
<1>6. OriginsInOrder'
  <2>1. /\ \A i \in DOMAIN f.items : Origins(f.items[i]) \subseteq 1 .. n
        /\ ItemOrigins \subseteq 1 .. n
    BY DEF ItemInv, OriginsInOrder
  <2>2. ItemOrigins' = ItemOrigins
    BY <1>1 DEF ItemOrigins
  <2> QED
    BY <1>1, <1>2, <1>3, <2>1, <2>2 DEF OriginsInOrder
<1>7. KeepToThemselves(f.items)'
  BY <1>2 DEF ItemInv
<1>8. LastOfItsKind'
  BY <1>1, <1>4, NothingVisitedNext DEF LastOfItsKind
<1> QED
  BY <1>1, <1>4, <1>5, <1>6, <1>7, <1>8, NothingVisitedNext DEF ItemInv

\* An item starts with locals that hold nothing of the items before.
LEMMA BeginItemInv ==
  ASSUME ItemInv, BeginItem
  PROVE  ItemInv'
<1>1. /\ at = "channel" /\ at' = "item"
      /\ n' = n + 1
      /\ it' = EmptyItem /\ author' = Empty /\ dc_date' = Empty
      /\ seen' = <<>>
      /\ ns' = ns /\ f' = f
  BY DEF BeginItem
<1>2. 1 .. n \subseteq 1 .. n'
  BY <1>1 DEF ItemInv, TypeOK
<1>3. ItemOrigins' = {}
  BY <1>1, EmptyItemOrigins DEF ItemOrigins, Empty
<1>4. TypeOK'
  <2>1. n' \in Nat /\ DOMAIN f' = DOMAIN EmptyFeed /\ IsSequence(f'.items)
    BY <1>1 DEF ItemInv, TypeOK
  <2> QED
    BY <1>1, <2>1, NothingVisitedNext DEF TypeOK
<1>5. OriginsInOrder'
  <2>1. \A i \in DOMAIN f.items : Origins(f.items[i]) \subseteq 1 .. n
    BY DEF ItemInv, OriginsInOrder
  <2> QED
    BY <1>1, <1>2, <1>3, <2>1 DEF OriginsInOrder
<1>6. KeepToThemselves(f.items)'
  BY <1>1 DEF ItemInv
<1>7. LastOfItsKind'
  BY <1>1, NothingVisitedNext, NoNodeHasNoTexts DEF LastOfItsKind
<1> QED
  BY <1>1, <1>4, <1>5, <1>6, <1>7, NothingVisitedNext DEF ItemInv

\* A completed item joins those before it.
LEMMA EndItemInv ==
  ASSUME ItemInv, EndItem
  PROVE  ItemInv'
<1> DEFINE done == Completed(it)
<1>1. /\ at = "item" /\ at' = "channel"
      /\ n' = n /\ ns' = ns
      /\ it' = EmptyItem /\ author' = author /\ dc_date' = dc_date
      /\ seen' = <<>>
      /\ f' = [f EXCEPT !.items = Append(f.items, done)]
  BY DEF EndItem
<1>2. DOMAIN f' = DOMAIN EmptyFeed /\ f'.items = Append(f.items, done)
  <2>1. DOMAIN f = DOMAIN EmptyFeed
    BY DEF ItemInv, TypeOK
  <2> HIDE DEF done
  <2> QED
    BY <1>1, <2>1, FeedNames
<1>3. /\ \A i \in DOMAIN f.items : Origins(f.items[i]) \subseteq 1 .. n
      /\ ItemOrigins \subseteq 1 .. n
      /\ \A i \in DOMAIN f.items :
             \A a \in Origins(f.items[i]), b \in ItemOrigins : a < b
  BY <1>1 DEF ItemInv, OriginsInOrder
<1>4. Origins(done) \subseteq ItemOrigins
  BY CompletedReads DEF ItemInv, TypeOK
<1>5. IsSequence(f.items)
  BY DEF ItemInv, TypeOK
<1> HIDE DEF done
<1>6. /\ IsSequence(f'.items)
      /\ \A i \in DOMAIN f'.items : i \in DOMAIN f.items \/ i = Len(f.items) + 1
      /\ \A i \in DOMAIN f.items : f'.items[i] = f.items[i]
      /\ f'.items[Len(f.items) + 1] = done
  BY <1>2, <1>5, AppendToSequence
<1>7. TypeOK'
  <2>1. n' \in Nat
    BY <1>1 DEF ItemInv, TypeOK
  <2> QED
    BY <1>1, <1>2, <1>6, <2>1, NothingVisitedNext DEF TypeOK
<1>8. OriginsInOrder'
  <2>1. \A i \in DOMAIN f'.items : Origins(f'.items[i]) \subseteq 1 .. n'
    BY <1>1, <1>3, <1>4, <1>6
  <2>2. ItemOrigins' \subseteq ItemOrigins
    BY <1>1, EmptyItemOrigins DEF ItemOrigins
  <2> QED
    BY <1>1, <1>3, <2>1, <2>2 DEF OriginsInOrder
<1>9. KeepToThemselves(f.items)'
  <2>1. KeepToThemselves(f.items)
    BY DEF ItemInv
  <2> QED
    BY <1>2, <1>3, <1>4, <1>5, <2>1, KeepAppend
<1>10. LastOfItsKind'
  BY <1>1, NothingVisitedNext DEF LastOfItsKind
<1> QED
  BY <1>1, <1>7, <1>8, <1>9, <1>10, NothingVisitedNext DEF ItemInv

\* A parse that ends in a read outside of a string leaves all as it was.
LEMMA AuthorReadsOutsideInv ==
  ASSUME ItemInv, AuthorReadsOutside
  PROVE  ItemInv'
<1>1. at' = "gone" /\ UNCHANGED <<ns, n, f, locals, seen>>
  BY DEF AuthorReadsOutside
<1> QED
  BY <1>1 DEF locals, ItemInv, TypeOK, OriginsInOrder, ItemOrigins, LastOfItsKind,
     EnclosureIsWhole, NamesEnclosure, GuidSaysWhetherLink, ForeignElementsIgnored, Tests

(***************************************************************************)
(* Whatever a document holds, the invariant does.                          *)
(***************************************************************************)
THEOREM ItemsCorrect == Spec => []ItemInv
<1>1. Init => ItemInv
  BY InitInv
<1>2. ItemInv /\ [Next]_vars => ItemInv'
  <2> SUFFICES ASSUME ItemInv, [Next]_vars
               PROVE  ItemInv'
    OBVIOUS
  <2>1. CASE ChannelStep
    BY <2>1, ChannelStepInv
  <2>2. CASE BeginItem
    BY <2>2, BeginItemInv
  <2>3. CASE ItemStep
    <3>1. PICK shape \in ItemShapes :
             /\ ItemBranch(Node(shape, n + 1))
             /\ seen' = Append(seen, Node(shape, n + 1))
      BY <2>3 DEF ItemStep, ItemBranch
    <3>2. at = "item" /\ n' = n + 1 /\ UNCHANGED <<at, ns, f>>
      BY <2>3 DEF ItemStep
    <3>3. Node(shape, n + 1).id = n + 1
      BY DEF Node
    <3> QED
      BY <3>1, <3>2, <3>3, ItemStepInv
  <2>4. CASE EndItem
    BY <2>4, EndItemInv
  <2>5. CASE AuthorReadsOutside
    BY <2>5, AuthorReadsOutsideInv
  <2>6. CASE UNCHANGED vars
    BY <2>6 DEF vars, locals, ItemInv, TypeOK, OriginsInOrder, ItemOrigins, LastOfItsKind,
       EnclosureIsWhole, NamesEnclosure, GuidSaysWhetherLink, ForeignElementsIgnored, Tests
  <2> QED
    BY <2>1, <2>2, <2>3, <2>4, <2>5, <2>6 DEF Next
<1> QED
  BY <1>1, <1>2, PTL DEF Spec

(***************************************************************************)
(* No text of one item reaches another: what parse_item returns was read   *)
(* below its own element, and the locals it stands on are fresh.           *)
(***************************************************************************)
THEOREM ItemsAreApart == Spec => []ItemsKeepToThemselves
<1>1. ItemInv => ItemsKeepToThemselves
  <2> SUFFICES ASSUME ItemInv
               PROVE  ItemsKeepToThemselves
    OBVIOUS
  <2>1. Origins(Completed(it)) \subseteq ItemOrigins
    BY CompletedReads DEF ItemInv, TypeOK
  <2> QED
    BY <2>1 DEF ItemInv, OriginsInOrder, ItemsKeepToThemselves
<1> QED
  BY <1>1, ItemsCorrect, PTL

(***************************************************************************)
(* The date of an item is its last pubDate, or, without a recognised one,  *)
(* its last dc:date, in whatever order they stand.                         *)
(***************************************************************************)
THEOREM DateIsTheLast == Spec => []DateDoesNotDependOnOrder
<1>1. ItemInv => DateDoesNotDependOnOrder
  <2> SUFFICES ASSUME ItemInv, at = "item"
               PROVE  Completed(it).pubDate =
                          IF it.pubDate # Empty THEN it.pubDate ELSE dc_date
    BY DEF DateDoesNotDependOnOrder, ItemInv, LastOfItsKind
  <2>1. DOMAIN it = DOMAIN EmptyItem
    BY DEF ItemInv, TypeOK
  <2> QED
    BY <2>1, FieldNames DEF Completed
<1> QED
  BY <1>1, ItemsCorrect, PTL

(***************************************************************************)
(* The author and his address are those of the last author element; the    *)
(* last dc:creator stands in for a name that is missing, in whatever order *)
(* they stand.                                                             *)
(***************************************************************************)
THEOREM AuthorIsTheLast == Spec => []AuthorDoesNotDependOnOrder
<1>1. ItemInv => AuthorDoesNotDependOnOrder
  <2> SUFFICES ASSUME ItemInv, at = "item"
               PROVE  AuthorDoesNotDependOnOrder
    BY DEF AuthorDoesNotDependOnOrder
  <2> DEFINE last == LastAmong(seen, Visits(seen, "author", ns))
             creator == GetContent(LastAmong(seen, Visits(seen, "creator", "DC_URI")))
             parts == AuthorParts(last.content)
  <2>1. /\ it.author = Text(last, parts.name)
        /\ it.author_email = Text(last, parts.email)
        /\ author = creator
    BY DEF ItemInv, LastOfItsKind
  <2>2. /\ Completed(it).author = IF it.author = Empty THEN author ELSE it.author
        /\ Completed(it).author_email = it.author_email
    <3>1. DOMAIN it = DOMAIN EmptyItem
      BY DEF ItemInv, TypeOK
    <3> QED
      BY <3>1, FieldNames DEF Completed
  <2> HIDE DEF last, creator, parts
  <2>3. it.author = Empty <=> parts.name = ""
    BY <2>1, TextIsEmpty
  <2>4. /\ Completed(it).author = IF parts.name # "" THEN Text(last, parts.name)
                                  ELSE creator
        /\ Completed(it).author_email = Text(last, parts.email)
    BY <2>1, <2>2, <2>3
  <2> QED
    BY <2>4 DEF AuthorDoesNotDependOnOrder, last, creator, parts
<1> QED
  BY <1>1, ItemsCorrect, PTL

(***************************************************************************)
(* The URL and the type of an enclosure are those of one element, the last *)
(* that names one.                                                         *)
(***************************************************************************)
THEOREM EnclosureIsOfOneElement == Spec => []EnclosureIsWhole
<1>1. ItemInv => EnclosureIsWhole
  BY DEF ItemInv
<1> QED
  BY <1>1, ItemsCorrect, PTL

(***************************************************************************)
(* Whether the guid of an item is a link is as its last guid element says. *)
(***************************************************************************)
THEOREM GuidIsTheLast == Spec => []GuidSaysWhetherLink
<1>1. ItemInv => GuidSaysWhetherLink
  BY DEF ItemInv
<1> QED
  BY <1>1, ItemsCorrect, PTL

(***************************************************************************)
(* Elements of other vocabularies change nothing.                          *)
(***************************************************************************)
THEOREM ForeignElementsChangeNothing == Spec => []ForeignElementsIgnored
<1>1. ItemInv => ForeignElementsIgnored
  BY DEF ItemInv
<1> QED
  BY <1>1, ItemsCorrect, PTL
=============================================================================
