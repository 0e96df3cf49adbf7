-------------------------- MODULE AtomParserProofs --------------------------
(***************************************************************************)
(* What atom_parser promises, proved for documents of any elements in any  *)
(* order and of any length.                                                *)
(***************************************************************************)
EXTENDS AtomParser, XmlNodesProofs

EntryBranch(node) ==
    \/ Author(node) \/ Title(node) \/ Content(node) \/ Id(node)
    \/ Published(node) \/ Updated(node) \/ Link(node)
    \/ Summary(node) \/ Category(node) \/ Other(node)

Is(node, name) == node.name = name /\ node.ns = ns

Has(node, prop, values) == GetProp(node, prop, "none").s \in values

(***************************************************************************)
(* Texts of an entry.                                                      *)
(***************************************************************************)

\* The type of a text is read from its own element, also where it is missing.
LEMMA TypeOrTextOrigin ==
  ASSUME NEW node
  PROVE  TypeOrText(node).of = node.id
<1>1. Text(node, "text").of = node.id
  BY TextIsEmpty
<1> QED
  BY <1>1, PropOrigin DEF TypeOrText

\* A known mode gives a text of the node, any other leaves what was there.
LEMMA ConstructText ==
  ASSUME NEW node, NEW old
  PROVE  /\ Construct(node, old) = IF Has(node, "mode", KnownModes)
                                   THEN Construct(node, Empty) ELSE old
         /\ Construct(node, Empty) = Empty \/ Construct(node, Empty).of = node.id
         /\ Construct(node, old).of \in {old.of, 0, node.id}
<1> DEFINE mode == GetProp(node, "mode", "none").s
           type == GetProp(node, "type", "none").s
           text == IF mode = "escaped" THEN GetContent(node)
                   ELSE IF type \in {"html", "text"} THEN GetContent(node)
                        ELSE GetXmlContent(node)
<1>1. \A x : Construct(node, x) = IF Has(node, "mode", KnownModes) THEN text ELSE x
  BY DEF Construct, Has, KnownModes
<1>2. \A s : Text(node, s) = Empty \/ Text(node, s).of = node.id
  BY TextIsEmpty
<1>3. text = Empty \/ text.of = node.id
  <2>1. GetContent(node) = Empty \/ GetContent(node).of = node.id
    BY <1>2 DEF GetContent
  <2>2. GetXmlContent(node) = Empty \/ GetXmlContent(node).of = node.id
    BY <1>2, <2>1 DEF GetXmlContent
  <2> QED
    BY <2>1, <2>2
<1>4. Empty.of = 0
  BY DEF Empty
<1> HIDE DEF text, Has
<1> QED
  BY <1>1, <1>3, <1>4

\* A link is that of its element, as it is or resolved against the base given.
LEMMA AbsoluteUrlText ==
  ASSUME NEW b, NEW node
  PROVE  LET href == GetProp(node, "href", "none")
             url  == AbsoluteUrl(b, href)
         IN  /\ url.of \in {b.of, 0, node.id}
             /\ \/ url.s \in {"", IF b = Empty THEN "relative" ELSE b.s}
                \/ url.s = href.s /\ href.s # "relative"
<1> DEFINE href == GetProp(node, "href", "none")
           url  == AbsoluteUrl(b, href)
<1>1. href = Empty \/ \E v : href = [of |-> node.id, s |-> v]
  BY PropIsText DEF Text
<1>0. Empty.s = ""
  BY DEF Empty
<1>2. CASE href = Empty
  <2>1. url = b
    BY <1>2, <1>0 DEF AbsoluteUrl
  <2>2. b = Empty => b.s = ""
    BY <1>0
  <2> QED
    BY <2>1, <2>2
<1>3. CASE href # Empty
  <2>1. PICK v : href = [of |-> node.id, s |-> v]
    BY <1>1, <1>3
  <2>2. href.of = node.id /\ href.s = v
    BY <2>1
  <2> HIDE DEF href
  <2>3. CASE v = "relative" /\ b # Empty
    <3>1. url = [href EXCEPT !.s = b.s]
      BY <1>3, <2>2, <2>3 DEF AbsoluteUrl
    <3>2. url.s = b.s /\ url.of = node.id
      BY <2>1, <3>1
    <3> QED
      BY <2>3, <3>2 DEF href
  <2>4. CASE ~(v = "relative" /\ b # Empty)
    <3>1. url = href
      BY <1>3, <2>2, <2>4 DEF AbsoluteUrl
    <3> QED
      BY <2>2, <2>4, <3>1 DEF href
  <2> QED
    BY <2>3, <2>4
<1> QED
  BY <1>2, <1>3

(***************************************************************************)
(* What one element does to the entry, whichever branch takes it.          *)
(***************************************************************************)

\* Texts are read from that element, or are the base of the entry's links.
LEMMA BranchReads ==
  ASSUME NEW node, DOMAIN it = DOMAIN EmptyItem, IsSequence(it.labels),
         EntryBranch(node)
  PROVE  /\ DOMAIN it' = DOMAIN EmptyItem
         /\ IsSequence(it'.labels)
         /\ \A x \in TextFields : it'[x].of \in {it[x].of, 0, node.id, base.of}
         /\ \A l \in DOMAIN it'.labels :
                \/ it'.labels[l].of \in {0, node.id}
                \/ \E m \in DOMAIN it.labels : it'.labels[l].of = it.labels[m].of
         /\ summary'.of \in {summary.of, 0, node.id}
         /\ summary_type'.of \in {summary_type.of, 0, node.id}
         /\ updated'.of \in {updated.of, 0, node.id}
<1> USE FieldNames
<1>1. CASE Author(node)
  <2> DEFINE name == LastChild(node, "name", ns)
  <2>1. GetContent(name).of \in {0, node.id}
    <3>1. name.id = node.id
      BY DEF LastChild, Node
    <3> QED
      BY <3>1, ContentOrigin
  <2>2. it' = it \/ it' = [it EXCEPT !.author = GetContent(name)]
    BY <1>1 DEF Author
  <2>3. summary' = summary /\ summary_type' = summary_type /\ updated' = updated
    BY <1>1 DEF Author, others
  <2> HIDE DEF name
  <2>4. CASE it' = it
    BY <2>3, <2>4
  <2>5. CASE it' = [it EXCEPT !.author = GetContent(name)]
    BY <2>1, <2>3, <2>5
  <2> QED
    BY <2>2, <2>4, <2>5
<1>2. CASE Title(node)
  BY <1>2, ContentOrigin, TypeOrTextOrigin DEF Title, others
<1>3. CASE Content(node)
  <2>1. /\ Construct(node, it.description).of \in {it.description.of, 0, node.id}
        /\ TypeOrText(node).of = node.id
        /\ GetProp(node, "base", "XML_URI").of \in {0, node.id}
    BY ConstructText, TypeOrTextOrigin, PropOrigin
  <2> QED
    BY <1>3, <2>1 DEF Content, others
<1>4. CASE Id(node)
  BY <1>4, ContentOrigin DEF Id, others
<1>5. CASE Published(node)
  BY <1>5, DateOrigin DEF Published, others
<1>6. CASE Updated(node)
  BY <1>6, DateOrigin DEF Updated
<1>7. CASE Link(node)
  <2> DEFINE rel  == GetProp(node, "rel", "none").s
             href == GetProp(node, "href", "none")
             type == GetProp(node, "type", "none")
             url  == AbsoluteUrl(base, href)
  <2>1. /\ href.of \in {0, node.id} /\ type.of \in {0, node.id}
        /\ url.of \in {base.of, 0, node.id}
    BY PropOrigin, AbsoluteUrlText
  <2>2. /\ it' = CASE rel \in {"", "alternate"} -> [it EXCEPT !.link = url]
                   [] rel = "enclosure" -> [it EXCEPT !.enclosure_url = href,
                                                      !.enclosure_type = type]
                   [] OTHER -> it
        /\ summary' = summary /\ summary_type' = summary_type /\ updated' = updated
    BY <1>7 DEF Link, others
  <2> HIDE DEF rel, href, type, url
  <2> QED
    BY <2>1, <2>2
<1>8. CASE Summary(node)
  <2>1. /\ Construct(node, summary).of \in {summary.of, 0, node.id}
        /\ TypeOrText(node).of = node.id
    BY ConstructText, TypeOrTextOrigin
  <2> QED
    BY <1>8, <2>1 DEF Summary
<1>9. CASE Category(node)
  <2> DEFINE label == GetProp(node, "label", "none")
  <2>1. it' = [it EXCEPT !.labels = Append(it.labels, label)]
    BY <1>9 DEF Category
  <2>2. it'.labels = Append(it.labels, label)
    BY <2>1
  <2>3. label.of \in {0, node.id}
    BY PropOrigin
  <2> HIDE DEF label
  <2>4. /\ IsSequence(it'.labels)
        /\ \A l \in DOMAIN it'.labels : l \in DOMAIN it.labels \/ l = Len(it.labels) + 1
        /\ \A l \in DOMAIN it.labels : it'.labels[l] = it.labels[l]
        /\ it'.labels[Len(it.labels) + 1] = label
    BY <2>2, AppendToSequence
  <2>5. \A l \in DOMAIN it'.labels :
            \/ it'.labels[l].of \in {0, node.id}
            \/ \E m \in DOMAIN it.labels : it'.labels[l].of = it.labels[m].of
    BY <2>3, <2>4
  <2>6. \A x \in TextFields : it'[x] = it[x]
    BY <2>1
  <2>7. DOMAIN it' = DOMAIN EmptyItem
    BY <2>1
  <2> QED
    BY <1>9, <2>4, <2>5, <2>6, <2>7 DEF Category, others
<1>10. CASE Other(node)
  BY <1>10 DEF Other, others
<1> QED
  BY <1>1, <1>2, <1>3, <1>4, <1>5, <1>6, <1>7, <1>8, <1>9, <1>10 DEF EntryBranch

\* Each member that several elements could set changes with its own only.
LEMMA BranchSets ==
  ASSUME NEW node, DOMAIN it = DOMAIN EmptyItem, EntryBranch(node)
  PROVE  /\ it'.description = IF Is(node, "content") THEN Construct(node, it.description)
                              ELSE it.description
         /\ it'.description_type = IF Is(node, "content") THEN TypeOrText(node)
                                   ELSE it.description_type
         /\ summary' = IF Is(node, "summary") THEN Construct(node, summary) ELSE summary
         /\ summary_type' = IF Is(node, "summary") THEN TypeOrText(node)
                            ELSE summary_type
         /\ it'.pubDate = IF Is(node, "published") THEN FormatDate(GetContent(node))
                          ELSE it.pubDate
         /\ updated' = IF Is(node, "updated") THEN FormatDate(GetContent(node))
                       ELSE updated
         /\ it'.link = IF Is(node, "link") /\ Has(node, "rel", {"", "alternate"})
                       THEN AbsoluteUrl(base, GetProp(node, "href", "none")) ELSE it.link
         /\ it'.enclosure_url = IF Is(node, "link") /\ Has(node, "rel", {"enclosure"})
                                THEN GetProp(node, "href", "none") ELSE it.enclosure_url
         /\ it'.enclosure_type = IF Is(node, "link") /\ Has(node, "rel", {"enclosure"})
                                 THEN GetProp(node, "type", "none") ELSE it.enclosure_type
<1> USE FieldNames DEF NodeIs, Is, others
<1>1. CASE Author(node)
  BY <1>1 DEF Author
<1>2. CASE Title(node)
  BY <1>2 DEF Title
<1>3. CASE Content(node)
  BY <1>3 DEF Content
<1>4. CASE Id(node)
  BY <1>4 DEF Id
<1>5. CASE Published(node)
  BY <1>5 DEF Published
<1>6. CASE Updated(node)
  BY <1>6 DEF Updated
<1>7. CASE Link(node)
  BY <1>7 DEF Link, Has
<1>8. CASE Summary(node)
  BY <1>8 DEF Summary
<1>9. CASE Category(node)
  BY <1>9 DEF Category, IsLabel
<1>10. CASE Other(node)
  <2>1. \A name \in EntryNames : ~Is(node, name)
    BY <1>10 DEF Other
  <2> HIDE DEF Is
  <2> QED
    BY <1>10, <2>1 DEF Other, EntryNames
<1> QED
  BY <1>1, <1>2, <1>3, <1>4, <1>5, <1>6, <1>7, <1>8, <1>9, <1>10 DEF EntryBranch

(***************************************************************************)
(* The nodes of the entry, after one more.                                 *)
(***************************************************************************)

\* The node visited is the next one of the entry, and those before it stay.
LEMMA SeenGrows ==
  ASSUME NEW node, IsSequence(seen), seen' = Append(seen, node), ns' = ns
  PROVE  /\ IsSequence(seen')
         /\ Len(seen) \in Nat /\ Len(seen') = Len(seen) + 1
         /\ DOMAIN seen = 1 .. Len(seen)
         /\ \A k \in DOMAIN seen' : k \in DOMAIN seen \/ k = Len(seen) + 1
         /\ \A k \in DOMAIN seen : seen'[k] = seen[k]
         /\ seen'[Len(seen) + 1] = node
         /\ \A name : LastAmong(seen', Visits(seen', name, ns')) =
                IF Is(node, name) THEN node ELSE LastAmong(seen, Visits(seen, name, ns))
<1>1. \A name : LastAmong(seen', Visits(seen', name, ns')) =
          IF Is(node, name) THEN node ELSE LastAmong(seen, Visits(seen, name, ns))
  BY LastVisit DEF Is
<1>2. /\ IsSequence(seen')
      /\ Len(seen) \in Nat
      /\ DOMAIN seen = 1 .. Len(seen)
      /\ DOMAIN seen' = 1 .. Len(seen) + 1
      /\ \A k \in DOMAIN seen : seen'[k] = seen[k]
      /\ seen'[Len(seen) + 1] = node
  BY AppendToSequence
<1>3. \A k \in DOMAIN seen' : k \in DOMAIN seen \/ k = Len(seen) + 1
  BY <1>2
<1>4. Len(seen') = Len(seen) + 1
  BY <1>2, LenProperties, SequenceOfItsMembers
<1> QED
  BY <1>1, <1>2, <1>3, <1>4

\* Elements of a name with some values of an attribute, and their last.
LEMMA WithGrows ==
  ASSUME NEW node, IsSequence(seen), seen' = Append(seen, node), ns' = ns,
         NEW name, NEW prop, NEW values
  PROVE  /\ With(name, prop, values)' =
                With(name, prop, values)
                    \cup (IF Is(node, name) /\ Has(node, prop, values)
                          THEN {Len(seen) + 1} ELSE {})
         /\ LastAmong(seen', With(name, prop, values)') =
                IF Is(node, name) /\ Has(node, prop, values) THEN node
                ELSE LastAmong(seen, With(name, prop, values))
<1> DEFINE A == With(name, prop, values)
           B == {k \in Visits(seen', name, ns') : Has(seen'[k], prop, values)}
           new == Is(node, name) /\ Has(node, prop, values)
<1>1. A \in SUBSET (DOMAIN seen)
  BY DEF With, Named, Visits
<1>2. /\ \A k \in DOMAIN seen' : k \in DOMAIN seen \/ k = Len(seen) + 1
      /\ \A k \in DOMAIN seen : seen'[k] = seen[k]
      /\ seen'[Len(seen) + 1] = node
      /\ DOMAIN seen = 1 .. Len(seen) /\ Len(seen) \in Nat
  BY SeenGrows
<1>3. Visits(seen', name, ns') = Visits(seen, name, ns)
          \cup (IF Is(node, name) THEN {Len(seen) + 1} ELSE {})
  BY VisitsAppend DEF Is
<1>4. A = {k \in Visits(seen, name, ns) : Has(seen[k], prop, values)}
  BY DEF With, Named, Has
<1>5. \A k \in Visits(seen, name, ns) : seen'[k] = seen[k]
  BY <1>2 DEF Visits
<1>6. B = A \cup (IF new THEN {Len(seen) + 1} ELSE {})
  <2>1. CASE Is(node, name)
    <3>1. Visits(seen', name, ns') = Visits(seen, name, ns) \cup {Len(seen) + 1}
      BY <1>3, <2>1
    <3> HIDE DEF A
    <3> QED
      BY <1>2, <1>4, <1>5, <2>1, <3>1
  <2>2. CASE ~Is(node, name)
    <3>1. Visits(seen', name, ns') = Visits(seen, name, ns)
      BY <1>3, <2>2
    <3> HIDE DEF A
    <3> QED
      BY <1>4, <1>5, <2>2, <3>1
  <2> QED
    BY <2>1, <2>2
<1>7. With(name, prop, values)' = B
  BY DEF With, Named, Has
<1> HIDE DEF A, B, new
<1>8. CASE new
  <2>1. LastAmong(seen', B) = node
    BY <1>1, <1>6, <1>8, LastIsNew
  <2> QED
    BY <1>6, <1>7, <1>8, <2>1 DEF A, new
<1>9. CASE ~new
  <2>1. B = A
    BY <1>6, <1>9
  <2>2. LastAmong(seen', B) = LastAmong(seen, A)
    BY <1>1, <2>1, LastStays
  <2> QED
    BY <1>6, <1>7, <1>9, <2>2 DEF A, new
<1> QED
  BY <1>8, <1>9

\* The text of the last element of a known mode, after one more element.
LEMMA DescribedGrows ==
  ASSUME NEW node, IsSequence(seen), seen' = Append(seen, node), ns' = ns, NEW name
  PROVE  Described(With(name, "mode", KnownModes))' =
             IF Is(node, name)
             THEN Construct(node, Described(With(name, "mode", KnownModes)))
             ELSE Described(With(name, "mode", KnownModes))
<1> DEFINE A == With(name, "mode", KnownModes)
           B == With(name, "mode", KnownModes)'
           new == Is(node, name) /\ Has(node, "mode", KnownModes)
<1>1. /\ B = A \cup (IF new THEN {Len(seen) + 1} ELSE {})
      /\ LastAmong(seen', B) = IF new THEN node ELSE LastAmong(seen, A)
  <2>1. KnownModes' = KnownModes
    BY DEF KnownModes
  <2> QED
    BY <2>1, WithGrows
<1>2. /\ Described(A) = IF A = {} THEN Empty ELSE Construct(LastAmong(seen, A), Empty)
      /\ Described(A)' = IF B = {} THEN Empty ELSE Construct(LastAmong(seen', B), Empty)
  BY DEF Described
<1>3. \A old : Construct(node, old) = IF Has(node, "mode", KnownModes)
                                      THEN Construct(node, Empty) ELSE old
  BY ConstructText
<1>4. CASE new
  <2>1. B # {}
    BY <1>1, <1>4
  <2>2. Described(A)' = Construct(node, Empty)
    BY <1>1, <1>2, <1>4, <2>1
  <2> QED
    BY <1>3, <1>4, <2>2
<1>5. CASE ~new
  <2>1. B = A /\ LastAmong(seen', B) = LastAmong(seen, A)
    BY <1>1, <1>5
  <2>2. Described(A)' = Described(A)
    BY <1>2, <2>1
  <2> QED
    BY <1>3, <1>5, <2>2
<1> QED
  BY <1>4, <1>5

(***************************************************************************)
(* The invariant, action by action.                                        *)
(***************************************************************************)

\* What is read, after one element more.
LEMMA EntryOriginsGrow ==
  ASSUME NEW node, DOMAIN it = DOMAIN EmptyItem, IsSequence(it.labels),
         EntryBranch(node), base' = base
  PROVE  EntryOrigins' \subseteq EntryOrigins \cup {node.id}
<1>1. /\ \A x \in TextFields : it'[x].of \in {it[x].of, 0, node.id, base.of}
      /\ \A l \in DOMAIN it'.labels :
             \/ it'.labels[l].of \in {0, node.id}
             \/ \E m \in DOMAIN it.labels : it'.labels[l].of = it.labels[m].of
      /\ summary'.of \in {summary.of, 0, node.id}
      /\ summary_type'.of \in {summary_type.of, 0, node.id}
      /\ updated'.of \in {updated.of, 0, node.id}
  BY BranchReads
<1>2. Origins(it') \subseteq Origins(it) \cup {node.id, base.of}
  <2>1. \A x \in TextFields : it'[x].of \in {it[x].of, 0} \cup {node.id, base.of}
    BY <1>1
  <2>2. \A l \in DOMAIN it'.labels :
            \/ it'.labels[l].of \in {0} \cup {node.id, base.of}
            \/ \E m \in DOMAIN it.labels : it'.labels[l].of = it.labels[m].of
    BY <1>1
  <2> QED
    BY <2>1, <2>2, OriginsGrow
<1>3. 0 \notin Origins(it')
  BY DEF Origins
<1>4. {base'.of, summary'.of, summary_type'.of, updated'.of} \ {0} \subseteq
          ({base.of, summary.of, summary_type.of, updated.of} \ {0}) \cup {node.id}
  BY <1>1
<1>5. Origins(it') \subseteq EntryOrigins \cup {node.id}
  BY <1>2, <1>3 DEF EntryOrigins
<1> QED
  BY <1>4, <1>5 DEF EntryOrigins

\* What parse_entry returns was made from what it read.
LEMMA CompletedReads ==
  ASSUME DOMAIN it = DOMAIN EmptyItem
  PROVE  Origins(Completed(it)) \subseteq EntryOrigins
<1> DEFINE done == Completed(it)
<1>1. done.labels = it.labels
  BY FieldNames DEF Completed
<1>2. /\ done.description \in {it.description, summary}
      /\ done.description_type \in {it.description_type, summary_type}
      /\ done.pubDate \in {it.pubDate, updated}
      /\ \A x \in TextFields \ {"description", "description_type", "pubDate"} :
             done[x] = it[x]
  BY FieldNames DEF Completed
<1>3. \A x \in TextFields :
          done[x].of \in {it[x].of, summary.of, summary_type.of, updated.of}
  <2> HIDE DEF done
  <2> QED
    BY <1>2
<1> HIDE DEF done
<1>4. Origins(done) \subseteq EntryOrigins
  <2> SUFFICES ASSUME NEW a \in Origins(done)
               PROVE  a \in EntryOrigins
    OBVIOUS
  <2>1. a # 0
    BY DEF Origins
  <2>2. CASE \E x \in TextFields : a = done[x].of
    BY <1>3, <2>1, <2>2 DEF Origins, EntryOrigins
  <2>3. CASE \E l \in DOMAIN done.labels : a = done.labels[l].of
    BY <1>1, <2>1, <2>3 DEF Origins, EntryOrigins
  <2> QED
    BY <2>2, <2>3 DEF Origins
<1> QED
  BY <1>4 DEF done

\* The visit of an element of the entry keeps the invariant.
LEMMA EntryStepInv ==
  ASSUME EntryInv, at = "entry", NEW node, node.id = n + 1, EntryBranch(node),
         n' = n + 1, seen' = Append(seen, node), UNCHANGED <<at, members, f, base>>
  PROVE  EntryInv'
<1>1. /\ n \in Nat
      /\ DOMAIN it = DOMAIN EmptyItem
      /\ IsSequence(it.labels)
      /\ IsSequence(seen)
      /\ \A k \in DOMAIN seen : seen[k].id \in 1 .. n
      /\ ns' = ns
      /\ base' = base
  BY DEF EntryInv, TypeOK, members
<1>2. /\ IsSequence(seen')
      /\ Len(seen) \in Nat /\ Len(seen') = Len(seen) + 1
      /\ DOMAIN seen = 1 .. Len(seen)
      /\ \A k \in DOMAIN seen' : k \in DOMAIN seen \/ k = Len(seen) + 1
      /\ \A k \in DOMAIN seen : seen'[k] = seen[k]
      /\ seen'[Len(seen) + 1] = node
      /\ \A name : LastAmong(seen', Visits(seen', name, ns')) =
             IF Is(node, name) THEN node ELSE LastAmong(seen, Visits(seen, name, ns))
  BY <1>1, SeenGrows
<1>3. EntryOrigins' \subseteq EntryOrigins \cup {n + 1}
  BY <1>1, EntryOriginsGrow
<1>4. TypeOK'
  <2>1. /\ at' \in {"feed", "entry"}
        /\ globalbase'.of = 0
        /\ DOMAIN f' = DOMAIN EmptyFeed
        /\ IsSequence(f'.items)
    BY DEF EntryInv, TypeOK, members
  <2>2. DOMAIN it' = DOMAIN EmptyItem /\ IsSequence(it'.labels)
    BY <1>1, BranchReads
  <2>3. \A k \in DOMAIN seen' : seen'[k].id \in 1 .. n'
    <3> SUFFICES ASSUME NEW k \in DOMAIN seen'
                 PROVE  seen'[k].id \in 1 .. n'
      OBVIOUS
    <3>1. seen'[k].id \in 1 .. n \/ seen'[k].id = n + 1
      BY <1>1, <1>2
    <3> QED
      BY <1>1, <3>1
  <2> QED
    BY <1>1, <1>2, <2>1, <2>2, <2>3 DEF TypeOK
<1>5. OriginsInOrder'
  <2>1. /\ \A i \in DOMAIN f.items : Origins(f.items[i]) \subseteq 1 .. n
        /\ EntryOrigins \subseteq 1 .. n
        /\ \A i \in DOMAIN f.items :
               \A a \in Origins(f.items[i]), b \in EntryOrigins : a < b
    BY DEF EntryInv, OriginsInOrder
  <2>2. 1 .. n \subseteq 1 .. n + 1 /\ n + 1 \in 1 .. n + 1
    BY <1>1
  <2>3. \A i \in DOMAIN f'.items : Origins(f'.items[i]) \subseteq 1 .. n'
    BY <2>1, <2>2
  <2>4. EntryOrigins' \subseteq 1 .. n'
    BY <1>3, <2>1, <2>2
  <2>5. ASSUME NEW i \in DOMAIN f'.items, NEW a \in Origins(f'.items[i]),
               NEW b \in EntryOrigins'
        PROVE  a < b
    <3>1. a \in 1 .. n /\ (b \in EntryOrigins => a < b)
      BY <2>1
    <3>2. b \in EntryOrigins \/ b = n + 1
      BY <1>3
    <3> QED
      BY <1>1, <3>1, <3>2
  <2> QED
    BY <2>3, <2>4, <2>5 DEF OriginsInOrder
<1>6. KeepToThemselves(f.items)'
  BY DEF EntryInv
<1>7. Len(seen') > 0 /\ base' = BaseOf(seen[1])'
  <2>1. Len(seen) > 0 /\ base = BaseOf(seen[1])
    BY DEF EntryInv
  <2>2. seen'[1] = seen[1]
    BY <1>2, <2>1
  <2>3. Len(seen') > 0
    BY <1>2, <2>1
  <2> QED
    BY <1>1, <2>1, <2>2, <2>3 DEF BaseOf, members
<1>8. LastOfItsKind'
  <2> DEFINE content   == With("content", "mode", KnownModes)
             abstract  == With("summary", "mode", KnownModes)
             enclosing == With("link", "rel", {"enclosure"})
  <2>1. /\ it.description = Described(content)
        /\ summary = Described(abstract)
        /\ it.description_type.of = LastAmong(seen, Visits(seen, "content", ns)).id
        /\ summary_type.of = LastAmong(seen, Visits(seen, "summary", ns)).id
        /\ it.pubDate = FormatDate(GetContent(LastAmong(seen, Visits(seen, "published", ns))))
        /\ updated = FormatDate(GetContent(LastAmong(seen, Visits(seen, "updated", ns))))
        /\ it.enclosure_url # Empty => it.enclosure_url.of = LastAmong(seen, enclosing).id
        /\ it.enclosure_type # Empty => it.enclosure_type.of = LastAmong(seen, enclosing).id
    BY DEF EntryInv, LastOfItsKind, Named
  <2>2. it'.description = Described(content)'
    BY <1>1, <2>1, BranchSets, DescribedGrows
  <2>3. summary' = Described(abstract)'
    BY <1>1, <2>1, BranchSets, DescribedGrows
  <2>4. it'.description_type.of = LastAmong(seen', Visits(seen', "content", ns')).id
    BY <1>1, <1>2, <2>1, BranchSets, TypeOrTextOrigin
  <2>5. summary_type'.of = LastAmong(seen', Visits(seen', "summary", ns')).id
    BY <1>1, <1>2, <2>1, BranchSets, TypeOrTextOrigin
  <2>6. it'.pubDate =
            FormatDate(GetContent(LastAmong(seen', Visits(seen', "published", ns'))))
    BY <1>1, <1>2, <2>1, BranchSets
  <2>7. updated' =
            FormatDate(GetContent(LastAmong(seen', Visits(seen', "updated", ns'))))
    BY <1>1, <1>2, <2>1, BranchSets
  <2>8. /\ it'.enclosure_url # Empty
               => it'.enclosure_url.of = LastAmong(seen', enclosing').id
        /\ it'.enclosure_type # Empty
               => it'.enclosure_type.of = LastAmong(seen', enclosing').id
    <3> DEFINE new == Is(node, "link") /\ Has(node, "rel", {"enclosure"})
    <3>1. LastAmong(seen', enclosing') = IF new THEN node ELSE LastAmong(seen, enclosing)
      BY <1>1, WithGrows
    <3>2. /\ it'.enclosure_url = IF new THEN GetProp(node, "href", "none")
                                 ELSE it.enclosure_url
          /\ it'.enclosure_type = IF new THEN GetProp(node, "type", "none")
                                  ELSE it.enclosure_type
      BY <1>1, BranchSets
    <3> HIDE DEF new, enclosing
    <3> QED
      BY <2>1, <3>1, <3>2, PropOrigin
  <2> QED
    BY <2>2, <2>3, <2>4, <2>5, <2>6, <2>7, <2>8 DEF LastOfItsKind, Named
<1>9. LinksByRelation'
  <2> DEFINE own == With("link", "rel", {"", "alternate"})
             new == Is(node, "link") /\ Has(node, "rel", {"", "alternate"})
  <2>1. it.link = IF own = {} THEN Empty
                  ELSE AbsoluteUrl(base, GetProp(LastAmong(seen, own), "href", "none"))
    BY DEF EntryInv, LinksByRelation
  <2>2. /\ own' = own \cup (IF new THEN {Len(seen) + 1} ELSE {})
        /\ LastAmong(seen', own') = IF new THEN node ELSE LastAmong(seen, own)
    <3>1. \A V :
             /\ With("link", "rel", V)' = With("link", "rel", V)
                    \cup (IF Is(node, "link") /\ Has(node, "rel", V)
                          THEN {Len(seen) + 1} ELSE {})
             /\ LastAmong(seen', With("link", "rel", V)') =
                    IF Is(node, "link") /\ Has(node, "rel", V) THEN node
                    ELSE LastAmong(seen, With("link", "rel", V))
      BY <1>1, WithGrows
    <3> QED
      BY <3>1, Zenon
  <2>3. it'.link = IF new THEN AbsoluteUrl(base, GetProp(node, "href", "none"))
                   ELSE it.link
    BY <1>1, BranchSets
  <2>4. it'.link = IF own' = {} THEN Empty
                   ELSE AbsoluteUrl(base', GetProp(LastAmong(seen', own'), "href", "none"))
    <3> HIDE DEF own, new
    <3>1. CASE new
      BY <1>1, <2>2, <2>3, <3>1
    <3>2. CASE ~new
      <4>1. own' = own /\ LastAmong(seen', own') = LastAmong(seen, own)
        BY <2>2, <3>2
      <4> QED
        BY <1>1, <2>1, <2>3, <3>2, <4>1
    <3> QED
      BY <3>1, <3>2
  <2>5. it'.enclosure_url # Empty /\ it'.enclosure_type # Empty
            => it'.enclosure_url.of = it'.enclosure_type.of
    BY <1>8 DEF LastOfItsKind
  <2> QED
    BY <2>4, <2>5 DEF LinksByRelation
<1> QED
  BY <1>4, <1>5, <1>6, <1>7, <1>8, <1>9 DEF EntryInv

\* Between two entries nothing is visited and the item is empty.
LEMMA BetweenEntries ==
  ASSUME it' = EmptyItem, seen' = <<>>
  PROVE  /\ Origins(it') = {}
         /\ DOMAIN it' = DOMAIN EmptyItem
         /\ IsSequence(it'.labels)
         /\ IsSequence(seen')
         /\ DOMAIN seen' = {}
<1>1. it'.labels = <<>>
  BY DEF EmptyItem
<1>2. IsSequence(<<>>) /\ DOMAIN <<>> = {}
  BY EmptySeq DEF IsSequence
<1> QED
  BY <1>1, <1>2, EmptyItemOrigins

\* The invariant holds of a document of which only the root was read.
LEMMA InitInv ==
  ASSUME Init
  PROVE  EntryInv
<1> USE DEF Init
<1>1. PICK version \in Versions, attrs \in RootAttrs :
         /\ globalbase = GetProp(Element(attrs, 0), "base", "XML_URI")
         /\ f = [EmptyFeed EXCEPT !.language =
                    GetProp(Element(attrs, 0), "lang", "none")]
  OBVIOUS
<1>2. globalbase.of = 0
  <2>1. Element(attrs, 0).id = 0
    BY DEF Element
  <2> QED
    BY <1>1, <2>1, PropOrigin
<1>3. DOMAIN f = DOMAIN EmptyFeed /\ f.items = <<>>
  <2>1. DOMAIN f = DOMAIN EmptyFeed /\ f.items = EmptyFeed.items
    BY <1>1, FeedNames
  <2> QED
    BY <2>1 DEF EmptyFeed
<1>4. IsSequence(<<>>) /\ DOMAIN <<>> = {}
  BY EmptySeq DEF IsSequence
<1>5. it.labels = <<>> /\ Origins(it) = {}
  BY EmptyItemOrigins DEF EmptyItem
<1>6. EntryOrigins = {}
  BY <1>5 DEF EntryOrigins, Empty
<1>7. TypeOK
  BY <1>2, <1>3, <1>4, <1>5 DEF TypeOK
<1>8. OriginsInOrder
  BY <1>3, <1>4, <1>6 DEF OriginsInOrder
<1>9. KeepToThemselves(f.items)
  BY <1>3, <1>4 DEF KeepToThemselves
<1> QED
  BY <1>7, <1>8, <1>9 DEF EntryInv, LinksByRelation

\* The visit of an element of the feed leaves the entries alone.
LEMMA FeedStepInv ==
  ASSUME EntryInv, FeedStep
  PROVE  EntryInv'
<1>1. /\ at = "feed" /\ at' = "feed"
      /\ n' = n + 1
      /\ ns' = ns /\ globalbase' = globalbase /\ it' = it /\ base' = base
      /\ summary' = summary /\ summary_type' = summary_type /\ updated' = updated
      /\ seen' = seen
  BY DEF FeedStep, members, locals, others
<1>2. DOMAIN f' = DOMAIN EmptyFeed /\ f'.items = f.items
  <2>1. DOMAIN f = DOMAIN EmptyFeed
    BY DEF EntryInv, TypeOK
  <2> QED
    BY <2>1, FeedNames DEF FeedStep, FeedTitle, FeedSubtitle, FeedLink, FeedUpdated, FeedOther
<1>3. 1 .. n \subseteq 1 .. n' /\ n' \in Nat
  BY <1>1 DEF EntryInv, TypeOK
<1>4. it = EmptyItem /\ seen = <<>>
  BY <1>1 DEF EntryInv
<1>5. TypeOK'
  <2>1. globalbase'.of = 0 /\ IsSequence(f'.items)
    BY <1>1, <1>2 DEF EntryInv, TypeOK
  <2> QED
    BY <1>1, <1>2, <1>3, <1>4, <2>1, BetweenEntries DEF TypeOK
<1>6. OriginsInOrder'
  <2>1. /\ \A i \in DOMAIN f.items : Origins(f.items[i]) \subseteq 1 .. n
        /\ EntryOrigins \subseteq 1 .. n
    BY DEF EntryInv, OriginsInOrder
  <2>2. EntryOrigins' = EntryOrigins
    BY <1>1 DEF EntryOrigins
  <2> QED
    BY <1>1, <1>2, <1>3, <2>1, <2>2 DEF OriginsInOrder
<1>7. KeepToThemselves(f.items)'
  BY <1>2 DEF EntryInv
<1> QED
  BY <1>1, <1>4, <1>5, <1>6, <1>7 DEF EntryInv, LinksByRelation

\* An entry starts with locals that hold nothing of the entries before.
LEMMA BeginEntryInv ==
  ASSUME EntryInv, BeginEntry
  PROVE  EntryInv'
<1>1. /\ at = "feed" /\ at' = "entry"
      /\ n' = n + 1
      /\ it' = EmptyItem
      /\ summary' = Empty /\ summary_type' = Empty /\ updated' = Empty
      /\ ns' = ns /\ globalbase' = globalbase /\ f' = f
  BY DEF BeginEntry, members
<1>2. PICK attrs \in EntryAttrs :
         /\ base' = BaseOf(Element(attrs, n + 1))
         /\ seen' = <<Element(attrs, n + 1)>>
  BY DEF BeginEntry
<1> DEFINE entry == Element(attrs, n + 1)
<1>3. entry.id = n + 1 /\ entry.name = "container"
  BY DEF Element
<1> HIDE DEF entry
<1>4. n \in Nat /\ n' \in Nat /\ 1 .. n \subseteq 1 .. n' /\ n + 1 \in 1 .. n'
  BY <1>1 DEF EntryInv, TypeOK
<1>5. seen' = <<entry>> /\ base' = BaseOf(entry)
  BY <1>2 DEF entry
<1>6. /\ IsSequence(seen')
      /\ DOMAIN seen' = {1} /\ seen'[1] = entry /\ Len(seen') = 1
  BY <1>5 DEF IsSequence
<1>7. base'.of \in {0, n + 1}
  <2>1. globalbase.of = 0
    BY DEF EntryInv, TypeOK
  <2> QED
    BY <1>3, <1>5, <2>1, PropOrigin DEF BaseOf
<1>8. EntryOrigins' \subseteq {n + 1}
  <2>1. Empty.of = 0
    BY DEF Empty
  <2> QED
    BY <1>1, <1>7, <2>1, EmptyItemOrigins DEF EntryOrigins
<1>9. /\ it'.labels = <<>>
      /\ it'.description = Empty /\ it'.description_type = Empty
      /\ it'.pubDate = Empty /\ it'.link = Empty
      /\ it'.enclosure_url = Empty /\ it'.enclosure_type = Empty
  BY <1>1 DEF EmptyItem
<1>10. \A name : name # "container" => Visits(seen', name, ns') = {}
  BY <1>3, <1>6 DEF Visits
<1>11. TypeOK'
  <2>1. globalbase'.of = 0 /\ DOMAIN f' = DOMAIN EmptyFeed /\ IsSequence(f'.items)
    BY <1>1 DEF EntryInv, TypeOK
  <2>2. IsSequence(it'.labels)
    BY <1>9, EmptySeq DEF IsSequence
  <2>3. \A k \in DOMAIN seen' : seen'[k].id \in 1 .. n'
    BY <1>3, <1>4, <1>6
  <2> QED
    BY <1>1, <1>4, <1>6, <2>1, <2>2, <2>3 DEF TypeOK
<1>12. OriginsInOrder'
  <2>1. \A i \in DOMAIN f.items : Origins(f.items[i]) \subseteq 1 .. n
    BY DEF EntryInv, OriginsInOrder
  <2>2. \A a \in 1 .. n : a < n + 1
    BY <1>4
  <2> QED
    BY <1>1, <1>4, <1>8, <2>1, <2>2 DEF OriginsInOrder
<1>13. KeepToThemselves(f.items)'
  BY <1>1 DEF EntryInv
<1>14. (Len(seen) > 0 /\ base = BaseOf(seen[1]))'
  BY <1>1, <1>5, <1>6 DEF BaseOf
<1>15. \A name, prop, values : name # "container" => With(name, prop, values)' = {}
  BY <1>10 DEF With, Named
<1>16. LastOfItsKind'
  <2>1. /\ With("content", "mode", KnownModes)' = {}
        /\ With("summary", "mode", KnownModes)' = {}
    <3>1. KnownModes' = KnownModes
      BY DEF KnownModes
    <3> QED
      BY <1>15, <3>1
  <2>2. /\ Described(With("content", "mode", KnownModes))' = Empty
        /\ Described(With("summary", "mode", KnownModes))' = Empty
    BY <2>1 DEF Described
  <2>3. \A name \in {"content", "summary", "published", "updated"} :
            LastAmong(seen', Visits(seen', name, ns')) = NoNode
    BY <1>10 DEF LastAmong
  <2>4. NoNode.id = 0 /\ Empty.of = 0
    BY DEF NoNode, Empty
  <2>5. it'.description_type.of = LastAmong(seen', Visits(seen', "content", ns')).id
    BY <1>9, <2>3, <2>4
  <2>6. summary_type'.of = LastAmong(seen', Visits(seen', "summary", ns')).id
    BY <1>1, <2>3, <2>4
  <2>7. it'.pubDate =
            FormatDate(GetContent(LastAmong(seen', Visits(seen', "published", ns'))))
    BY <1>9, <2>3, NoNodeHasNoTexts
  <2>8. updated' =
            FormatDate(GetContent(LastAmong(seen', Visits(seen', "updated", ns'))))
    BY <1>1, <2>3, NoNodeHasNoTexts
  <2> QED
    BY <1>1, <1>9, <2>2, <2>5, <2>6, <2>7, <2>8 DEF LastOfItsKind, Named
<1>17. LinksByRelation'
  <2>1. With("link", "rel", {"", "alternate"})' = {}
    BY <1>15
  <2> QED
    BY <1>9, <2>1 DEF LinksByRelation
<1> QED
  BY <1>1, <1>11, <1>12, <1>13, <1>14, <1>16, <1>17 DEF EntryInv

\* A completed entry joins those before it.
LEMMA EndEntryInv ==
  ASSUME EntryInv, EndEntry
  PROVE  EntryInv'
<1> DEFINE done == Completed(it)
<1>1. /\ at = "entry" /\ at' = "feed"
      /\ n' = n /\ globalbase' = globalbase
      /\ it' = EmptyItem /\ seen' = <<>> /\ base' = base
      /\ summary' = summary /\ summary_type' = summary_type /\ updated' = updated
      /\ f' = [f EXCEPT !.items = Append(f.items, done)]
  BY DEF EndEntry, members, others
<1>2. DOMAIN f' = DOMAIN EmptyFeed /\ f'.items = Append(f.items, done)
  <2>1. DOMAIN f = DOMAIN EmptyFeed
    BY DEF EntryInv, TypeOK
  <2> HIDE DEF done
  <2> QED
    BY <1>1, <2>1, FeedNames
<1>3. /\ \A i \in DOMAIN f.items : Origins(f.items[i]) \subseteq 1 .. n
      /\ EntryOrigins \subseteq 1 .. n
      /\ \A i \in DOMAIN f.items :
             \A a \in Origins(f.items[i]), b \in EntryOrigins : a < b
  BY <1>1 DEF EntryInv, OriginsInOrder
<1>4. Origins(done) \subseteq EntryOrigins
  BY CompletedReads DEF EntryInv, TypeOK
<1>5. IsSequence(f.items)
  BY DEF EntryInv, TypeOK
<1> HIDE DEF done
<1>6. /\ IsSequence(f'.items)
      /\ \A i \in DOMAIN f'.items : i \in DOMAIN f.items \/ i = Len(f.items) + 1
      /\ \A i \in DOMAIN f.items : f'.items[i] = f.items[i]
      /\ f'.items[Len(f.items) + 1] = done
  BY <1>2, <1>5, AppendToSequence
<1>7. TypeOK'
  <2>1. n' \in Nat /\ globalbase'.of = 0
    BY <1>1 DEF EntryInv, TypeOK
  <2> QED
    BY <1>1, <1>2, <1>6, <2>1, BetweenEntries DEF TypeOK
<1>8. OriginsInOrder'
  <2>1. \A i \in DOMAIN f'.items : Origins(f'.items[i]) \subseteq 1 .. n'
    BY <1>1, <1>3, <1>4, <1>6
  <2>2. EntryOrigins' \subseteq EntryOrigins
    BY <1>1, EmptyItemOrigins DEF EntryOrigins
  <2> QED
    BY <1>1, <1>3, <2>1, <2>2 DEF OriginsInOrder
<1>9. KeepToThemselves(f.items)'
  <2>1. KeepToThemselves(f.items)
    BY DEF EntryInv
  <2> QED
    BY <1>2, <1>3, <1>4, <1>5, <2>1, KeepAppend
<1> QED
  BY <1>1, <1>7, <1>8, <1>9 DEF EntryInv, LinksByRelation

(***************************************************************************)
(* Whatever a document holds, the invariant does.                          *)
(***************************************************************************)
THEOREM EntriesCorrect == Spec => []EntryInv
<1>1. Init => EntryInv
  BY InitInv
<1>2. EntryInv /\ [Next]_vars => EntryInv'
  <2> SUFFICES ASSUME EntryInv, [Next]_vars
               PROVE  EntryInv'
    OBVIOUS
  <2>1. CASE FeedStep
    BY <2>1, FeedStepInv
  <2>2. CASE BeginEntry
    BY <2>2, BeginEntryInv
  <2>3. CASE EntryStep
    <3>1. PICK shape \in EntryShapes :
             /\ EntryBranch(Node(shape, n + 1))
             /\ seen' = Append(seen, Node(shape, n + 1))
      BY <2>3 DEF EntryStep, EntryBranch
    <3>2. at = "entry" /\ n' = n + 1 /\ UNCHANGED <<at, members, f, base>>
      BY <2>3 DEF EntryStep
    <3>3. Node(shape, n + 1).id = n + 1
      BY DEF Node
    <3> QED
      BY <3>1, <3>2, <3>3, EntryStepInv
  <2>4. CASE EndEntry
    BY <2>4, EndEntryInv
  <2>5. CASE UNCHANGED vars
    BY <2>5 DEF vars, members, locals, others, EntryInv, TypeOK, OriginsInOrder,
       EntryOrigins, LastOfItsKind, LinksByRelation, With, Named, Described, BaseOf,
       KnownModes
  <2> QED
    BY <2>1, <2>2, <2>3, <2>4, <2>5 DEF Next
<1> QED
  BY <1>1, <1>2, PTL DEF Spec

(***************************************************************************)
(* No text of one entry reaches another, neither through the locals that   *)
(* hold its summary and its date nor through the base of its links.        *)
(***************************************************************************)
THEOREM EntriesAreApart == Spec => []ItemsKeepToThemselves
<1>1. EntryInv => ItemsKeepToThemselves
  BY DEF EntryInv, ItemsKeepToThemselves
<1> QED
  BY <1>1, EntriesCorrect, PTL

(***************************************************************************)
(* The description is the last content of a known mode, or, without such a *)
(* text, the last such summary, wherever they stand.                       *)
(***************************************************************************)
THEOREM DescriptionIsTheLast == Spec => []SummaryStandsIn
<1>1. EntryInv => SummaryStandsIn
  <2> SUFFICES ASSUME EntryInv, at = "entry"
               PROVE  Completed(it).description =
                          IF it.description # Empty THEN it.description ELSE summary
    BY DEF SummaryStandsIn, EntryInv, LastOfItsKind
  <2>1. DOMAIN it = DOMAIN EmptyItem
    BY DEF EntryInv, TypeOK
  <2> QED
    BY <2>1, FieldNames DEF Completed
<1> QED
  BY <1>1, EntriesCorrect, PTL

(***************************************************************************)
(* With one content and one summary at most, the type of a description was *)
(* read from the element its text was read from.                           *)
(***************************************************************************)
THEOREM TypeIsOfTheText == Spec => []TypeBelongsToText
<1>1. EntryInv => TypeBelongsToText
  <2> SUFFICES ASSUME EntryInv, at = "entry",
                      \A i, j \in Named("content") : i = j,
                      \A i, j \in Named("summary") : i = j,
                      Completed(it).description # Empty
               PROVE  Completed(it).description_type.of = Completed(it).description.of
    BY DEF TypeBelongsToText
  <2>1. \A name : (\A i, j \in Named(name) : i = j)
            /\ Described(With(name, "mode", KnownModes)) # Empty
            => Described(With(name, "mode", KnownModes)).of
                   = LastAmong(seen, Named(name)).id
    <3> SUFFICES ASSUME NEW name, \A i, j \in Named(name) : i = j,
                        Described(With(name, "mode", KnownModes)) # Empty
                 PROVE  Described(With(name, "mode", KnownModes)).of
                            = LastAmong(seen, Named(name)).id
      OBVIOUS
    <3> DEFINE A == With(name, "mode", KnownModes)
    <3>1. A # {} /\ Described(A) = Construct(LastAmong(seen, A), Empty)
      BY DEF Described
    <3>2. A \subseteq Named(name)
      BY DEF With
    <3>3. A = Named(name)
      BY <3>1, <3>2
    <3> QED
      BY <3>1, <3>3, ConstructText
  <2>2. /\ it.description = Described(With("content", "mode", KnownModes))
        /\ summary = Described(With("summary", "mode", KnownModes))
        /\ it.description_type.of = LastAmong(seen, Named("content")).id
        /\ summary_type.of = LastAmong(seen, Named("summary")).id
    BY DEF EntryInv, LastOfItsKind
  <2>3. /\ Completed(it).description = IF it.description = Empty THEN summary
                                       ELSE it.description
        /\ Completed(it).description_type = IF it.description = Empty THEN summary_type
                                            ELSE it.description_type
    <3>1. DOMAIN it = DOMAIN EmptyItem
      BY DEF EntryInv, TypeOK
    <3> QED
      BY <3>1, FieldNames DEF Completed
  <2> QED
    BY <2>1, <2>2, <2>3
<1> QED
  BY <1>1, EntriesCorrect, PTL

(***************************************************************************)
(* The date of an entry is its last published, or, without a recognised    *)
(* one, its last updated, in whatever order they stand.                    *)
(***************************************************************************)
THEOREM DateIsTheLast == Spec => []DateDoesNotDependOnOrder
<1>1. EntryInv => DateDoesNotDependOnOrder
  <2> SUFFICES ASSUME EntryInv, at = "entry"
               PROVE  Completed(it).pubDate =
                          IF it.pubDate # Empty THEN it.pubDate ELSE updated
    BY DEF DateDoesNotDependOnOrder, EntryInv, LastOfItsKind
  <2>1. DOMAIN it = DOMAIN EmptyItem
    BY DEF EntryInv, TypeOK
  <2> QED
    BY <2>1, FieldNames DEF Completed
<1> QED
  BY <1>1, EntriesCorrect, PTL

(***************************************************************************)
(* The link of an entry is that of its last link without a relation or     *)
(* with "alternate", and its enclosure is one link.                        *)
(***************************************************************************)
THEOREM LinkIsTheLast == Spec => []LinksByRelation
<1>1. EntryInv => LinksByRelation
  BY DEF EntryInv, LinksByRelation
<1> QED
  BY <1>1, EntriesCorrect, PTL

(***************************************************************************)
(* A link is resolved against the base of its own entry, or else against   *)
(* the feed's, never against that of another entry.                        *)
(***************************************************************************)
THEOREM LinkIsResolvedInPlace == Spec => []LinkUsesNearestBase
<1>1. EntryInv => LinkUsesNearestBase
  <2> SUFFICES ASSUME EntryInv, at = "entry"
               PROVE  LinkUsesNearestBase
    BY DEF LinkUsesNearestBase
  <2> DEFINE own   == With("link", "rel", {"", "alternate"})
             last  == LastAmong(seen, own)
             hrefs == {GetProp(seen[k], "href", "none").s : k \in Named("link")}
  <2>1. it.link = IF own = {} THEN Empty ELSE AbsoluteUrl(base, GetProp(last, "href", "none"))
    BY DEF EntryInv, LinksByRelation
  <2>2. base = BaseOf(seen[1])
    BY DEF EntryInv
  <2>3. own # {} => GetProp(last, "href", "none").s \in hrefs
    <3> SUFFICES ASSUME own # {}
                 PROVE  GetProp(last, "href", "none").s \in hrefs
      OBVIOUS
    <3>1. own \in SUBSET (DOMAIN seen) /\ own \subseteq Named("link")
      BY DEF With, Named, Visits
    <3>2. Len(seen) \in Nat /\ DOMAIN seen = 1 .. Len(seen)
      BY DEF EntryInv, TypeOK, IsSequence
    <3> HIDE DEF own
    <3>3. Max(own) \in own
      BY <3>1, <3>2, LastPlace
    <3>4. last = seen[Max(own)]
      BY DEF LastAmong
    <3> QED
      BY <3>1, <3>3, <3>4
  <2>4. Empty.s = ""
    BY DEF Empty
  <2>5. \/ it.link.s \in {"", IF base = Empty THEN "relative" ELSE base.s}
        \/ it.link.s \in hrefs \ {"relative"}
    <3> HIDE DEF own, last, hrefs
    <3>1. CASE own = {}
      BY <2>1, <2>4, <3>1
    <3>2. CASE own # {}
      <4> DEFINE href == GetProp(last, "href", "none")
                 url  == AbsoluteUrl(base, href)
      <4>1. \/ url.s \in {"", IF base = Empty THEN "relative" ELSE base.s}
            \/ url.s = href.s /\ href.s # "relative"
        BY AbsoluteUrlText
      <4>2. it.link = url /\ href.s \in hrefs
        BY <2>1, <2>3, <3>2
      <4> HIDE DEF url, href
      <4> QED
        BY <4>1, <4>2
    <3> QED
      BY <3>1, <3>2
  <2> QED
    BY <2>2, <2>5 DEF LinkUsesNearestBase, BaseOf
<1> QED
  BY <1>1, EntriesCorrect, PTL
=============================================================================
