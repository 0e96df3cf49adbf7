--------------------------- MODULE XmlNodesProofs ---------------------------
(***************************************************************************)
(* Lemmas about the operators of XmlNodes, for the proofs about the three  *)
(* parsers: where a text was read, what an item was made from, and which   *)
(* of the nodes visited is the last of its name.                           *)
(***************************************************************************)
EXTENDS XmlNodes, SequenceTheorems, WellFoundedInduction, TLAPS

(***************************************************************************)
(* Texts: one that is read from a node is empty or carries its id.         *)
(***************************************************************************)

\* A text is empty or of the node it was read from.
LEMMA TextOrigin ==
  ASSUME NEW node, NEW s
  PROVE  Text(node, s).of \in {0, node.id}
BY DEF Text, Empty

\* It is empty where there is nothing to read.
LEMMA TextIsEmpty ==
  ASSUME NEW node, NEW s
  PROVE  /\ Text(node, s) = Empty <=> s = ""
         /\ s # "" => Text(node, s).of = node.id
<1>1. Text(node, s).s = s
  BY DEF Text, Empty
<1>2. Empty.s = ""
  BY DEF Empty
<1>3. s = "" => Text(node, s) = Empty
  BY DEF Text
<1>4. s # "" => Text(node, s).of = node.id
  BY DEF Text
<1> QED
  BY <1>1, <1>2, <1>3, <1>4

\* What get_content returns was read from the node it is given.
LEMMA ContentOrigin ==
  ASSUME NEW node
  PROVE  GetContent(node).of \in {0, node.id}
BY TextOrigin DEF GetContent

\* So was what get_xml_content returns.
LEMMA XmlContentOrigin ==
  ASSUME NEW node
  PROVE  GetXmlContent(node).of \in {0, node.id}
BY TextOrigin, ContentOrigin DEF GetXmlContent

\* An attribute is missing, or the text of the node it belongs to.
LEMMA PropIsText ==
  ASSUME NEW node, NEW prop, NEW uri
  PROVE  GetProp(node, prop, uri) = Empty \/ \E v : GetProp(node, prop, uri) = Text(node, v)
BY DEF GetProp

\* So it is empty, or carries the id of that node.
LEMMA PropOrigin ==
  ASSUME NEW node, NEW prop, NEW uri
  PROVE  /\ GetProp(node, prop, uri) = Empty \/ GetProp(node, prop, uri).of = node.id
         /\ GetProp(node, prop, uri).of \in {0, node.id}
<1>1. \A v : Text(node, v) = Empty \/ Text(node, v).of = node.id
  BY DEF Text
<1>2. GetProp(node, prop, uri) = Empty \/ GetProp(node, prop, uri).of = node.id
  BY <1>1, PropIsText
<1>3. Empty.of = 0
  BY DEF Empty
<1> QED
  BY <1>2, <1>3

\* So was the date made from a content.
LEMMA DateOrigin ==
  ASSUME NEW node
  PROVE  FormatDate(GetContent(node)).of \in {0, node.id}
BY DEF FormatDate, GetContent, Text, Empty

\* So was the type given to a description.
LEMMA DescriptionTypeOrigin ==
  ASSUME NEW node
  PROVE  DescriptionType(node).of \in {0, node.id}
BY TextOrigin DEF DescriptionType

\* A node that was not visited has no texts.
LEMMA NoNodeHasNoTexts ==
  /\ GetContent(NoNode) = Empty
  /\ FormatDate(GetContent(NoNode)) = Empty
BY DEF GetContent, NoNode, Text, FormatDate, Empty

(***************************************************************************)
(* Items.                                                                  *)
(***************************************************************************)

\* The members of an item, and those of them that hold a text.
LEMMA FieldNames ==
  /\ DOMAIN EmptyItem =
        {"title", "title_type", "link", "description", "description_type", "author",
         "author_email", "pubDate", "guid", "guid_isPermaLink", "enclosure_url",
         "enclosure_type", "content_encoded", "itunes_summary", "base", "labels"}
  /\ TextFields =
        {"title", "title_type", "link", "description", "description_type", "author",
         "author_email", "pubDate", "guid", "enclosure_url", "enclosure_type",
         "content_encoded", "itunes_summary", "base"}
<1>1. DOMAIN EmptyItem =
        {"title", "title_type", "link", "description", "description_type", "author",
         "author_email", "pubDate", "guid", "guid_isPermaLink", "enclosure_url",
         "enclosure_type", "content_encoded", "itunes_summary", "base", "labels"}
  BY DEF EmptyItem
<1> QED
  BY <1>1 DEF TextFields

\* The members of a feed.
LEMMA FeedNames == DOMAIN EmptyFeed =
    {"title", "title_type", "description", "link", "language", "managingeditor",
     "dc_creator", "pubDate", "items"}
BY DEF EmptyFeed

\* A fresh item was made from nothing.
LEMMA EmptyItemOrigins == Origins(EmptyItem) = {}
<1>1. \A x \in TextFields : EmptyItem[x] = Empty
  BY FieldNames DEF EmptyItem
<1>2. DOMAIN EmptyItem.labels = {}
  BY DEF EmptyItem
<1> QED
  <2>1. Empty.of = 0
    BY DEF Empty
  <2> QED
    BY <1>1, <1>2, <2>1 DEF Origins

\* Texts of some nodes add those at most to what an item was made from.
LEMMA OriginsGrow ==
  ASSUME NEW i, NEW j, NEW K,
         \A x \in TextFields : j[x].of \in {i[x].of, 0} \cup K,
         \A l \in DOMAIN j.labels :
             \/ j.labels[l].of \in {0} \cup K
             \/ \E m \in DOMAIN i.labels : j.labels[l].of = i.labels[m].of
  PROVE  Origins(j) \subseteq Origins(i) \cup K
<1> SUFFICES ASSUME NEW a \in Origins(j), a \notin K
             PROVE  a \in Origins(i)
  OBVIOUS
<1>1. a # 0
  BY DEF Origins
<1>2. CASE \E x \in TextFields : a = j[x].of
  BY <1>1, <1>2 DEF Origins
<1>3. CASE \E l \in DOMAIN j.labels : a = j.labels[l].of
  BY <1>1, <1>3 DEF Origins
<1> QED
  BY <1>2, <1>3 DEF Origins

\* A sequence is one over the set of its members,
LEMMA SequenceOfItsMembers ==
  ASSUME NEW s, IsSequence(s)
  PROVE  s \in Seq(Range(s))
<1>1. s \in [1 .. Len(s) -> Range(s)]
  BY DEF IsSequence, Range
<1> QED
  BY <1>1, SeqDef DEF IsSequence

\* and what is one over any set is a sequence.
LEMMA MembersOfSequence ==
  ASSUME NEW S, NEW s \in Seq(S)
  PROVE  IsSequence(s)
BY LenProperties DEF IsSequence

\* What Append does to a sequence of whatever members.
LEMMA AppendToSequence ==
  ASSUME NEW items, NEW x, IsSequence(items)
  PROVE  /\ IsSequence(Append(items, x))
         /\ Len(items) \in Nat
         /\ DOMAIN items = 1 .. Len(items)
         /\ DOMAIN Append(items, x) = 1 .. Len(items) + 1
         /\ \A i \in DOMAIN items : Append(items, x)[i] = items[i]
         /\ Append(items, x)[Len(items) + 1] = x
<1> DEFINE S == Range(items) \cup {x}
<1>1. items \in Seq(S)
  BY SequenceOfItsMembers, SeqMonotonic
<1>2. x \in S
  OBVIOUS
<1> HIDE DEF S
<1>3. /\ Append(items, x) \in Seq(S)
      /\ Len(Append(items, x)) = Len(items) + 1
      /\ \A i \in 1 .. Len(items) : Append(items, x)[i] = items[i]
      /\ Append(items, x)[Len(items) + 1] = x
  BY <1>1, <1>2, AppendProperties
<1>4. IsSequence(Append(items, x))
  BY <1>3, MembersOfSequence
<1>5. /\ Len(items) \in Nat
      /\ DOMAIN items = 1 .. Len(items)
  BY <1>1, LenProperties
<1>6. DOMAIN Append(items, x) = 1 .. Len(items) + 1
  BY <1>3, LenProperties
<1> QED
  BY <1>3, <1>4, <1>5, <1>6

\* An item made from later nodes than all before it may join them.
LEMMA KeepAppend ==
  ASSUME NEW items, NEW x, IsSequence(items),
         KeepToThemselves(items),
         \A i \in DOMAIN items : \A a \in Origins(items[i]), b \in Origins(x) : a < b
  PROVE  KeepToThemselves(Append(items, x))
<1> DEFINE new == Append(items, x)
<1>1. /\ Len(items) \in Nat
      /\ DOMAIN items = 1 .. Len(items)
      /\ DOMAIN new = 1 .. Len(items) + 1
      /\ \A i \in DOMAIN items : new[i] = items[i]
      /\ new[Len(items) + 1] = x
  BY AppendToSequence
<1> HIDE DEF new
<1> SUFFICES ASSUME NEW i \in DOMAIN new, NEW j \in DOMAIN new, i < j,
                    NEW a \in Origins(new[i]), NEW b \in Origins(new[j])
             PROVE  a < b
  BY DEF KeepToThemselves, new
<1>2. i \in DOMAIN items /\ new[i] = items[i]
  BY <1>1
<1>3. CASE j \in DOMAIN items
  BY <1>1, <1>2, <1>3 DEF KeepToThemselves
<1>4. CASE j \notin DOMAIN items
  <2>1. j = Len(items) + 1
    BY <1>1, <1>4
  <2>2. new[j] = x
    BY <1>1, <2>1
  <2> QED
    BY <1>2, <2>2
<1> QED
  BY <1>3, <1>4

(***************************************************************************)
(* The last of the nodes visited.                                          *)
(***************************************************************************)

\* A set of places that is not empty has a last one.
LEMMA LastPlace ==
  ASSUME NEW m \in Nat, NEW A \in SUBSET (1 .. m), A # {}
  PROVE  Max(A) \in A /\ \A j \in A : j <= Max(A)
<1> DEFINE D == {m - a : a \in A}
<1>1. D \subseteq Nat
  BY SMT
<1>2. D # {}
  OBVIOUS
<1>3. IsWellFoundedOn(OpToRel(<, Nat), Nat)
  BY NatLessThanWellFounded
<1>4. PICK d \in D : \A y \in D : ~(<<y, d>> \in OpToRel(<, Nat))
  BY <1>1, <1>2, <1>3, WFMin
<1>5. \A y \in D : ~(y < d)
  BY <1>1, <1>4 DEF OpToRel
<1>6. PICK a \in A : d = m - a
  BY <1>4
<1>7. ASSUME NEW j \in A
      PROVE  a >= j
  <2>1. m - j \in D
    OBVIOUS
  <2>2. ~(m - j < m - a)
    BY <1>5, <1>6, <2>1
  <2> HIDE DEF D
  <2> QED
    BY <2>2
<1> QED
  BY <1>7 DEF Max

\* A later node changes nothing about the last of those before it.
LEMMA LastStays ==
  ASSUME NEW s, NEW x, IsSequence(s), NEW A \in SUBSET (DOMAIN s)
  PROVE  LastAmong(Append(s, x), A) = LastAmong(s, A)
<1>1. /\ Len(s) \in Nat
      /\ DOMAIN s = 1 .. Len(s)
      /\ \A i \in DOMAIN s : Append(s, x)[i] = s[i]
  BY AppendToSequence
<1>2. CASE A = {}
  BY <1>2 DEF LastAmong
<1>3. CASE A # {}
  <2>1. Max(A) \in A
    BY <1>1, <1>3, LastPlace
  <2> QED
    BY <1>1, <1>3, <2>1 DEF LastAmong
<1> QED
  BY <1>2, <1>3

\* A later node that is one of them is the last.
LEMMA LastIsNew ==
  ASSUME NEW s, NEW x, IsSequence(s), NEW A \in SUBSET (DOMAIN s)
  PROVE  LastAmong(Append(s, x), A \cup {Len(s) + 1}) = x
<1>1. /\ Len(s) \in Nat
      /\ DOMAIN s = 1 .. Len(s)
      /\ Append(s, x)[Len(s) + 1] = x
  BY AppendToSequence
<1> DEFINE B == A \cup {Len(s) + 1}
<1>2. B \in SUBSET (1 .. Len(s) + 1) /\ B # {} /\ Len(s) + 1 \in Nat
  BY <1>1
<1>3. Max(B) \in B /\ \A j \in B : j <= Max(B)
  <2> HIDE DEF B
  <2> QED
    BY <1>2, LastPlace
<1>4. Max(B) = Len(s) + 1
  <2>1. Max(B) \in 1 .. Len(s) + 1 /\ Len(s) + 1 <= Max(B)
    <3>1. Len(s) + 1 \in B
      OBVIOUS
    <3> HIDE DEF B
    <3> QED
      BY <1>2, <1>3, <3>1
  <2> HIDE DEF B
  <2> QED
    BY <1>1, <2>1
<1> QED
  BY <1>1, <1>4 DEF LastAmong

\* Which nodes have a name, after one more.
LEMMA VisitsAppend ==
  ASSUME NEW s, NEW x, IsSequence(s), NEW name, NEW uri
  PROVE  /\ Visits(s, name, uri) \in SUBSET (DOMAIN s)
         /\ Visits(Append(s, x), name, uri) =
                Visits(s, name, uri)
                    \cup (IF x.name = name /\ x.ns = uri THEN {Len(s) + 1} ELSE {})
<1>1. /\ Len(s) \in Nat
      /\ DOMAIN s = 1 .. Len(s)
      /\ DOMAIN Append(s, x) = 1 .. Len(s) + 1
      /\ \A i \in DOMAIN s : Append(s, x)[i] = s[i]
      /\ Append(s, x)[Len(s) + 1] = x
  BY AppendToSequence
<1>2. 1 .. Len(s) + 1 = (1 .. Len(s)) \cup {Len(s) + 1}
  BY <1>1
<1>3. DOMAIN Append(s, x) = DOMAIN s \cup {Len(s) + 1}
  BY <1>1, <1>2
<1> QED
  BY <1>1, <1>3 DEF Visits

\* The last node of a name, after one more.
LEMMA LastVisit ==
  ASSUME NEW s, NEW x, IsSequence(s), NEW name, NEW uri
  PROVE  LastAmong(Append(s, x), Visits(Append(s, x), name, uri)) =
             IF x.name = name /\ x.ns = uri THEN x
             ELSE LastAmong(s, Visits(s, name, uri))
<1>1. CASE x.name = name /\ x.ns = uri
  <2>1. Visits(Append(s, x), name, uri) = Visits(s, name, uri) \cup {Len(s) + 1}
    BY <1>1, VisitsAppend
  <2>2. Visits(s, name, uri) \in SUBSET (DOMAIN s)
    BY VisitsAppend
  <2> QED
    BY <1>1, <2>1, <2>2, LastIsNew
<1>2. CASE ~(x.name = name /\ x.ns = uri)
  <2>1. Visits(Append(s, x), name, uri) = Visits(s, name, uri)
    <3>1. Visits(Append(s, x), name, uri) =
              Visits(s, name, uri)
                  \cup (IF x.name = name /\ x.ns = uri THEN {Len(s) + 1} ELSE {})
      BY VisitsAppend
    <3> QED
      BY <1>2, <3>1
  <2>2. Visits(s, name, uri) \in SUBSET (DOMAIN s)
    BY VisitsAppend
  <2> QED
    BY <1>2, <2>1, <2>2, LastStays
<1> QED
  BY <1>1, <1>2
=============================================================================
