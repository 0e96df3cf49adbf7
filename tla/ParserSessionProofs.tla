------------------------- MODULE ParserSessionProofs -------------------------
(***************************************************************************)
(* Proofs about ParserSession and about FeedPolling, which is its          *)
(* composition with servers and polling programs: for any number of        *)
(* objects, handles, documents and header values, and for any number of    *)
(* feeds and versions, whichever of the feeds are redirected and whatever  *)
(* the program keeps after an empty result.                                *)
(***************************************************************************)
EXTENDS FeedPolling, TLAPS

RootNames == {tree.name : tree \in Trees}

-----------------------------------------------------------------------------
(* How a parse ends.                                                       *)

\* Whatever parse_xmlnode finds in a root element's version, it is an
\* enumerator of "version" or the text of an exception.
LEMMA DetectedType ==
    ASSUME NEW tree
    PROVE  Detected(tree) \subseteq Versions \cup Refusals
<1>1. RssVersion(tree.version) \in Versions \cup Refusals
  BY DEF RssVersion, Versions, Refusals
<1>2. AtomVersion(tree.ns, tree.version) \in Versions \cup Refusals
  BY DEF AtomVersion, Versions, Refusals
<1>3. "RSS_1_0" \in Versions
  BY DEF Versions
<1> QED
  BY <1>1, <1>2, <1>3 DEF Detected

\* Whatever the document, parse_xmlnode returns a feed or throws one of the
\* exceptions the code has a text for.
LEMMA ParseXmlNodeType ==
    ASSUME NEW tree \in Trees, NEW r \in ParseXmlNode(tree)
    PROVE  r \in Results(RootNames)
<1>1. tree.name \in RootNames
  BY DEF RootNames
<1>2. \A v : ParserFor(v) \in Classes \cup {""}
  BY DEF ParserFor, Classes
<1>3. \A why \in Errors : Throw(why) \in Results(RootNames)
  BY DEF Throw, Results, Versions
<1>4. CASE tree.name = ""
  <2>1. "XML root node is NULL" \in Errors
    BY DEF Errors
  <2> QED
    BY <1>4, <2>1, <1>3 DEF ParseXmlNode
<1>5. CASE tree.name # ""
  <2>1. PICK d \in Detected(tree) :
            r = IF d \in Refusals THEN Throw(d) ELSE Extract(tree, d)
    BY <1>5 DEF ParseXmlNode
  <2>2. CASE d \in Refusals
    BY <2>1, <2>2, <1>3 DEF Errors
  <2>3. CASE d \notin Refusals
    <3>1. d \in Versions
      BY <2>3, DetectedType
    <3>2. CASE ParserFor(d) = ""
      BY <2>1, <2>3, <3>2, <1>3 DEF Extract, Errors
    <3>3. CASE ParserFor(d) \in Classes
      <4>1. "" \notin Classes
        BY DEF Classes
      <4>2. Feed(d, ParserFor(d), tree.name) \in Results(RootNames)
        BY <1>1, <3>1, <3>3 DEF Feed, Results
      <4>3. Throw("no RSS channel found") \in Results(RootNames)
        BY <1>3 DEF Errors
      <4> QED
        BY <2>1, <2>3, <3>3, <4>1, <4>2, <4>3 DEF Extract
    <3> QED
      BY <1>2, <3>2, <3>3
  <2> QED
    BY <2>2, <2>3
<1> QED
  BY <1>4, <1>5

-----------------------------------------------------------------------------
(* Types.                                                                  *)

\* The outcomes parse_url and the parses end with, other than those of
\* parse_xmlnode, have the type of a result.
LEMMA OutcomeTypes ==
    /\ NoResult \in Results(RootNames)
    /\ Feed("UNKNOWN", "", "") \in Results(RootNames)
    /\ \A why \in Errors : Throw(why) \in Results(RootNames)
BY DEF NoResult, Feed, Throw, Results, Versions

\* The call record before its options are set is a call record.
LEMMA NoCallType == NoCall \in Calls
<1>1. 0 \in 0..MaxChunks
  BY MaxChunksAssumption
<1> QED
  BY <1>1 DEF NoCall, Calls, AnyTime, AnyEtag

\* What the handle of a finished call holds has its type.
LEMMA FinishType ==
    ASSUME TypeOK, NEW p \in Parsers, Finish(p)
    PROVE  /\ lm' \in [Parsers -> AnyTime]
           /\ et' \in [Parsers -> AnyEtag]
           /\ easy' \subseteq Slots
           /\ setting' \in [Slots -> [Options -> Parsers \cup {NULL}]]
           /\ timevalue' \in [Slots -> AnyTime]
           /\ httpheader' \in [Slots -> Parsers \cup {NULL}]
           /\ frame' \in [Slots -> Parsers \cup {NULL}]
           /\ slist' \in [Parsers -> AnyEtag]
           /\ call' \in [Parsers -> Calls]
<1>1. /\ HeadersAfter(p) \in [Slots -> Parsers \cup {NULL}]
      /\ Defaults \in [Options -> Parsers \cup {NULL}]
  BY DEF TypeOK, HeadersAfter, Defaults
<1>2. call[p] \in Calls
  BY DEF TypeOK
<1> QED
  BY <1>1, <1>2, NoCallType
  DEF TypeOK, Finish, Validators, Cleanup, Keep, Slots, Calls, AnyTime, AnyEtag

\* What reading a document leaves has its type.
LEMMA BufferType ==
    ASSUME TypeOK, NEW p \in Parsers, NEW why \in Errors,
           Unreadable(p, why) \/ \E tree \in Trees : Readable(p, tree)
    PROVE  /\ doc' \in [Parsers -> Docs \cup {NULL}]
           /\ heap' \subseteq Docs
           /\ result' \in [Parsers -> Results(RootNames)]
<1>1. CASE Unreadable(p, why)
  BY <1>1, OutcomeTypes DEF TypeOK, Unreadable, RootNames
<1>2. CASE \E tree \in Trees : Readable(p, tree)
  <2>1. PICK tree \in Trees : Readable(p, tree)
    BY <1>2
  <2>2. ParseXmlNode(tree) \subseteq Results(RootNames)
    BY ParseXmlNodeType
  <2> QED
    BY <2>1, <2>2 DEF TypeOK, Readable, RootNames
<1> QED
  BY <1>1, <1>2

\* Every step of every object keeps the types.
LEMMA TypeStep == TypeOK /\ [Next]_vars => TypeOK'
<1> SUFFICES ASSUME TypeOK, [Next]_vars PROVE TypeOK'
  OBVIOUS
<1>1. CASE UNCHANGED vars
  BY <1>1 DEF TypeOK, vars, members, handles
<1>2. ASSUME NEW p \in Parsers, Construct(p) PROVE TypeOK'
  BY <1>2, OutcomeTypes
  DEF TypeOK, Construct, handles, AnyTime, AnyEtag, RootNames
<1>3. ASSUME NEW p \in Parsers, Destroy(p) PROVE TypeOK'
  BY <1>3, OutcomeTypes
  DEF TypeOK, Destroy, handles, AnyTime, AnyEtag, RootNames
<1>4. ASSUME NEW p \in Parsers, ParseUrlFailsToInit(p) PROVE TypeOK'
  BY <1>4, OutcomeTypes
  DEF TypeOK, ParseUrlFailsToInit, members, handles, Errors, RootNames
<1>5. ASSUME NEW p \in Parsers, NEW h \in Handles \cup {NULL},
             NEW t \in AnyTime, NEW e \in AnyEtag, NEW cookies \in BOOLEAN,
             ParseUrl(p, h, t, e, cookies)
      PROVE  TypeOK'
  <2>1. PICK s \in Slots :
            /\ easy' = easy \cup {s}
            /\ SetOptions(p, s, t, e, cookies)
            /\ call' = [call EXCEPT ![p] = [NoCall EXCEPT
                           !.phase = "perform", !.slot = s,
                           !.time = t, !.etag = e]]
    BY <1>5 DEF ParseUrl, Slots
  <2>2. [NoCall EXCEPT !.phase = "perform", !.slot = s,
                       !.time = t, !.etag = e] \in Calls
    BY NoCallType DEF Calls
  <2>3. easy' \subseteq Slots /\ call' \in [Parsers -> Calls]
    BY <2>1, <2>2 DEF TypeOK
  <2>4. /\ setting' \in [Slots -> [Options -> Parsers \cup {NULL}]]
        /\ timevalue' \in [Slots -> AnyTime]
        /\ httpheader' \in [Slots -> Parsers \cup {NULL}]
        /\ frame' \in [Slots -> Parsers \cup {NULL}]
    BY <2>1 DEF TypeOK, SetOptions
  <2>5. /\ slist' \in [Parsers -> AnyEtag]
        /\ result' \in [Parsers -> Results(RootNames)]
        /\ UNCHANGED <<alive, doc, lm, et, heap>>
    BY <1>5, OutcomeTypes DEF TypeOK, ParseUrl, members, RootNames
  <2> QED
    BY <2>3, <2>4, <2>5 DEF TypeOK, RootNames
<1>6. ASSUME NEW p \in Parsers, Callback(p) PROVE TypeOK'
  <2>1. \A q : call[q] \in Calls \/ q \notin Parsers
    BY DEF TypeOK
  <2>2. ASSUME NEW t \in AnyTime \cup {BadDate}, HandleLastModified(p, t)
        PROVE  call' \in [Parsers -> Calls]
    <3>1. \A c \in Calls : t # BadDate => [c EXCEPT !.lm = t] \in Calls
      BY DEF Calls
    <3> QED
      BY <2>1, <2>2, <3>1 DEF TypeOK, HandleLastModified
  <2>3. ASSUME NEW e \in AnyEtag, HandleEtag(p, e)
        PROVE  call' \in [Parsers -> Calls]
    <3>1. \A c \in Calls : [c EXCEPT !.et = e] \in Calls
      BY DEF Calls
    <3> QED
      BY <2>1, <2>3, <3>1 DEF TypeOK, HandleEtag
  <2>4. ASSUME MyWriteData(p)
        PROVE  call' \in [Parsers -> Calls]
    <3>1. \A c \in Calls : c.buf < MaxChunks
              => [c EXCEPT !.buf = @ + 1] \in Calls
      BY MaxChunksAssumption DEF Calls
    <3> QED
      BY <2>1, <2>4, <3>1 DEF TypeOK, MyWriteData
  <2> QED
    BY <1>6, <2>2, <2>3, <2>4
    DEF TypeOK, Callback, HandleLastModified, HandleEtag, MyWriteData,
        members, handles
<1>7. ASSUME NEW p \in Parsers, PerformFails(p) PROVE TypeOK'
  BY <1>7, FinishType, OutcomeTypes
  DEF TypeOK, PerformFails, Finish, Errors, RootNames
<1>8. ASSUME NEW p \in Parsers, PerformEmpty(p) PROVE TypeOK'
  BY <1>8, FinishType, OutcomeTypes
  DEF TypeOK, PerformEmpty, Finish, RootNames
<1>9. ASSUME NEW p \in Parsers, PerformBody(p) PROVE TypeOK'
  <2>1. "could not parse buffer" \in Errors
    BY DEF Errors
  <2>2. /\ doc' \in [Parsers -> Docs \cup {NULL}]
        /\ heap' \subseteq Docs
        /\ result' \in [Parsers -> Results(RootNames)]
    BY <1>9, <2>1, BufferType DEF PerformBody, Buffer
  <2> QED
    BY <1>9, <2>2, FinishType DEF TypeOK, PerformBody, Finish, RootNames
<1>10. ASSUME NEW p \in Parsers, ParseBuffer(p) \/ ParseFile(p)
       PROVE  TypeOK'
  <2>1. PICK why \in Errors :
            Unreadable(p, why) \/ \E tree \in Trees : Readable(p, tree)
    BY <1>10 DEF ParseBuffer, ParseFile, Buffer, Errors
  <2>2. UNCHANGED <<alive, lm, et, handles, slist, call>>
    BY <1>10 DEF ParseBuffer, ParseFile
  <2> QED
    BY <2>1, <2>2, BufferType DEF TypeOK, handles, RootNames
<1> QED
  BY <1>1, <1>2, <1>3, <1>4, <1>5, <1>6, <1>7, <1>8, <1>9, <1>10
  DEF Next, Fetch, Return, PerformTimesOut

\* The types hold before the first call.
LEMMA TypeInit == Init => TypeOK
<1> SUFFICES ASSUME Init PROVE TypeOK
  OBVIOUS
<1>1. result \in [Parsers -> Results(RootNames)]
  BY OutcomeTypes DEF Init
<1>2. call \in [Parsers -> Calls]
  BY NoCallType DEF Init
<1>3. setting \in [Slots -> [Options -> Parsers \cup {NULL}]]
  BY DEF Init, Defaults
<1> QED
  BY <1>1, <1>2, <1>3 DEF Init, TypeOK, AnyTime, AnyEtag, Slots, RootNames

\* Every variable keeps its type through every call of every object.
THEOREM TypeCorrect == Spec => []TypeOK
BY TypeInit, TypeStep, PTL DEF Spec

-----------------------------------------------------------------------------
(* Handles.                                                                *)

\* What a step that neither starts nor ends a call of parse_url leaves alone:
\* the handles, the header lists and what the calls under way were given.
CallsKept ==
    /\ UNCHANGED <<handles, slist>>
    /\ \A p \in Parsers : /\ call'[p].phase = call[p].phase
                          /\ call'[p].slot = call[p].slot
                          /\ call'[p].time = call[p].time
                          /\ call'[p].etag = call[p].etag

\* A callback touches hdrs and buf only.
LEMMA CallbackKeeps ==
    ASSUME TypeOK, NEW p \in Parsers, Callback(p)
    PROVE  CallsKept /\ UNCHANGED <<alive, doc, heap>>
<1>1. UNCHANGED <<handles, slist>>
  BY DEF Callback, HandleLastModified, HandleEtag, MyWriteData
<1>2. UNCHANGED <<alive, doc, heap>>
  BY DEF Callback, HandleLastModified, HandleEtag, MyWriteData, members
<1>3. PICK q : \/ \E t : call' = [call EXCEPT ![q].lm = t]
               \/ \E e : call' = [call EXCEPT ![q].et = e]
               \/ call' = [call EXCEPT ![q].buf = @ + 1]
               \/ call' = call
  BY DEF Callback, HandleLastModified, HandleEtag, MyWriteData
<1>4. ASSUME NEW r \in Parsers
      PROVE  /\ call'[r].phase = call[r].phase
             /\ call'[r].slot = call[r].slot
             /\ call'[r].time = call[r].time
             /\ call'[r].etag = call[r].etag
  <2>1. CASE r # q
    BY <2>1, <1>3 DEF TypeOK
  <2>2. CASE r = q
    <3>1. \/ \E t : call'[r] = [call[r] EXCEPT !.lm = t]
          \/ \E e : call'[r] = [call[r] EXCEPT !.et = e]
          \/ call'[r] = [call[r] EXCEPT !.buf = @ + 1]
          \/ call'[r] = call[r]
      BY <2>2, <1>3 DEF TypeOK
    <3>2. call[r] \in Calls
      BY DEF TypeOK
    <3> QED
      BY <3>1, <3>2 DEF Calls
  <2> QED
    BY <2>1, <2>2
<1> QED
  BY <1>1, <1>2, <1>4 DEF CallsKept

\* A step starts a call of parse_url, ends one, or is none of the handles'
\* business.
LEMMA StepKinds ==
    ASSUME TypeOK, [Next]_vars
    PROVE  \/ \E p \in Parsers, h \in Handles \cup {NULL}, t \in AnyTime,
                 e \in AnyEtag, cookies \in BOOLEAN : ParseUrl(p, h, t, e, cookies)
           \/ \E p \in Parsers : Performing(p) /\ Finish(p)
           \/ CallsKept
<1>1. CASE UNCHANGED vars
  BY <1>1 DEF vars, handles, CallsKept
<1>2. CASE \E p \in Parsers : Return(p)
  BY <1>2 DEF Return, PerformFails, PerformTimesOut, PerformEmpty, PerformBody
<1>3. ASSUME NEW p \in Parsers, Callback(p) PROVE CallsKept
  BY <1>3, CallbackKeeps
<1>4. ASSUME NEW p \in Parsers,
             Construct(p) \/ Destroy(p) \/ ParseUrlFailsToInit(p)
                 \/ ParseBuffer(p) \/ ParseFile(p)
      PROVE  CallsKept
  BY <1>4
  DEF Construct, Destroy, ParseUrlFailsToInit, ParseBuffer, ParseFile, handles,
      CallsKept
<1> QED
  BY <1>1, <1>2, <1>3, <1>4 DEF Next, Fetch

\* A step outside parse_url keeps what is known of the handles.
LEMMA KeptPreservesHandles ==
    ASSUME TypeOK, HandlesInv, CallsKept
    PROVE  HandlesInv'
<1>1. \A p \in Parsers : Performing(p)' <=> Performing(p)
  BY DEF Performing, CallsKept
<1>2. /\ UNCHANGED <<easy, setting, timevalue, httpheader, frame, slist>>
      /\ \A p \in Parsers : /\ call'[p].slot = call[p].slot
                            /\ call'[p].time = call[p].time
                            /\ call'[p].etag = call[p].etag
  BY DEF CallsKept, handles
<1>3. SlotsFit'
  BY <1>1, <1>2 DEF HandlesInv, SlotsFit
<1>4. RequestIsOwn'
  BY <1>1, <1>2 DEF HandlesInv, RequestIsOwn
<1>5. CallbacksReachOwnFrame'
  BY <1>1, <1>2 DEF HandlesInv, CallbacksReachOwnFrame
<1>6. NoFreedHeaderList'
  BY <1>1, <1>2 DEF HandlesInv, NoFreedHeaderList, TypeOK
<1>7. NothingLeaksOnReturn'
  BY <1>1, <1>2 DEF HandlesInv, NothingLeaksOnReturn
<1>8. OwnTimeCondition'
  BY <1>1, <1>2 DEF HandlesInv, OwnTimeCondition
<1>9. ConfigurationWins'
  BY <1>1, <1>2 DEF HandlesInv, ConfigurationWins
<1> QED
  BY <1>3, <1>4, <1>5, <1>6, <1>7, <1>8, <1>9 DEF HandlesInv

\* The options parse_url sets make the request its own, on a new handle or on
\* one with the options of earlier calls.
LEMMA ParseUrlPreservesHandles ==
    ASSUME TypeOK, HandlesInv, NEW p \in Parsers, NEW h \in Handles \cup {NULL},
           NEW t \in AnyTime, NEW e \in AnyEtag, NEW cookies \in BOOLEAN,
           ParseUrl(p, h, t, e, cookies)
    PROVE  HandlesInv'
<1> DEFINE s == IF h = NULL THEN p ELSE h
<1>1. /\ s \in Slots
      /\ s \in Handles \cup {p}
      /\ s \notin Parsers \ {p}
      /\ s # NULL
  BY HandlesAssumption, NullAssumption DEF Slots
<1>2. /\ ~Performing(p)
      /\ \A q \in Parsers : Performing(q) => call[q].slot # s
  <2>1. \A q \in Parsers : Performing(q) => call[q].slot # h
    BY DEF ParseUrl
  <2>2. ~Performing(p)
    BY DEF ParseUrl, Idle, Performing
  <2>3. \A q \in Parsers : Performing(q) => call[q].slot \in Handles \cup {q}
    BY DEF HandlesInv, SlotsFit
  <2> QED
    BY <2>1, <2>2, <2>3, HandlesAssumption
<1>3. /\ easy' = easy \cup {s}
      /\ slist' = [slist EXCEPT ![p] = e]
      /\ timevalue' = IF t # 0 THEN [timevalue EXCEPT ![s] = t] ELSE timevalue
      /\ httpheader' = IF e # 0 THEN [httpheader EXCEPT ![s] = p] ELSE httpheader
      /\ frame' = [frame EXCEPT ![s] = p]
  BY DEF ParseUrl, SetOptions
<1>4. /\ \A x \in Slots \ {s} : setting'[x] = setting[x]
      /\ \A o \in Options :
             setting'[s][o] = IF o \in SetBy(p, cookies) THEN p ELSE setting[s][o]
  BY <1>1 DEF ParseUrl, SetOptions, TypeOK
<1>5. /\ Performing(p)'
      /\ call'[p].slot = s /\ call'[p].time = t /\ call'[p].etag = e
      /\ \A q \in Parsers \ {p} : call'[q] = call[q] /\ (Performing(q)' <=> Performing(q))
  <2>1. call' = [call EXCEPT ![p] = [NoCall EXCEPT !.phase = "perform",
                    !.slot = s, !.time = t, !.etag = e]]
    BY DEF ParseUrl
  <2> QED
    BY <2>1 DEF TypeOK, Performing, NoCall
<1>6. httpheader[s] = NULL
  BY <1>1, <1>2 DEF HandlesInv, NoFreedHeaderList, TypeOK
<1> HIDE DEF s
<1>7. SlotsFit'
  <2>1. ASSUME NEW q \in Parsers, ~(Performing(q)' /\ call'[q].slot = q)
        PROVE  setting'[q] = Defaults /\ timevalue'[q] = 0
    <3>1. q # s /\ q \in Slots
      BY <2>1, <1>1, <1>5 DEF Slots
    <3>2. ~(Performing(q) /\ call[q].slot = q)
      BY <2>1, <1>2, <1>5
    <3>3. setting[q] = Defaults /\ timevalue[q] = 0
      BY <3>2 DEF HandlesInv, SlotsFit
    <3> QED
      BY <3>1, <3>3, <1>3, <1>4 DEF TypeOK
  <2> QED
    BY <2>1, <1>1, <1>5 DEF HandlesInv, SlotsFit
<1>8. RequestIsOwn'
  <2>1. slist'[p] = e /\ httpheader'[s] = IF e # 0 THEN p ELSE NULL
    BY <1>1, <1>3, <1>6 DEF TypeOK
  <2>2. \A q \in Parsers \ {p} : Performing(q) =>
            slist'[q] = slist[q] /\ httpheader'[call[q].slot] = httpheader[call[q].slot]
    BY <1>2, <1>3 DEF TypeOK
  <2> QED
    BY <2>1, <2>2, <1>5 DEF HandlesInv, RequestIsOwn
<1>9. CallbacksReachOwnFrame'
  <2>1. s \in easy' /\ frame'[s] = p
    BY <1>1, <1>3 DEF TypeOK
  <2>2. ASSUME NEW q \in Parsers \ {p}, Performing(q)
        PROVE  /\ call[q].slot \in easy' /\ frame'[call[q].slot] = q
               /\ \A r \in Parsers \ {q} : Performing(r) => call[r].slot # call[q].slot
    <3>1. call[q].slot \in easy /\ frame[call[q].slot] = q
      BY <2>2 DEF HandlesInv, CallbacksReachOwnFrame
    <3>2. \A r \in Parsers \ {q} : Performing(r) => call[r].slot # call[q].slot
      BY <2>2 DEF HandlesInv, CallbacksReachOwnFrame
    <3> QED
      BY <2>2, <3>1, <3>2, <1>2, <1>3 DEF TypeOK
  <2> QED
    BY <2>1, <2>2, <1>2, <1>5 DEF CallbacksReachOwnFrame
<1>10. NoFreedHeaderList'
  <2>1. ASSUME NEW x \in Slots, httpheader'[x] # NULL
        PROVE  \E q \in Parsers : /\ httpheader'[x] = q
                                  /\ Performing(q)'
                                  /\ call'[q].slot = x
                                  /\ slist'[q] # 0
    <3>1. CASE x = s
      <4>1. httpheader'[x] = p /\ e # 0
        BY <2>1, <3>1, <1>3, <1>6 DEF TypeOK
      <4> QED
        BY <3>1, <4>1, <1>3, <1>5 DEF TypeOK
    <3>2. CASE x # s
      <4>1. httpheader'[x] = httpheader[x] /\ httpheader[x] \in Parsers
        BY <2>1, <3>2, <1>3 DEF TypeOK
      <4>2. PICK q \in Parsers : q = httpheader[x]
        BY <4>1
      <4>3. Performing(q) /\ call[q].slot = x /\ slist[q] # 0
        BY <2>1, <4>1, <4>2 DEF HandlesInv, NoFreedHeaderList
      <4>4. q # p
        BY <4>3, <1>2
      <4> QED
        BY <4>1, <4>2, <4>3, <4>4, <1>3, <1>5 DEF TypeOK
    <3> QED
      BY <3>1, <3>2
  <2> QED
    BY <2>1 DEF NoFreedHeaderList
<1>11. NothingLeaksOnReturn'
  <2>1. easy' = Handles \cup {q \in Parsers : Performing(q)' /\ call'[q].slot = q}
    BY <1>1, <1>2, <1>3, <1>5 DEF HandlesInv, NothingLeaksOnReturn
  <2>2. \A q \in Parsers : slist'[q] # 0 => Performing(q)'
    BY <1>3, <1>5 DEF HandlesInv, NothingLeaksOnReturn, TypeOK
  <2> QED
    BY <2>1, <2>2 DEF NothingLeaksOnReturn, Performing
<1>12. OwnTimeCondition'
  <2>1. s = p \/ t # 0 => timevalue'[s] = t
    BY <1>1, <1>2, <1>3 DEF HandlesInv, SlotsFit, TypeOK
  <2>2. \A q \in Parsers \ {p} : Performing(q) =>
            timevalue'[call[q].slot] = timevalue[call[q].slot]
    BY <1>2, <1>3 DEF TypeOK
  <2> QED
    BY <2>1, <2>2, <1>5 DEF HandlesInv, OwnTimeCondition
<1>13. ConfigurationWins'
  <2>1. ASSUME NEW o \in Options
        PROVE  /\ o \in Configured[p] \cup {"PROXYTYPE"} => setting'[s][o] = p
               /\ s = p /\ o \in Settings \ Configured[p] => setting'[p][o] = NULL
    <3>1. o \in Configured[p] \cup {"PROXYTYPE"} => o \in SetBy(p, cookies)
      BY DEF SetBy
    <3>2. o \in Settings \ Configured[p] => o \notin SetBy(p, cookies)
      BY DEF SetBy, Settings
    <3>3. s = p => setting[s] = Defaults
      BY <1>2 DEF HandlesInv, SlotsFit
    <3> QED
      BY <3>1, <3>2, <3>3, <1>4 DEF Defaults
  <2>2. \A q \in Parsers \ {p} : Performing(q) =>
            call[q].slot \in Slots \ {s}
    BY <1>2 DEF HandlesInv, SlotsFit, Slots
  <2> QED
    BY <2>1, <2>2, <1>4, <1>5 DEF HandlesInv, ConfigurationWins
<1> QED
  BY <1>7, <1>8, <1>9, <1>10, <1>11, <1>12, <1>13 DEF HandlesInv

\* The end of a call gives back what it took and disturbs no other call.
LEMMA FinishPreservesHandles ==
    ASSUME TypeOK, HandlesInv, NEW p \in Parsers, Performing(p), Finish(p)
    PROVE  HandlesInv'
<1> DEFINE s == call[p].slot
           own == s = p
<1>1. s \in Slots /\ s \in Handles \cup {p}
  BY DEF HandlesInv, SlotsFit, Slots
<1>2. /\ \A q \in Parsers \ {p} : Performing(q) => call[q].slot # s
      /\ \A q \in Parsers : Performing(q) => call[q].slot \in Handles \cup {q}
  BY DEF HandlesInv, SlotsFit, CallbacksReachOwnFrame
<1>3. /\ slist' = [slist EXCEPT ![p] = 0]
      /\ easy' = IF own THEN easy \ {p} ELSE easy
      /\ setting' = IF own THEN [setting EXCEPT ![p] = Defaults] ELSE setting
      /\ timevalue' = IF own THEN [timevalue EXCEPT ![p] = 0] ELSE timevalue
      /\ frame' = IF own THEN [frame EXCEPT ![p] = NULL] ELSE frame
      /\ httpheader' = IF own THEN [HeadersAfter(p) EXCEPT ![p] = NULL]
                              ELSE HeadersAfter(p)
  BY DEF Finish, Cleanup, Keep
<1>4. /\ ~Performing(p)'
      /\ \A q \in Parsers \ {p} : call'[q] = call[q] /\ (Performing(q)' <=> Performing(q))
  BY DEF Finish, TypeOK, Performing, NoCall
<1>5. httpheader' = [httpheader EXCEPT ![s] = NULL]
  <2>1. slist[p] = 0 => httpheader[s] = NULL
    BY DEF HandlesInv, RequestIsOwn
  <2>2. HeadersAfter(p) = [httpheader EXCEPT ![s] = NULL]
    BY <2>1, <1>1 DEF HeadersAfter, TypeOK
  <2> QED
    BY <2>2, <1>1, <1>3 DEF TypeOK
<1>6. \A x \in Slots \ {s} :
          /\ setting'[x] = setting[x]
          /\ timevalue'[x] = timevalue[x]
          /\ frame'[x] = frame[x]
          /\ httpheader'[x] = httpheader[x]
          /\ x \in easy' <=> x \in easy
  BY <1>1, <1>3, <1>5 DEF TypeOK
<1>7. \A q \in Parsers \ {p} : Performing(q) => call[q].slot \in Slots \ {s}
  BY <1>2 DEF Slots
<1> HIDE DEF s, own
<1>8. SlotsFit'
  <2>1. ASSUME NEW q \in Parsers, ~(Performing(q)' /\ call'[q].slot = q)
        PROVE  setting'[q] = Defaults /\ timevalue'[q] = 0
    <3>1. CASE q = s
      BY <3>1, <1>1, <1>3, HandlesAssumption DEF own, TypeOK, Slots
    <3>2. CASE q # s
      <4>1. ~(Performing(q) /\ call[q].slot = q)
        BY <2>1, <3>2, <1>4 DEF s
      <4> QED
        BY <4>1, <3>2, <1>6 DEF HandlesInv, SlotsFit, Slots
    <3> QED
      BY <3>1, <3>2
  <2> QED
    BY <2>1, <1>2, <1>4 DEF SlotsFit
<1>9. RequestIsOwn'
  <2>1. \A q \in Parsers \ {p} : slist'[q] = slist[q]
    BY <1>3 DEF TypeOK
  <2> QED
    BY <2>1, <1>4, <1>6, <1>7 DEF HandlesInv, RequestIsOwn
<1>10. CallbacksReachOwnFrame'
  BY <1>4, <1>6, <1>7 DEF HandlesInv, CallbacksReachOwnFrame
<1>11. NoFreedHeaderList'
  <2>1. ASSUME NEW x \in Slots, httpheader'[x] # NULL
        PROVE  \E q \in Parsers : /\ httpheader'[x] = q
                                  /\ Performing(q)'
                                  /\ call'[q].slot = x
                                  /\ slist'[q] # 0
    <3>1. x # s /\ httpheader'[x] = httpheader[x] /\ httpheader[x] \in Parsers
      BY <2>1, <1>5, <1>6 DEF TypeOK
    <3>2. PICK q \in Parsers : q = httpheader[x]
      BY <3>1
    <3>3. Performing(q) /\ call[q].slot = x /\ slist[q] # 0
      BY <2>1, <3>1, <3>2 DEF HandlesInv, NoFreedHeaderList
    <3>4. q # p
      BY <3>1, <3>3 DEF s
    <3> QED
      BY <3>1, <3>2, <3>3, <3>4, <1>3, <1>4 DEF TypeOK
  <2> QED
    BY <2>1 DEF NoFreedHeaderList
<1>12. NothingLeaksOnReturn'
  <2>1. easy' = Handles \cup {q \in Parsers : Performing(q)' /\ call'[q].slot = q}
    <3>1. easy = Handles \cup {q \in Parsers : Performing(q) /\ call[q].slot = q}
      BY DEF HandlesInv, NothingLeaksOnReturn
    <3>2. own <=> call[p].slot = p
      BY DEF own, s
    <3> QED
      BY <3>1, <3>2, <1>3, <1>4, HandlesAssumption
  <2>2. \A q \in Parsers : slist'[q] # 0 => Performing(q)'
    BY <1>3, <1>4 DEF HandlesInv, NothingLeaksOnReturn, TypeOK
  <2> QED
    BY <2>1, <2>2 DEF NothingLeaksOnReturn, Performing
<1>13. OwnTimeCondition'
  BY <1>4, <1>6, <1>7 DEF HandlesInv, OwnTimeCondition
<1>14. ConfigurationWins'
  BY <1>4, <1>6, <1>7 DEF HandlesInv, ConfigurationWins
<1> QED
  BY <1>8, <1>9, <1>10, <1>11, <1>12, <1>13, <1>14 DEF HandlesInv

\* Before the first call the handles hold nothing.
LEMMA HandlesInit == Init => HandlesInv
<1> SUFFICES ASSUME Init PROVE HandlesInv
  OBVIOUS
<1>1. \A p \in Parsers : ~Performing(p)
  BY DEF Init, Performing, NoCall
<1> QED
  BY <1>1
  DEF Init, HandlesInv, SlotsFit, RequestIsOwn, CallbacksReachOwnFrame,
      NoFreedHeaderList, NothingLeaksOnReturn, OwnTimeCondition,
      ConfigurationWins, Slots

\* The invariant of the handles is inductive.
LEMMA HandlesStep == TypeOK /\ HandlesInv /\ [Next]_vars => HandlesInv'
BY StepKinds, KeptPreservesHandles, ParseUrlPreservesHandles,
   FinishPreservesHandles

\* No call leaves a handle, a header list or an option behind for another, but
\* for the options libcurl keeps on a handle the program lends.
THEOREM HandlesCorrect == Spec => []HandlesInv
BY HandlesInit, HandlesStep, TypeCorrect, PTL DEF Spec

\* The request of a call carries its own validator and no other.
THEOREM RequestsAreOwn == Spec => []RequestIsOwn
<1>1. HandlesInv => RequestIsOwn
  BY DEF HandlesInv
<1> QED
  BY <1>1, HandlesCorrect, PTL

\* No handle points to a header list that was freed.
THEOREM HeaderListsLive == Spec => []NoFreedHeaderList
<1>1. HandlesInv => NoFreedHeaderList
  BY DEF HandlesInv
<1> QED
  BY <1>1, HandlesCorrect, PTL

\* Every way out of parse_url gives back the handles and header lists it took.
THEOREM NothingLeaks == Spec => []NothingLeaksOnReturn
<1>1. HandlesInv => NothingLeaksOnReturn
  BY DEF HandlesInv
<1> QED
  BY <1>1, HandlesCorrect, PTL

\* Headers and body of a transfer reach the frame of its own call.
THEOREM CallbacksAreOwn == Spec => []CallbacksReachOwnFrame
<1>1. HandlesInv => CallbacksReachOwnFrame
  BY DEF HandlesInv
<1> QED
  BY <1>1, HandlesCorrect, PTL

\* The time condition of a transfer is its call's, if it gives one or uses a
\* handle of its own.
THEOREM TimeConditionsAreOwn == Spec => []OwnTimeCondition
<1>1. HandlesInv => OwnTimeCondition
  BY DEF HandlesInv
<1> QED
  BY <1>1, HandlesCorrect, PTL

\* The configuration in force for a transfer is that of its own object, except
\* for what an earlier call left on a handle the program lends.
THEOREM OptionsAreOwn == Spec => []ConfigurationWins
<1>1. HandlesInv => ConfigurationWins
  BY DEF HandlesInv
<1> QED
  BY <1>1, HandlesCorrect, PTL

-----------------------------------------------------------------------------
(* Documents.                                                              *)

\* A step constructs or destroys an object, reads a document, or leaves all
\* documents where they are; which objects are in a call changes only for one
\* that exists.
LEMMA DocumentSteps ==
    ASSUME TypeOK, DocumentsInv, [Next]_vars
    PROVE  /\ \/ UNCHANGED <<alive, doc, heap>>
              \/ \E p \in Parsers : Construct(p)
              \/ \E p \in Parsers : Destroy(p)
              \/ \E p \in alive : /\ alive' = alive
                                  /\ \/ doc' = [doc EXCEPT ![p] = NULL] /\ heap' = heap
                                     \/ \E d \in Docs \ heap :
                                           /\ doc' = [doc EXCEPT ![p] = d]
                                           /\ heap' = heap \cup {d}
           /\ \A p \in Parsers : call'[p].phase = "perform"
                  => call[p].phase = "perform" \/ (p \in alive /\ alive' = alive)
<1>1. CASE UNCHANGED vars
  BY <1>1 DEF vars, members
<1>2. ASSUME NEW p \in Parsers, Construct(p) \/ Destroy(p)
      PROVE  call' = call
  BY <1>2 DEF Construct, Destroy
<1>3. ASSUME NEW p \in Parsers, Fetch(p)
      PROVE  /\ UNCHANGED <<alive, doc, heap>>
             /\ p \in alive
             /\ \A q \in Parsers \ {p} : call'[q] = call[q]
  BY <1>3
  DEF Fetch, ParseUrlFailsToInit, ParseUrl, Idle, members, TypeOK
<1>4. ASSUME NEW p \in Parsers, Callback(p)
      PROVE  /\ UNCHANGED <<alive, doc, heap>>
             /\ \A q \in Parsers : call'[q].phase = call[q].phase
  BY <1>4, CallbackKeeps DEF CallsKept
<1>5. ASSUME NEW p \in Parsers, NEW why,
             Unreadable(p, why) \/ \E tree \in Trees : Readable(p, tree)
      PROVE  \/ doc' = [doc EXCEPT ![p] = NULL] /\ heap' = heap
             \/ \E d \in Docs \ heap : /\ doc' = [doc EXCEPT ![p] = d]
                                      /\ heap' = heap \cup {d}
  BY <1>5 DEF Unreadable, Readable
<1>6. ASSUME NEW p \in Parsers, Return(p)
      PROVE  /\ alive' = alive /\ p \in alive
             /\ \/ UNCHANGED <<doc, heap>>
                \/ doc' = [doc EXCEPT ![p] = NULL] /\ heap' = heap
                \/ \E d \in Docs \ heap : /\ doc' = [doc EXCEPT ![p] = d]
                                         /\ heap' = heap \cup {d}
             /\ \A q \in Parsers : call'[q].phase = "perform"
                    => call[q].phase = "perform"
  <2>1. Performing(p) /\ Finish(p)
    BY <1>6
    DEF Return, PerformFails, PerformTimesOut, PerformEmpty, PerformBody
  <2>2. p \in alive /\ alive' = alive
    BY <2>1 DEF DocumentsInv, Finish
  <2>3. \A q \in Parsers : call'[q].phase = "perform" => call[q].phase = "perform"
    BY <2>1 DEF Finish, TypeOK, NoCall
  <2>4. \/ UNCHANGED <<doc, heap>>
        \/ Unreadable(p, "could not parse buffer")
        \/ \E tree \in Trees : Readable(p, tree)
    BY <1>6
    DEF Return, PerformFails, PerformTimesOut, PerformEmpty, PerformBody, Buffer
  <2> QED
    BY <2>2, <2>3, <2>4, <1>5
<1>7. ASSUME NEW p \in Parsers, ParseBuffer(p) \/ ParseFile(p)
      PROVE  /\ alive' = alive /\ p \in alive /\ call' = call
             /\ \/ doc' = [doc EXCEPT ![p] = NULL] /\ heap' = heap
                \/ \E d \in Docs \ heap : /\ doc' = [doc EXCEPT ![p] = d]
                                         /\ heap' = heap \cup {d}
  BY <1>7, <1>5 DEF ParseBuffer, ParseFile, Buffer, Idle
<1> QED
  BY <1>1, <1>2, <1>3, <1>4, <1>6, <1>7 DEF Next, vars

\* The documents the objects point to are allocated and are each one object's
\* own, for any number of objects and through any sequence of parses: the
\* destructor never frees a document twice.
THEOREM DocumentsCorrect == Spec => []DocumentsInv
<1>1. Init => DocumentsInv
  BY DEF Init, DocumentsInv, DocumentsOwned, Performing, NoCall
<1>2. TypeOK /\ DocumentsInv /\ [Next]_vars => DocumentsInv'
  <2> SUFFICES ASSUME TypeOK, DocumentsInv, [Next]_vars PROVE DocumentsInv'
    OBVIOUS
  <2>1. CASE UNCHANGED <<alive, doc, heap>>
    BY <2>1, DocumentSteps
    DEF DocumentsInv, DocumentsOwned, Performing
  <2>2. ASSUME NEW p \in Parsers, Construct(p) PROVE DocumentsInv'
    BY <2>2 DEF Construct, DocumentsInv, DocumentsOwned, Performing, TypeOK
  <2>3. ASSUME NEW p \in Parsers, Destroy(p) PROVE DocumentsInv'
    <3>1. DocumentsOwned'
      BY <2>3 DEF Destroy, Freed, DocumentsInv, DocumentsOwned, TypeOK
    <3>2. \A q \in Parsers : Performing(q)' => q \in alive'
      BY <2>3 DEF Destroy, Idle, DocumentsInv, Performing
    <3> QED
      BY <3>1, <3>2 DEF DocumentsInv, Performing
  <2>4. ASSUME NEW p \in alive, alive' = alive,
               \/ doc' = [doc EXCEPT ![p] = NULL] /\ heap' = heap
               \/ \E d \in Docs \ heap : /\ doc' = [doc EXCEPT ![p] = d]
                                        /\ heap' = heap \cup {d}
        PROVE  DocumentsInv'
    <3>1. DocumentsOwned'
      BY <2>4 DEF DocumentsInv, DocumentsOwned, TypeOK
    <3>2. \A q \in Parsers : Performing(q)' => q \in alive'
      BY <2>4, DocumentSteps DEF DocumentsInv, Performing
    <3> QED
      BY <3>1, <3>2 DEF DocumentsInv, Performing
  <2> QED
    BY <2>1, <2>2, <2>3, <2>4, DocumentSteps
<1> QED
  BY <1>1, <1>2, TypeCorrect, PTL DEF Spec

\* No document of the objects is freed behind the back of the one it belongs to.
THEOREM DocumentsAreOwned == Spec => []DocumentsOwned
<1>1. DocumentsInv => DocumentsOwned
  BY DEF DocumentsInv
<1> QED
  BY <1>1, DocumentsCorrect, PTL

\* A document is freed by the destructor of the object that points to it, and
\* nothing points to it afterwards.
THEOREM OwnerFrees == Spec => FreedByItsOwner
<1>1. TypeOK /\ DocumentsInv /\ [Next]_vars
          => [OwnerFreesStep]_vars
  <2> SUFFICES ASSUME TypeOK, DocumentsInv, [Next]_vars, NEW d \in heap \ heap'
               PROVE  /\ \E p \in alive : doc[p] = d
                      /\ \A p \in Parsers : doc'[p] # d
    BY DEF OwnerFreesStep
  <2>1. PICK p \in Parsers : Destroy(p)
    BY DocumentSteps DEF Construct
  <2>2. doc[p] = d /\ d # NULL /\ p \in alive
    BY <2>1 DEF Destroy, Freed, Idle
  <2>3. \A q \in Parsers \ {p} : doc[q] # d
    BY <2>2 DEF DocumentsInv, DocumentsOwned
  <2> QED
    BY <2>1, <2>2, <2>3 DEF Destroy, TypeOK
<1> QED
  BY <1>1, TypeCorrect, DocumentsCorrect, PTL DEF Spec, FreedByItsOwner

-----------------------------------------------------------------------------
(* Results.                                                                *)

\* The feed parse_xmlnode returns was extracted by the class of its root's
\* name and of the version it reports.
LEMMA ParseXmlNodeFits ==
    ASSUME NEW tree \in Trees, NEW r \in ParseXmlNode(tree)
    PROVE  FitsDocument(r)
<1>1. \A why : FitsDocument(Throw(why))
  BY DEF FitsDocument, Throw
<1>2. CASE tree.name = ""
  BY <1>1, <1>2 DEF ParseXmlNode
<1>3. CASE tree.name # ""
  <2>1. PICK d \in Detected(tree) :
            r = IF d \in Refusals THEN Throw(d) ELSE Extract(tree, d)
    BY <1>3 DEF ParseXmlNode
  <2>2. CASE d \in Refusals \/ ParserFor(d) = ""
    BY <2>1, <2>2, <1>1 DEF Extract
  <2>3. CASE d \notin Refusals /\ ParserFor(d) # ""
    <3>1. ParserFor("UNKNOWN") = ""
      BY DEF ParserFor
    <3>2. ParserFor(d) \in ClassesOf(tree.name)
      <4>1. CASE tree.name = "rss"
        <5>1. d = RssVersion(tree.version)
          BY <2>1, <4>1 DEF Detected
        <5>2. d \in {"RSS_0_91", "RSS_0_92", "RSS_0_94", "RSS_2_0"}
          BY <2>3, <5>1 DEF RssVersion, Refusals
        <5>3. ParserFor(d) \in {"rss_09x_parser", "rss_20_parser"}
          BY <5>2 DEF ParserFor
        <5> QED
          BY <4>1, <5>3 DEF ClassesOf
      <4>2. CASE tree.name = "RDF"
        <5>1. d = "RSS_1_0"
          BY <2>1, <4>2 DEF Detected
        <5>2. ParserFor(d) = "rss_10_parser"
          BY <5>1 DEF ParserFor
        <5> QED
          BY <4>2, <5>2 DEF ClassesOf
      <4>3. CASE tree.name = "feed"
        <5>1. d = AtomVersion(tree.ns, tree.version)
          BY <2>1, <4>3 DEF Detected
        <5>2. d \in {"ATOM_0_3", "ATOM_1_0", "ATOM_0_3_NONS"}
          BY <2>3, <5>1 DEF AtomVersion, Refusals
        <5>3. ParserFor(d) = "atom_parser"
          BY <5>2 DEF ParserFor
        <5> QED
          BY <4>3, <5>3 DEF ClassesOf
      <4>4. CASE tree.name \notin FeedNames
        <5>1. ParserFor(d) \in Classes
          BY <2>3 DEF ParserFor, Classes
        <5>2. ClassesOf(tree.name) = Classes
          BY <4>4 DEF ClassesOf, FeedNames
        <5> QED
          BY <5>1, <5>2
      <4> QED
        BY <4>1, <4>2, <4>3, <4>4 DEF FeedNames
    <3>3. FitsDocument(Feed(d, ParserFor(d), tree.name))
      BY <2>3, <3>1, <3>2 DEF FitsDocument, Feed
    <3> QED
      BY <2>1, <2>3, <3>3, <1>1 DEF Extract
  <2> QED
    BY <2>2, <2>3
<1> QED
  BY <1>2, <1>3

\* The version a caller reads in a feed is that of the class that filled it in,
\* and UNKNOWN exactly when no document arrived.
THEOREM ResultsFit == Spec => []ResultFitsDocument
<1>1. /\ FitsDocument(NoResult)
      /\ FitsDocument(Feed("UNKNOWN", "", ""))
      /\ \A why : FitsDocument(Throw(why))
  BY DEF FitsDocument, NoResult, Feed, Throw
<1>2. Init => ResultFitsDocument
  BY <1>1 DEF Init, ResultFitsDocument
<1>3. TypeOK /\ ResultFitsDocument /\ [Next]_vars => ResultFitsDocument'
  <2> SUFFICES ASSUME TypeOK, ResultFitsDocument, [Next]_vars
               PROVE  ResultFitsDocument'
    OBVIOUS
  <2>1. ASSUME NEW p \in Parsers, NEW r, FitsDocument(r),
               result' = [result EXCEPT ![p] = r]
        PROVE  ResultFitsDocument'
    BY <2>1 DEF ResultFitsDocument, TypeOK
  <2>2. CASE result' = result
    BY <2>2 DEF ResultFitsDocument
  <2>3. ASSUME NEW p \in Parsers, NEW why,
               Unreadable(p, why) \/ \E tree \in Trees : Readable(p, tree)
        PROVE  ResultFitsDocument'
    BY <2>1, <2>3, <1>1, ParseXmlNodeFits DEF Unreadable, Readable
  <2>4. ASSUME NEW p \in Parsers,
               Construct(p) \/ Destroy(p) \/ ParseUrlFailsToInit(p)
                   \/ PerformFails(p) \/ PerformEmpty(p)
        PROVE  ResultFitsDocument'
    BY <2>1, <2>4, <1>1
    DEF Construct, Destroy, ParseUrlFailsToInit, PerformFails, PerformEmpty
  <2>5. ASSUME NEW p \in Parsers, NEW h \in Handles \cup {NULL}, NEW t \in AnyTime,
               NEW e \in AnyEtag, NEW cookies \in BOOLEAN,
               ParseUrl(p, h, t, e, cookies)
        PROVE  ResultFitsDocument'
    BY <2>1, <2>5, <1>1 DEF ParseUrl
  <2>6. ASSUME NEW p \in Parsers, Callback(p) PROVE result' = result
    BY <2>6 DEF Callback, HandleLastModified, HandleEtag, MyWriteData
  <2>7. ASSUME NEW p \in Parsers,
               PerformBody(p) \/ ParseBuffer(p) \/ ParseFile(p)
        PROVE  ResultFitsDocument'
    BY <2>3, <2>7 DEF PerformBody, ParseBuffer, ParseFile, Buffer
  <2> QED
    BY <2>2, <2>4, <2>5, <2>6, <2>7
    DEF Next, vars, Fetch, Return, PerformTimesOut
<1> QED
  BY <1>2, <1>3, TypeCorrect, PTL DEF Spec

-----------------------------------------------------------------------------
(* FeedPolling is ParserSession in a setting: what was proved of the       *)
(* objects on their own holds of them here.                                *)

\* What the composition needs: the types, a handle and a feed for every call.
Setting == TypeOK /\ HandlesInv /\ WorldTypeOK /\ OnePollEach

\* The setting begins as its objects do, without a poll.
LEMMA SettingInit == PInit => Init /\ WorldTypeOK /\ OnePollEach
<1> SUFFICES ASSUME PInit PROVE Init /\ WorldTypeOK /\ OnePollEach
  OBVIOUS
<1>1. Init
  BY DEF PInit
<1>2. 0 \in 0..MaxClock /\ 0 \in AnyTime /\ 0 \in AnyEtag
  BY ClockAssumption DEF AnyTime, AnyEtag
<1>3. WorldTypeOK
  BY <1>2 DEF PInit, WorldTypeOK, NoReply
<1>4. OnePollEach
  BY DEF PInit, Init, OnePollEach, Performing, NoCall
<1> QED
  BY <1>1, <1>3, <1>4

\* A version is a date and a validator that a response may carry.
LEMMA VersionTypes ==
    ASSUME WorldTypeOK, NEW p \in Parsers
    PROVE  reply[p].ver \in AnyTime /\ reply[p].ver \in AnyEtag
<1>1. reply[p].ver \in 0..MaxClock
  BY DEF WorldTypeOK
<1>2. \A v \in 0..MaxClock : v = 0 \/ v \in 1..MaxClock
  BY ClockAssumption
<1> QED
  BY <1>1, <1>2, ClockAssumption, VersionAssumption DEF AnyTime, AnyEtag

\* Every step of the program, the servers and libcurl is a step the objects
\* may take, or none of theirs.
LEMMA StepOfSession == Setting /\ [PNext]_pvars => [Next]_vars
<1> SUFFICES ASSUME Setting, [PNext]_pvars, vars' # vars PROVE Next
  OBVIOUS
<1>1. PICK p \in Parsers :
          \/ Create(p) \/ Delete(p)
          \/ \E u \in Feeds, h \in Handles \cup {NULL} : Poll(p, u, h)
          \/ Redirect(p) \/ Respond(p)
          \/ \E h \in {"Last-Modified", "ETag"} : Header(p, h)
          \/ Body(p) \/ Fail(p) \/ Done(p) \/ Collect(p)
  BY DEF PNext, Publish, pvars
<1>2. ~Respond(p) /\ ~Collect(p)
  BY DEF Respond, Collect
<1>3. CASE Create(p) \/ Delete(p)
  BY <1>3 DEF Create, Delete, Next
<1>4. ASSUME NEW u \in Feeds, NEW h \in Handles \cup {NULL}, Poll(p, u, h)
      PROVE  Fetch(p)
  <2>1. ParseUrl(p, h, cache[u].lm, cache[u].et, FALSE)
    BY <1>4 DEF Poll
  <2>2. cache[u].lm \in AnyTime /\ cache[u].et \in AnyEtag
    BY DEF Setting, WorldTypeOK
  <2> QED
    BY <2>1, <2>2 DEF Fetch
<1>5. CASE Redirect(p)
  <2>1. PICK t \in RedirectTimes[job[p]] : HandleLastModified(p, t)
    BY <1>5 DEF Redirect
  <2>2. job[p] \in Feeds
    BY <1>5 DEF Redirect, Setting, WorldTypeOK, OnePollEach
  <2>3. t \in AnyTime
    BY <2>1, <2>2, RedirectsAssumption DEF AnyTime
  <2> QED
    BY <2>1, <2>3 DEF Next, Callback
<1>6. ASSUME NEW h \in {"Last-Modified", "ETag"}, Header(p, h)
      PROVE  Callback(p)
  BY <1>6, VersionTypes DEF Setting, Header, Callback
<1>7. CASE Body(p)
  BY <1>7 DEF Body, Next, Callback
<1>8. CASE Fail(p) \/ Done(p)
  BY <1>8 DEF Fail, Done, Next, Return
<1> QED
  BY <1>1, <1>2, <1>3, <1>4, <1>5, <1>6, <1>7, <1>8 DEF Next

\* How a step changes whether a call is under way and what is polled.
LEMMA CallsPolled ==
    ASSUME Setting, NEW p \in Parsers, NEW q \in Parsers
    PROVE  /\ Create(p) \/ Delete(p) \/ Fail(p) \/ Done(p)
                  => job' = job /\ (Performing(q)' => Performing(q))
           /\ Redirect(p) \/ Body(p) \/ (\E h : Header(p, h))
                  => job' = job /\ (Performing(q)' <=> Performing(q))
<1>1. ASSUME Create(p) \/ Delete(p)
      PROVE  job' = job /\ (Performing(q)' => Performing(q))
  BY <1>1 DEF Create, Delete, Construct, Destroy, Performing, world
<1>2. ASSUME Fail(p) \/ Done(p)
      PROVE  job' = job /\ (Performing(q)' => Performing(q))
  <2>1. Finish(p) /\ job' = job
    BY <1>2 DEF Fail, Done, PerformFails, PerformEmpty, PerformBody, world
  <2> QED
    BY <2>1 DEF Finish, Performing, NoCall, Setting, TypeOK
<1>3. ASSUME Redirect(p) \/ Body(p) \/ \E h : Header(p, h)
      PROVE  job' = job /\ (Performing(q)' <=> Performing(q))
  <2>1. job' = job
    BY <1>3 DEF Redirect, Body, Header, world
  <2>2. PICK r : \/ \E t : call' = [call EXCEPT ![r].lm = t]
                 \/ \E e : call' = [call EXCEPT ![r].et = e]
                 \/ call' = [call EXCEPT ![r].buf = @ + 1]
                 \/ call' = call
    BY <1>3
    DEF Redirect, Body, Header, HandleLastModified, HandleEtag, MyWriteData
  <2>3. call[q] \in Calls
    BY DEF Setting, TypeOK
  <2>4. call'[q].phase = call[q].phase
    <3>1. CASE r # q
      BY <3>1, <2>2 DEF Setting, TypeOK
    <3>2. CASE r = q
      <4>1. \/ \E t : call'[q] = [call[q] EXCEPT !.lm = t]
            \/ \E e : call'[q] = [call[q] EXCEPT !.et = e]
            \/ call'[q] = [call[q] EXCEPT !.buf = @ + 1]
            \/ call'[q] = call[q]
        BY <3>2, <2>2 DEF Setting, TypeOK
      <4> QED
        BY <4>1, <2>3 DEF Calls
    <3> QED
      BY <3>1, <3>2
  <2> QED
    BY <2>1, <2>4 DEF Performing
<1> QED
  BY <1>1, <1>2, <1>3

\* Whether a header is sent is a truth value.
LEMMA MembershipIsBoolean ==
    ASSUME NEW S, NEW x
    PROVE  (x \in S) \in BOOLEAN
BY SMT

\* Every step in the setting keeps the types, the handles and one poll each.
LEMMA SettingStep == Setting /\ [PNext]_pvars => Setting'
<1> SUFFICES ASSUME Setting, [PNext]_pvars PROVE Setting'
  OBVIOUS
<1>1. TypeOK' /\ HandlesInv'
  BY StepOfSession, TypeStep, HandlesStep DEF Setting
<1>2. WorldTypeOK /\ TypeOK /\ OnePollEach
  BY DEF Setting
<1>3. CASE UNCHANGED pvars
  BY <1>1, <1>2, <1>3
  DEF pvars, vars, world, Setting, WorldTypeOK, OnePollEach, Performing
<1>4. CASE \E u \in Feeds : Publish(u)
  <2>1. PICK u \in Feeds : Publish(u)
    BY <1>4
  <2>2. clock + 1 \in 0..MaxClock
    <3>1. clock \in 0..MaxClock /\ clock < MaxClock
      BY <2>1, <1>2 DEF Publish, WorldTypeOK
    <3>2. MaxClock \in Nat
      BY ClockAssumption
    <3> QED
      BY <3>1, <3>2
  <2>3. WorldTypeOK'
    BY <2>1, <2>2, <1>2 DEF Publish, WorldTypeOK
  <2>4. OnePollEach'
    BY <2>1, <1>2 DEF Publish, OnePollEach, vars, Performing
  <2> QED
    BY <1>1, <2>3, <2>4 DEF Setting
<1>5. ASSUME NEW p \in Parsers,
             \/ Create(p) \/ Delete(p) \/ Fail(p) \/ Done(p)
             \/ Redirect(p) \/ Body(p) \/ \E h : Header(p, h)
      PROVE  OnePollEach'
  BY <1>2, <1>5, CallsPolled DEF OnePollEach, Setting
<1>6. ASSUME NEW p \in Parsers,
             \/ Create(p) \/ Delete(p) \/ Fail(p) \/ Done(p)
             \/ Redirect(p) \/ Body(p)
      PROVE  WorldTypeOK'
  BY <1>2, <1>6
  DEF Create, Delete, Fail, Done, Redirect, Body, world, WorldTypeOK
<1>7. ASSUME NEW p \in Parsers, NEW h \in {"Last-Modified", "ETag"}, Header(p, h)
      PROVE  WorldTypeOK'
  BY <1>2, <1>7 DEF Header, WorldTypeOK
<1>8. ASSUME NEW p \in Parsers, NEW u \in Feeds, NEW h \in Handles \cup {NULL},
             Poll(p, u, h)
      PROVE  WorldTypeOK' /\ OnePollEach'
  <2>1. NoReply \in [kind : {"none", "not modified", "full"}, ver : 0..MaxClock,
                     cond : AnyTime, dated : BOOLEAN,
                     due : SUBSET {"Last-Modified", "ETag"}]
    BY ClockAssumption DEF NoReply, AnyTime
  <2>2. WorldTypeOK'
    BY <2>1, <1>2, <1>8 DEF Poll, WorldTypeOK
  <2>3. job' = [job EXCEPT ![p] = u] /\ u # NULL /\ \A q \in Parsers : job[q] # u
    BY <1>8, FeedsAssumption DEF Poll
  <2>4. \A q \in Parsers \ {p} : Performing(q)' => Performing(q)
    BY <1>2, <1>8 DEF Poll, ParseUrl, TypeOK, Performing
  <2>5. OnePollEach'
    BY <2>3, <2>4, <1>2 DEF OnePollEach, WorldTypeOK
  <2> QED
    BY <2>2, <2>5
<1>9. ASSUME NEW p \in Parsers, Respond(p)
      PROVE  WorldTypeOK' /\ OnePollEach'
  <2>1. PICK k \in {"not modified", "full"}, sent \in SUBSET {"Last-Modified", "ETag"} :
            reply' = [reply EXCEPT ![p] =
                [kind |-> k, ver |-> srv[job[p]],
                 cond |-> timevalue[call[p].slot],
                 dated |-> "Last-Modified" \in sent, due |-> sent]]
    BY <1>9 DEF Respond
  <2>2. job[p] \in Feeds
    BY <1>2, <1>9 DEF Respond, OnePollEach, WorldTypeOK
  <2>3. call[p].slot \in Slots
    BY <1>9 DEF Setting, HandlesInv, SlotsFit, Respond, Slots
  <2>4. WorldTypeOK'
    <3>1. timevalue[call[p].slot] \in AnyTime /\ srv[job[p]] \in 0..MaxClock
      BY <2>2, <2>3, <1>2 DEF TypeOK, WorldTypeOK
    <3>2. UNCHANGED <<clock, srv, cache, job, basis, used>>
      BY <1>9 DEF Respond
    <3>3. ("Last-Modified" \in sent) \in BOOLEAN
      BY MembershipIsBoolean
    <3>4. [kind |-> k, ver |-> srv[job[p]], cond |-> timevalue[call[p].slot],
           dated |-> "Last-Modified" \in sent, due |-> sent]
              \in [kind : {"none", "not modified", "full"}, ver : 0..MaxClock,
                   cond : AnyTime, dated : BOOLEAN,
                   due : SUBSET {"Last-Modified", "ETag"}]
      BY <3>1, <3>3, Zenon
    <3> QED
      BY <2>1, <3>2, <3>4, <1>2 DEF WorldTypeOK
  <2>5. OnePollEach'
    BY <1>2, <1>9 DEF Respond, OnePollEach, vars, Performing
  <2> QED
    BY <2>4, <2>5
<1>10. ASSUME NEW p \in Parsers, Collect(p)
       PROVE  WorldTypeOK' /\ OnePollEach'
  <2>1. job[p] \in Feeds /\ ~Performing(p)
    BY <1>2, <1>10 DEF Collect, WorldTypeOK, Idle, Performing
  <2>2. lm[p] \in AnyTime /\ et[p] \in AnyEtag /\ reply[p].ver \in 0..MaxClock
    BY <1>2 DEF TypeOK, WorldTypeOK
  <2>3. cache' \in [Feeds -> [lm : AnyTime, et : AnyEtag, seen : 0..MaxClock]]
    <3>1. \/ cache' = [cache EXCEPT ![job[p]] =
                 [lm |-> lm[p], et |-> et[p], seen |-> reply[p].ver]]
          \/ cache' = [cache EXCEPT ![job[p]].lm = lm[p], ![job[p]].et = et[p]]
          \/ cache' = cache
      BY <1>10 DEF Collect
    <3>2. cache \in [Feeds -> [lm : AnyTime, et : AnyEtag, seen : 0..MaxClock]]
      BY <1>2 DEF WorldTypeOK
    <3> QED
      BY <2>1, <2>2, <3>1, <3>2
  <2>4. WorldTypeOK'
    BY <2>3, <1>2, <1>10 DEF Collect, WorldTypeOK
  <2>5. OnePollEach'
    BY <2>1, <1>2, <1>10 DEF Collect, OnePollEach, WorldTypeOK, vars, Performing
  <2> QED
    BY <2>4, <2>5
<1> QED
  BY <1>1, <1>3, <1>4, <1>5, <1>6, <1>7, <1>8, <1>9, <1>10 DEF PNext, Setting

\* The setting is always as the composition needs it.
LEMMA SettingCorrect == PSpec => []Setting
<1>1. PInit => Setting
  BY SettingInit, TypeInit, HandlesInit DEF Setting
<1> QED
  BY <1>1, SettingStep, PTL DEF PSpec

\* The objects behave in a program that polls, with servers that answer and
\* libcurl's time condition, as they do on their own: whatever ParserSession
\* promises of them holds of them here.
THEOREM PollingImplementsSession == PSpec => Spec
<1>1. PInit => Init
  BY DEF PInit
<1> QED
  BY <1>1, StepOfSession, SettingCorrect, PTL DEF PSpec, Spec

-----------------------------------------------------------------------------
(* The validators.                                                         *)

\* What PollingInv says of one poll, and the state it says it of.
PollKept(p) == AskedWithKept(p) /\ ArrivedOfVersion(p) /\ FeedFollowsAnswer(p)

Own(p) == <<call[p], lm[p], et[p], result[p], job[p], basis[p], used[p], reply[p]>>

\* Versions and validators are numbers.
LEMMA Numbers ==
    ASSUME WorldTypeOK
    PROVE  /\ clock \in Nat
           /\ \A u \in Feeds : /\ srv[u] \in Nat /\ cache[u].seen \in Nat
                               /\ cache[u].lm \in Nat /\ cache[u].et \in Nat
           /\ \A p \in Parsers : /\ basis[p] \in Nat /\ reply[p].ver \in Nat
                                 /\ reply[p].cond \in Nat
<1>1. 0..MaxClock \subseteq Nat /\ AnyTime \subseteq Nat /\ AnyEtag \subseteq Nat
  BY ClockAssumption, TimesAssumption, EtagsAssumption DEF AnyTime, AnyEtag
<1>2. clock \in Nat
  BY <1>1 DEF WorldTypeOK
<1>3. ASSUME NEW u \in Feeds
      PROVE  /\ srv[u] \in Nat /\ cache[u].seen \in Nat
             /\ cache[u].lm \in Nat /\ cache[u].et \in Nat
  <2>1. srv[u] \in 0..MaxClock
    BY DEF WorldTypeOK
  <2>2. cache[u] \in [lm : AnyTime, et : AnyEtag, seen : 0..MaxClock]
    BY DEF WorldTypeOK
  <2> QED
    BY <2>1, <2>2, <1>1
<1>4. ASSUME NEW p \in Parsers
      PROVE  basis[p] \in Nat /\ reply[p].ver \in Nat /\ reply[p].cond \in Nat
  BY <1>1 DEF WorldTypeOK
<1> QED
  BY <1>2, <1>3, <1>4

\* A poll whose object, feed and kept validators a step leaves alone stays as
\* it is, also when the feed's server goes on to a later version.
LEMMA UntouchedPoll ==
    ASSUME WorldTypeOK, WorldTypeOK', NEW p \in Parsers, job[p] \in Feeds,
           PollKept(p), Own(p)' = Own(p), cache'[job[p]] = cache[job[p]],
           srv[job[p]] <= srv'[job[p]]
    PROVE  PollKept(p)'
<1>1. /\ call'[p] = call[p] /\ lm'[p] = lm[p] /\ et'[p] = et[p]
      /\ result'[p] = result[p] /\ job'[p] = job[p] /\ basis'[p] = basis[p]
      /\ used'[p] = used[p] /\ reply'[p] = reply[p]
  BY DEF Own
<1>2. ArrivedOfVersion(p)'
  BY <1>1 DEF PollKept, ArrivedOfVersion, Performing
<1>3. FeedFollowsAnswer(p)'
  BY <1>1 DEF PollKept, FeedFollowsAnswer, Performing, Dropped
<1>4. reply[p].ver <= srv[job[p]] => reply[p].ver <= srv'[job[p]]
  <2>1. reply[p].ver \in Nat /\ srv[job[p]] \in Nat
    BY Numbers
  <2>2. srv'[job[p]] \in Nat
    <3>1. srv'[job[p]] \in 0..MaxClock
      BY DEF WorldTypeOK
    <3> QED
      BY <3>1, ClockAssumption
  <2> QED
    BY <2>1, <2>2
<1>5. AskedWithKept(p)'
  BY <1>1, <1>4 DEF PollKept, AskedWithKept, Performing
<1> QED
  BY <1>2, <1>3, <1>5 DEF PollKept

\* The polls a step does not touch, and what it must keep of the others.
LEMMA PollingFromParts ==
    ASSUME Setting, PollingInv, Setting', VersionsInOrder', KeptOfVersionHeld',
           \A p \in Parsers : job'[p] # NULL =>
               \/ PollKept(p)'
               \/ /\ Own(p)' = Own(p) /\ cache'[job[p]] = cache[job[p]]
                  /\ srv[job[p]] <= srv'[job[p]]
    PROVE  PollingInv'
<1>1. ASSUME NEW p \in Parsers, job'[p] # NULL PROVE PollKept(p)'
  <2>1. CASE PollKept(p)'
    BY <2>1
  <2>2. CASE /\ Own(p)' = Own(p) /\ cache'[job[p]] = cache[job[p]]
             /\ srv[job[p]] <= srv'[job[p]]
    <3>1. job[p] # NULL
      BY <1>1, <2>2 DEF Own
    <3>2. job[p] \in Feeds /\ PollKept(p)
      BY <3>1 DEF Setting, WorldTypeOK, PollingInv, PollKept
    <3> QED
      BY <2>2, <3>2, UntouchedPoll DEF Setting
  <2> QED
    BY <1>1, <2>1, <2>2
<1> QED
  BY <1>1 DEF PollingInv, PollKept, Setting

\* A later version is published.
LEMMA PublishKeeps ==
    ASSUME Setting, PollingInv, Setting', NEW v \in Feeds, Publish(v)
    PROVE  PollingInv'
<1>1. /\ clock' = clock + 1 /\ cache' = cache
      /\ \A u \in Feeds : srv'[u] = IF u = v THEN clock + 1 ELSE srv[u]
      /\ \A p \in Parsers : Own(p)' = Own(p)
      /\ UNCHANGED job
  BY DEF Publish, Setting, WorldTypeOK, Own, vars, members
<1>2. \A u \in Feeds : cache[u].seen <= srv[u] /\ srv[u] <= clock
  BY DEF PollingInv, VersionsInOrder
<1>3. /\ clock \in Nat
      /\ \A u \in Feeds : srv[u] \in Nat /\ cache[u].seen \in Nat
  BY Numbers DEF Setting
<1>4. \A u \in Feeds : srv[u] <= srv'[u]
  BY <1>1, <1>2, <1>3
<1>5. VersionsInOrder'
  BY <1>1, <1>2, <1>3 DEF VersionsInOrder
<1>6. KeptOfVersionHeld'
  BY <1>1 DEF PollingInv, KeptOfVersionHeld, Careful, Redirected
<1>7. \A p \in Parsers : job'[p] # NULL => job[p] \in Feeds
  BY <1>1 DEF Setting, WorldTypeOK
<1> QED
  BY <1>1, <1>4, <1>5, <1>6, <1>7, PollingFromParts

\* Every step but Publish and Collect leaves the feeds and the program's copies
\* alone: what is left to show is that it keeps p's poll.
LEMMA OwnPollOnly ==
    ASSUME Setting, PollingInv, Setting', NEW p \in Parsers,
           UNCHANGED <<clock, srv, cache>>,
           \A q \in Parsers \ {p} : Own(q)' = Own(q),
           job'[p] # NULL => PollKept(p)'
    PROVE  PollingInv'
<1>1. VersionsInOrder'
  BY DEF PollingInv, VersionsInOrder
<1>2. KeptOfVersionHeld'
  BY DEF PollingInv, KeptOfVersionHeld, Careful, Redirected
<1>3. ASSUME NEW q \in Parsers \ {p}, job'[q] # NULL
      PROVE  /\ Own(q)' = Own(q) /\ cache'[job[q]] = cache[job[q]]
             /\ srv[job[q]] <= srv'[job[q]]
  <2>1. job[q] \in Feeds
    BY <1>3 DEF Own, Setting, WorldTypeOK
  <2>2. srv[job[q]] \in Nat
    BY <2>1, Numbers DEF Setting
  <2> QED
    BY <2>2
<1> QED
  BY <1>1, <1>2, <1>3, PollingFromParts

\* The calls of the other objects are on other frames: a callback of p's
\* transfer fills p's hdrs and buf.
LEMMA OwnFrame ==
    ASSUME Setting, NEW p \in Parsers, Performing(p)
    PROVE  frame[call[p].slot] = p
BY DEF Setting, HandlesInv, CallbacksReachOwnFrame

\* What libcurl and the callbacks do to a call under way, its type apart.
LEMMA CallUpdates ==
    ASSUME Setting, NEW p \in Parsers, NEW x
    PROVE  /\ \A q \in Parsers \ {p} :
                 /\ [call EXCEPT ![p].lm = x][q] = call[q]
                 /\ [call EXCEPT ![p].et = x][q] = call[q]
                 /\ [call EXCEPT ![p].buf = x][q] = call[q]
           /\ LET c == [call EXCEPT ![p].lm = x][p]
              IN  /\ c.lm = x /\ c.et = call[p].et /\ c.phase = call[p].phase
                  /\ c.slot = call[p].slot
                  /\ c.time = call[p].time /\ c.etag = call[p].etag
           /\ LET c == [call EXCEPT ![p].et = x][p]
              IN  /\ c.et = x /\ c.lm = call[p].lm /\ c.phase = call[p].phase
                  /\ c.slot = call[p].slot
                  /\ c.time = call[p].time /\ c.etag = call[p].etag
           /\ LET c == [call EXCEPT ![p].buf = x][p]
              IN  /\ c.et = call[p].et /\ c.lm = call[p].lm
                  /\ c.phase = call[p].phase /\ c.slot = call[p].slot
                  /\ c.time = call[p].time /\ c.etag = call[p].etag
<1>1. call \in [Parsers -> Calls]
  BY DEF Setting, TypeOK
<1>2. call[p] \in Calls
  BY <1>1
<1> QED
  BY <1>1, <1>2 DEF Calls

\* The program creates or deletes an object.
LEMMA LifetimeKeeps ==
    ASSUME Setting, PollingInv, Setting', NEW p \in Parsers,
           Create(p) \/ Delete(p)
    PROVE  PollingInv'
<1>1. /\ UNCHANGED world /\ call' = call
      /\ lm' = [lm EXCEPT ![p] = 0] /\ et' = [et EXCEPT ![p] = 0]
      /\ result' = [result EXCEPT ![p] = NoResult]
  BY DEF Create, Delete, Construct, Destroy
<1>2. UNCHANGED <<clock, srv, cache, job, basis, used, reply>>
  BY <1>1 DEF world
<1>3. \A q \in Parsers \ {p} : Own(q)' = Own(q)
  BY <1>1, <1>2 DEF Own, Setting, TypeOK
<1>4. ASSUME job'[p] # NULL PROVE PollKept(p)'
  <2>1. PollKept(p)
    BY <1>2, <1>4 DEF PollingInv, PollKept
  <2>2. lm'[p] = 0 /\ et'[p] = 0 /\ result'[p].kind = "none"
    BY <1>1 DEF Setting, TypeOK, NoResult
  <2>3. AskedWithKept(p)'
    BY <2>1, <1>1, <1>2 DEF PollKept, AskedWithKept, Performing
  <2>4. ArrivedOfVersion(p)'
    BY <2>1, <2>2, <1>1, <1>2
    DEF PollKept, ArrivedOfVersion, Performing
  <2>5. FeedFollowsAnswer(p)'
    BY <2>2 DEF FeedFollowsAnswer
  <2> QED
    BY <2>3, <2>4, <2>5 DEF PollKept
<1> QED
  BY <1>2, <1>3, <1>4, OwnPollOnly

\* The program starts a poll.
LEMMA PollKeeps ==
    ASSUME Setting, PollingInv, Setting', NEW p \in Parsers, NEW u \in Feeds,
           NEW h \in Handles \cup {NULL}, Poll(p, u, h)
    PROVE  PollingInv'
<1> DEFINE s == IF h = NULL THEN p ELSE h
<1>1. /\ call' = [call EXCEPT ![p] = [NoCall EXCEPT
             !.phase = "perform", !.slot = s,
             !.time = cache[u].lm, !.etag = cache[u].et]]
      /\ result' = [result EXCEPT ![p] = NoResult]
      /\ UNCHANGED <<lm, et>>
  BY DEF Poll, ParseUrl, members
<1>2. /\ job' = [job EXCEPT ![p] = u]
      /\ basis' = [basis EXCEPT ![p] = cache[u].seen]
      /\ used' = [used EXCEPT ![p] = IF h = NULL THEN "own" ELSE "lent"]
      /\ reply' = [reply EXCEPT ![p] = NoReply]
      /\ UNCHANGED <<clock, srv, cache>>
  BY DEF Poll
<1>3. \A q \in Parsers \ {p} : Own(q)' = Own(q)
  BY <1>1, <1>2 DEF Own, Setting, TypeOK, WorldTypeOK
<1>4. /\ job'[p] = u /\ basis'[p] = cache[u].seen
      /\ used'[p] = (IF h = NULL THEN "own" ELSE "lent") /\ reply'[p] = NoReply
  BY <1>2 DEF Setting, WorldTypeOK
<1>5. /\ call'[p].phase = "perform" /\ call'[p].slot = s
      /\ call'[p].time = cache[u].lm /\ call'[p].etag = cache[u].et
      /\ call'[p].lm = 0 /\ call'[p].et = 0
  BY <1>1 DEF Setting, TypeOK, NoCall
<1>6. used'[p] = "own" <=> s = p
  BY <1>4, HandlesAssumption
<1>7. AskedWithKept(p)'
  <2>1. cache'[job'[p]] = cache[u] /\ reply'[p].kind = "none"
    BY <1>2, <1>4 DEF NoReply
  <2> QED
    BY <2>1, <1>4, <1>5, <1>6 DEF AskedWithKept
<1>8. ArrivedOfVersion(p)'
  BY <1>4, <1>5 DEF ArrivedOfVersion, Performing, NoReply
<1>9. FeedFollowsAnswer(p)'
  BY <1>5 DEF FeedFollowsAnswer, Performing
<1> QED
  BY <1>2, <1>3, <1>7, <1>8, <1>9, OwnPollOnly DEF PollKept

\* A server answers.
LEMMA RespondKeeps ==
    ASSUME Setting, PollingInv, Setting', NEW p \in Parsers, Respond(p)
    PROVE  PollingInv'
<1> DEFINE s == call[p].slot
           v == srv[job[p]]
           inm == IF httpheader[s] = NULL THEN 0 ELSE slist[httpheader[s]]
           unchanged == IF inm # 0 THEN inm = v
                                   ELSE timevalue[s] # 0 /\ v <= timevalue[s]
<1>1. /\ Performing(p) /\ reply[p].kind = "none" /\ v # 0
      /\ UNCHANGED <<vars, clock, srv, cache, job, basis, used>>
  BY DEF Respond
<1>2. PICK sent : reply' = [reply EXCEPT ![p] =
          [kind |-> IF unchanged THEN "not modified" ELSE "full",
           ver |-> v, cond |-> timevalue[s],
           dated |-> "Last-Modified" \in sent, due |-> sent]]
  BY DEF Respond
<1>3. UNCHANGED <<call, lm, et, result>>
  BY <1>1 DEF vars, members
<1>4. \A q \in Parsers \ {p} : Own(q)' = Own(q)
  BY <1>1, <1>2, <1>3 DEF Own, Setting, WorldTypeOK
<1>5. /\ reply'[p].kind = IF unchanged THEN "not modified" ELSE "full"
      /\ reply'[p].ver = v /\ reply'[p].cond = timevalue[s]
  BY <1>2 DEF Setting, WorldTypeOK
<1>6. job[p] \in Feeds
  BY <1>1 DEF Setting, WorldTypeOK, OnePollEach
<1>7. PollKept(p)
  BY <1>6, FeedsAssumption DEF PollingInv, PollKept
<1>8. inm = cache[job[p]].et
  <2>1. /\ slist[p] = call[p].etag
        /\ httpheader[s] = IF call[p].etag # 0 THEN p ELSE NULL
    BY <1>1 DEF Setting, HandlesInv, RequestIsOwn
  <2>2. call[p].etag = cache[job[p]].et
    BY <1>1, <1>7 DEF PollKept, AskedWithKept
  <2> QED
    BY <2>1, <2>2, NullAssumption
<1>9. used[p] = "own" => timevalue[s] = cache[job[p]].lm
  BY <1>1, <1>7
  DEF Setting, HandlesInv, OwnTimeCondition, PollKept, AskedWithKept
<1>10. basis[p] <= v /\ v <= v
  <2>1. cache[job[p]].seen <= v
    BY <1>6 DEF PollingInv, VersionsInOrder
  <2>2. v \in Nat /\ basis[p] = cache[job[p]].seen
    BY <1>6, <1>7, Numbers DEF Setting, PollKept, AskedWithKept
  <2> QED
    BY <2>1, <2>2
<1>11. AskedWithKept(p)'
  <2>1. unchanged => cache[job[p]].et = v \/ v <= timevalue[s]
    BY <1>8
  <2> HIDE DEF v, s, inm, unchanged
  <2>2. v = srv'[job'[p]]
    BY <1>1 DEF v
  <2> QED
    BY <1>1, <1>3, <1>5, <1>7, <1>9, <1>10, <2>1, <2>2
    DEF PollKept, AskedWithKept, Performing
<1>12. ArrivedOfVersion(p)'
  BY <1>1, <1>3, <1>5, <1>7
  DEF PollKept, ArrivedOfVersion, Performing
<1>13. FeedFollowsAnswer(p)'
  BY <1>1, <1>3 DEF FeedFollowsAnswer, Performing
<1> QED
  BY <1>1, <1>4, <1>11, <1>12, <1>13, OwnPollOnly DEF PollKept

\* The headers and the body of the answer, and those of a redirect, arrive.
LEMMA ArrivalKeeps ==
    ASSUME Setting, PollingInv, Setting', NEW p \in Parsers,
           Redirect(p) \/ Body(p) \/ \E h \in {"Last-Modified", "ETag"} : Header(p, h)
    PROVE  PollingInv'
<1>1. /\ Performing(p)
      /\ UNCHANGED <<lm, et, result, clock, srv, cache, job, basis, used>>
  BY DEF Redirect, Body, Header, HandleLastModified, HandleEtag, MyWriteData,
         world, members
<1>2. job[p] \in Feeds /\ PollKept(p)
  BY <1>1, FeedsAssumption
  DEF Setting, WorldTypeOK, OnePollEach, PollingInv, PollKept
<1>3. frame[call[p].slot] = p
  BY <1>1, OwnFrame
<1>4. /\ \A q \in Parsers \ {p} : reply'[q] = reply[q]
      /\ reply'[p].kind = reply[p].kind /\ reply'[p].ver = reply[p].ver
      /\ reply'[p].cond = reply[p].cond
  <2>1. CASE Redirect(p) \/ Body(p)
    BY <2>1 DEF Redirect, Body, world
  <2>2. CASE \E h : reply' = [reply EXCEPT ![p].due = @ \ {h}]
    <3>1. reply[p] = [kind |-> reply[p].kind, ver |-> reply[p].ver,
                      cond |-> reply[p].cond, dated |-> reply[p].dated,
                      due |-> reply[p].due]
      BY DEF Setting, WorldTypeOK
    <3>2. PICK d : reply' = [reply EXCEPT ![p] = [reply[p] EXCEPT !.due = d]]
      BY <2>2
    <3>3. reply'[p] = [reply[p] EXCEPT !.due = d]
      BY <3>2 DEF Setting, WorldTypeOK
    <3>4. \A q \in Parsers \ {p} : reply'[q] = reply[q]
      BY <3>2 DEF Setting, WorldTypeOK
    <3> QED
      BY <3>1, <3>3, <3>4
  <2> QED
    BY <2>1, <2>2 DEF Header
<1>5. \/ call' = call
      \/ \E t : /\ call' = [call EXCEPT ![p].lm = t]
                /\ t = reply[p].ver \/ t \in RedirectTimes[job[p]]
      \/ call' = [call EXCEPT ![p].et = reply[p].ver]
      \/ \E x : call' = [call EXCEPT ![p].buf = x]
  <2>1. CASE Redirect(p)
    BY <2>1, <1>3 DEF Redirect, HandleLastModified
  <2>2. CASE Body(p)
    BY <2>2, <1>3 DEF Body, MyWriteData
  <2>3. ASSUME NEW h \in {"Last-Modified", "ETag"}, Header(p, h)
        PROVE  \/ call' = call
               \/ call' = [call EXCEPT ![p].lm = reply[p].ver]
               \/ call' = [call EXCEPT ![p].et = reply[p].ver]
    BY <2>3, <1>3 DEF Header, HandleLastModified, HandleEtag
  <2> QED
    BY <2>1, <2>2, <2>3
<1>6. \A q \in Parsers \ {p} : call'[q] = call[q]
  BY <1>5, CallUpdates
<1>7. /\ call'[p].phase = call[p].phase /\ call'[p].slot = call[p].slot
      /\ call'[p].time = call[p].time /\ call'[p].etag = call[p].etag
      /\ call'[p].et = call[p].et \/ call'[p].et = reply[p].ver
      /\ \/ call'[p].lm = call[p].lm \/ call'[p].lm = reply[p].ver
         \/ call'[p].lm \in RedirectTimes[job[p]]
  <2>1. CASE call' = call
    BY <2>1
  <2>2. ASSUME NEW t, call' = [call EXCEPT ![p].lm = t],
               t = reply[p].ver \/ t \in RedirectTimes[job[p]]
        PROVE  <1>7!:
    BY <2>2, CallUpdates
  <2>3. CASE call' = [call EXCEPT ![p].et = reply[p].ver]
    BY <2>3, CallUpdates
  <2>4. ASSUME NEW x, call' = [call EXCEPT ![p].buf = x] PROVE <1>7!:
    BY <2>4, CallUpdates
  <2> QED
    BY <1>5, <2>1, <2>2, <2>3, <2>4
<1>8. \A q \in Parsers \ {p} : Own(q)' = Own(q)
  BY <1>1, <1>4, <1>6 DEF Own
<1>9. AskedWithKept(p)'
  BY <1>1, <1>2, <1>4, <1>7 DEF PollKept, AskedWithKept, Performing
<1>10. ArrivedOfVersion(p)'
  BY <1>1, <1>2, <1>4, <1>7
  DEF PollKept, ArrivedOfVersion, Performing
<1>11. FeedFollowsAnswer(p)'
  BY <1>1, <1>7 DEF FeedFollowsAnswer, Performing
<1> QED
  BY <1>1, <1>8, <1>9, <1>10, <1>11, OwnPollOnly DEF PollKept

\* A feed that parse_xmlnode returns was extracted from a document by a class.
LEMMA FeedHasClass ==
    ASSUME NEW tree, NEW r \in ParseXmlNode(tree), r.kind = "feed"
    PROVE  r.by # ""
<1>1. \A why : Throw(why).kind = "throw"
  BY DEF Throw
<1>2. CASE tree.name = ""
  BY <1>1, <1>2 DEF ParseXmlNode
<1>3. CASE tree.name # ""
  <2>1. PICK d : r = IF d \in Refusals THEN Throw(d) ELSE Extract(tree, d)
    BY <1>3 DEF ParseXmlNode
  <2>2. CASE \E why : r = Throw(why)
    BY <2>2, <1>1
  <2>3. CASE ~ \E why : r = Throw(why)
    <3>1. r = Extract(tree, d)
      BY <2>1, <2>3
    <3>2. ParserFor(d) # "" /\ r = Feed(d, ParserFor(d), tree.name)
      BY <3>1, <2>3 DEF Extract
    <3> QED
      BY <3>2 DEF Feed
  <2> QED
    BY <2>2, <2>3
<1> QED
  BY <1>2, <1>3

\* A transfer ends.
LEMMA EndKeeps ==
    ASSUME Setting, PollingInv, Setting', NEW p \in Parsers, Fail(p) \/ Done(p)
    PROVE  PollingInv'
<1>1. Performing(p) /\ Finish(p) /\ UNCHANGED world
  BY DEF Fail, Done, PerformFails, PerformEmpty, PerformBody
<1>2. UNCHANGED <<clock, srv, cache, job, basis, used, reply>>
  BY <1>1 DEF world
<1>3. job[p] \in Feeds /\ PollKept(p)
  BY <1>1, FeedsAssumption
  DEF Setting, WorldTypeOK, OnePollEach, PollingInv, PollKept
<1>4. /\ call' = [call EXCEPT ![p] = NoCall]
      /\ lm' = [lm EXCEPT ![p] = call[p].lm]
      /\ et' = [et EXCEPT ![p] = call[p].et]
  BY <1>1 DEF Finish, Validators
<1>5. PICK r : /\ result' = [result EXCEPT ![p] = r]
               /\ r.kind = "feed" => reply[p].kind # "none"
               /\ r.kind = "feed" /\ r.by = ""
                      => reply[p].kind = "not modified" \/ Dropped(p)
  <2>1. \A why : Throw(why).kind # "feed"
    BY DEF Throw
  <2>2. CASE Fail(p)
    BY <2>2, <2>1 DEF Fail, PerformFails
  <2>3. CASE Done(p) /\ PerformEmpty(p) /\ (reply[p].kind = "not modified" \/ Dropped(p))
    BY <2>3 DEF PerformEmpty, Dropped
  <2>4. CASE Done(p) /\ PerformBody(p) /\ reply[p].kind = "full"
    <3>1. CASE Unreadable(p, "could not parse buffer")
      BY <3>1, <2>1 DEF Unreadable
    <3>2. ASSUME NEW tree \in Trees, Readable(p, tree)
          PROVE  \E r \in ParseXmlNode(tree) : result' = [result EXCEPT ![p] = r]
      BY <3>2 DEF Readable
    <3> QED
      BY <2>4, <3>1, <3>2, FeedHasClass DEF PerformBody, Buffer
  <2> QED
    BY <2>2, <2>3, <2>4 DEF Done
<1>6. /\ call'[p].phase = "idle" /\ lm'[p] = call[p].lm /\ et'[p] = call[p].et
      /\ result'[p] = r
  BY <1>4, <1>5 DEF Setting, TypeOK, NoCall
<1>7. \A q \in Parsers \ {p} : Own(q)' = Own(q)
  BY <1>2, <1>4, <1>5 DEF Own, Setting, TypeOK
<1>8. AskedWithKept(p)'
  BY <1>2, <1>3, <1>6 DEF PollKept, AskedWithKept, Performing
<1>9. ArrivedOfVersion(p)'
  BY <1>1, <1>2, <1>3, <1>6
  DEF PollKept, ArrivedOfVersion, Performing
<1>10. FeedFollowsAnswer(p)'
  BY <1>2, <1>5, <1>6 DEF FeedFollowsAnswer, Dropped
<1> QED
  BY <1>2, <1>7, <1>8, <1>9, <1>10, OwnPollOnly DEF PollKept

\* What a server does not find newer than what was asked with is what is held.
LEMMA NotNewer ==
    /\ \A held, ver \in Nat : \A asked \in {0, held} :
          held <= ver /\ (asked = ver \/ ver <= asked) => ver = held
    /\ \A held, ver, cond \in Nat :
          held <= ver /\ ver <= cond /\ cond <= held => ver = held
OBVIOUS

\* The program takes the result: what it keeps is of the version it then holds.
LEMMA CollectKeeps ==
    ASSUME Setting, PollingInv, Setting', NEW p \in Parsers, Collect(p)
    PROVE  PollingInv'
<1> DEFINE u == job[p]
           full == result[p].kind = "feed" /\ result[p].by # ""
           stored == /\ result[p].kind = "feed" /\ result[p].by = ""
                     /\ <<u, used[p]>> \in StoreAfterEmpty
<1>1. /\ ~Performing(p) /\ u \in Feeds /\ PollKept(p)
      /\ job' = [job EXCEPT ![p] = NULL]
      /\ UNCHANGED <<vars, clock, srv, basis, used, reply>>
  BY DEF Collect, Idle, Performing, Setting, WorldTypeOK, PollingInv, PollKept
<1>2. /\ full => cache' = [cache EXCEPT ![u] =
                    [lm |-> lm[p], et |-> et[p], seen |-> reply[p].ver]]
      /\ stored => cache' = [cache EXCEPT ![u].lm = lm[p], ![u].et = et[p]]
      /\ ~full /\ ~stored => cache' = cache
  BY DEF Collect
<1>3. cache \in [Feeds -> [lm : AnyTime, et : AnyEtag, seen : 0..MaxClock]]
  BY DEF Setting, WorldTypeOK
<1>4. \A v \in Feeds \ {u} : cache'[v] = cache[v]
  BY <1>2, <1>3
<1>5. /\ full => /\ cache'[u].lm = lm[p] /\ cache'[u].et = et[p]
                 /\ cache'[u].seen = reply[p].ver
      /\ stored => /\ cache'[u].lm = lm[p] /\ cache'[u].et = et[p]
                   /\ cache'[u].seen = cache[u].seen
      /\ ~full /\ ~stored => cache'[u] = cache[u]
  <2>1. u \in Feeds /\ cache[u] \in [lm : AnyTime, et : AnyEtag, seen : 0..MaxClock]
    BY <1>1, <1>3
  <2>2. CASE full
    <3>1. cache'[u] = [lm |-> lm[p], et |-> et[p], seen |-> reply[p].ver]
      BY <2>1, <2>2, <1>2, <1>3
    <3>2. ~stored
      BY <2>2
    <3>3. /\ cache'[u].lm = lm[p] /\ cache'[u].et = et[p]
          /\ cache'[u].seen = reply[p].ver
      BY <3>1
    <3> HIDE DEF full, stored, u
    <3> QED
      BY <2>2, <3>2, <3>3
  <2>3. CASE stored
    <3>1. cache'[u] = [cache[u] EXCEPT !.lm = lm[p], !.et = et[p]]
      BY <2>1, <2>3, <1>2, <1>3
    <3> QED
      BY <2>1, <2>3, <3>1
  <2> QED
    BY <2>2, <2>3, <1>2
<1>6. /\ reply[p].kind # "none" => reply[p].ver <= srv[u] /\ cache[u].seen <= reply[p].ver
      /\ full => reply[p].kind # "none"
      /\ et[p] \in {0, reply[p].ver}
      /\ Redirected(u) \/ lm[p] \in {0, reply[p].ver}
  BY <1>1 DEF PollKept, AskedWithKept, ArrivedOfVersion, FeedFollowsAnswer, Redirected
<1>7. ASSUME Careful(u), stored PROVE reply[p].ver = cache[u].seen
  <2>1. used[p] = "own" /\ ~Redirected(u)
    BY <1>7 DEF Careful, Redirected, Setting, WorldTypeOK
  <2>2. /\ reply[p].kind # "none" /\ reply[p].cond = cache[u].lm
        /\ reply[p].kind = "not modified" \/ Dropped(p)
        /\ cache[u].seen <= reply[p].ver
    BY <1>1, <1>7, <2>1 DEF PollKept, AskedWithKept, FeedFollowsAnswer
  <2>3. cache[u].et = reply[p].ver \/ reply[p].ver <= cache[u].lm
    BY <1>1, <2>2 DEF PollKept, AskedWithKept, Dropped
  <2>4. cache[u].et \in {0, cache[u].seen} /\ cache[u].lm \in {0, cache[u].seen}
    BY <1>1, <1>7, <2>1 DEF PollingInv, KeptOfVersionHeld
  <2>5. cache[u].seen \in Nat /\ reply[p].ver \in Nat
    BY <1>1, Numbers DEF Setting
  <2> QED
    BY <2>2, <2>3, <2>4, <2>5, NotNewer
<1>8. VersionsInOrder'
  <2>1. \A v \in Feeds : cache[v].seen <= srv[v] /\ srv[v] <= clock
    BY DEF PollingInv, VersionsInOrder
  <2>2. cache'[u].seen <= srv[u]
    BY <1>1, <1>5, <1>6, <2>1
  <2>3. \A v \in Feeds : cache'[v].seen <= srv[v]
    BY <1>4, <2>1, <2>2
  <2> QED
    BY <1>1, <2>1, <2>3 DEF VersionsInOrder
<1>9. KeptOfVersionHeld'
  <2>1. \A v \in Feeds : Careful(v) =>
            /\ cache[v].et \in {0, cache[v].seen}
            /\ Redirected(v) \/ cache[v].lm \in {0, cache[v].seen}
    BY DEF PollingInv, KeptOfVersionHeld
  <2>2. Careful(u) => /\ cache'[u].et \in {0, cache'[u].seen}
                      /\ Redirected(u) \/ cache'[u].lm \in {0, cache'[u].seen}
    BY <1>1, <1>5, <1>6, <1>7, <2>1
  <2>3. \A v \in Feeds : Careful(v) =>
            /\ cache'[v].et \in {0, cache'[v].seen}
            /\ Redirected(v) \/ cache'[v].lm \in {0, cache'[v].seen}
    BY <1>4, <2>1, <2>2
  <2> QED
    BY <2>3 DEF KeptOfVersionHeld, Careful, Redirected
<1>10. ASSUME NEW q \in Parsers, job'[q] # NULL
       PROVE  /\ Own(q)' = Own(q) /\ cache'[job[q]] = cache[job[q]]
              /\ srv[job[q]] <= srv'[job[q]]
  <2>1. q # p /\ job'[q] = job[q]
    BY <1>1, <1>10 DEF Setting, WorldTypeOK
  <2>2. job[q] \in Feeds \ {u}
    BY <1>1, <1>10, <2>1 DEF Setting, WorldTypeOK, OnePollEach
  <2>3. Own(q)' = Own(q)
    BY <1>1, <2>1 DEF Own, vars, members
  <2>4. srv[job[q]] \in Nat /\ srv' = srv
    BY <1>1, <2>2, Numbers DEF Setting
  <2> QED
    BY <1>4, <2>2, <2>3, <2>4
<1> QED
  BY <1>8, <1>9, <1>10, PollingFromParts

\* The validators a program keeps, what it asks with and what it is answered
\* with stay in step through every poll.
THEOREM PollingCorrect == PSpec => []PollingInv
<1>1. PInit => PollingInv
  <2> SUFFICES ASSUME PInit PROVE PollingInv
    OBVIOUS
  <2>1. \A u \in Feeds : /\ cache[u].seen = 0 /\ srv[u] = 0 /\ clock = 0
                         /\ cache[u].et = 0 /\ cache[u].lm = 0
    BY DEF PInit
  <2>2. VersionsInOrder /\ KeptOfVersionHeld
    BY <2>1 DEF VersionsInOrder, KeptOfVersionHeld
  <2>3. \A p \in Parsers : job[p] = NULL
    BY DEF PInit
  <2> QED
    BY <2>2, <2>3, SettingInit DEF PollingInv
<1>2. Setting /\ PollingInv /\ [PNext]_pvars /\ Setting' => PollingInv'
  <2> SUFFICES ASSUME Setting, PollingInv, [PNext]_pvars, Setting' PROVE PollingInv'
    OBVIOUS
  <2>1. CASE UNCHANGED pvars
    BY <2>1
    DEF pvars, vars, members, world, PollingInv, VersionsInOrder, OnePollEach,
        KeptOfVersionHeld, Careful, Redirected, AskedWithKept, ArrivedOfVersion,
        FeedFollowsAnswer, Dropped, Performing
  <2> QED
    BY <2>1, PublishKeeps, LifetimeKeeps, PollKeeps, RespondKeeps, ArrivalKeeps,
       EndKeeps, CollectKeeps DEF PNext
<1> QED
  BY <1>1, <1>2, SettingStep, SettingCorrect, PTL DEF PSpec

\* A feed without a document means that there is nothing new, to a caller
\* whose time condition was not later than the version it holds, however many
\* objects poll and whatever the responses leave out.
THEOREM EmptyIsNothingNew == PSpec => []EmptyMeansNothingNew
<1>1. Setting /\ PollingInv => EmptyMeansNothingNew
  <2> SUFFICES ASSUME Setting, PollingInv, NEW p \in Parsers,
                      job[p] # NULL, Idle(p), Careful(job[p]),
                      result[p].kind = "feed", result[p].by = "",
                      reply[p].cond <= basis[p]
               PROVE  reply[p].ver = basis[p]
    BY DEF EmptyMeansNothingNew
  <2>1. job[p] \in Feeds /\ PollKept(p) /\ ~Performing(p)
    BY DEF Setting, WorldTypeOK, PollingInv, PollKept, Idle, Performing
  <2>2. /\ basis[p] = cache[job[p]].seen /\ basis[p] <= reply[p].ver
        /\ cache[job[p]].et = reply[p].ver \/ reply[p].ver <= reply[p].cond
    BY <2>1 DEF PollKept, AskedWithKept, FeedFollowsAnswer, Dropped
  <2>3. cache[job[p]].et \in {0, basis[p]}
    BY <2>1, <2>2 DEF PollingInv, KeptOfVersionHeld
  <2>4. basis[p] \in Nat /\ reply[p].ver \in Nat /\ reply[p].cond \in Nat
    BY <2>1, Numbers DEF Setting
  <2>5. CASE reply[p].ver <= reply[p].cond
    BY <2>2, <2>4, <2>5, NotNewer
  <2>6. CASE cache[job[p]].et = reply[p].ver
    BY <2>2, <2>3, <2>4, <2>6, NotNewer
  <2> QED
    BY <2>2, <2>5, <2>6
<1> QED
  BY <1>1, SettingCorrect, PollingCorrect, PTL

\* No validator a careful program keeps of a feed that is not redirected is
\* newer than the document it holds.
THEOREM ValidatorsAreNotAhead == PSpec => []ValidatorsNotAhead
<1>1. Setting /\ PollingInv => ValidatorsNotAhead
  <2> SUFFICES ASSUME Setting, PollingInv, NEW u \in Feeds, Careful(u),
                      RedirectTimes[u] = {}
               PROVE  cache[u].lm <= cache[u].seen /\ cache[u].et <= cache[u].seen
    BY DEF ValidatorsNotAhead
  <2>1. cache[u].lm \in {0, cache[u].seen} /\ cache[u].et \in {0, cache[u].seen}
    BY DEF PollingInv, KeptOfVersionHeld, Redirected
  <2>2. cache[u].seen \in Nat
    BY Numbers DEF Setting
  <2> QED
    BY <2>1, <2>2
<1> QED
  BY <1>1, SettingCorrect, PollingCorrect, PTL

\* Between polls the validators are of the version a poll was answered with, or
\* of a redirect on the way to it, or there are none.
THEOREM ValidatorsAreOfTheAnswer == PSpec => []ValidatorsFitAnswer
<1>1. PollingInv => ValidatorsFitAnswer
  BY DEF PollingInv, ArrivedOfVersion, ValidatorsFitAnswer
<1> QED
  BY <1>1, SettingCorrect, PollingCorrect, PTL
=============================================================================
