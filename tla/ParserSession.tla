---------------------------- MODULE ParserSession ----------------------------
(***************************************************************************)
(* The objects of class feedpp::parser that a program creates, and what    *)
(* their calls do to the things that outlive a call: the members doc, lm   *)
(* and et of the object, the XML documents on the heap, and the curl easy  *)
(* handles, which keep every option a call has set on them.                *)
(*                                                                         *)
(* Calls of different objects run in different threads.  A call of         *)
(* parse_url is split where it is open to the world: ParseUrl is the code  *)
(* up to curl_easy_perform, the callbacks run while it transfers, and one  *)
(* of the Perform... actions is its return, with everything parse_url does *)
(* after it.  The rest of the code touches the caller's object and the     *)
(* handle of this call alone, so that each piece is one action.            *)
(*                                                                         *)
(* What the program must do for itself is in the guards: it calls an       *)
(* object from one thread at a time, does not destroy an object during a   *)
(* call, and lends a handle to one call at a time (libcurl's own rule).    *)
(***************************************************************************)
EXTENDS Integers, FeedFormat

CONSTANTS
    Parsers,        \* the parser objects
    Handles,        \* the easy handles the program owns and lends to calls
    Docs,           \* the addresses an XML document can be allocated at
    Times,          \* the values of Last-Modified, 0 excepted
    Etags,          \* the values of ETag, the empty one (0) excepted
    Configured,     \* the optional settings each object was constructed with
    Trees,          \* the documents that arrive
    MaxChunks,      \* bound: how many pieces of a body are told apart
    NULL

Settings == {"USERAGENT", "TIMEOUT", "PROXY", "PROXYAUTH"}
Options  == Settings \cup {"PROXYTYPE", "COOKIES"}

ASSUME ConfiguredAssumption == Configured \in [Parsers -> SUBSET Settings]
ASSUME HandlesAssumption    == Parsers \cap Handles = {}
ASSUME NullAssumption       == NULL \notin Parsers \cup Handles \cup Docs
ASSUME TimesAssumption      == Times \subseteq Nat \ {0}
ASSUME EtagsAssumption      == Etags \subseteq Nat \ {0}
ASSUME MaxChunksAssumption  == MaxChunks \in Nat
ASSUME TreesAssumption      == Trees \subseteq
    [name : STRING, ns : STRING, version : STRING, channel : BOOLEAN]

\* A slot is an easy handle: one the program lends, or the one the call of
\* object p creates for itself, which is slot p.
Slots == Parsers \cup Handles

AnyTime == Times \cup {0}
AnyEtag == Etags \cup {0}

VARIABLES
    alive,          \* the objects that are constructed and not destroyed
    doc, lm, et,    \* the members of the objects
    heap,           \* the documents that are allocated
    easy,           \* the easy handles that exist
    setting,        \* the object whose value of an option a handle holds
    timevalue,      \* CURLOPT_TIMEVALUE of a handle, 0 without TIMECONDITION
    httpheader,     \* CURLOPT_HTTPHEADER of a handle: whose list it points to
    frame,          \* CURLOPT_WRITEDATA and HEADERDATA: whose buf and hdrs
    slist,          \* the If-None-Match of the call's live header list, or 0
    call,           \* the call in progress: its arguments, hdrs and buf
    result          \* how the object's last call ended

members == <<doc, lm, et>>
handles == <<easy, setting, timevalue, httpheader, frame>>
vars    == <<alive, members, heap, handles, slist, call, result>>

NoCall == [phase |-> "idle", slot |-> NULL, time |-> 0, etag |-> 0,
           lm |-> 0, et |-> 0, buf |-> 0]

Calls == [phase : {"idle", "perform"}, slot : Slots \cup {NULL},
          time : AnyTime, etag : AnyEtag, lm : AnyTime, et : AnyEtag,
          buf : 0..MaxChunks]

Idle(p)       == p \in alive /\ call[p].phase = "idle"
Performing(p) == call[p].phase = "perform"

\* What a handle holds after curl_easy_init.
Defaults == [o \in Options |-> NULL]

Init ==
    /\ alive = {}
    /\ doc = [p \in Parsers |-> NULL]
    /\ lm = [p \in Parsers |-> 0]
    /\ et = [p \in Parsers |-> 0]
    /\ heap = {}
    /\ easy = Handles
    /\ setting = [s \in Slots |-> Defaults]
    /\ timevalue = [s \in Slots |-> 0]
    /\ httpheader = [s \in Slots |-> NULL]
    /\ frame = [s \in Slots |-> NULL]
    /\ slist = [p \in Parsers |-> 0]
    /\ call = [p \in Parsers |-> NoCall]
    /\ result = [p \in Parsers |-> NoResult]

-----------------------------------------------------------------------------
(* The constructor and the destructor.                                     *)

Construct(p) ==
    /\ p \notin alive
    /\ alive' = alive \cup {p}
    /\ doc' = [doc EXCEPT ![p] = NULL]
    /\ lm' = [lm EXCEPT ![p] = 0]
    /\ et' = [et EXCEPT ![p] = 0]
    /\ result' = [result EXCEPT ![p] = NoResult]
    /\ UNCHANGED <<heap, handles, slist, call>>

\* The document the destructor hands to xmlFreeDoc, if there is one.
Freed(p) == {doc[p]} \ {NULL}

Destroy(p) ==
    /\ Idle(p)
    /\ alive' = alive \ {p}
    /\ heap' = heap \ Freed(p)
    /\ doc' = [doc EXCEPT ![p] = NULL]
    /\ lm' = [lm EXCEPT ![p] = 0]
    /\ et' = [et EXCEPT ![p] = 0]
    /\ result' = [result EXCEPT ![p] = NoResult]
    /\ UNCHANGED <<handles, slist, call>>

-----------------------------------------------------------------------------
(* parse_url up to curl_easy_perform: h is the handle the caller passes,   *)
(* NULL to have one created; t, e and cookies are the other arguments.     *)

\* Faults: the proxy type belongs to the proxy; a brace that ends too late.
Fault_SetByProxy(p, cookies) ==
    Configured[p] \cup (IF "PROXY" \in Configured[p] THEN {"PROXYTYPE"} ELSE {})
                  \cup (IF cookies THEN {"COOKIES"} ELSE {})

Fault_SetByTimeout(p, cookies) ==
    (Configured[p] \ (IF cookies THEN {} ELSE {"TIMEOUT"})) \cup {"PROXYTYPE"}
                  \cup (IF cookies THEN {"COOKIES"} ELSE {})

SetBy(p, cookies) ==
    Configured[p] \cup {"PROXYTYPE"}
                  \cup (IF cookies THEN {"COOKIES"} ELSE {})

\* curl_easy_init returned NULL.
ParseUrlFailsToInit(p) ==
    /\ Idle(p)
    /\ result' = [result EXCEPT ![p] = Throw("couldn't initialize libcurl")]
    /\ UNCHANGED <<alive, members, heap, handles, slist, call>>

\* Faults: callbacks are set up on a new handle only; either validator will do.
Fault_SetOptionsFrame(p, s, t, e, cookies) ==
    /\ setting' = [setting EXCEPT ![s] =
           [o \in Options |-> IF o \in SetBy(p, cookies) THEN p ELSE @[o]]]
    /\ timevalue' = IF t # 0 THEN [timevalue EXCEPT ![s] = t] ELSE timevalue
    /\ httpheader' = IF e # 0 THEN [httpheader EXCEPT ![s] = p]
                              ELSE httpheader
    /\ frame' = IF s = p THEN [frame EXCEPT ![s] = p] ELSE frame

Fault_SetOptionsTime(p, s, t, e, cookies) ==
    /\ setting' = [setting EXCEPT ![s] =
           [o \in Options |-> IF o \in SetBy(p, cookies) THEN p ELSE @[o]]]
    /\ timevalue' = IF t # 0 /\ e = 0 THEN [timevalue EXCEPT ![s] = t]
                                      ELSE timevalue
    /\ httpheader' = IF e # 0 THEN [httpheader EXCEPT ![s] = p]
                              ELSE httpheader
    /\ frame' = [frame EXCEPT ![s] = p]

\* The setopt calls on slot s.  An option that is not set keeps its value.
SetOptions(p, s, t, e, cookies) ==
    /\ setting' = [setting EXCEPT ![s] =
           [o \in Options |-> IF o \in SetBy(p, cookies) THEN p ELSE @[o]]]
    /\ timevalue' = IF t # 0 THEN [timevalue EXCEPT ![s] = t] ELSE timevalue
    /\ httpheader' = IF e # 0 THEN [httpheader EXCEPT ![s] = p]
                              ELSE httpheader
    /\ frame' = [frame EXCEPT ![s] = p]

ParseUrl(p, h, t, e, cookies) ==
    LET s == IF h = NULL THEN p ELSE h
    IN  /\ Idle(p)
        /\ \A q \in Parsers : Performing(q) => call[q].slot # h
        /\ easy' = easy \cup {s}
        /\ SetOptions(p, s, t, e, cookies)
        /\ slist' = [slist EXCEPT ![p] = e]
        /\ call' = [call EXCEPT ![p] = [NoCall EXCEPT
                       !.phase = "perform", !.slot = s,
                       !.time = t, !.etag = e]]
        /\ result' = [result EXCEPT ![p] = NoResult]
        /\ UNCHANGED <<alive, members, heap>>

-----------------------------------------------------------------------------
(* The callbacks.  libcurl hands them the pointer stored in the handle.    *)

\* What curl_getdate returns for a date it cannot read.
BadDate == -1

\* Fault: the date is stored whether it was read or not.
Fault_HandleLastModified(p, t) ==
    LET q == frame[call[p].slot]
    IN  /\ Performing(p)
        /\ call' = [call EXCEPT ![q].lm = t]
        /\ UNCHANGED <<alive, members, heap, handles, slist, result>>

\* Every response of a redirected request brings its headers; the last counts.
HandleLastModified(p, t) ==
    LET q == frame[call[p].slot]
    IN  /\ Performing(p)
        /\ call' = IF t = BadDate THEN call ELSE [call EXCEPT ![q].lm = t]
        /\ UNCHANGED <<alive, members, heap, handles, slist, result>>

HandleEtag(p, e) ==
    LET q == frame[call[p].slot]
    IN  /\ Performing(p)
        /\ call' = [call EXCEPT ![q].et = e]
        /\ UNCHANGED <<alive, members, heap, handles, slist, result>>

MyWriteData(p) ==
    LET q == frame[call[p].slot]
    IN  /\ Performing(p)
        /\ call[q].buf < MaxChunks
        /\ call' = [call EXCEPT ![q].buf = @ + 1]
        /\ UNCHANGED <<alive, members, heap, handles, slist, result>>

-----------------------------------------------------------------------------
(* Reading a document.  The pointer to the previous one is overwritten,    *)
(* the document itself is not freed.                                       *)

\* Faults: the old document is freed and the pointer kept; a failed parse is
\* reported as a feed without items.
Fault_UnreadableFrees(p, why) ==
    /\ doc' = doc
    /\ heap' = heap \ {doc[p]}
    /\ result' = [result EXCEPT ![p] = Throw(why)]

Fault_UnreadableFeed(p, why) ==
    /\ doc' = [doc EXCEPT ![p] = NULL]
    /\ heap' = heap
    /\ result' = [result EXCEPT ![p] = Feed("UNKNOWN", "", "")]

Unreadable(p, why) ==
    /\ doc' = [doc EXCEPT ![p] = NULL]
    /\ heap' = heap
    /\ result' = [result EXCEPT ![p] = Throw(why)]

Readable(p, tree) ==
    \E d \in Docs \ heap :
        /\ doc' = [doc EXCEPT ![p] = d]
        /\ heap' = heap \cup {d}
        /\ \E r \in ParseXmlNode(tree) : result' = [result EXCEPT ![p] = r]

\* parse_buffer, once the call has been entered.
Buffer(p) ==
    \/ Unreadable(p, "could not parse buffer")
    \/ \E tree \in Trees : Readable(p, tree)

ParseBuffer(p) ==
    /\ Idle(p)
    /\ Buffer(p)
    /\ UNCHANGED <<alive, lm, et, handles, slist, call>>

ParseFile(p) ==
    /\ Idle(p)
    /\ \/ Unreadable(p, "could not parse file")
       \/ \E tree \in Trees : Readable(p, tree)
    /\ UNCHANGED <<alive, lm, et, handles, slist, call>>

-----------------------------------------------------------------------------
(* parse_url from the return of curl_easy_perform.                         *)

\* Fault: the list is freed without taking it off the handle.
Fault_HeadersAfter(p) == httpheader

\* The list is taken off the handle before it is freed.
HeadersAfter(p) ==
    IF slist[p] # 0 THEN [httpheader EXCEPT ![call[p].slot] = NULL]
                    ELSE httpheader

\* The handle this call created is destroyed and with it its options.
Cleanup(p) ==
    /\ easy' = easy \ {p}
    /\ setting' = [setting EXCEPT ![p] = Defaults]
    /\ timevalue' = [timevalue EXCEPT ![p] = 0]
    /\ httpheader' = [HeadersAfter(p) EXCEPT ![p] = NULL]
    /\ frame' = [frame EXCEPT ![p] = NULL]

\* Fault: the list is taken off with the other options of a created handle.
Fault_Keep(p) ==
    UNCHANGED <<easy, httpheader, setting, timevalue, frame>>

\* The caller's handle keeps its options.
Keep(p) ==
    /\ httpheader' = HeadersAfter(p)
    /\ UNCHANGED <<easy, setting, timevalue, frame>>

\* Fault: a response without an ETag does not clear the one before.
Fault_Validators(p) ==
    /\ lm' = [lm EXCEPT ![p] = call[p].lm]
    /\ et' = IF call[p].et # 0 THEN [et EXCEPT ![p] = call[p].et] ELSE et

\* lm and et are assigned before the result of the transfer is looked at.
Validators(p) ==
    /\ lm' = [lm EXCEPT ![p] = call[p].lm]
    /\ et' = [et EXCEPT ![p] = call[p].et]

Finish(p) ==
    /\ Validators(p)
    /\ IF call[p].slot = p THEN Cleanup(p) ELSE Keep(p)
    /\ slist' = [slist EXCEPT ![p] = 0]
    /\ call' = [call EXCEPT ![p] = NoCall]
    /\ alive' = alive

\* Faults: the exception is thrown before the cleanup; no exception is thrown.
Fault_PerformFailsEarly(p) ==
    /\ Performing(p)
    /\ Validators(p)
    /\ Keep(p)
    /\ slist' = [slist EXCEPT ![p] = 0]
    /\ call' = [call EXCEPT ![p] = NoCall]
    /\ result' = [result EXCEPT ![p] = Throw("transfer")]
    /\ UNCHANGED <<alive, doc, heap>>

Fault_PerformFailsSilently(p) ==
    /\ Performing(p)
    /\ Finish(p)
    /\ result' = [result EXCEPT ![p] = Feed("UNKNOWN", "", "")]
    /\ UNCHANGED <<doc, heap>>

\* curl_easy_perform fails: cleanup, then the exception.
PerformFails(p) ==
    /\ Performing(p)
    /\ Finish(p)
    /\ result' = [result EXCEPT ![p] = Throw("transfer")]
    /\ UNCHANGED <<doc, heap>>

\* It fails because the time set with CURLOPT_TIMEOUT has passed.
PerformTimesOut(p) ==
    /\ Performing(p) /\ setting[call[p].slot]["TIMEOUT"] # NULL
    /\ PerformFails(p)

\* It succeeds without a body, as for 304 Not Modified.
PerformEmpty(p) ==
    /\ Performing(p) /\ call[p].buf = 0
    /\ Finish(p)
    /\ result' = [result EXCEPT ![p] = Feed("UNKNOWN", "", "")]
    /\ UNCHANGED <<doc, heap>>

PerformBody(p) ==
    /\ Performing(p) /\ call[p].buf > 0
    /\ Finish(p)
    /\ Buffer(p)

-----------------------------------------------------------------------------
Callback(p) ==
    \/ \E t \in AnyTime \cup {BadDate} : HandleLastModified(p, t)
    \/ \E e \in AnyEtag : HandleEtag(p, e)
    \/ MyWriteData(p)

Return(p) ==
    \/ PerformFails(p)
    \/ PerformTimesOut(p)
    \/ PerformEmpty(p)
    \/ PerformBody(p)

Fetch(p) ==
    \/ ParseUrlFailsToInit(p)
    \/ \E h \in Handles \cup {NULL}, t \in AnyTime, e \in AnyEtag,
          cookies \in BOOLEAN : ParseUrl(p, h, t, e, cookies)

Next == \E p \in Parsers :
    Construct(p) \/ Destroy(p) \/ Fetch(p) \/ Callback(p) \/ Return(p)
                 \/ ParseBuffer(p) \/ ParseFile(p)

\* libcurl ends a transfer once its time has passed.
Fairness == \A p \in Parsers : WF_vars(PerformTimesOut(p))

Spec     == Init /\ [][Next]_vars
FairSpec == Spec /\ Fairness

-----------------------------------------------------------------------------
(* Properties.                                                             *)

\* The type invariant.
TypeOK ==
    /\ alive \subseteq Parsers
    /\ doc \in [Parsers -> Docs \cup {NULL}]
    /\ lm \in [Parsers -> AnyTime]
    /\ et \in [Parsers -> AnyEtag]
    /\ heap \subseteq Docs
    /\ easy \subseteq Slots
    /\ setting \in [Slots -> [Options -> Parsers \cup {NULL}]]
    /\ timevalue \in [Slots -> AnyTime]
    /\ httpheader \in [Slots -> Parsers \cup {NULL}]
    /\ frame \in [Slots -> Parsers \cup {NULL}]
    /\ slist \in [Parsers -> AnyEtag]
    /\ call \in [Parsers -> Calls]
    /\ result \in [Parsers -> Results({tree.name : tree \in Trees})]

(***************************************************************************)
(* However many objects borrow a handle one after the other, the request   *)
(* under way on it carries the If-None-Match of its own call, and no       *)
(* If-None-Match when its call gave no etag (parser.cpp:139-142, 150-154). *)
(***************************************************************************)
RequestIsOwn ==
    \A p \in Parsers : Performing(p) =>
        /\ slist[p] = call[p].etag
        /\ httpheader[call[p].slot] = IF call[p].etag # 0 THEN p ELSE NULL

(***************************************************************************)
(* The headers and the body of a transfer go to the buf and hdrs of the    *)
(* call that runs it, never to the frame of a call that has returned or    *)
(* of another thread (parser.cpp:106, 130): two transfers under way are on *)
(* different handles, and each handle points to its own call's frame.      *)
(***************************************************************************)
CallbacksReachOwnFrame ==
    \A p \in Parsers : Performing(p) =>
        /\ call[p].slot \in easy
        /\ frame[call[p].slot] = p
        /\ \A q \in Parsers \ {p} : Performing(q) => call[q].slot # call[p].slot

(***************************************************************************)
(* A handle never points to a header list that was freed, nor to that of   *)
(* another call: a list on a handle is the live list of the call under way *)
(* on it (parser.cpp:150-154).                                             *)
(***************************************************************************)
NoFreedHeaderList ==
    \A s \in Slots : httpheader[s] # NULL =>
        LET p == httpheader[s]
        IN  Performing(p) /\ call[p].slot = s /\ slist[p] # 0

(***************************************************************************)
(* Every way out of parse_url, the exception included, gives back what the *)
(* call took: the easy handles that exist are the program's and those of   *)
(* the calls under way on a handle of their own, and a header list lives   *)
(* no longer than its call (parser.cpp:150-171).                           *)
(***************************************************************************)
NothingLeaksOnReturn ==
    /\ easy = Handles \cup {p \in Parsers : Performing(p) /\ call[p].slot = p}
    /\ \A p \in Parsers : slist[p] # 0 => Performing(p)

(***************************************************************************)
(* The condition If-Modified-Since of a request is the lastmodified of its *)
(* call, if the call uses a handle of its own or gives one.  (With a       *)
(* borrowed handle and lastmodified = 0 an earlier call's stays in force:  *)
(* parser.cpp:133-136 sets the option and nothing resets it.)              *)
(***************************************************************************)
OwnTimeCondition ==
    \A p \in Parsers :
        Performing(p) /\ (call[p].slot = p \/ call[p].time # 0)
            => timevalue[call[p].slot] = call[p].time

(***************************************************************************)
(* An object's own configuration wins over what earlier calls left on the  *)
(* handle, and on a handle of its own nothing but its configuration is in  *)
(* force (parser.cpp:99-127).                                              *)
(***************************************************************************)
ConfigurationWins ==
    \A p \in Parsers : Performing(p) =>
        \A o \in Options :
            /\ o \in Configured[p] \cup {"PROXYTYPE"}
                   => setting[call[p].slot][o] = p
            /\ call[p].slot = p /\ o \in Settings \ Configured[p]
                   => setting[p][o] = NULL

\* The handle of a call is borrowed or its own, and a handle that no call of
\* its object has created holds no options.
SlotsFit ==
    /\ \A p \in Parsers : Performing(p) => call[p].slot \in Handles \cup {p}
    /\ \A p \in Parsers : ~(Performing(p) /\ call[p].slot = p)
           => setting[p] = Defaults /\ timevalue[p] = 0

(***************************************************************************)
(* The inductive invariant of the handles: the properties above, of which  *)
(* none is inductive alone, and SlotsFit (parser.cpp:91-171).              *)
(***************************************************************************)
HandlesInv ==
    /\ SlotsFit
    /\ RequestIsOwn
    /\ CallbacksReachOwnFrame
    /\ NoFreedHeaderList
    /\ NothingLeaksOnReturn
    /\ OwnTimeCondition
    /\ ConfigurationWins

(***************************************************************************)
(* The document an object points to is allocated, no two objects point to  *)
(* the same one, and an object that was destroyed points to none: the      *)
(* destructor frees no document twice and none that another object uses    *)
(* (parser.cpp:37-41, 185-189, 205-208).                                   *)
(***************************************************************************)
DocumentsOwned ==
    /\ \A p \in Parsers : doc[p] # NULL => p \in alive /\ doc[p] \in heap
    /\ \A p, q \in Parsers : doc[p] = doc[q] /\ doc[p] # NULL => p = q

\* The inductive invariant of the documents: only an object that exists runs
\* a call, so that no document is given to one that was destroyed.
DocumentsInv ==
    /\ DocumentsOwned
    /\ \A p \in Parsers : Performing(p) => p \in alive

(***************************************************************************)
(* The class that extracted a feed is the one for the name of the root     *)
(* element and the version the caller is told; a feed is UNKNOWN exactly   *)
(* when no document was parsed for it (parser.cpp:174-179, 231-307 and     *)
(* parser_factory.cpp:8-25).                                               *)
(***************************************************************************)
ClassesOf(root) ==
    CASE root = "rss"  -> {"rss_09x_parser", "rss_20_parser"}
      [] root = "RDF"  -> {"rss_10_parser"}
      [] root = "feed" -> {"atom_parser"}
      [] OTHER         -> Classes

FitsDocument(r) ==
    r.kind = "feed" =>
        /\ r.version = "UNKNOWN" <=> r.by = ""
        /\ r.by # "" => /\ r.by \in ClassesOf(r.root)
                        /\ r.by = ParserFor(r.version)

ResultFitsDocument == \A p \in Parsers : FitsDocument(result[p])

(***************************************************************************)
(* A document is freed together with the pointer to it and by no other     *)
(* object: nothing is left pointing to it, and a document whose pointer    *)
(* the next parse overwrites stays allocated (parser.cpp:37-41, 185, 205). *)
(***************************************************************************)
OwnerFreesStep ==
    \A d \in heap \ heap' : /\ \E p \in alive : doc[p] = d
                            /\ \A p \in Parsers : doc'[p] # d

FreedByItsOwner == [][OwnerFreesStep]_vars

(***************************************************************************)
(* A call of an object with a timeout returns, whatever the server does    *)
(* and whoever used the handle before (parser.cpp:116-117).                *)
(***************************************************************************)
TimeoutEndsCall ==
    \A p \in Parsers : "TIMEOUT" \in Configured[p] =>
        (Performing(p) ~> ~Performing(p))
=============================================================================
