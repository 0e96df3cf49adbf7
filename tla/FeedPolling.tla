----------------------------- MODULE FeedPolling -----------------------------
(***************************************************************************)
(* ParserSession in its setting: programs that poll feeds with the         *)
(* validators of their last visit, and web servers that answer 304 Not     *)
(* Modified.  The server, libcurl's handling of a time condition and the   *)
(* polling program are not code of this library; they are modelled from    *)
(* what parse_url asks of libcurl and from what it hands back.             *)
(*                                                                         *)
(* A feed's version is the time it was published at, read from one clock;  *)
(* its Last-Modified and its ETag both name that version, and a server may *)
(* leave out either.                                                       *)
(***************************************************************************)
EXTENDS ParserSession

CONSTANTS
    Feeds,              \* the URLs that are polled
    MaxClock,           \* bound: how many versions are published
    RedirectTimes,      \* the Last-Modified a feed's redirects may carry
    StoreAfterEmpty     \* the feeds, each with a kind of handle, after whose
                        \* empty results the program keeps the validators

ASSUME FeedsAssumption     == NULL \notin Feeds
ASSUME ClockAssumption     == MaxClock \in Nat /\ 1..MaxClock \subseteq Times
ASSUME VersionAssumption   == 1..MaxClock \subseteq Etags
ASSUME RedirectsAssumption == RedirectTimes \in [Feeds -> SUBSET Times]
ASSUME StoreAssumption     == StoreAfterEmpty \subseteq Feeds \X {"own", "lent"}

VARIABLES
    clock,      \* the versions published so far
    srv,        \* the version a feed's server holds, 0 before the first
    cache,      \* the program's validators of a feed, and the version it holds
    job,        \* the feed an object polls, NULL when its result is collected
    basis,      \* the version the program held of it when it asked
    used,       \* the kind of handle it asked with
    reply       \* the server's answer and the time condition it was asked under

world == <<clock, srv, cache, job, basis, used, reply>>
pvars == <<vars, world>>

NoReply == [kind |-> "none", ver |-> 0, cond |-> 0, dated |-> FALSE, due |-> {}]

PInit ==
    /\ Init
    /\ clock = 0
    /\ srv = [u \in Feeds |-> 0]
    /\ cache = [u \in Feeds |-> [lm |-> 0, et |-> 0, seen |-> 0]]
    /\ job = [p \in Parsers |-> NULL]
    /\ basis = [p \in Parsers |-> 0]
    /\ used = [p \in Parsers |-> "own"]
    /\ reply = [p \in Parsers |-> NoReply]

-----------------------------------------------------------------------------
(* The program.                                                            *)

Create(p) == Construct(p) /\ UNCHANGED world

Delete(p) == job[p] = NULL /\ Destroy(p) /\ UNCHANGED world

\* A program does not poll the same feed twice at a time.
Poll(p, u, h) ==
    /\ job[p] = NULL /\ \A q \in Parsers : job[q] # u
    /\ ParseUrl(p, h, cache[u].lm, cache[u].et, FALSE)
    /\ job' = [job EXCEPT ![p] = u]
    /\ basis' = [basis EXCEPT ![p] = cache[u].seen]
    /\ used' = [used EXCEPT ![p] = IF h = NULL THEN "own" ELSE "lent"]
    /\ reply' = [reply EXCEPT ![p] = NoReply]
    /\ UNCHANGED <<clock, srv, cache>>

\* A feed that arrived replaces the program's copy, with get_last_modified and
\* get_etag; one without a document leaves the copy; an exception leaves all.
Collect(p) ==
    LET u == job[p]
    IN  /\ Idle(p) /\ u # NULL
        /\ job' = [job EXCEPT ![p] = NULL]
        /\ CASE result[p].kind = "feed" /\ result[p].by # "" ->
                   cache' = [cache EXCEPT ![u] =
                       [lm |-> lm[p], et |-> et[p], seen |-> reply[p].ver]]
             [] result[p].kind = "feed" /\ result[p].by = ""
               /\ <<u, used[p]>> \in StoreAfterEmpty ->
                   cache' = [cache EXCEPT ![u].lm = lm[p], ![u].et = et[p]]
             [] OTHER -> cache' = cache
        /\ UNCHANGED <<vars, clock, srv, basis, used, reply>>

-----------------------------------------------------------------------------
(* The servers.                                                            *)

Publish(u) ==
    /\ clock < MaxClock
    /\ clock' = clock + 1
    /\ srv' = [srv EXCEPT ![u] = clock + 1]
    /\ UNCHANGED <<vars, cache, job, basis, used, reply>>

\* If-None-Match decides when it is there, else If-Modified-Since.
Respond(p) ==
    LET s   == call[p].slot
        v   == srv[job[p]]
        inm == IF httpheader[s] = NULL THEN 0 ELSE slist[httpheader[s]]
        unchanged == IF inm # 0 THEN inm = v
                                ELSE timevalue[s] # 0 /\ v <= timevalue[s]
    IN  /\ Performing(p) /\ reply[p].kind = "none" /\ v # 0
        /\ \E sent \in SUBSET {"Last-Modified", "ETag"} :
               reply' = [reply EXCEPT ![p] =
                   [kind |-> IF unchanged THEN "not modified" ELSE "full",
                    ver |-> v, cond |-> timevalue[s],
                    dated |-> "Last-Modified" \in sent, due |-> sent]]
        /\ UNCHANGED <<vars, clock, srv, cache, job, basis, used>>

\* The response of a redirect, which has headers of its own.
Redirect(p) ==
    /\ Performing(p) /\ reply[p].kind = "none"
    /\ \E t \in RedirectTimes[job[p]] : HandleLastModified(p, t)
    /\ UNCHANGED world

Header(p, h) ==
    /\ h \in reply[p].due
    /\ \/ h = "Last-Modified" /\ HandleLastModified(p, reply[p].ver)
       \/ h = "ETag" /\ HandleEtag(p, reply[p].ver)
    /\ reply' = [reply EXCEPT ![p].due = @ \ {h}]
    /\ UNCHANGED <<clock, srv, cache, job, basis, used>>

-----------------------------------------------------------------------------
(* libcurl.  It drops the body of a document that is not newer than the    *)
(* time condition.                                                         *)

Dropped(p) ==
    reply[p].kind = "full" /\ reply[p].dated /\ reply[p].ver <= reply[p].cond

Body(p) ==
    /\ reply[p].kind = "full" /\ reply[p].due = {} /\ ~Dropped(p)
    /\ MyWriteData(p)
    /\ UNCHANGED world

Fail(p) == PerformFails(p) /\ UNCHANGED world

\* A transfer ends well with the whole body or, rightly, with none.
Done(p) ==
    /\ reply[p].due = {}
    /\ \/ reply[p].kind = "not modified" /\ PerformEmpty(p)
       \/ Dropped(p) /\ PerformEmpty(p)
       \/ reply[p].kind = "full" /\ call[p].buf = MaxChunks /\ PerformBody(p)
    /\ UNCHANGED world

-----------------------------------------------------------------------------
PNext ==
    \/ \E u \in Feeds : Publish(u)
    \/ \E p \in Parsers :
          \/ Create(p) \/ Delete(p)
          \/ \E u \in Feeds, h \in Handles \cup {NULL} : Poll(p, u, h)
          \/ Redirect(p) \/ Respond(p) \/ \E h \in {"Last-Modified", "ETag"} : Header(p, h)
          \/ Body(p) \/ Fail(p) \/ Done(p) \/ Collect(p)

PSpec == PInit /\ [][PNext]_pvars

-----------------------------------------------------------------------------
(* Properties.                                                             *)

\* The program keeps the validators of an empty result only of a feed that is
\* not redirected and only where parse_url created the handle.
Careful(u) ==
    /\ <<u, "lent">> \notin StoreAfterEmpty
    /\ <<u, "own">> \in StoreAfterEmpty => RedirectTimes[u] = {}

(***************************************************************************)
(* The empty feed parse_url returns (parser.cpp:174-179) means what a      *)
(* careful caller takes it for, "nothing new": the server's version is the *)
(* one the caller held when it asked.  A transfer or a parse that failed,  *)
(* whose validators are already in lm and et (parser.cpp:147-148), never   *)
(* looks like one.  The premise excludes a time condition later than the   *)
(* version held: one another call left on a borrowed handle                *)
(* (parser.cpp:133-136), or the Last-Modified of a redirect                *)
(* (parser.cpp:60-69).                                                     *)
(***************************************************************************)
EmptyMeansNothingNew ==
    \A p \in Parsers :
        /\ job[p] # NULL /\ Idle(p) /\ Careful(job[p])
        /\ result[p].kind = "feed" /\ result[p].by = ""
        /\ reply[p].cond <= basis[p]
        => reply[p].ver = basis[p]

(***************************************************************************)
(* The validators a careful program keeps of a feed that is not redirected *)
(* are never newer than the document it holds, whatever handles it polls   *)
(* with, and even if it stores those of an empty feed: no version can be   *)
(* announced as known that was never delivered (parser.cpp:145-179).       *)
(***************************************************************************)
ValidatorsNotAhead ==
    \A u \in Feeds : Careful(u) /\ RedirectTimes[u] = {} =>
        cache[u].lm <= cache[u].seen /\ cache[u].et <= cache[u].seen

(***************************************************************************)
(* What get_last_modified and get_etag return after a poll is of the       *)
(* version the server answered this poll with, or nothing, or, of the time,*)
(* from a redirect on the way to it: never left from an earlier transfer   *)
(* of the object, maybe of another feed, nor of a version published since, *)
(* on every way out of parse_url and after every redirect                  *)
(* (parser.cpp:52-80, 145-179).                                            *)
(***************************************************************************)
ValidatorsFitAnswer ==
    \A p \in Parsers : job[p] # NULL /\ ~Performing(p) =>
        /\ et[p] \in {0, reply[p].ver}
        /\ lm[p] \in {0, reply[p].ver} \cup RedirectTimes[job[p]]

-----------------------------------------------------------------------------
(* The inductive invariant of the properties, beside those of              *)
(* ParserSession's handles.                                                *)

\* The types of the variables this module adds.
WorldTypeOK ==
    /\ clock \in 0..MaxClock
    /\ srv \in [Feeds -> 0..MaxClock]
    /\ cache \in [Feeds -> [lm : AnyTime, et : AnyEtag, seen : 0..MaxClock]]
    /\ job \in [Parsers -> Feeds \cup {NULL}]
    /\ basis \in [Parsers -> 0..MaxClock]
    /\ used \in [Parsers -> {"own", "lent"}]
    /\ reply \in [Parsers ->
           [kind : {"none", "not modified", "full"}, ver : 0..MaxClock,
            cond : AnyTime, dated : BOOLEAN,
            due : SUBSET {"Last-Modified", "ETag"}]]

Redirected(u) == RedirectTimes[u] # {}

\* Versions are published in order, and a program holds what was published.
VersionsInOrder ==
    \A u \in Feeds : cache[u].seen <= srv[u] /\ srv[u] <= clock

\* A call under way polls a feed, which no other object polls.
OnePollEach ==
    /\ \A p \in Parsers : Performing(p) => job[p] # NULL
    /\ \A p, q \in Parsers : job[p] = job[q] /\ job[p] # NULL => p = q

\* The validators a careful program keeps are those of the version it holds.
KeptOfVersionHeld ==
    \A u \in Feeds : Careful(u) =>
        /\ cache[u].et \in {0, cache[u].seen}
        /\ Redirected(u) \/ cache[u].lm \in {0, cache[u].seen}

\* A call asks with what the program keeps of the feed, and an answer is
\* given to what was asked, with a version not older than the one held.
AskedWithKept(p) ==
    LET u == job[p]
    IN  /\ basis[p] = cache[u].seen
        /\ Performing(p) => /\ call[p].time = cache[u].lm
                            /\ call[p].etag = cache[u].et
                            /\ used[p] = "own" <=> call[p].slot = p
        /\ reply[p].kind # "none" =>
               /\ basis[p] <= reply[p].ver /\ reply[p].ver <= srv[u]
               /\ used[p] = "own" => reply[p].cond = cache[u].lm
        /\ reply[p].kind = "not modified" =>
               cache[u].et = reply[p].ver \/ reply[p].ver <= reply[p].cond

\* The validators that arrive are those of the version answered with, or of a
\* redirect.
ArrivedOfVersion(p) ==
    LET l == IF Performing(p) THEN call[p].lm ELSE lm[p]
        e == IF Performing(p) THEN call[p].et ELSE et[p]
    IN  /\ reply[p].kind = "none" => reply[p].ver = 0
        /\ e \in {0, reply[p].ver}
        /\ l \in {0, reply[p].ver} \cup RedirectTimes[job[p]]

\* A feed follows an answer, and one without a document an answer without one.
FeedFollowsAnswer(p) ==
    ~Performing(p) /\ result[p].kind = "feed" =>
        /\ reply[p].kind # "none"
        /\ result[p].by = "" => reply[p].kind = "not modified" \/ Dropped(p)

PollingInv ==
    /\ VersionsInOrder
    /\ OnePollEach
    /\ KeptOfVersionHeld
    /\ \A p \in Parsers : job[p] # NULL =>
           AskedWithKept(p) /\ ArrivedOfVersion(p) /\ FeedFollowsAnswer(p)
=============================================================================
