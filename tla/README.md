# A TLA+ verification of feedpp

feedpp is a C++ library that fetches RSS and Atom feeds with libcurl, parses
them with libxml2 and hands them to a program as `feedpp::feed` objects. This
directory holds TLA+ modules that model it, configurations that model-check the
modules with TLC, and proofs for TLAPS. `PROJECT.json` lists the runs, relates
every definition to the lines of source it models, and names the hazards of the
code with the properties that cover them.

    tlc -config session_calls.cfg MCParserSession     # a run
    tlapm UtilsProofs.tla                             # the proofs of a module

Paths below are relative to the root of the repository, as `src/src/parser.cpp`.

## 1. The system

### Components

| Component | State it keeps | Operations | Modules |
|---|---|---|---|
| Parser objects and transfers: `src/src/parser.cpp`, `src/inc/parser.h` | per object: `doc`, `lm`, `et` and the settings given to the constructor; per call of `parse_url`: `buf`, `hdrs`, the header list and the easy handle; on a handle: every option ever set on it | constructor, destructor, `parse_url`, `parse_buffer`, `parse_file`, `get_last_modified`, `get_etag`, callbacks `my_write_data` and `handle_headers` | `ParserSession` |
| Format detection and factory: `parse_xmlnode`, `src/src/parser_factory.cpp` | none | from root element to version, from version to class | `FeedFormat` |
| A program that polls, web servers, libcurl's time condition (external) | the validators a program stores, the versions on a server | poll, publish, answer, collect | `FeedPolling` |
| XML access: `src/src/rss_parser.cpp` | none (`get_xml_content` changes the tree it reads) | `get_content`, `get_xml_content`, `get_prop`, `node_is` | `XmlNodes` |
| RSS 0.9x and 2.0: `src/src/rss_09x_parser.cpp` | member `ns`; locals of `parse_item` | `parse_feed`, `parse_item` | `Rss09xParser` |
| RSS 1.0: `src/src/rss_10_parser.cpp` | locals | `parse_feed`, `parse_item` | `Rss10Parser` |
| Atom: `src/src/atom_parser.cpp` | members `ns`, `globalbase`; locals of `parse_entry` | `parse_feed`, `parse_entry` | `AtomParser` |
| Lock file: `try_fs_lock`, `remove_fs_lock` in `src/src/utils.cpp` | a file, its lock and its text; descriptors that stay open | both, by several processes | `FsLock`, `ExclusiveLock` |
| Child processes in `src/src/utils.cpp` | the descriptors of the program, pipes, children | `run_program`, `run_command`, `get_command_output`, by several threads | `ChildProcesses`, `ProgramCalls` |
| Dates: `src/src/date.cpp` | the static buffers of `localtime` and `asctime` | `format`, `w3cdtf_to_tm`, by several threads | `Dates`; as the parsers see it, `FormatDate` of `XmlNodes` |
| String helpers in `src/src/utils.cpp` | none | four tokenizers, quoting, trimming, replacing, `extract_filter`, `partition_indexes` | `Texts` |
| URL helpers in `src/src/utils.cpp` | none | `absolute_url`; `escape_url`, `unescape_url` | in part: `AbsoluteUrl` of `XmlNodes`, `Texts` |
| OpenSSL locking callbacks | an array of mutexes | | not modelled |
| Exceptions, logging, headers, tests, build files | none of their own | | not modelled |

### How they interact

A program constructs a `parser` and calls `parse_url`, which sets the options of
an easy handle (its own or one the program lends it) and enters
`curl_easy_perform`. libcurl calls back into `my_write_data` and
`handle_headers` with pointers stored *on the handle*. When the transfer ends the
call takes the header list off the handle, destroys the handle if it is its own,
copies the validators to `lm` and `et`, and then either throws, returns an empty
feed, or passes the body to `parse_buffer`. That gives a document to the object
and calls `parse_xmlnode`, which detects the version, asks the factory for a
class and lets it walk the tree. Each class is a loop over children with a chain
of tests, and fills in one `feed`. The program reads `lm` and `et` and passes them
to the next call. The RSS parsers call `date::format` for every date. The helpers
of `utils` are called by the program, not by the parsers; only `absolute_url` is
used by the Atom parser.

### What is hard

- **State on a handle.** A handle outlives the calls that use it, and keeps what
  they set. Two objects that share one can send each other's headers, conditions,
  credentials or time limits, or have libcurl write to a frame that is gone.
- **Ways out of `parse_url`.** It throws when no handle can be created, when the
  transfer fails and wherever `parse_buffer` does, and returns an empty feed or a parsed
  one; `lm` and `et` are assigned before it is known which.
- **Validators.** A conditional request is right only if the program's validators
  describe the document it holds. Redirects, failures and empty bodies all
  deliver headers.
- **Order of elements.** Nothing prescribes the order of elements in a feed, or
  how often they come; fallbacks (author, date, summary) are decided after a loop.
- **Namespaces and bases.** Extensions reuse the names of RSS elements, and
  `xml:base` nests.
- **Processes.** Several processes race for a lock file, are killed while they do,
  and may remove the file.
- **Pipes.** `run_program` writes all its input before it reads any output, and every
  child inherits what all threads of the program have open.
- **Threads in static buffers.** Two threads that parse dates at the same time share
  the results of `localtime` and `asctime`, the second of which is used across four calls.
- **Local time.** A date with a zone is converted to local time with the offset of *now*;
  the tests want UTC.
- **Ignored results.** `try_fs_lock` and `run_program` do not look at what `ftruncate` and
  `write` return.
- **Hand-written scanners.** Four tokenizers with their own rules for the ends of a
  text, quotes and backslashes; index arithmetic in `unsigned int`.
- **Undefined values.** `rss_version` and `guid_isPermaLink` are not initialised.

The list with lines and the properties for each is under `hazards`.

### What makes each component correct

| Component | Correct when |
|---|---|
| Parser objects | each request is its caller's own; nothing leaks or is freed twice; a timeout ends a call |
| Format detection | the class that extracts a feed is the one for the document and the version reported |
| Polling | an empty feed means nothing new; validators are of the version answered with; stored ones are never ahead of the stored document |
| Feed parsers | what an item holds was read from its own elements, the right ones, in whatever order they came |
| Lock file | at most one holder; a holder's file names it if it could be written; a dead holder locks nobody out |
| Child processes | the whole output is returned; the call and its child do not wait for each other |
| Dates | a text names the instant, or shows the wall time, of the date it was made from |
| String helpers | what one helper writes another one reads back; the tokenizers agree on what a token is |

## 2. The modules

One action stands for one operation, handler or branch; a piece of code that
touches only its caller's data is one action, and a call is split where others
can interfere with it. Definitions called `Fault_...` are deliberate mistakes next
to the definition they would replace. No specification uses one. They show that
a property depends on the definition: with the fault in place TLC finds it
violated (`mutants` in `PROJECT.json` says which).

### FeedFormat

`parse_xmlnode` and `factory::get_object` as a function from a root element to
the *set* of possible results. It is a set because of the uninitialised
`rss_version`: for a root that is not `rss`, `RDF` or `feed` the factory switches on
an indeterminate value, so an HTML page may be rejected or go to any class.

### ParserSession

`Construct`, `Destroy`; `ParseUrl` (everything up to `curl_easy_perform`, of which
`SetOptions` is the part on the handle) and `ParseUrlFailsToInit`; the callbacks
`HandleLastModified`, `HandleEtag`, `MyWriteData`; `PerformFails`,
`PerformTimesOut`, `PerformEmpty`, `PerformBody` (the end of the transfer and all of
`parse_url` after it); `ParseBuffer` and `ParseFile`.

| Variable | Code |
|---|---|
| `doc`, `lm`, `et` | the members of an object |
| `heap` | the `xmlDoc`s allocated; `Docs` are addresses that are used again once freed |
| `easy` | the handles that exist: the program's, and slot `p` for one object `p` creates |
| `setting`, `timevalue`, `httpheader`, `frame` | the options on a handle: whose value of a setting it holds, `CURLOPT_TIMEVALUE`, whose header list it points to, whose `buf` and `hdrs` |
| `slist` | the live header list of a call, by its `If-None-Match` |
| `call` | the call in progress: arguments, handle, `hdrs` and `buf` |
| `result` | the feed returned or exception thrown |

A setting is modelled by the object whose value is in force: it is what the
properties tell apart. A body is a number of chunks; which document it parses to
is a choice among `Trees`, or that it cannot be parsed. What the program has to
respect is in guards: one call at a time per object, no destruction during a
call, and one call at a time per handle, which is libcurl's rule. The copy of
`doc` that the implicit copy constructor would make is not modelled: a program
that copies a `parser` frees its document twice.

### FeedPolling

Extends `ParserSession` with a program that stores validators and a document per
feed (`cache`), a server that publishes versions (`srv`, `clock`) and answers with
304 or with the document, with or without `Last-Modified` and `ETag`, directly or
after a redirect with headers of its own, and libcurl's time condition, which
drops a body that is not newer. All of it is external, modelled from how
`parse_url` uses it. `StoreAfterEmpty` decides whether the program keeps the
validators that come with an empty feed. Two things servers may do are not in it: an
answer 200 with an empty body, which `parse_url` reports as "nothing new" as well, and a
redirect that carries an `ETag`; the redirects deliver a `Last-Modified` only.

### XmlNodes, Rss09xParser, Rss10Parser, AtomParser

A node is a record of what the parsers ask for. Texts are classes (`date`,
`relative`, `has <`) and carry the number of the node they were read from, so that a
property can say *where* a member of an item must come from. A document is not
fixed in advance: each step visits another element from a set of shapes, so that
TLC goes through every document up to the bound. A step is one pass of a loop,
by the branch that takes the node; `BeginItem` and `EndItem` are the call of
`parse_item` and what it does after its loop. `XmlNodes` models what the code
does also where it is odd: `GetProp` has the two branches as they are in
`src/src/rss_parser.cpp:77-86`, that is, with a namespace any attribute of that name
is taken.

The texts of author elements are strings of which `AuthorParts` of `Rss09xParser` takes the
address and the name, character by character as `src/src/rss_09x_parser.cpp:119-130` does. For
the field `)` the code reads far outside the string: `AuthorReadsOutside` is the crash
or exception that may follow, `Author` the outcome without one.

The properties speak of the element of an item that decides: `Visits` are the places
of the elements of a name among those visited, and `LastAmong` is the last of some. They
are defined beside what they are compared with, not by it: a parser keeps members
and locals up to date as it goes, the properties look back at the whole item.

### FsLock and ExclusiveLock

A step is one system call of `try_fs_lock`: `OpenExisting`/`OpenNew`/`OpenFails`,
`Lock`/`LockRefused`, `Truncate`/`TruncateFails`, `WritePid`/`WritePidFails`,
`Reopen`/`ReopenFails`, `ReadPid`/`ReadFails`.
`RemoveFsLock` is `remove_fs_lock`, `Start` and `End` are processes that begin, and that end
or are killed anywhere. `fds` holds the inodes a process keeps open: no branch of
`try_fs_lock` closes the first descriptor. `lockf` has POSIX record lock semantics: a
process never blocks itself, and closing *any* descriptor of an inode drops the
process's lock on it. So `ReadPid`, which closes the second descriptor, releases
a lock the process might have.

The results of `ftruncate` and `write` are ignored (lines 238, 239), and `try_fs_lock` returns
true whatever they are. After `TruncateFails` the old text is still there; after `WritePidFails`
the file is as it was, or holds some other text, which may be the id of another process (a
short write, or one over a longer text) or of none (`JUNK`). The variable `failed` has the
processes whose last lock came with such a failure, for the one property that has to except them.
`ReadFails` takes the id from a buffer nothing was read into; that the code writes
a 0 at `buf[-1]` then is not modelled.

`ExclusiveLock` is the abstract specification: one holder or none, and whoever is
told that it has the lock is the holder. `FsLock` implements it with
`holder <- IF path = NULL THEN NULL ELSE lock[path]` and `told` = `HoldersOfFile`, the processes
whose last call returned true and that have opened no other file than the one the path names. Removing
the file gives the lock up for whoever had it.

### ChildProcesses and ProgramCalls

The threads of a program in `run_program` (`RunProgram`, `OutputPipe`, `Fork` or
`ForkFails`, `CloseChildEnds`, `Write`, `CloseInput`, `Read`, `ReadEnd`), in
`get_command_output` (`GetCommandOutput`, `PopenFails`, then `Read` and `ReadEnd` as
well) and in `run_command` (`RunCommand`, which waits for nothing). A step is a system
call or, for a `write` of more than the pipe holds, the part of it that has an effect.

| Variable | Code |
|---|---|
| `fds` | the pipe ends the program has open, of all its threads; `<<c, "iw">>` is `ipipe[1]` of the call of `c` |
| `pc`, `size`, `left`, `buf` | where a call is, its input, what is not yet written, what is read |
| `ipipe`, `opipe` | how much is in the two pipes |
| `child`, `notify` | the children: whether they run, what they hold, the ends they have open |
| `result` | what a call returned, until the next one |

Of the data only the amount is kept. The programs that are run are external: one
that `copies` writes what it has read before it reads on, as `cat` does, one that
`collects` reads all its input first, as `sort` does; each may fail anywhere
(`ChildFails`), also because it cannot be executed. A write nobody can read raises
SIGPIPE: it ends the program (`WriteKills`) or, where the program ignores it, fails
unnoticed (`WriteFails`). Left out: a `read` that a signal interrupts, after which the loop
(line 360) ends as at the end of the output, with a part of it; `pipe` that fails (no call is made), the zombies
and leaked descriptors (hazards without a property: nothing in the code would make one
true).

`ProgramCalls` is the abstract specification: a thread asks for the output of a program
and is told it, all of it or, only if the child failed, a part. `ChildProcesses` implements
it with `asked` = the size of the call under way and `told <- result`; forks, pipes and
the steps of children are stutters.

### Dates

`Format` is `date::format` up to its first use of a shared buffer: the choice of the
pattern and what `strptime` reads. `LocaltimeOfNow`, `AddOffset`, `LocaltimeOfSum`
and `Memcpy` are `w3cdtf_to_tm` from `time()` on; `Asctime` and `Copy` are the last line of
`format`. A step ends where the code writes or has read a buffer that all threads
share. Two calls in one buffer are a race, so either may find a mixture
(`Mix`). Time is counted in hours; `Tick` puts local time back or forward. What
the code does with dates was confirmed with the compiled `date.cpp` and glibc:

- `mktime` is given `tm_isdst = 0` and the offset added is that of now, so the sum is the instant
  of the date in winter, and an hour later in summer (`src/src/date.cpp:144-146`);
- the sum is then converted to local time, not to UTC (line 147);
- `%T` stores nothing of a time without seconds, so `RFC822_NTZ`, `NOWEEKDAY` dates
  without them become midnight; a W3CDTF date without seconds, or with `+0200`
  instead of `+02:00`, loses its zone;
- the ISO8601 branch is unreachable, as W3CDTF matches everything it does;
- for the other patterns the text is the wall time of the document, whatever its
  zone. A two-digit year becomes a year of the first century; years are not modelled.

### Texts

Constant operators for the helpers of class `utils` that work on strings, one per
function. Their loops have one form: `Along` follows the places a loop goes through, from a
given one on, and puts together what each step appends; the operators say what a step appends
and where it goes on (`Token`, `NextTo`). `Along` is the only recursive function, so that one
induction serves all proofs. `MCTexts` grows lists of texts by a character at a time and
evaluates the operators on all of them. A character is told apart from another one where one of
the functions does: the space (which alone makes quotes necessary), the tab, the newline, the
carriage return, and the vertical tab, which stands for the form feed, too. The operators agree
with the compiled functions on all texts of up to five of these characters, and of letters,
quotes and backslashes. Odd things they keep: which backslash of a
pair is kept alternates, from pair to pair and from token to token
(`Unquoted`); `\v` is not replaced though the comment at `src/src/utils.cpp:60` lists
it; `extract_filter` with one colon makes the whole line the url, as `npos + 1` is 0;
`trim` takes only line ends off the end, and off the front whatever `isspace` accepts, more than
the tokenizers throw away; `tokenize_nl` has a newline for each carriage return; `partition_indexes` with more parts than indexes
wraps around for `start = 0`. `ReplaceEvery` is for a `from` that is not empty:
`replace_all` never returns for an empty one.

## 3. The runs

| Run | Instance | Checks | Shows |
|---|---|---|---|
| `session_handles` | 2 objects with different settings, 1 lent handle, 2 times, 1 etag | `RequestIsOwn`, `CallbacksReachOwnFrame`, `NoFreedHeaderList`, `NothingLeaksOnReturn`, `OwnTimeCondition`, `ConfigurationWins` | every order of calls on own and borrowed handles, ending in every way, keeps requests apart and gives back what it took |
| `session_calls` | 2 objects, one with a timeout, 1 handle, 2 addresses, all root elements | `TypeOK`, `ResultFitsDocument`, `DocumentsOwned`, `FreedByItsOwner`, `TimeoutEndsCall` | documents are freed once, by their owner, though addresses are used again; the class fits the document; a call with a timeout ends |
| `polling` | 1 object, 2 feeds of which one is redirected, 3 versions, own and lent handles; the program keeps the validators of an empty result of one feed | `EmptyMeansNothingNew`, `ValidatorsNotAhead`, `ValidatorsFitAnswer` | a careful program misses no version, whatever handles it polls with, and validators are of the version answered with |
| `rss09x` | documents of 4 nodes, 2 items | `ItemsKeepToThemselves`, `ForeignElementsIgnored`, `DateDoesNotDependOnOrder`, `AuthorDoesNotDependOnOrder`, `EnclosureIsWhole`, `GuidSaysWhetherLink` | fallbacks and choices do not depend on the order of elements |
| `rss10` | documents of 5 nodes | `FeedAndItemsApart`, `ItemsKeepToThemselves` | nested loops keep channels and items apart |
| `atom` | documents of 4 nodes, 3 namespaces, 2 entries | `ItemsKeepToThemselves`, `SummaryStandsIn`, `TypeBelongsToText`, `DateDoesNotDependOnOrder`, `LinksByRelation`, `LinkUsesNearestBase` | the same for Atom, with modes, types and bases |
| `fslock` | 3 processes, 2 inodes | `TypeOK`, `MutualExclusion`, `HolderIsNamed`, `ImplementsLock` | of those that use the file of that name at most one has the lock (implements `ExclusiveLock`), and its file names it if its `ftruncate` and `write` did not fail |
| `child_processes` | 2 threads, pipes and reads of 1, an input at the limit and one beyond it | `BlockedOnlyBySize`, `ImplementsCalls`, `CallsReturn` | each call is answered once, with the whole output of its child unless that fails (implements `ProgramCalls`), and blocks only if its input fills the pipes or another child has inherited an end of them |
| `dates` | 3 threads, dates of every pattern and form in both seasons, read in winter and in summer | `InstantKept`, `WallTimeKept` | a date read in winter becomes the local time of its instant, or keeps its wall time, if no other call came across |
| `texts` | lists of 2 texts of together 5 characters from three alphabets of 7; all ranges of 8 indexes | `WrittenIsReadBack`, `TokensAgree`, `PartsCoverRange` | quoting and reading are inverse, the tokenizers agree, and parts partition a range |
| `fslock_pid` | 2 processes | `PidZeroMeansFailure` | **is violated**, see the findings |
| `dates_utc` | 2 threads, one date of winter, UTC in winter, read in both seasons | `TextIsUtc` | **is violated**, see the findings |

### Where a property has a premise

The code does not give the unconditional property; the premise says how far it goes.

- `OwnTimeCondition`: `CURLOPT_TIMECONDITION` is set when `lastmodified` is not 0 and
  never reset (`src/src/parser.cpp:133-136`). On a borrowed handle a call without
  one inherits that of the call before, maybe for another URL. Likewise
  `ConfigurationWins` allows a borrowed handle to hold settings its object has not
  configured.
- `EmptyMeansNothingNew`: consequently a program may be told "nothing new" by the
  condition of another feed, or by the `Last-Modified` of a redirect that an
  earlier call stored. Both are outside the premise `cond <= basis`.
- `Careful`, in both properties: a program that keeps the validators of an
  *empty* result made with a borrowed handle, or of a feed that is redirected, may
  keep validators of a document it never got. The program of the run is careful with both
  feeds: it keeps the validators of empty results of the feed that is not redirected,
  with a handle of the call's own. The theorems are for any `StoreAfterEmpty`.
- `ValidatorsFitAnswer` has no premise, but allows the time of a redirect, which `parse_url`
  does not tell from that of the final response.
- `ResultFitsDocument`: for a root element with an unknown name any class is allowed, as the
  version is indeterminate.
- `HolderIsNamed`: not of a process whose `ftruncate` or `write` failed when it took the
  lock. It is told that it has the lock, and has it, but its file may name anyone.
- `BlockedOnlyBySize` and `CallsReturn`: `TooMuch` is the input with which `run_program`
  and a program that copies do wait for each other for ever; `Inherited` is the child of
  another thread that was forked between `pipe` and `close`, whose copy of the end keeps
  the pipe open. Both happen in the run; the properties say that nothing else does.
- `InstantKept` and `WallTimeKept`: calls that `crossed` another one in a buffer are
  excused, since then the code promises nothing. All others are claimed, in particular
  those that overlap another call elsewhere. `InstantKept` is for calls that ask for the
  offset in winter; in summer the text is an hour late, as `dates_utc` shows.
- `WrittenIsReadBack`: quoted texts without a backslash, as `quote` does not escape any; for
  `quote_if_necessary` texts that have a space, or else no blank of any kind and neither a quote
  nor a # in front: `a<tab>b` is left bare (`src/src/utils.cpp:645`) and read back as
  two tokens. URLs without `%3F` and `%26` in them, as `unescape_url` cannot tell
  them from what `escape_url` wrote.
- `TokensAgree`: `trim` does not change the tokens of a text whose first character that is
  no delimiter is not a vertical tab or form feed, which `isspace` accepts; and the tokens of
  `tokenize_nl` are the text with newlines for its carriage returns.
- `MutualExclusion` and `ImplementsLock`: for the processes that have opened no file but the one
  the path names (`HoldersOfFile`). A process that opened the file before it was removed can
  lock an inode without a name while another one locks the new file, and both are told that they
  have the lock. That happens in the run; the properties say that it takes a removed file.
- `TypeBelongsToText` (Atom): at most one content and one summary per entry, which is
  what Atom prescribes. With two contents a type of an unknown mode replaces that of
  the text that stays.

### Findings

`fslock_pid`: a comment in `try_fs_lock` says "pid == 0 indicates that something went
majorly wrong during locking" (`src/src/utils.cpp:226`). A caller whose `lockf` is
refused after the holder has locked the file, but before it has written its id
(lines 235-239), reads an empty file: it returns false with pid 0 although
nothing failed. Two processes that each call once are enough.

`dates_utc`: the tests want "Tue, 30 Dec 2008 07:20:00 +0000" (`src/src/unitest.cpp:79`) for
2008-12-30T08:20:00+01:00 (`src/data/rss10_1.xml:25`), and UTC for Atom, too
(`src/src/unitest.cpp:89`). They do not get it in London in summer: the offset that makes up for
`mktime` is that of the present time (`src/src/date.cpp:144-146`), so the text of the same date is
an hour later in summer than in winter. Nor do they get it at any time where local time
is never UTC, since `w3cdtf_to_tm` then converts the instant with `std::localtime` (line 147);
`InstantIsKept` proves that the text of a date read in winter is local time. (The text is that of `asctime`, which has
another form than the tests want and no zone; the model has the time only.)

### Bounds, and why they are enough

- Objects and processes do not count each other: each hazard is about an actor and
  *another* one, which two objects show. Three processes are the least with which
  one can hold, one be refused and one arrive in between. Two inodes are
  a file that was removed and the one that is new. One lent handle is
  enough for what calls leave to each other; two lent handles never interact. For the
  properties that are proved the numbers do not matter.
- Two objects with two addresses: an address is used again while the other one is
  in use. `Readable` needs a free address, so a program that has leaked them all can
  still fail to parse; a leak is a state, not a dead end.
- `MaxChunks` tells an empty body from one that is not, and with 2 a body that arrives in part.
- Three versions: the one held, a newer one, and one published during a transfer.
- Four or five nodes: a property of two elements and their order needs an item with
  two elements, and a second item to mix them with. Four nodes allow an item with
  three elements, five allow a channel and two items with texts.
- Pipes of one byte and reads of one: full and empty are then one step apart, and the
  limit `2 * Capacity + 1` is 3, so that an input at the limit and one beyond are run. For
  the two invariants the theorems lift the bounds. At most one command of
  `run_command` runs at a time.
- Three threads in `Dates`: two in one buffer while the third is in the other.
  Five hours of summer and one hour on each side of its boundaries stand for a year:
  the code adds offsets and never counts days.
- Five characters: an escaped quote inside two quoted texts with a delimiter, or a whole
  URL escape with a character on each side. The three alphabets are for quoting,
  for blanks and for URLs; the theorems are for texts that mix them.
- `Word = 8` stands for 2^32: `partition_indexes` divides, adds and wraps only.

`session_handles` uses `VIEW HandleView`: the members, documents and results influence
no guard and none of its properties once no document can be allocated (`Docs` is
empty in that run). `dates` uses `VIEW View`, which leaves out a call that another one
came across, and a buffer that only such calls are using: no property speaks of
them, and what they write reaches only calls that are crossed by it. `fslock` uses `VIEW View`,
which leaves out the ids that calls have returned, why they returned no lock, and what is in inodes that
nobody can open any more: no guard asks for them, and of the properties `TypeOK` alone, for their types. Symmetry is used
for document addresses, processes, inodes and the threads of `dates` only, in runs
without liveness: `Parsers` have different settings and are not symmetric, the threads of
`child_processes` have different inputs, and versions are ordered.
`CHECK_DEADLOCK FALSE` is in the runs of the three feed parsers, because a document
ends, in `texts`, because the growth of the texts does, and in `child_processes`, because
calls may wait for each other for ever, as said above: there `BlockedOnlyBySize`
says when, and `CallsReturn` is checked besides. All others check for deadlock.

### Fairness

There are two assumptions. `WF_vars(PerformTimesOut(p))`, in `FairSpec` of
`ParserSession`: libcurl promises that a transfer takes no longer than
`CURLOPT_TIMEOUT`, so a transfer on a handle with one ends. No server is assumed to
answer and no program to call. `TimeoutEndsCall` claims the end only of calls of
objects with a timeout; others may block for ever, and the model lets them.

`WF_vars(Continue(c))` and `WF_vars(Child(c))`, in `FairSpec` of `ChildProcesses`: the
operating system lets a thread whose system call can return, and a program that can read,
write or end, go on. That a child fails, that the program calls anything, and that the
child of `run_command` ever ends is not assumed. Weak fairness is enough for `CallsReturn`
because no thread can take away from another one what it waits for.

No other module claims liveness: the loops of the feed parsers end because a document
does, and `try_fs_lock` does not wait.

## 4. The proofs

`ParserSessionProofs` proves, for any number of objects, handles and documents and
any settings:

- `TypeCorrect`: the type invariant. Needed by all others.
- `HandlesCorrect`: `HandlesInv`, and from it `RequestsAreOwn`, `HeaderListsLive`,
  `CallbacksAreOwn`, `NothingLeaks`, `TimeConditionsAreOwn` and `OptionsAreOwn`. None of its parts is inductive alone. That a
  request carries its own etag needs that no list was left on the handle
  (`NoFreedHeaderList`); that in turn needs every call to take off its own handle what
  it put there, hence that no two calls share a handle (`CallbacksReachOwnFrame`); and that
  a created handle starts with nothing is `SlotsFit`. Its proof divides the steps in three
  kinds (`StepKinds`): a call begins (`ParseUrlPreservesHandles`), ends
  (`FinishPreservesHandles`), or the handles and slots are left alone
  (`KeptPreservesHandles`).
- `DocumentsCorrect`: `DocumentsInv`, and from it `DocumentsAreOwned` and the action
  property `OwnerFrees`. The strengthening is that only a constructed object runs a call;
  else a body could be given to an object that was destroyed.
- `ResultsFit`: from `ParseXmlNodeFits`, the same for all trees, not only those of a run.

The same module proves of `FeedPolling`, for any number of feeds and versions, any redirects
and any `StoreAfterEmpty`:

- `PollingImplementsSession` (`PSpec => Spec`): a library among servers and programs is a
  `ParserSession`, so that what is proved of that holds here. It needs `Setting`: that a call under way has a feed and a handle of its own, or
  a step of the setting could not be told to be one of the library.
- `PollingCorrect`: `PollingInv`, and from it `EmptyIsNothingNew`, `ValidatorsAreNotAhead` and `ValidatorsAreOfTheAnswer`.
  That what a program stores is not ahead (`KeptOfVersionHeld`) needs that what arrives is of the
  version answered with (`ArrivedOfVersion`), also across the end of the call and until the
  program collects it, and that an empty feed is given only to an answer without a
  document (`FeedFollowsAnswer`), from which it follows that the version has not changed:
  the answer was given to what the program keeps (`AskedWithKept`), and versions only
  grow (`VersionsInOrder`). `OnePollEach` says that nobody else stores for that feed
  meanwhile. The proof has a lemma for each kind of step, and `OwnPollOnly` for the rest: a step of
  one object disturbs the poll of no other one.

`UtilsProofs` proves of the lock file, for any number of processes and inodes:

- `TypeCorrect`; `HoldersAreNamed` with `NamedInv`, whether files are removed or not, and whatever
  text failed calls have left: a holder whose calls did not fail has truncated and written its
  own file.
- `LocksAreHeld` (`LockInv`), from it `LockExcludes` (`MutualExclusion`) and `LockImplemented`
  (`Spec => Abstract!LSpec`), again whether files are removed or not. The strengthening
  `HolderHasLock` says that whoever was told so has locked a file it keeps open: closing
  the second descriptor can take a lock away, but only from the process that closes it, and
  its call then returns false. If the file of that name is the only one a process has open, it
  is that one which it has locked (`HolderOfFile`), which turns "the lock of an inode is
  exclusive" into "one holder".

`ChildProcessesProofs` proves, for any number of threads, any lengths of inputs and
outputs and any sizes of pipes and reads:

- `TypeCorrect`, then `CallsCorrect`: the invariant `CallsInv`, that the ends, the
  child and the data of each call fit the place it is at. `EndsFit` says who has which
  end open; `ChildFits` where the child can be; `DataFit` that the amounts in the
  input, the two pipes, the child and the buffer add up to the input unless the child
  has failed. They need each other: that no byte is lost needs that `WriteFails` happens
  only after the child is gone, which follows from the ends. The proof uses that a
  call and its child touch their own pipes only (`OthersSame`, `SameKeeps`), so that each step
  is looked at for its own call (`OwnEndsAndChildFit`, `OwnDataFits`).
- `BlockedOnly` (`BlockedOnlyBySize`): in `writing` the input pipe is full, so only a
  program that copies can be stuck, with something in hand and a full output pipe: the amounts
  add up to more than `2 * Capacity + 1`. In `reading` the input is closed, so the child can
  always read on or end.
- `CallsImplemented` (`Spec => ImplementsCalls`): every step of a thread is a step of
  `ProgramCalls` or a stutter. The step that matters is the read that returns 0: then the child
  no longer runs, and if it is done it holds nothing and its pipes are empty, so all amounts
  are in the buffer; if it failed, the buffer has a part of them.

`UtilsProofs` proves of the string helpers, for texts and lists of texts of any length and for
unsigned integers of any width:

- `TextsTyped`, on which the following rest; nothing else of the specification is needed, as
  they are about the operators of `Texts`.
- `TokensCorrect` (`TokensAgree`), `WrittenCorrect` (`WrittenIsReadBack`) and `PartsCorrect`
  (`PartsCoverRange`), with the premises of section 3.

The induction theorems of the library take an operator as parameter, which the installed provers
cannot instantiate. The proofs use sets instead: `CountUp`, `CountDown` and `TextInduction` say
that a set that contains the first and with each the next has all numbers, all places of a row or all
texts, and follow from `WFMin`, which has no such parameter. `AlongFinds` shows once that `Along`
satisfies its equation, as each step comes nearer to the end; for each helper a lemma (`JoinFromIs`,
`TokensFromIs`, `ReplaceFromIs`, `QuotedFromIs`...) instantiates it. Two more carry most of the
argument:

- `SameRow`: two ways along places that correspond find the same. So `join` and `replace_all` do
  with the rest of a text what they do with it alone (`JoinCons`, `RestReplaced`), which makes
  an induction over texts possible.
- `JoinedRead`: if a reader reads `ts[k]` wherever `ws[k]` comes before a delimiter or
  the end, then it reads `ts` from the joined `ws`. `QuotedReads` and `BareReads` are the
  premise for quoted and for bare words: the quote that ends a quoted text is the right one
  (`QuoteEnds`), as what `quote` puts between its quotes has a backslash before each quote and
  nowhere else (`CodedIs`).

`EscapedRead` needs that escaping `?` and escaping `&` commute (`Commute`) and that neither puts in an
escape of the other (`StaysFree`), so that `unescape_url`, which undoes the first one
first, undoes both (`Undone`). `PartsCover` needs that the parts begin and end at multiples of
their size, none of which wraps around (`PartsAre`).

`DatesProofs` proves, for any number of threads and any zones, seasons and dates:

- `DatesTyped`: the types, among them that what is copied out of a shared buffer is never
  empty; it is needed as the program may find anything there that another thread has left.
- `DatesCorrect` (`DatesInv`): a call that no other call comes across finds at each place what
  it relies on, in its own variables and in the buffer it uses next (`OnTheWay`). Only
  the conjunct for the buffers is about other threads; it is kept because a step that
  writes a buffer marks all calls that use it (`WriterAlone`). From it `InstantIsKept` and
  `WallTimeIsKept`. `Expected` has the summer hour of the code; `InstantIsKept` is about
  winter, where it vanishes.

`XmlNodesProofs` has no theorem of a specification but what the three parsers share: where the
result of each accessor was read (`TextOrigin` to `DescriptionTypeOrigin`), that an
assignment to a member adds at most the node visited to the origins of an item
(`OriginsGrow`), that items stay apart when one is appended whose nodes are newer (`KeepAppend`),
and what the last place of a kind becomes when a node is appended (`LastStays`, `LastIsNew`,
`LastVisit`).

`Rss09xParserProofs`, `Rss10ParserProofs` and `AtomParserProofs` prove, for any shapes of
elements, any texts and attributes, and documents of any length:

- the invariant (`ItemsCorrect`, `DocumentsCorrect`, `EntriesCorrect`). Its parts are
  `OriginsInOrder`: everything read was visited, and before an item is begun all others have been read.
  The locals of `parse_item` and `parse_entry` are included (`ItemOrigins`, `EntryOrigins`), as
  what they hold gets into the item only at its end. `LastOfItsKind`: members and locals
  that several elements can set are as the last of their own kind says, each for itself, before
  a fallback is made. That is what does not depend on the order; the fallback properties are about
  `Completed`, where the order no longer matters. One lemma per branch says which of these the
  branch disturbs, and the others are kept as a branch leaves the other members alone.
- from it every property the runs of the parsers check. `ItemsKeepToThemselves` needs more than
  itself: that the items *and* the one being read are apart, which is `OriginsInOrder`.
  `SummaryStandsIn` and both date properties follow by the last assignment of `Completed`;
  `TypeBelongsToText` from the two halves of `LastOfItsKind` about the same element, since one
  element at most is the last one; `LinkUsesNearestBase` from `LinksByRelation`, which is
  inductive with the base of the first node.
- of RSS 1.0 in addition that the number of items is that of the item elements
  visited; the proof counts the set of their places, one more with each `BeginItem`.

The sets of shapes are constants about which the proofs assume nothing, so no result depends
on which elements, attributes and texts a run gives.

The assumptions are those named in the modules: the kinds of constants are disjoint,
times and etags are positive numbers, settings are sets of options, the versions of the
clock are times and etags, zones and seasons are integers, pipes and reads are not of size
0. TLC evaluates them in each run.

Only model-checked:

- `TimeoutEndsCall` and `CallsReturn`, since liveness under fairness is beyond the prover.
- `PidZeroMeansFailure` and `TextIsUtc`, which are violated.

## 5. What is not modelled, and why

- The OpenSSL and gcrypt locking callbacks in `utils.cpp`: no build file of the
  repository defines `HAVE_OPENSSL` or `HAVE_GCRYPT`, so no program contains them.
- Years, months and days: dates are hours from one of them on. Leap seconds and the two wall
  times that occur twice or never when local time changes, where `mktime` is external.
- `strprintf`, `to_u` and other helpers of `utils` that
  format one value or ask the environment for one: no control flow to check.
- `absolute_url` is modelled by the kinds of URL it tells apart; libxml2 builds the
  result.
- `global_init` and `global_cleanup` call libcurl and libxml2 and keep nothing themselves.
- `exception.cpp`, `log.h`: no control flow. `src/inc/rsspp.h` repeats the declarations of
  other headers and is not included by the library. Tests, `lemon.h` and build files
  have no behaviour to model.
- Allocation failures of libxml2 and C++.
- Attributes and texts that no branch tells apart. For an empty author field the code looks
  at the byte before the string (`src/src/rss_09x_parser.cpp:121`); as the string is stored
  inside the object that is a byte of its length, which is 0, and not a parenthesis.
- The form of dates. The tests expect `pubDate` with a zone, of RSS 2.0 as it is in
  the document (`src/src/unitest.cpp:60`) and of the others in UTC (lines 79 and 89), while the parsers
  return the text of `asctime`; `Dates` has the time that is shown, about which see the findings.
- A `read` interrupted by a signal in `run_program` and `get_command_output`, and the byte that
  `try_fs_lock` writes before a buffer after a `read` that failed.
- A server that answers 200 with an empty body, redirects with an `ETag`.

## 6. Plan

Order of work: what several callers share first, then what a document can do to a
parser, then processes, then the pure helpers.

Done: `FeedFormat`, `ParserSession`, `FeedPolling`, `XmlNodes`, the three feed parsers, `FsLock`
with `ExclusiveLock`, `ChildProcesses` with `ProgramCalls`, `Dates`, `Texts`; and proofs of every
invariant and action property the passing runs check, and of the three refinements
(`ImplementsLock`, `ImplementsCalls`, `PollingImplementsSession`).

What could follow: an abstract specification of the feed parsers, a function from the list of an
item's elements to the item, which the properties of the parsers describe member by member;
and `partition_indexes` and the tokenizers with a caller's own delimiters.

Every module has at most two passing runs; those that can share an instance are merged, so
that the whole stays quick to check.
