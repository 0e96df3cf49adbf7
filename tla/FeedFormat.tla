----------------------------- MODULE FeedFormat -----------------------------
(***************************************************************************)
(* Which feed format the root element of a document announces, which       *)
(* parser class the factory builds for it, and how parser::parse_xmlnode   *)
(* ends: with a feed or with an exception.                                 *)
(*                                                                         *)
(* A document is abstracted to its root element:                           *)
(*   name     the element's local name ("" stands for a document that has  *)
(*            no root element, any name outside the three the code knows   *)
(*            for an element of something that is not a feed)              *)
(*   ns       the namespace it is in, by the name of the macro that holds  *)
(*            the URI; "none" when node->ns is NULL                        *)
(*   version  the text of its version attribute; "none" when absent        *)
(*   channel  whether one of its children is called "channel"              *)
(***************************************************************************)

FeedNames == {"rss", "RDF", "feed"}

\* enum version (types.h)
Versions == {"UNKNOWN", "RSS_0_91", "RSS_0_92", "RSS_1_0", "RSS_2_0",
             "ATOM_0_3", "ATOM_1_0", "RSS_0_94", "ATOM_0_3_NONS",
             "TTRSS_JSON", "NEWSBLUR_JSON"}

Classes == {"rss_09x_parser", "rss_20_parser", "rss_10_parser", "atom_parser"}

Refusals == {"no RSS version", "invalid RSS version", "no Atom version",
             "invalid Atom version"}

Errors == Refusals \cup
          {"XML root node is NULL", "unsupported feed format",
           "no RSS channel found", "could not parse buffer",
           "could not parse file", "couldn't initialize libcurl", "transfer"}

(***************************************************************************)
(* How a call of the library ends.  "by" is the class that extracted the   *)
(* feed, "" for the feed parse_url returns when no body arrived; "root" is *)
(* the name of the element the feed was extracted from.                    *)
(***************************************************************************)
Feed(v, c, root) ==
    [kind |-> "feed", version |-> v, by |-> c, root |-> root, why |-> ""]

Throw(why) ==
    [kind |-> "throw", version |-> "UNKNOWN", by |-> "", root |-> "",
     why |-> why]

NoResult ==
    [kind |-> "none", version |-> "UNKNOWN", by |-> "", root |-> "",
     why |-> ""]

Results(names) ==
    [kind : {"none", "feed", "throw"}, version : Versions,
     by : Classes \cup {""}, root : names \cup {""}, why : Errors \cup {""}]

-----------------------------------------------------------------------------
(* Detection of the version.                                               *)

RssVersion(version) ==
    CASE version = "0.91"        -> "RSS_0_91"
      [] version = "0.92"        -> "RSS_0_92"
      [] version = "0.94"        -> "RSS_0_94"
      [] version \in {"2.0","2"} -> "RSS_2_0"
      [] version = "1.0"         -> "RSS_0_91"
      [] version = "none"        -> "no RSS version"
      [] OTHER                   -> "invalid RSS version"

AtomVersion(ns, version) ==
    CASE ns = "none"         -> "no Atom version"
      [] ns = "ATOM_0_3_URI" -> "ATOM_0_3"
      [] ns = "ATOM_1_0_URI" -> "ATOM_1_0"
      [] OTHER               -> IF version = "0.3" THEN "ATOM_0_3_NONS"
                                                   ELSE "invalid Atom version"

(***************************************************************************)
(* What parse_xmlnode may find in f.rss_version, or the exception it       *)
(* throws while looking.  `feed f;` leaves rss_version uninitialised and   *)
(* no branch assigns it for a root element with an unknown name: the       *)
(* factory then switches on an indeterminate value, hence every enumerator *)
(* ("UNKNOWN" standing for the values that are none of them as well).      *)
(***************************************************************************)
Detected(tree) ==
    CASE tree.name = "rss"  -> {RssVersion(tree.version)}
      [] tree.name = "RDF"  -> {"RSS_1_0"}
      [] tree.name = "feed" -> {AtomVersion(tree.ns, tree.version)}
      [] OTHER              -> Versions

-----------------------------------------------------------------------------
(* factory::get_object: the class built for a version, "" when it throws.  *)

Fault_ParserForNons(version) ==             \* ATOM_0_3_NONS in the wrong group
    CASE version \in {"RSS_0_91", "RSS_0_92", "RSS_0_94"} -> "rss_09x_parser"
      [] version = "RSS_2_0" -> "rss_20_parser"
      [] version \in {"RSS_1_0", "ATOM_0_3_NONS"} -> "rss_10_parser"
      [] version \in {"ATOM_0_3", "ATOM_1_0"} -> "atom_parser"
      [] OTHER -> ""

ParserFor(version) ==
    CASE version \in {"RSS_0_91", "RSS_0_92", "RSS_0_94"} -> "rss_09x_parser"
      [] version = "RSS_2_0" -> "rss_20_parser"
      [] version = "RSS_1_0" -> "rss_10_parser"
      [] version \in {"ATOM_0_3", "ATOM_0_3_NONS", "ATOM_1_0"} -> "atom_parser"
      [] OTHER -> ""

-----------------------------------------------------------------------------
(***************************************************************************)
(* parser::parse_xmlnode.  Of the four parse_feed only the one of the RSS  *)
(* 0.9x and 2.0 classes refuses a tree: when the root has no channel.      *)
(***************************************************************************)
Extract(tree, version) ==
    LET class == ParserFor(version)
    IN  IF class = ""
        THEN Throw("unsupported feed format")
        ELSE IF class \in {"rss_09x_parser", "rss_20_parser"} /\ ~tree.channel
             THEN Throw("no RSS channel found")
             ELSE Feed(version, class, tree.name)

ParseXmlNode(tree) ==
    IF tree.name = ""
    THEN {Throw("XML root node is NULL")}
    ELSE {IF d \in Refusals THEN Throw(d) ELSE Extract(tree, d) :
            d \in Detected(tree)}

=============================================================================
