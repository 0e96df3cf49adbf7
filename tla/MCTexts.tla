------------------------------- MODULE MCTexts -------------------------------
(***************************************************************************)
(* Lists of texts that grow by a character at a time, and ranges, for TLC  *)
(* to evaluate Texts on.                                                   *)
(***************************************************************************)
EXTENDS Texts

CONSTANTS MaxLength, MaxTexts           \* bounds

\* What quoting tells apart, what tokenizers and trimming do, and what the URL
\* helpers do.
TextChars  == {"a", "n", " ", "nl", "quote", "backslash", "#"}
BlankChars == {"a", "quote", " ", "cr", "nl", "tab", "vt"}
UrlChars   == {"a", "?", "&", "%", "3", "F", ":"}

NoRange == [start |-> 0, end |-> 0, parts |-> 1]

VARIABLES chars, strings, range

textVars == <<chars, strings, range>>

TextsInit ==
    /\ chars \in {TextChars, BlankChars, UrlChars}
    /\ strings = << <<>> >>
    /\ range = NoRange

NextChar ==
    /\ Len(Join(strings, <<>>)) < MaxLength /\ range = NoRange
    /\ \E c \in chars :
           strings' = [strings EXCEPT ![Len(strings)] = Append(@, c)]
    /\ UNCHANGED <<chars, range>>

NextText ==
    /\ Len(strings) < MaxTexts /\ range = NoRange
    /\ strings' = Append(strings, <<>>)
    /\ UNCHANGED <<chars, range>>

PickRange ==
    /\ strings = << <<>> >> /\ range = NoRange
    /\ \E start, end \in 0..Word - 1, parts \in 1..Word - 1 :
           range' = [start |-> start, end |-> end, parts |-> parts]
    /\ UNCHANGED <<chars, strings>>

TextsNext == NextChar \/ NextText \/ PickRange

TextsSpec == TextsInit /\ [][TextsNext]_textVars

-----------------------------------------------------------------------------
(* Properties.                                                             *)

text == strings[Len(strings)]

Without(s, chrs) == Join([k \in DOMAIN s |-> IF s[k] \in chrs THEN <<>> ELSE <<s[k]>>], <<>>)

\* A text that can be written in quotes, and one that can be written without.
Quotable(s) == "backslash" \notin ToSet(s)
Bareable(s) == s # <<>> /\ s[1] \notin {"quote", "#"} /\ ToSet(s) \cap Blanks = {}

\* quote_if_necessary looks for a space only: another blank makes two tokens.
BareOrQuotable(s) == IF " " \in ToSet(s) THEN Quotable(s) ELSE Bareable(s)

HasEscape(url) ==
    \E i \in 1..Len(url) : IsAt(url, i, <<"%", "3", "F">>) \/ IsAt(url, i, <<"%", "2", "6">>)

\* tokenize_quoted reads back what quote and quote_if_necessary write.
QuotedIsReadBack ==
    (\A k \in DOMAIN strings : Quotable(strings[k]))
        => TokenizeQuoted(Join([k \in DOMAIN strings |-> Quote(strings[k])], <<" ">>),
                          Blanks) = strings

BareIsReadBack ==
    (\A k \in DOMAIN strings : BareOrQuotable(strings[k]))
        => TokenizeQuoted(Join([k \in DOMAIN strings |-> QuoteIfNecessary(strings[k])],
                               <<" ">>), Blanks) = strings

\* extract_filter reads back the two parts of a filter line.
FilterIsReadBack ==
    Len(strings) = 2 /\ ":" \notin ToSet(strings[1])
        => ExtractFilter(<<"filter", ":">> \o strings[1] \o <<":">> \o strings[2])
               = [filter |-> strings[1], url |-> strings[2]]

\* extract_quote reads back a text without quotes.
QuoteIsExtracted ==
    "quote" \notin ToSet(text) => ExtractQuote(<<"a">> \o Quote(text) \o <<"a">>) = text

\* unescape_url reads back what escape_url writes.
EscapedIsReadBack == ~HasEscape(text) => UnescapeUrl(EscapeUrl(text)) = text

(***************************************************************************)
(* What one helper writes another one reads back: tokenize_quoted the      *)
(* texts quote has quoted, with blanks, quotes, line ends and # in them,   *)
(* if none has a backslash, and those of quote_if_necessary, if they have  *)
(* a space or else no other blank; extract_filter the two parts of a       *)
(* filter line; extract_quote a quoted text; unescape_url an escaped URL   *)
(* that has no escape of its own (utils.cpp:40-136, 272-288, 409-418,      *)
(* 485-507, 548-562, 623-656, 739-747).                                    *)
(***************************************************************************)
WrittenIsReadBack ==
    QuotedIsReadBack /\ BareIsReadBack /\ FilterIsReadBack /\ QuoteIsExtracted
        /\ EscapedIsReadBack

tokens == Tokenize(text, Blanks)

\* tokenize_spaced adds tokens of one blank, and tokenize_quoted differs only where
\* a token begins with a quote or a #.
TokenizersAgree ==
    /\ Without(TokenizeSpaced(text, Blanks), {<<" ">>}) = tokens
    /\ (\A k \in DOMAIN tokens : tokens[k][1] \notin {"quote", "#"})
           => TokenizeQuoted(text, Blanks) = tokens

\* trim takes a vertical tab or a form feed for a blank, the tokenizers do not.
LedByBlanks(s) == FirstNotOf(s, Whitespace, 1) = FirstNotOf(s, Blanks, 1)

\* Neither trim nor join changes the tokens.
TokensStay ==
    /\ LedByBlanks(text) => Tokenize(Trim(text), Blanks) = tokens
    /\ Tokenize(Join(tokens, <<" ">>), Blanks) = tokens

\* With newlines only.
WithNewlines(s) == [k \in DOMAIN s |-> IF s[k] \in Newlines THEN "nl" ELSE s[k]]

\* The tokens together are the text, but for the delimiters that are thrown away.
TokensAreText ==
    /\ Join(TokenizeNl(text, Newlines), <<>>) = WithNewlines(TrimEnd(text))
    /\ Join(tokens, <<>>) = Without(text, Blanks)

(***************************************************************************)
(* The four tokenizers find the same tokens: tokenize_spaced adds blanks   *)
(* to those of tokenize, tokenize_quoted differs only if one begins with a *)
(* quote or a #; join does not change them, nor does trim if the text does *)
(* not begin with blanks and a vertical tab or form feed; and the tokens   *)
(* of tokenize_nl together are the text, with a newline for each carriage  *)
(* return, but for the line ends after the last (utils.cpp:40-216,         *)
(* 548-562, 604-621).                                                      *)
(***************************************************************************)
TokensAgree == TokenizersAgree /\ TokensStay /\ TokensAreText

(***************************************************************************)
(* The parts partition_indexes returns contain each index from start to    *)
(* end once and no other one, if there are no more parts than indexes or   *)
(* if start is not 0; with more, the empty parts end before they begin,    *)
(* which for start = 0 is after all indexes (utils.cpp:531-545).           *)
(***************************************************************************)
PartsCoverRange ==
    LET s     == range.start
        e     == range.end
        parts == PartitionIndexes(s, e, range.parts)
        In(k) == {i \in DOMAIN parts : parts[i][1] <= k /\ k <= parts[i][2]}
        count == e - s + 1
    IN  /\ s <= e /\ (s > 0 \/ (range.parts <= count /\ count < Word))
               => \A k \in 0..Word - 1 :
                      IF s <= k /\ k <= e THEN \E i \in DOMAIN parts : In(k) = {i}
                                          ELSE In(k) = {}
        /\ s = 0 /\ range.parts > count => parts[1] = <<0, Word - 1>>
=============================================================================
