-------------------------------- MODULE Texts --------------------------------
(***************************************************************************)
(* The string helpers of class utils that programs read their own files    *)
(* and commands with: tokenizers, quoting, trimming, replacing, and the    *)
(* division of a range of indexes into parts.                              *)
(*                                                                         *)
(* A text is a sequence of characters.  Those the code tells apart have    *)
(* names: " " is the space, "nl" a newline, "cr" a carriage return, "tab"  *)
(* and "vt" (vertical; a form feed is like it), "quote" and "backslash"    *)
(* are the two of quoting.  A position past the end of a text is           *)
(* std::string::npos.                                                      *)
(***************************************************************************)
EXTENDS Integers, Sequences, SequencesExt, FiniteSetsExt

CONSTANT Word                   \* how many values an unsigned int has

ASSUME WordAssumption == Word \in Nat \ {0}

\* The default delimiters of tokenize_nl and of the other tokenizers.
Newlines == {"cr", "nl"}
Blanks   == {" ", "cr", "nl", "tab"}

\* What isspace accepts.
Whitespace == Blanks \cup {"vt"}

\* std::string::find_first_of, find_first_not_of and find.
FirstOf(s, chars, from)    == Min({k \in from..Len(s) : s[k] \in chars} \cup {Len(s) + 1})
FirstNotOf(s, chars, from) == Min({k \in from..Len(s) : s[k] \notin chars} \cup {Len(s) + 1})
IsAt(s, i, part) ==
    i + Len(part) - 1 <= Len(s) /\ SubSeq(s, i, i + Len(part) - 1) = part

Ended(s, i) == i > Len(s)

\* What is found on the way that begins at a place: at each place, what that one
\* adds, up to a place without a step.
Along(places, step) ==
    LET From[x \in places] ==
            IF x \in DOMAIN step THEN step[x].part \o From[step[x].next] ELSE <<>>
    IN  From

\* The way through a text, from its first character on.
Through(s, step) == Along(1..Len(s) + 1, step)[1]

-----------------------------------------------------------------------------
(* The tokenizers: from one token's first character to the next one's.     *)

\* Where the token ends that begins at i, and where the next one begins.
EndOf(s, delims, i)  == FirstOf(s, delims, i)
NextTo(s, delims, i) == FirstNotOf(s, delims, FirstOf(s, delims, i))

Token(s, delims, i) == SubSeq(s, i, EndOf(s, delims, i) - 1)

Tokenize(s, delims) ==
    Along(1..Len(s) + 1,
          [i \in 1..Len(s) |-> [part |-> <<Token(s, delims, i)>>,
                                next |-> NextTo(s, delims, i)]])
        [FirstNotOf(s, delims, 1)]

\* A token of one space where there were delimiters, also at both ends.
TokenizeSpaced(s, delims) ==
    LET first    == FirstNotOf(s, delims, 1)
        Space(b) == IF b THEN << <<" ">> >> ELSE <<>>
    IN  Space(first # 1 \/ s = <<>>)
        \o Along(1..Len(s) + 1,
                 [i \in 1..Len(s) |->
                     [part |-> <<Token(s, delims, i)>>
                               \o Space(NextTo(s, delims, i) > EndOf(s, delims, i)),
                      next |-> NextTo(s, delims, i)]])[first]

\* A newline for each delimiter before a token, whichever it is; none for those
\* after the last.
Lines(s, from, next) == IF Ended(s, next) THEN <<>> ELSE [k \in 1..next - from |-> <<"nl">>]

\* Fault: the delimiters before the first token are not counted.
Fault_TokenizeNl(s, delims) ==
    Along(1..Len(s) + 1,
          [i \in 1..Len(s) |->
              [part |-> <<Token(s, delims, i)>>
                        \o Lines(s, EndOf(s, delims, i), NextTo(s, delims, i)),
               next |-> NextTo(s, delims, i)]])[FirstNotOf(s, delims, 1)]

TokenizeNl(s, delims) ==
    LET first == FirstNotOf(s, delims, 1)
    IN  Lines(s, 1, first)
        \o Along(1..Len(s) + 1,
                 [i \in 1..Len(s) |->
                     [part |-> <<Token(s, delims, i)>>
                               \o Lines(s, EndOf(s, delims, i), NextTo(s, delims, i)),
                      next |-> NextTo(s, delims, i)]])[first]

\* The character a backslash and c stand for.
AppendEscapes(token, c) ==
    CASE c = "n"         -> Append(token, "nl")
      [] c = "r"         -> Append(token, "cr")
      [] c = "t"         -> Append(token, "tab")
      [] c = "backslash" -> token
      [] OTHER           -> Append(token, c)

\* The quote that ends the token that begins at from: the first one with an even
\* number of backslashes before it.
EndQuote(s, from) ==
    LET Backslashes(k) == (k - 1) - Max({j \in from..k - 1 : s[j] # "backslash"}
                                        \cup {from - 1})
    IN  Min({k \in from..Len(s) : s[k] = "quote" /\ Backslashes(k) % 2 = 0}
            \cup {Len(s) + 1})

\* Whether the second backslash of the next pair is kept: it alternates from pair
\* to pair, and from token to token.
Attach(s, from, k, attach) ==
    LET pairs == {j \in from..k - 1 : s[j] = "backslash" /\ s[j - 1] = "backslash"}
    IN  attach = (Cardinality(pairs) % 2 = 0)

\* The text between two quotes.
Unquoted(s, from, pos, attach) ==
    LET Read(k) ==
            CASE s[k] = "backslash" /\ s[k - 1] = "backslash" ->
                     IF Attach(s, from, k, attach) THEN <<"backslash">> ELSE <<>>
              [] s[k] = "backslash" /\ s[k - 1] # "backslash" -> <<>>
              [] s[k] # "backslash" /\ s[k - 1] = "backslash" -> AppendEscapes(<<>>, s[k])
              [] OTHER -> <<s[k]>>
    IN  Along(from..pos, [k \in from..pos - 1 |-> [part |-> Read(k), next |-> k + 1]])[from]

TokenizeQuoted(s, delims) ==
    LET Step(i, attach) ==
            LET pos == EndQuote(s, i + 1)
            IN  IF s[i] = "quote"
                THEN [part |-> <<Unquoted(s, i + 1, pos, attach)>>,
                      next |-> <<FirstNotOf(s, delims, pos + 1),
                                 Attach(s, i + 1, pos, attach)>>]
                ELSE [part |-> <<Token(s, delims, i)>>,
                      next |-> <<NextTo(s, delims, i), attach>>]
        places == (1..Len(s) + 1) \X BOOLEAN
    IN  Along(places, [x \in {y \in places : ~Ended(s, y[1]) /\ s[y[1]] # "#"} |->
                          Step(x[1], x[2])])[<<FirstNotOf(s, delims, 1), TRUE>>]

-----------------------------------------------------------------------------
(* Replacing, quoting and joining.                                         *)

\* Left to right, never inside what was put in.  from is not empty.
ReplaceEvery(s, from, to) ==
    Through(s, [i \in 1..Len(s) |->
                   IF IsAt(s, i, from) THEN [part |-> to, next |-> i + Len(from)]
                                       ELSE [part |-> <<s[i]>>, next |-> i + 1]])

\* Fault: the quotes inside are left as they are.
Fault_Quote(s) == <<"quote">> \o s \o <<"quote">>

Quote(s) ==
    <<"quote">> \o ReplaceEvery(s, <<"quote">>, <<"backslash", "quote">>) \o <<"quote">>

\* Only a space makes quotes necessary.
QuoteIfNecessary(s) == IF Contains(s, " ") THEN Quote(s) ELSE s

Join(strings, separator) ==
    Through(strings, [k \in 1..Len(strings) |->
                         [part |-> strings[k] \o (IF k < Len(strings) THEN separator ELSE <<>>),
                          next |-> k + 1]])

ExtractQuote(line) ==
    LET pos  == FirstOf(line, {"quote"}, 1)
        pos1 == FirstOf(line, {"quote"}, pos + 1)
    IN  IF Ended(line, pos) \/ Ended(line, pos1) THEN line
        ELSE SubSeq(line, pos + 1, pos1 - 1)

\* With fewer than two colons the url is the whole line: npos + 1 is 0.
ExtractFilter(line) ==
    LET pos    == FirstOf(line, {":"}, 1)
        after  == IF Ended(line, pos) THEN 1 ELSE pos + 1
        pos1   == FirstOf(line, {":"}, after)
    IN  [filter |-> SubSeq(line, after, pos1 - 1),
         url    |-> IF Ended(line, pos1) THEN line ELSE SubSeq(line, pos1 + 1, Len(line))]

EscapeUrl(url) ==
    ReplaceEvery(ReplaceEvery(url, <<"?">>, <<"%", "3", "F">>),
                 <<"&">>, <<"%", "2", "6">>)

UnescapeUrl(url) ==
    ReplaceEvery(ReplaceEvery(url, <<"%", "3", "F">>, <<"?">>),
                 <<"%", "2", "6">>, <<"&">>)

\* Only the ends of lines are taken off the end.
TrimEnd(s) == SubSeq(s, 1, Max({k \in 1..Len(s) : s[k] \notin Newlines} \cup {0}))

Trim(s) == TrimEnd(SubSeq(s, FirstNotOf(s, Whitespace, 1), Len(s)))

-----------------------------------------------------------------------------
(* partition_indexes, in the arithmetic of unsigned int.                   *)

\* Fault: the end of a part is the beginning of the next one.
Fault_PartitionIndexes(start, end, parts) ==
    LET size     == ((end - start + 1) % Word) \div parts
        First(i) == (start + (i - 1) * size) % Word
    IN  [i \in 1..parts |-> IF i < parts THEN <<First(i), (First(i) + size) % Word>>
                                         ELSE <<First(i), end>>]

PartitionIndexes(start, end, parts) ==
    LET size     == ((end - start + 1) % Word) \div parts
        First(i) == (start + (i - 1) * size) % Word
    IN  [i \in 1..parts |-> IF i < parts THEN <<First(i), (First(i) + size - 1) % Word>>
                                         ELSE <<First(i), end>>]
=============================================================================
