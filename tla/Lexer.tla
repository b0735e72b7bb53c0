--------------------------------- MODULE Lexer ---------------------------------
(***************************************************************************)
(* The lexer (lib/Lex/Lexer.cpp) with the source locations it asks for      *)
(* (lib/Basic/SourceManager.cpp).                                           *)
(*                                                                         *)
(* A text is a sequence of characters, one-letter strings.  Pointers into   *)
(* the buffer are places of text, and BufferEnd is Len(text) + 1.  The kind *)
(* of a punctuation or a keyword is named by its spelling, and a name, a    *)
(* number or a literal has its class as kind.  The buffer has no            *)
(* terminator: what a look-ahead reads beyond it is past, any character.    *)
(***************************************************************************)
EXTENDS Integers, Sequences, SequencesExt, FiniteSetsExt

CONSTANTS
  Letters, Digits,  \* characters
  Keywords          \* the keywords' kinds, a function from words

VARIABLES
  text,       \* Buffer
  past,       \* the character that follows it in memory
  cur,        \* CurPtr
  lastLine,   \* LastLineIdx, from 1
  tokens,     \* the tokens formed
  reports     \* the errors' locations

lexVars == <<text, past, cur, lastLine, tokens, reports>>

Newline == "\n"
Quote == "\""
Backslash == "\\"
Spaces == {" ", Newline}

BufferEnd == Len(text) + 1
CharAt(i) == IF i < BufferEnd THEN text[i] ELSE past

Cut(from, end) == [k \in 1 .. end - from |-> CharAt(from + k - 1)]

-----------------------------------------------------------------------------
(* Locations.                                                              *)

(* The lines that start in the first i characters or behind them. *)
StartsUpTo ==
  LET starts[i \in 0 .. Len(text)] ==
        IF i = 0 THEN <<1>>
        ELSE IF text[i] = Newline THEN Append(starts[i - 1], i + 1) ELSE starts[i - 1]
  IN starts

LineStarts == StartsUpTo[Len(text)]

OnLine(starts, l, ptr) == ptr >= starts[l] /\ (l = Len(starts) \/ ptr < starts[l + 1])

(* std::lower_bound, then a step back unless it found ptr itself. *)
LineFound(starts, ptr) ==
  LET it == Min({l \in DOMAIN starts : starts[l] >= ptr} \cup {Len(starts) + 1})
  IN IF it # 1 /\ (it = Len(starts) + 1 \/ starts[it] > ptr) THEN it - 1 ELSE it

(* Seeded fault: the search is left out. *)
LineNearby(l, ptr) ==
  LET starts == LineStarts IN
  IF OnLine(starts, l, ptr) \/ l = Len(starts) THEN l ELSE l + 1

(* LastLineIdx after getLocation(ptr), the line it returns. *)
LineAt(l, ptr) ==
  LET starts == LineStarts IN
  IF OnLine(starts, l, ptr) THEN l
  ELSE IF l < Len(starts) /\ OnLine(starts, l + 1, ptr) THEN l + 1
  ELSE LineFound(starts, ptr)

getLocation(l, ptr) ==
  LET line == LineAt(l, ptr) IN [ptr |-> ptr, line |-> line, column |-> ptr - LineStarts[line] + 1]

(* Locations of several pointers, asked for in turn. *)
Locations(l, ptrs) ==
  LET located[k \in 1 .. Len(ptrs)] ==
        getLocation(IF k = 1 THEN l ELSE located[k - 1].line, ptrs[k])
  IN located

-----------------------------------------------------------------------------
(* What starts at a character.                                             *)

(* The end of the characters of S that start at i. *)
EndOfRun(i, S) ==
  IF i >= BufferEnd THEN i
  ELSE Min({j \in i .. Len(text) : text[j] \notin S} \cup {BufferEnd})

TokenStart == EndOfRun(cur, Spaces)

EndOfLine(i) == EndOfRun(i, {CharAt(k) : k \in i .. Len(text)} \ {Newline})

AtComment == CharAt(TokenStart) = "/" /\ CharAt(TokenStart + 1) = "/"

(* A token of kind from TokenStart to end, after errors reported at ptrs. *)
FormToken(kind, end, ptrs) ==
  LET located == Locations(lastLine, Append(ptrs, TokenStart)) IN
  /\ tokens' = Append(tokens, [kind |-> kind, at |-> Last(located), end |-> end])
  /\ lastLine' = Last(located).line
  /\ cur' = end
  /\ reports' = reports \o Front(located)
  /\ UNCHANGED <<text, past>>

LexEnd == TokenStart >= BufferEnd /\ FormToken("eof", TokenStart, <<>>)

LexIdentifierOrKeyword ==
  /\ TokenStart < BufferEnd
  /\ CharAt(TokenStart) \in Letters
  /\ LET end == EndOfRun(TokenStart, Letters \cup Digits)
         word == Cut(TokenStart, end)
     IN FormToken(IF word \in DOMAIN Keywords THEN Keywords[word] ELSE "ident", end, <<>>)

(* "1..2" is a range of integers, so two characters decide. *)
LexNumber ==
  /\ TokenStart < BufferEnd
  /\ CharAt(TokenStart) \in Digits
  /\ LET end == EndOfRun(TokenStart, Digits)
     IN IF CharAt(end) = "." /\ CharAt(end + 1) # "."
        THEN FormToken("float", EndOfRun(end + 1, Digits), <<>>)
        ELSE FormToken("int", end, <<>>)

SupportedEscapes == {"n", "r", "t", "0", "'", Backslash, Quote}

(* The literal's end from i, whether it is terminated, its unknown escapes. *)
Literal ==
  LET from[i \in TokenStart + 1 .. BufferEnd + 1] ==
        CASE i >= BufferEnd -> [end |-> BufferEnd, closed |-> FALSE, unknown |-> <<>>]
          [] i < BufferEnd /\ text[i] = Quote -> [end |-> i + 1, closed |-> TRUE, unknown |-> <<>>]
          [] i < BufferEnd /\ text[i] = Backslash ->
               LET rest == from[i + 2]
               IN IF i + 1 = BufferEnd \/ text[i + 1] \in SupportedEscapes THEN rest
                  ELSE [rest EXCEPT !.unknown = <<i>> \o @]
          [] OTHER -> from[i + 1]
  IN from[TokenStart + 1]

LexStringLiteral ==
  /\ TokenStart < BufferEnd
  /\ CharAt(TokenStart) = Quote
  /\ FormToken("string", Literal.end,
               Literal.unknown \o (IF Literal.closed THEN <<>> ELSE <<TokenStart>>))

Punctuation == {"(", ")", "{", "}", "[", "]", ";", ",", ":", "-", "+", "%", ".", "=", "*", "<",
                ">", "!", "&", "|", "/"}
(* Two characters and the kind that they are. *)
Pairs == {<<":", ":", "::">>, <<"-", ">", "->">>, <<"-", "=", "-=">>, <<"+", "=", "+=">>,
          <<".", ".", "..">>, <<"=", "=", "==">>, <<"<", "=", "<=">>, <<"<", "<", "<<">>,
          <<">", "=", ">=">>, <<">", ">", ">>">>, <<"!", "=", "!=">>, <<"&", "&", "&&">>,
          <<"|", "|", "||">>}

PunctuationKinds == Punctuation \cup {p[3] : p \in Pairs} \cup {"..="}

PairsAt(i) == {p \in Pairs : p[1] = CharAt(i) /\ p[2] = CharAt(i + 1)}

DotDotEqualAt(i) == CharAt(i) = "." /\ CharAt(i + 1) = "." /\ CharAt(i + 2) = "="

(* Seeded fault: ".." hides "..=". *)
PunctuationEndByPairs(i) == IF PairsAt(i) # {} THEN i + 2 ELSE i + 1

PunctuationEnd(i) ==
  IF DotDotEqualAt(i) THEN i + 3 ELSE IF PairsAt(i) # {} THEN i + 2 ELSE i + 1

LexPunctuation ==
  /\ TokenStart < BufferEnd
  /\ CharAt(TokenStart) \in Punctuation
  /\ ~AtComment
  /\ LET end == PunctuationEnd(TokenStart)
         kind == CASE end = TokenStart + 3 -> "..="
                   [] end = TokenStart + 2 -> (CHOOSE p \in PairsAt(TokenStart) : TRUE)[3]
                   [] OTHER -> CharAt(TokenStart)
     IN FormToken(kind, end, <<>>)

(* The classes of characters are disjoint, and kinds have different names. *)
ASSUME LexerAssumption ==
  /\ Letters \cap Digits = {}
  /\ (Letters \cup Digits) \cap (Punctuation \cup Spaces \cup {Quote}) = {}
  /\ Range(Keywords) \cap PunctuationKinds = {}
  /\ Range(Keywords) \cap {"ident", "int", "float", "string", "unknown", "eof"} = {}

LexUnknown ==
  /\ TokenStart < BufferEnd
  /\ CharAt(TokenStart) \notin Letters \cup Digits \cup Punctuation \cup {Quote}
  /\ FormToken("unknown", TokenStart + 1, <<>>)

(* SkipLineComment moves over the second slash, and over one character more, *)
(* before it looks for the end of the line.                                 *)
LexComment ==
  /\ TokenStart < BufferEnd
  /\ AtComment
  /\ cur' = EndOfLine(TokenStart + 3)
  /\ UNCHANGED <<text, past, lastLine, tokens, reports>>

LexInit ==
  /\ cur = 1
  /\ lastLine = 1
  /\ tokens = <<>>
  /\ reports = <<>>

Lex ==
  LexEnd \/ LexIdentifierOrKeyword \/ LexNumber \/ LexStringLiteral \/ LexPunctuation
  \/ LexUnknown \/ LexComment

(* Any text, in any memory. *)
AnyText == text \in Seq(STRING) /\ past \in STRING

Lexed == tokens # <<>> /\ Last(tokens).kind = "eof"

-----------------------------------------------------------------------------
(* Properties.  A compilation owes them to texts that end in a newline; one *)
(* look-ahead past the end of another text may find anything.  They also    *)
(* leave out empty comments, after which the code skips the next line too.  *)

Ordinary ==
  /\ text # <<>> /\ Last(text) = Newline
  /\ \A i \in 1 .. Len(text) - 2 : SubSeq(text, i, i + 2) # <<"/", "/", Newline>>

(* What may stand between two tokens: spaces, and comments to the end of    *)
(* their line.                                                             *)
Trivia(from, end) ==
  \A i \in from .. end - 1 :
    \/ text[i] \in Spaces
    \/ \E s \in from .. i :
         /\ text[s] = "/" /\ s < Len(text) /\ text[s + 1] = "/"
         /\ i > s \/ i + 1 < end
         /\ \A k \in s .. i : text[k] # Newline

Spells(from, end, kind) ==
  LET word == Cut(from, end) IN word \in DOMAIN Keywords /\ Keywords[word] = kind

Lexeme(kind, from, end) ==
  LET chars == {text[k] : k \in from .. end - 1} IN
  CASE kind = "int"    -> chars \subseteq Digits
    [] kind = "float"  -> chars \subseteq Digits \cup {"."} /\ text[from] # "."
    [] kind = "string" -> text[from] = Quote
    [] kind = "ident"  -> text[from] \in Letters /\ chars \subseteq Letters \cup Digits
    [] kind = "unknown" -> end = from + 1
    [] kind = "eof"    -> from = BufferEnd /\ end = BufferEnd
    [] kind \in Range(Keywords) -> Spells(from, end, kind)
    [] OTHER ->
         \/ end = from + 1 /\ kind = text[from] /\ kind \in Punctuation
         \/ end = from + 2 /\ <<text[from], text[from + 1], kind>> \in Pairs
         \/ end = from + 3 /\ kind = "..=" /\ DotDotEqualAt(from)

(* The token could not have been longer: "=" is not followed by "=", a word *)
(* not by a letter.  An integer before ".." is the exception of the code.   *)
Longest(kind, from, end) ==
  CASE kind \in {"ident"} \cup Range(Keywords) -> CharAt(end) \notin Letters \cup Digits
    [] kind = "int" -> /\ CharAt(end) \notin Digits
                       /\ CharAt(end) = "." => CharAt(end + 1) = "."
    [] kind = "float" -> CharAt(end) \notin Digits
    [] kind \in PunctuationKinds ->
         /\ DotDotEqualAt(from) => end = from + 3
         /\ PairsAt(from) # {} => end > from + 1
         /\ kind = "/" => CharAt(end) # "/"
    [] OTHER -> TRUE

(* The tokens cover the text: between the one formed last and the one before *)
(* it there are only spaces and comments, it is a lexeme of its kind, and it *)
(* does not stop early.                                                     *)
TokensCoverText ==
  Ordinary /\ tokens # <<>> =>
    LET n == Len(tokens)
        t == tokens[n]
    IN /\ Trivia(IF n = 1 THEN 1 ELSE tokens[n - 1].end, t.at.ptr)
       /\ Lexeme(t.kind, t.at.ptr, t.end)
       /\ Longest(t.kind, t.at.ptr, t.end)

(* The line and column of the last token and of every error are those of    *)
(* its pointer, whatever line was asked for before it.                      *)
LocationsExact ==
  \A loc \in Range(reports) \cup (IF tokens = <<>> THEN {} ELSE {Last(tokens).at}) :
    LET before == {i \in 1 .. loc.ptr - 1 : i <= Len(text) /\ text[i] = Newline}
    IN /\ loc.line = 1 + Cardinality(before)
       /\ loc.column = loc.ptr - Max({0} \cup before)
=============================================================================
