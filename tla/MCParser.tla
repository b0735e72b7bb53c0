-------------------------------- MODULE MCParser --------------------------------
(* Parser on short texts for the lexer and on short programs for the parser. *)
(* Keywords are words of one letter.                                        *)
EXTENDS Parser, TLC

CONSTANTS
  TextLength,   \* of texts that are enumerated character by character
  TailLength    \* of the tokens that are enumerated after a prefix

MCLetters == {"x", "n", "L", "M", "F", "I", "E", "W", "O", "N", "R", "C", "A"}
MCDigits == {"1"}
Word == [let |-> "L", mut |-> "M", fn |-> "F", if |-> "I", else |-> "E", while |-> "W", for |-> "O",
         in |-> "N", return |-> "R", const |-> "C", as |-> "A"]
MCKeywords == [w \in {<<c>> : c \in Range(Word)} |-> CHOOSE k \in DOMAIN Word : <<Word[k]>> = w]

SeqsUpTo(S, n) == UNION {[1 .. k -> S] : k \in 0 .. n}

(* Texts. *)
Texts ==
  SeqsUpTo({"x", "1", ".", "/", "=", Newline}, TextLength)
  \cup SeqsUpTo({"\"", "\\", "x", "n", Newline}, TextLength)
  \cup {t \o <<Newline>> : t \in SeqsUpTo({"x", "/", "?", ">", Newline}, TextLength)}
  \cup {<<"1", ".", ".", "=", "1", c, Newline>> : c \in {".", "x"}}

Spelled(kind) ==
  CASE kind \in DOMAIN Word -> <<Word[kind]>>
    [] kind = "ident" -> <<"x">>
    [] kind = "int" -> <<"1">>
    [] kind = "string" -> <<"\"", "\"">>
    [] kind = "->" -> <<"-", ">">>
    [] kind = ".." -> <<".", ".">>
    [] kind = "==" -> <<"=", "=">>
    [] kind = "+=" -> <<"+", "=">>
    [] kind = "&&" -> <<"&", "&">>
    [] OTHER -> <<kind>>

TextOf(kinds) == FoldLeft(LAMBDA t, k : t \o Spelled(k) \o <<" ">>, <<>>, kinds) \o <<Newline>>

(* Programs. *)
After(prefix, S) == {prefix \o tail : tail \in SeqsUpTo(S, TailLength)}

Operators == {"+", "*", "==", "<", "=", "+=", "&&", "ident", "."}

Expressions ==
  {<<"ident", o, "int", p, "ident", q, "int", ";">> : o, p, q \in Operators}
  \cup {<<"ident", o, "-", "int", p, "(", "ident", q, "int", ")", ";">> : o, p, q \in {"*", "+", "="}}
  \cup {<<"ident", o, "&", "mut", "ident", "as", "ident", p, "ident", ";">> : o, p \in {"*", "+", "="}}

Blocks == After(<<"{">>, {"}", ";", "ident", "int", "(", ")", "["})
Lists ==
  After(<<"ident", "[">>, {"ident", "]", ";", "["})
  \cup After(<<"[">>, {"int", ",", "]", ";"})
  \cup After(<<"ident", "(">>, {"ident", ",", ")", ";"})
  \cup After(<<"ident", "!", "(">>, {"string", ",", ")", ";"})
Lets ==
  After(<<"let">>, {"mut", "ident", "=", ":", ";"})
  \cup {<<"let", "ident", ":">> \o t \o <<"=", "int", ";">> :
          t \in SeqsUpTo({"*", "&", "mut", "const", "ident"}, TailLength)
                \cup {<<"[", "ident", s, n, e>> :
                         s \in {";", ","}, n \in {"int", "ident"}, e \in {"]", ";"}}}
Flow ==
  {<<"for", "ident">> \o t \o <<"{", "}">> : t \in SeqsUpTo({"in", "int", ".."}, TailLength)}
  \cup {<<"for", "ident", "in">> \o t \o <<"{", "}">> : t \in SeqsUpTo({"int", "..", "["}, TailLength)}
  \cup {<<k>> \o t : k \in {"if", "while"}, t \in SeqsUpTo({"ident", "{", "}", "else", ";"}, TailLength)}
  \cup {<<"if", "ident", "{", "}", "else">> \o t : t \in SeqsUpTo({"{", "}", "ident", ";"}, 2)}
  \cup After(<<"fn", "ident">>, {"ident", "(", ")", ":", "{", "}"})
  \cup After(<<"fn", "ident", "(">>, {"ident", ",", ")", "->", "{", "}"})
  \cup {<<"fn", "ident", "(", "ident", ":", "ident", ",", "ident", ")", "->", "ident", "{", "return">>
          \o t : t \in SeqsUpTo({"ident", ";", "}"}, TailLength)}

Programs == Expressions \cup Blocks \cup Lists \cup Lets \cup Flow

Init ==
  /\ \/ text \in Texts /\ past \in {"=", "?"}
     \/ \E p \in Programs : text = TextOf(p) /\ past = "?"
  /\ SyntaxInit

Spec == Init /\ [][SyntaxNext]_syntaxVars /\ WF_syntaxVars(SyntaxNext)
=============================================================================
