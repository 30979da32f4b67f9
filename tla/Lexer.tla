--------------------------------- MODULE Lexer ---------------------------------
(***************************************************************************)
(* The lexer.  A text is a sequence of characters, but what the lexer only *)
(* tells apart as a whole is one element: a run of letters, digits and     *)
(* underscores that begins as a word is a word, a run of digits a number.  *)
(***************************************************************************)
EXTENDS Ast, SequencesExt, FiniteSetsExt

Blanks == {" ", "\n"}
Digits == {"0", "1", "2", "3"}

SingleChar ==
  "." :> "Dot" @@ "," :> "Comma" @@ ":" :> "Colon" @@ ";" :> "Semicolon"
    @@ "(" :> "LParen" @@ ")" :> "RParen" @@ "{" :> "LBrace" @@ "}" :> "RBrace"

\* Alone, and with = behind it.
TwoChar ==
  "=" :> <<"Assign", "Eq">> @@ "!" :> <<"Bang", "Ne">> @@ "<" :> <<"Lt", "Le">>
    @@ ">" :> <<"Gt", "Ge">> @@ "+" :> <<"Plus", "PlusAssign">>
    @@ "-" :> <<"Minus", "MinusAssign">> @@ "*" :> <<"Asterisk", "MulAssign">>
    @@ "/" :> <<"Slash", "DivAssign">>

StrictlyTwoChar == "&" :> "And" @@ "|" :> "Or"

Keywords ==
  "var" :> "Var" @@ "fun" :> "Fun" @@ "struct" :> "Struct" @@ "self" :> "Self"
    @@ "return" :> "Return" @@ "if" :> "If" @@ "else" :> "Else" @@ "while" :> "While"
    @@ "true" :> "True" @@ "false" :> "False" @@ "null" :> "Null"

skipWhile(Pred(_), text) ==
  LET stops == {i \in DOMAIN text : ~Pred(text[i])}
  IN IF stops = {} THEN <<>> ELSE SubSeq(text, Min(stops), Len(text))

Drop(n, text) == SubSeq(text, n + 1, Len(text))

skipBlanksLast(text) ==
  LET rest == IF IsPrefix(<<"/", "/">>, text) THEN skipWhile(LAMBDA c : c # "\n", text) ELSE text
  IN skipWhile(LAMBDA c : c \in Blanks, rest)

\* Blanks, then one comment up to the end of its line; not the blanks behind it.
skipBlanks(text) ==
  LET rest == skipWhile(LAMBDA c : c \in Blanks, text)
  IN IF IsPrefix(<<"/", "/">>, rest) THEN skipWhile(LAMBDA c : c # "\n", rest) ELSE rest

Found(lexeme, n, text) == [st |-> "ok", v |-> lexeme, text |-> Drop(n, text)]

\* The first lexeme of a text without blanks in front; an exception if there is none.
Lexeme(text) ==
  LET c == text[1]
      followed(d) == Len(text) > 1 /\ text[2] = d
  IN CASE c \in DOMAIN SingleChar -> Found(Tok(SingleChar[c]), 1, text)
       [] c \in DOMAIN TwoChar /\ followed("=") -> Found(Tok(TwoChar[c][2]), 2, text)
       [] c \in DOMAIN TwoChar /\ ~followed("=") -> Found(Tok(TwoChar[c][1]), 1, text)
       [] c \in DOMAIN StrictlyTwoChar ->
            IF followed(c) THEN Found(Tok(StrictlyTwoChar[c]), 2, text) ELSE Stop("crash")
       [] c \in Blanks -> Stop("crash")
       [] c \in Digits -> Found(Lit("Num", c), 1, text)
       [] c \in DOMAIN Keywords -> Found(Tok(Keywords[c]), 1, text)
       [] OTHER -> Found(Lit("Id", c), 1, text)

RECURSIVE lex(_, _)
lex(text, lexemes) ==
  LET rest == skipBlanks(text)
  IN IF rest = <<>> THEN Ok(lexemes)
     ELSE Then(Lexeme(rest), LAMBDA l : lex(l.text, Append(lexemes, l.v)))
=============================================================================
