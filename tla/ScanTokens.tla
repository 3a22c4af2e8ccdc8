------------------------------ MODULE ScanTokens ------------------------------
(***************************************************************************)
(* The tokeniser of the scanner (.ores-lint/require-send.mjs, tokenize and *)
(* the lines of collectSuppressions), over sources of a few characters     *)
(* that tell its branches apart.  A source grows a character at a time.    *)
(***************************************************************************)
EXTENDS Integers, Sequences, FiniteSets

CONSTANTS
  Chars,     \* of the names used below
  MaxSource  \* bound on the length of a source

VARIABLE source

Quotes == {"double", "single", "template"}

Char(src, i) == IF i \in DOMAIN src THEN src[i] ELSE "none"
Lowest(S) == CHOOSE x \in S : \A y \in S : x <= y
Newlines(src, a, b) == Cardinality({j \in a .. b : Char(src, j) = "newline"})

\* First position from i on with the property, or the one after the end.
From(src, i, P(_)) == Lowest({Len(src) + 1} \cup {j \in i .. Len(src) : P(j)})

\* A token, or none: [type, next, lines], lines being the newlines it bumps.
Taken(src, i, type, next) ==
  [type |-> type, next |-> next, lines |-> Newlines(src, i, next - 1)]

\* Variant: a newline does not end a string.
StringEnd_Long(src, i) ==
  LET n == Len(src)
      from[j \in i + 1 .. n + 2] ==
        IF j > n THEN n + 1
        ELSE CASE src[j] = src[i] -> j + 1
               [] src[j] = "backslash" /\ j < n -> from[j + 2]
               [] OTHER -> from[j + 1]
  IN  from[i + 1]

\* The position behind the string whose quote is at i: an escape takes the
\* character after it, and a newline ends all strings but template ones.
StringEnd(src, i) ==
  LET n == Len(src)
      q == src[i]
      from[j \in i + 1 .. n + 2] ==
        IF j > n THEN n + 1
        ELSE CASE src[j] = q -> j + 1
               [] src[j] = "backslash" /\ j < n -> from[j + 2]
               [] src[j] = "newline" /\ q # "template" -> j
               [] OTHER -> from[j + 1]
  IN  from[i + 1]

\* Variant: the escaped character is skipped without a bump.
StringToken_Skips(src, i) ==
  LET e == StringEnd(src, i)
      kept(j) == src[j] = "newline" /\ src[j - 1] # "backslash"
  IN  [type |-> "string", next |-> e, lines |-> Cardinality({j \in i .. e - 1 : kept(j)})]

\* A string bumps the characters it passes one by one, the escaped ones too.
StringToken(src, i) == Taken(src, i, "string", StringEnd(src, i))

BlockComment(src, i) ==
  LET closes(j) == Char(src, j) = "*" /\ Char(src, j + 1) = "/"
      close == From(src, i + 2, closes)
  IN  Taken(src, i, "none", IF close > Len(src) THEN Len(src) + 1 ELSE close + 2)

LineComment(src, i) ==
  LET newline(j) == Char(src, j) = "newline"
  IN  Taken(src, i, "none", From(src, i, newline))

Identifier(src, i) ==
  LET ends(j) == Char(src, j) # "letter"
  IN  Taken(src, i, "ident", From(src, i, ends))

Single == [c \in {"{", "="} |-> IF c = "{" THEN "lbrace" ELSE "eq"]

\* One turn of the loop at position i.
TokenAt(src, i) ==
  LET c == Char(src, i)
      d == Char(src, i + 1)
  IN  CASE c = "/" /\ d = "/" -> LineComment(src, i)
        [] c = "/" /\ d = "*" -> BlockComment(src, i)
        [] c \in Quotes -> StringToken(src, i)
        [] c = "|" /\ d = ">" -> Taken(src, i, "pipe", i + 2)
        [] c = "=" /\ d = ">" -> Taken(src, i, "arrow", i + 2)
        [] c = "letter" -> Identifier(src, i)
        [] c = "{" \/ (c = "=" /\ d # ">") -> Taken(src, i, Single[c], i + 1)
        [] OTHER -> Taken(src, i, "none", i + 1)

Moved(tokens, by, lines) ==
  [k \in DOMAIN tokens |-> [type |-> tokens[k].type, start |-> tokens[k].start + by,
                             line |-> tokens[k].line + lines]]

Tokenize(src) ==
  LET from[i \in 1 .. Len(src) + 1] ==
        IF i > Len(src) THEN <<>>
        ELSE LET t == TokenAt(src, i)
             IN  (IF t.type = "none" THEN <<>> ELSE <<[type |-> t.type, start |-> i, line |-> 1]>>)
                   \o Moved(from[t.next], 0, t.lines)
  IN  from[1]

\* raw.split('\n'): the line of a position, as collectSuppressions counts it.
RawLine(src, i) == 1 + Newlines(src, 1, i - 1)

-----------------------------------------------------------------------------
TokenInit == source = <<>>

TypeChar ==
  /\ Len(source) < MaxSource
  /\ \E c \in Chars : source' = Append(source, c)

-----------------------------------------------------------------------------
\* The tokeniser counts lines as it goes, through comments, strings and
\* escapes; collectSuppressions splits the text.  Both number a line alike, or
\* a comment would silence the finding of another line.
LinesAgree ==
  LET tokens == Tokenize(source)
  IN  \A k \in DOMAIN tokens : tokens[k].line = RawLine(source, tokens[k].start)

\* Nothing that is open at the end of a line may go on in the next one.
Closed(src) ==
  /\ \A j \in DOMAIN src : src[j] # "template" /\ ~(src[j] = "/" /\ Char(src, j + 1) = "*")
  /\ Char(src, Len(src) - 1) # "backslash"
  /\ src[Len(src)] = "newline"

\* A quote without its partner (a lifetime, an apostrophe) spoils at most the
\* rest of its line: from the next line on the tokens are those of the text
\* that follows, taken for itself.  A template string, a block comment or a
\* backslash at the end of the line may carry on.
RecoversAtNewline ==
  \A k \in DOMAIN source :
    LET before == SubSeq(source, 1, k)
        after == SubSeq(source, k + 1, Len(source))
    IN  Closed(before) =>
          Tokenize(source) = Tokenize(before) \o Moved(Tokenize(after), k, RawLine(source, k + 1) - 1)
=============================================================================
