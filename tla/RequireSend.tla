----------------------------- MODULE RequireSend -----------------------------
(***************************************************************************)
(* The scanner for Rust, Dart and Gleam (.ores-lint/require-send.mjs,      *)
(* analyzeSource and the token walks it uses): one pass over the tokens of *)
(* a file that looks for logging chains which never call send().           *)
(*                                                                         *)
(* The tokens arrive a statement at a time, one statement to a line, and   *)
(* each is scanned to its end before the next one is read; `at` is the     *)
(* loop variable i within the statement.  No look-ahead or look-behind of  *)
(* the scanner crosses the statements that NextStatement accepts.          *)
(***************************************************************************)
EXTENDS Integers, PendingScopes

CONSTANTS
  LoggerWords,  \* identifiers that looksLikeLogger's expressions accept
  MaxLines      \* bound on the statements of a file

VARIABLES
  language,    \* "rust", "dart" or "gleam"
  suppressed,  \* collectSuppressions: [file, lines, next]
  toks,        \* tokens of the statement being scanned
  at,          \* i
  line,        \* number of statements read; the line of the current one
  scopeStack,  \* scopeStack, of maps from names to findings
  lineOf,      \* the line of every finding made so far, in order
  reported     \* how often each of them is in `findings`

scanVars == <<language, suppressed, toks, at, line, scopeStack, lineOf, reported>>

LEVEL == {"trace", "debug", "info", "log", "warn", "error", "fatal"}
TERMINAL == {"send", "send_with_store"}

Languages == {"rust", "dart", "gleam"}

-----------------------------------------------------------------------------
(* Tokens: [type, value].  Beyond either end there is none. *)

Type(ts, i) == IF i \in DOMAIN ts THEN ts[i].type ELSE "none"
IsIdent(ts, i) == Type(ts, i) = "ident"
Word(ts, i, words) == IsIdent(ts, i) /\ ts[i].value \in words

Least(S) == CHOOSE x \in S : \A y \in S : x <= y
Greatest(S) == CHOOSE x \in S : \A y \in S : y <= x

\* ident . ident . ... . ident from position a to position b
IsPath(ts, a, b) ==
  /\ (b - a) % 2 = 0
  /\ \A p \in a .. b : Type(ts, p) = IF (p - a) % 2 = 0 THEN "ident" ELSE "dot"

PathStart(ts, i) == Least({s \in 1 .. i : IsPath(ts, s, i)})
PathEnd(ts, i) == Greatest({e \in i .. Len(ts) : IsPath(ts, i, e)})

QualifiedName(ts, i) ==
  IF ~IsIdent(ts, i) THEN <<>>
  ELSE LET s == PathStart(ts, i)
       IN  [k \in 1 .. ((i - s) \div 2 + 1) |-> ts[s + 2 * (k - 1)].value]

Opens == {"lparen", "lbracket", "lbrace"}
Closes == {"rparen", "rbracket", "rbrace"}

Nesting(ts, a, b, opens, closes) ==
  Cardinality({p \in a .. b : ts[p].type \in opens})
    - Cardinality({p \in a .. b : ts[p].type \in closes})

\* The parenthesis that closes the one at lp; the last token if none does.
SkipBalanced(ts, lp) ==
  Least({Len(ts)} \cup
        {j \in lp .. Len(ts) : Nesting(ts, lp, j, {"lparen"}, {"rparen"}) = 0})

\* Arguments are counted by their commas, so a trailing comma counts one more,
\* and only a token at depth one that opens and closes nothing is an argument.
CountTopLevelArgs(ts, lp) ==
  LET deep(j) == Nesting(ts, lp, j, Opens, Closes)
      close == Least({Len(ts) + 1} \cup {j \in lp .. Len(ts) : deep(j) = 0})
      top == {j \in lp .. close - 1 : ts[j].type \notin Opens \cup Closes /\ deep(j) = 1}
      commas == {j \in top : ts[j].type = "comma"}
  IN  IF top = commas THEN 0 ELSE Cardinality(commas) + 1

LooksLikeLogger(name) == name # <<>> /\ name[Len(name)] \in LoggerWords

-----------------------------------------------------------------------------
(* Chains: [start, end, methods, args, root]. *)

\* root.field.field before the first method of the chain
FieldEnd(ts, start) ==
  LET field(p) == /\ Type(ts, p + 1) = "dot"
                  /\ IsIdent(ts, p + 2)
                  /\ Type(ts, p + 3) # "lparen"
                  /\ ~Word(ts, p + 2, LEVEL \cup TERMINAL)
  IN  Least({p \in start .. Len(ts) : (p - start) % 2 = 0 /\ ~field(p)})

\* .method(args).method(args)... after position p
MethodCalls(ts) ==
  LET after[p \in 1 .. Len(ts)] ==
        IF ~(Type(ts, p + 1) = "dot" /\ IsIdent(ts, p + 2))
        THEN [methods |-> <<>>, end |-> p]
        ELSE LET e == IF Type(ts, p + 3) = "lparen" THEN SkipBalanced(ts, p + 3) ELSE p + 2
             IN  [methods |-> <<ts[p + 2].value>> \o after[e].methods, end |-> after[e].end]
  IN  after

WalkMethodChain(ts, start) ==
  LET p == FieldEnd(ts, start)
      calls == MethodCalls(ts)[p]
  IN  [start |-> start, end |-> calls.end, methods |-> calls.methods,
       root |-> QualifiedName(ts, p),
       args |-> IF Type(ts, p + 3) = "lparen" THEN CountTopLevelArgs(ts, p + 3) ELSE 0]

\* |> step(args) |> step(args)... after position p
PipeSteps(ts) ==
  LET after[p \in 1 .. Len(ts)] ==
        IF Type(ts, p + 1) # "pipe" THEN [methods |-> <<>>, end |-> p]
        ELSE IF ~IsIdent(ts, p + 2) THEN [methods |-> <<>>, end |-> p + 1]
        ELSE LET s == PathEnd(ts, p + 2)
                 e == IF Type(ts, s + 1) = "lparen" THEN SkipBalanced(ts, s + 1) ELSE s
             IN  [methods |-> <<ts[s].value>> \o after[e].methods, end |-> after[e].end]
  IN  after

WalkGleamPipe(ts, start) ==
  LET callee == PathEnd(ts, start)
      steps == PipeSteps(ts)[SkipBalanced(ts, callee + 1)]
  IN  [start |-> start, end |-> steps.end,
       methods |-> <<ts[callee].value>> \o steps.methods,
       root |-> QualifiedName(ts, callee), args |-> 0]

Calls(chain, methods) == \E k \in DOMAIN chain.methods : chain.methods[k] \in methods

\* The token at i makes analyzeSource walk a chain, and the chain is one of a logger.
GleamChain(ts, i) ==
  LET start == PathStart(ts, i)
  IN  /\ ~Word(ts, i - 1, {"fn"})
      /\ Type(ts, i + 1) = "lparen" \/ Type(ts, start - 1) = "pipe"
      /\ Type(ts, PathEnd(ts, start) + 1) = "lparen"
      /\ Calls(WalkGleamPipe(ts, start), LEVEL)

MethodChain(ts, i) ==
  /\ Type(ts, i - 1) = "dot"
  /\ Type(ts, i + 1) = "lparen"
  /\ IsIdent(ts, i - 2)
  /\ LooksLikeLogger(WalkMethodChain(ts, PathStart(ts, i - 2)).root)

StartsChain(ts, i, lang) ==
  /\ Word(ts, i, LEVEL)
  /\ IF lang = "gleam" THEN GleamChain(ts, i) ELSE MethodChain(ts, i)

ChainAt(ts, i, lang) ==
  IF lang = "gleam" THEN WalkGleamPipe(ts, PathStart(ts, i))
  ELSE WalkMethodChain(ts, PathStart(ts, i - 2))

-----------------------------------------------------------------------------
(* What becomes of a chain. *)

\* Delivered in the chain itself, or by the convenience emit of three arguments.
Delivered(chain, lang) ==
  \/ Calls(chain, TERMINAL)
  \/ lang # "gleam" /\ Len(chain.methods) = 1 /\ chain.args >= 3

\* The identifier in front of the equals sign in front of the chain, whatever
\* stands in front of that.
PrecedingAssignment(ts, start) ==
  IF Type(ts, start - 1) = "eq" /\ IsIdent(ts, start - 2) THEN <<ts[start - 2].value>> ELSE <<>>

IsReturnish(ts, start) == Type(ts, start - 1) = "arrow" \/ Word(ts, start - 1, {"return"})

HandedOff(ts, chain, lang) ==
  \/ IsReturnish(ts, chain.start)
  \/ Type(ts, chain.start - 1) \in {"lparen", "comma"}
  \/ lang = "gleam" /\ Type(ts, chain.end + 1) = "rbrace"
  \/ lang = "rust" /\ Type(ts, chain.end + 1) # "semi"

IsDisabled(l) ==
  \/ suppressed.file
  \/ {l, l - 1} \cap suppressed.lines # {}
  \/ l - 1 \in suppressed.next
-----------------------------------------------------------------------------
(* The loop. *)

ScanInit(lang, comments) ==
  /\ language = lang
  /\ suppressed = comments
  /\ toks = <<>>
  /\ at = 1
  /\ line = 0
  /\ scopeStack = <<EmptyScope>>
  /\ lineOf = <<>>
  /\ reported = <<>>

Scanning == at <= Len(toks)
Scanned == scopeStack = <<>>

NextStatement(ts) ==
  /\ ~Scanning /\ ~Scanned
  /\ line < MaxLines
  /\ toks' = ts /\ at' = 1 /\ line' = line + 1
  /\ UNCHANGED <<language, suppressed, scopeStack, lineOf, reported>>

SkipTo(i) ==
  at' = i /\ UNCHANGED <<language, suppressed, toks, line>>

OpenBrace ==
  /\ Scanning /\ Type(toks, at) = "lbrace"
  /\ scopeStack' = Enter(scopeStack)
  /\ SkipTo(at + 1) /\ UNCHANGED <<lineOf, reported>>

Popped == SubSeq(scopeStack, 1, Len(scopeStack) - 1)
Silenced == {e \in DOMAIN lineOf : IsDisabled(lineOf[e])}
FlushedTop == Flush(reported, scopeStack[Len(scopeStack)], Silenced)

\* Variant: the scope is flushed and stays.
CloseBrace_Keeps ==
  /\ Scanning /\ Type(toks, at) = "rbrace"
  /\ reported' = IF Len(scopeStack) > 1 THEN FlushedTop ELSE reported
  /\ SkipTo(at + 1) /\ UNCHANGED <<lineOf, scopeStack>>

\* The outermost scope survives a brace too many.
CloseBrace ==
  /\ Scanning /\ Type(toks, at) = "rbrace"
  /\ IF Len(scopeStack) > 1
     THEN scopeStack' = Popped /\ reported' = FlushedTop
     ELSE UNCHANGED <<scopeStack, reported>>
  /\ SkipTo(at + 1) /\ UNCHANGED lineOf

\* Variant: only the receiver is cleared.
TerminalUse_ReceiverOnly ==
  /\ Scanning /\ Word(toks, at, TERMINAL)
  /\ scopeStack' = Clear(scopeStack, IF Type(toks, at - 1) = "dot"
                                     THEN QualifiedName(toks, at - 2) ELSE <<>>)
  /\ SkipTo(at + 1) /\ UNCHANGED <<lineOf, reported>>

\* name.send(...), then send(name) on what is left.
TerminalUse ==
  LET receiver == IF Type(toks, at - 1) = "dot" THEN QualifiedName(toks, at - 2) ELSE <<>>
      inner == IF Type(toks, at + 1) = "lparen" /\ IsIdent(toks, at + 2)
               THEN <<toks[at + 2].value>> ELSE <<>>
  IN  /\ Scanning /\ Word(toks, at, TERMINAL)
      /\ scopeStack' = Clear(Clear(scopeStack, receiver), inner)
      /\ SkipTo(at + 1) /\ UNCHANGED <<lineOf, reported>>

OtherToken ==
  /\ Scanning
  /\ Type(toks, at) \notin {"lbrace", "rbrace"}
  /\ ~Word(toks, at, TERMINAL)
  /\ ~StartsChain(toks, at, language)
  /\ SkipTo(at + 1) /\ UNCHANGED <<scopeStack, lineOf, reported>>

Here == ChainAt(toks, at, language)
AtChain == Scanning /\ StartsChain(toks, at, language)
Bound == PrecedingAssignment(toks, Here.start)

DeliveredChain ==
  /\ AtChain /\ Delivered(Here, language)
  /\ SkipTo(Here.end + 1) /\ UNCHANGED <<scopeStack, lineOf, reported>>

BoundChain ==
  /\ AtChain /\ ~Delivered(Here, language)
  /\ Bound # <<>>
  /\ lineOf' = Append(lineOf, line)
  /\ reported' = Append(reported, 0)
  /\ scopeStack' = Mark(scopeStack, Bound, Len(reported) + 1)
  /\ SkipTo(Here.end + 1)

HandedOffChain ==
  /\ AtChain /\ ~Delivered(Here, language)
  /\ Bound = <<>> /\ HandedOff(toks, Here, language)
  /\ SkipTo(Here.end + 1) /\ UNCHANGED <<scopeStack, lineOf, reported>>

DroppedChain ==
  /\ AtChain /\ ~Delivered(Here, language)
  /\ Bound = <<>> /\ ~HandedOff(toks, Here, language)
  /\ lineOf' = Append(lineOf, line)
  /\ reported' = Append(reported, IF IsDisabled(line) THEN 0 ELSE 1)
  /\ SkipTo(Here.end + 1) /\ UNCHANGED scopeStack

\* The last loop: what is pending in any scope is reported.
EndOfSource ==
  /\ ~Scanning /\ ~Scanned
  /\ reported' = FlushedTop /\ scopeStack' = Popped
  /\ UNCHANGED <<language, suppressed, toks, at, line, lineOf>>

ScanStep ==
  \/ OpenBrace \/ CloseBrace \/ TerminalUse \/ OtherToken
  \/ DeliveredChain \/ BoundChain \/ HandedOffChain \/ DroppedChain

-----------------------------------------------------------------------------
\* The statements of a file are reported once: a finding is in `findings` at
\* most once however the scopes, names and uses of the file are nested, and
\* never while it is still pending (mark, clear, flushScope and report share
\* the object).
ScanReportedOnce ==
  \A e \in DOMAIN reported :
    /\ reported[e] <= 1
    /\ reported[e] = 1 => \A k \in DOMAIN scopeStack : Times(scopeStack[k], e) = 0
=============================================================================
