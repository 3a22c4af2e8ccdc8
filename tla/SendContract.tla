----------------------------- MODULE SendContract -----------------------------
(***************************************************************************)
(* The two halves of the house rule on the same file: the scanner reads it *)
(* as Rust, Dart or Gleam (RequireSend), the ESLint rule reads the same    *)
(* statements as JavaScript (EslintRequireSend), and LintedProgram says    *)
(* what became of every event.                                             *)
(***************************************************************************)
EXTENDS LintedProgram, RequireSend, EslintRequireSend

CONSTANT
  Suites  \* by name, kinds of files: [statements, limit, dialects, comments]

ASSUME SuitesAssumption == \A n \in DOMAIN Suites : Suites[n].statements \subseteq Statements

Theirs == <<"@oresoftware", "next-loggers-lite">>  \* not one of moduleNames

ASSUME PackagesAssumption == ~IsTrackedModule(Theirs)

ASSUME EventsAssumption ==
  EventPlaces \subseteq Names /\ \A p \in EventPlaces : \A k \in DOMAIN p : p[k] # NoName

VARIABLE
  suite   \* the kind of file that is written

sendVars == <<suite, programVars, scanVars, ruleVars>>

-----------------------------------------------------------------------------
(* A statement as tokens. *)

P(type) == [type |-> type, value |-> ""]
W(word) == [type |-> "ident", value |-> word]
lp == P("lparen")
rp == P("rparen")
str == P("string")

Path(place) ==
  IF Len(place) = 1 THEN <<W(place[1])>> ELSE <<W(place[1]), P("dot"), W(place[2])>>

Method(root, name, args) == <<W(root), P("dot"), W(name), lp>> \o args \o <<rp>>

ChainTokens(chain) ==
  LET info == Method("log", "info", <<str>>)
      with == Method("log", "with", <<str>>)
      next == IF dialect = "gleam" THEN <<P("pipe"), W("log"), P("dot")>> ELSE <<P("dot")>>
  IN  CASE chain = "plain" -> info
        [] chain = "comma" -> Method("log", "info", <<str, P("comma"), W("c"), P("comma")>>)
        [] chain = "derived" -> with \o next \o <<W("info"), lp, str, rp>>
        [] chain = "member" -> <<W("self"), P("dot")>> \o info
        [] chain = "alias" -> Method("app", "info", <<str>>)
        [] chain = "sent" -> info \o next \o <<W("send"), lp, rp>>
        [] chain = "emit" -> Method("log", "log", <<str, P("comma"), str, P("comma"), W("c")>>)

\* let x =, final x =, and with the type of the event
Declaration(s) ==
  LET x == Path(s.place)
      word == IF dialect = "dart" THEN "final" ELSE "let"
  IN  IF s.form # "typed" THEN <<W(word)>> \o x
      ELSE IF dialect = "dart" THEN <<W("Event")>> \o x ELSE <<W("let")>> \o x \o <<W("Event")>>

Closure(body) ==
  CASE dialect = "rust" -> body
    [] dialect = "dart" -> <<lp, rp, P("arrow")>> \o body
    [] dialect = "gleam" -> <<W("fn"), lp, rp, P("lbrace")>> \o body \o <<P("rbrace")>>

Tokens(s) ==
  LET chain == ChainTokens(s.chain)
      x == Path(s.place)
      semi == IF dialect = "gleam" THEN <<>> ELSE <<P("semi")>>
      brace == <<P("rbrace")>>
      run(args) == <<W("run"), lp>> \o args \o <<rp>> \o semi
  IN  CASE s.form = "stmt" -> chain \o semi
        [] s.form \in {"let", "typed"} -> Declaration(s) \o <<P("eq")>> \o chain \o semi
        [] s.form = "assign" -> x \o <<P("eq")>> \o chain \o semi
        [] s.form = "arg" -> run(chain)
        [] s.form = "return" -> <<W("return")>> \o chain \o semi \o brace
        [] s.form = "tail" -> chain \o brace
        [] s.form = "declare" -> Declaration(s) \o semi
        [] s.form = "anew" -> Declaration(s) \o <<P("eq")>> \o Method("log", "anew", <<>>) \o semi
        [] s.form = "factory" -> Declaration(s) \o <<P("eq"), W("createLogger"), lp, rp>> \o semi
        [] s.form = "class" -> Declaration(s) \o <<P("eq")>> \o Method("otel", "BaseLogger", <<>>) \o semi
        [] s.op = "import" -> <<W("use")>> \o x \o semi
        [] s.form = "call" -> x \o <<P("dot"), W("send"), lp, rp>> \o semi
        [] s.form = "give" -> (IF dialect = "gleam" THEN <<W("log"), P("dot")>> ELSE <<>>)
                                \o <<W("send"), lp>> \o x \o <<rp>> \o semi
        [] s.form = "piped" -> x \o <<P("pipe")>> \o Method("log", "send", <<>>)
        [] s.form = "argument" -> run(x)
        [] s.form = "arrow" -> run(Closure(x))
        [] s.form = "return of" -> <<W("return")>> \o x \o semi \o brace
        [] s.form = "tail of" -> x \o brace
        [] s.form = "block" -> <<P("lbrace")>>
        [] s.form = "function" -> <<W("fn"), W("h"), lp, rp, P("lbrace")>>
        [] s.op = "close" -> brace

-----------------------------------------------------------------------------
(* The same statement as nodes, in the order ESLint visits them. *)

Root(kind, name) == [kind |-> kind, name |-> name]
Dot(name) == [kind |-> "dot", name |-> name]
Call(args) == [kind |-> "call", args |-> args]
Expr(root, links) == [root |-> root, links |-> links]

Nowhere == Expr(Root("other", NoName), <<>>)
Name(place) ==
  Expr(Root(IF place[1] = "self" THEN "this" ELSE "name", place[1]),
       [k \in 1 .. Len(place) - 1 |-> Dot(place[k + 1])])
Then(e, method, args) == Expr(e.root, e.links \o <<Dot(method), Call(args)>>)
Wrap(e) == Expr(e.root, Append(e.links, [kind |-> "wrap"]))  \* await e
Literal == Nowhere

ChainExpr(chain) ==
  LET log == Name(<<"log">>) IN
  CASE chain = "plain" -> Then(log, "info", <<Literal>>)
    [] chain = "comma" -> Then(log, "info", <<Literal, Name(<<"c">>)>>)
    [] chain = "derived" -> Then(Then(log, "with", <<Literal>>), "info", <<Literal>>)
    [] chain = "member" -> Then(Name(<<"self", "log">>), "info", <<Literal>>)
    [] chain = "alias" -> Then(Name(App), "info", <<Literal>>)
    [] chain = "sent" -> Wrap(Then(Wrap(Then(log, "info", <<Literal>>)), "send", <<>>))
    [] chain = "emit" -> Then(log, "log", <<Literal, Literal, Name(<<"c">>)>>)

\* The calls in the spine of an expression, outermost first.
CallVisits(e) ==
  LET n == Len(e.links)
      upTo == [k \in 1 .. n |-> [visit |-> "CallExpression",
                                 call |-> Expr(e.root, SubSeq(e.links, 1, n + 1 - k))]]
  IN  Picked(upTo, {k \in 1 .. n : e.links[n + 1 - k].kind = "call"})

Exit == [visit |-> "Exit"]

Import(source, specifier) ==
  <<[visit |-> "ImportDeclaration", source |-> source, specifiers |-> {specifier}]>>
Named == [kind |-> "named", local |-> "createLogger", imported |-> "createLogger"]

Nodes(s, l) ==
  LET chain == ChainExpr(s.chain)
      x == Name(s.place)
      run(arg) == Expr(Root("name", "run"), <<Call(<<arg>>)>>)
      send(arg) == Expr(Root("name", "send"), <<Call(<<arg>>)>>)
      statement(e) == <<[visit |-> "ExpressionStatement", expression |-> e, line |-> l]>> \o CallVisits(e)
      declarator(init) ==
        <<[visit |-> "VariableDeclarator", id |-> s.place, init |-> init, line |-> l]>> \o CallVisits(init)
      return(e) == <<[visit |-> "ReturnStatement", argument |-> e]>> \o CallVisits(e) \o <<Exit>>
  IN  CASE s.form = "stmt" -> statement(chain)
        [] s.form \in {"let", "typed"} -> declarator(chain)
        [] s.form = "assign" ->
             statement(Nowhere) \o
             <<[visit |-> "AssignmentExpression", left |-> x, right |-> chain, line |-> l]>> \o CallVisits(chain)
        [] s.form = "arg" -> statement(run(chain)) \o CallVisits(chain)
        [] s.form \in {"return", "tail"} -> return(chain)
        [] s.form = "declare" -> declarator(Nowhere)
        [] s.form = "anew" -> declarator(Then(Name(<<"log">>), "anew", <<>>))
        [] s.form = "factory" -> declarator(Expr(Root("name", "createLogger"), <<Call(<<>>)>>))
        [] s.form = "class" -> declarator(Expr(Root("new", <<"otel", "BaseLogger">>), <<>>))
        [] s.form = "default" -> Import(OurPackage, [kind |-> "default", local |-> "app"])
        [] s.form = "named" -> Import(OurPackage \o <<"node">>, Named)
        [] s.form = "foreign" -> Import(Theirs, Named)
        [] s.form = "namespace" -> Import(OurPackage, [kind |-> "namespace", local |-> "otel"])
        [] s.form = "call" -> statement(Then(x, "send", <<>>))
        [] s.form \in {"give", "piped"} -> statement(send(x))
        [] s.form = "argument" -> statement(run(x))
        [] s.form = "arrow" -> statement(run(Nowhere)) \o <<[visit |-> "ArrowEnter", body |-> x], Exit>>
        [] s.form \in {"return of", "tail of"} -> return(x)
        [] s.form = "block" -> <<>>
        [] s.form = "function" -> <<[visit |-> "FunctionEnter"]>>
        [] s.op = "close" -> IF frames[Len(frames)].fun THEN <<Exit>> ELSE <<>>

-----------------------------------------------------------------------------
SendInit ==
  /\ suite \in DOMAIN Suites
  /\ \E d \in Suites[suite].dialects, c \in Suites[suite].comments :
       ProgramInit(d) /\ ScanInit(d, c)
  /\ RuleInit({<<"log">>, <<"logger">>, <<"ddlog">>})

Ended == previous.op = "end"
Idle == ~Scanning /\ todo = <<>> /\ ~Ended

WriteStatement ==
  \E s \in Suites[suite].statements :
    /\ Idle /\ Written < Suites[suite].limit
    /\ Extend(s)
    /\ NextStatement(Tokens(s))
    /\ todo' = Nodes(s, Written + 1)
    /\ SameKnown /\ SameReports /\ UNCHANGED <<suite, ruleScopes>>

\* The file ends: Program:exit and the last loop of the scanner.
EndProgram ==
  /\ Idle /\ Len(frames) = 1
  /\ previous' = Simple("end")
  /\ todo' = <<Exit>>
  /\ SameKnown /\ SameReports
  /\ UNCHANGED <<suite, ruleScopes, dialect, frames, births, uses, scanVars>>

ScannerStep == ScanStep /\ UNCHANGED <<suite, programVars, ruleVars>>
ScannerEnd == Ended /\ EndOfSource /\ UNCHANGED <<suite, programVars, ruleVars>>
VisitorStep ==
  /\ ~Scanning /\ (Ended => Scanned)
  /\ RuleStep /\ UNCHANGED <<suite, programVars, scanVars>>

SendNext == WriteStatement \/ EndProgram \/ ScannerStep \/ ScannerEnd \/ VisitorStep

SendSpec == SendInit /\ [][SendNext]_sendVars

-----------------------------------------------------------------------------
(* Verdicts. *)

Done == Ended /\ Scanned /\ todo = <<>>

Lines == DOMAIN births
Events == {e \in Lines : births[e].chain \in Chains}
Handed(e) == births[e].form \in {"arg", "return", "tail"}

\* Built by a chain that does not deliver, and never sent or handed over.
Lost(e) == births[e].chain \notin SelfSending /\ ~Handed(e) /\ uses[e] = {}

ScannerSays(l) == \E f \in DOMAIN lineOf : lineOf[f] = l /\ reported[f] > 0
RuleSays(l) == \E f \in DOMAIN nodeLine : nodeLine[f] = l /\ ruleReported[f] > 0

\* The name that the scanner marks: the identifier in front of the equals sign.
ScannerName(e) ==
  LET p == births[e].place
  IN  CASE p = <<>> -> ""
        [] p # <<>> /\ births[e].form = "typed" /\ dialect # "dart" -> "Event"
        [] OTHER -> p[Len(p)]

\* x.send() and send(x), the uses that the scanner looks for.
Recognised(e) == uses[e] \cap {"call", "give"} # {}

\* Another event takes the name over in the same block, or is sent under it.
ScannerMixesUp(e) ==
  \E f \in Lines \ {e} :
    \/ f > e /\ ScannerName(f) = ScannerName(e) /\ births[f].block = births[e].block
    \/ births[f].place = <<ScannerName(e)>> /\ Recognised(f)

\* A field of the same last name takes an event in a block inside.
ScannerHides(e) ==
  \E f \in Lines :
    births[f].place \in Fields /\ ScannerName(f) = ScannerName(e) /\ births[f].block > e

\* The same for the rule, whose scopes are functions and which does not tell
\* one variable of a name from another.
RuleMixesUp(e) ==
  \E f \in Lines \ {e} :
    /\ births[f].place = births[e].place /\ births[e].place # <<>>
    /\ (f > e /\ births[f].fun = births[e].fun) \/ uses[f] # {}

\* A variable of the same name in a block of a function inside takes one.
RuleHides(e) ==
  \E f \in Lines :
    /\ births[f].place = births[e].place
    /\ births[f].fun > e /\ births[f].keep[1] > births[f].fun

-----------------------------------------------------------------------------
\* Neither half reports a chain twice, or one it still holds as pending,
\* however scopes, names and uses are nested (report, flushScope; exitScope,
\* ExpressionStatement).
ReportedOnce == ScanReportedOnce /\ RuleReportedOnce

\* A finding of the scanner is an event that is lost.  The exceptions: in
\* Gleam any function with the name of a level is taken for a logger, and a
\* chain that starts inside a pipe is not seen to be bound or handed over;
\* elsewhere, the event is used after all but the scanner cannot know, because
\* it marked the type of the declaration, or a field by its last name only, or
\* takes such a field for the variable, or flushed the block of the assignment,
\* or does not know this kind of use (precedingAssignment, flushScope and the
\* TERMINAL branch of analyzeSource).
ScannerAlarms ==
  \A l \in Lines : ScannerSays(l) =>
    \/ l \in Events /\ Lost(l)
    \/ l \notin Events /\ dialect = "gleam"
    \/ births[l].chain = "derived" /\ dialect = "gleam"
    \/ uses[l] # {} /\ \/ ScannerName(l) # births[l].place[Len(births[l].place)]
                       \/ births[l].place \in Fields
                       \/ ScannerHides(l)
                       \/ births[l].keep[1] # births[l].block
                       \/ ~Recognised(l)

\* A lost event is a finding of the scanner.  The exceptions: outside Gleam, a
\* chain whose level does not follow the logger, one of a logger that does not
\* have a logger's name, and one whose trailing comma makes a convenience emit
\* of it; a line that a comment silences; and a name that another event takes
\* over or is sent under (analyzeSource, countTopLevelArgs, isDisabled).
ScannerMisses ==
  Done => \A e \in Events : Lost(e) =>
    \/ ScannerSays(e)
    \/ births[e].chain \in {"derived", "alias", "comma"} /\ dialect # "gleam"
    \/ IsDisabled(e)
    \/ ScannerMixesUp(e)

\* A finding of the ESLint rule is an event that is lost.  The exceptions: a
\* convenience emit, which delivers by itself; the chain of another package's
\* logger, where one of ours has its name in some other function; an event that
\* a function assigns to a variable of one around it, reported at the end of the
\* inner function although the outer one uses it; and one that an inner function
\* uses after a block of it hid the variable (inspectChain; isLoggerProducer;
\* markPending, clearPending, exitScope).
RuleAlarms ==
  \A l \in Lines : RuleSays(l) =>
    \/ l \in Events /\ Lost(l)
    \/ births[l].chain = "emit" /\ ~Handed(l)
    \/ births[l].chain = "foreign" /\ \E k \in Lines : births[k].chain = "logger"
    \/ uses[l] # {} /\ (births[l].keep[2] # births[l].fun \/ RuleHides(l))

\* A lost event is a finding of the ESLint rule, whatever imports and producers
\* made its logger known.  The exceptions: a logger kept in a field the file
\* does not assign; and a name that another event of the function takes over, or
\* under which another event is used (collectCallChain; markPending,
\* clearPending, CallExpression).
RuleMisses ==
  Done => \A e \in Events : Lost(e) =>
    \/ RuleSays(e)
    \/ births[e].chain = "member"
    \/ RuleMixesUp(e)

\* The scanner accuses no event that is sent, passed on or handed over, and
\* passes over none that is lost, but for the cases that ScannerAlarms and
\* ScannerMisses name (analyzeSource).
ScannerFindings == ScannerAlarms /\ ScannerMisses

\* The ESLint rule accuses no event that is sent, passed on or handed over, and
\* passes over none that is lost, but for the cases that RuleAlarms and
\* RuleMisses name (requireSendRule).
RuleFindings == RuleAlarms /\ RuleMisses
=============================================================================
