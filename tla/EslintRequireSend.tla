-------------------------- MODULE EslintRequireSend --------------------------
(***************************************************************************)
(* ores/require-send, the ESLint rule for JavaScript and TypeScript        *)
(* (.ores-lint/eslint/plugin.mjs, requireSendRule and the helpers it       *)
(* uses).  ESLint walks the syntax tree in pre-order and calls the visitor *)
(* of each node; `todo` is the rest of that walk, and one action is one    *)
(* visitor.                                                                *)
(*                                                                         *)
(* An expression is kept as a root and the links that follow it, outermost *)
(* last: log.info("m").send() is the root log, .info, a call, .send and a  *)
(* call.  A link is [kind |-> "dot", name], [kind |-> "call", args] or     *)
(* [kind |-> "wrap"] (await, void, as, !, ?.), and a computed property     *)
(* that is no string has no name.                                          *)
(***************************************************************************)
EXTENDS Integers, PendingScopes

Seqs == INSTANCE SequencesExt

CONSTANTS
  ModuleNames   \* moduleNames: the packages whose exports are tracked

OurPackage == <<"@oresoftware", "next-loggers">>

ASSUME ModuleNamesAssumption == OurPackage \in ModuleNames

VARIABLES
  todo,           \* nodes still to be visited
  ruleScopes,     \* scopes, of maps from names to pending nodes
  knownLoggers, knownFactories, knownClasses,
  nodeLine,       \* the line of every node marked or reported so far, in order
  ruleReported    \* how often each of them was passed to context.report

ruleVars == <<todo, ruleScopes, knownLoggers, knownFactories, knownClasses,
              nodeLine, ruleReported>>

levelMethods == {"trace", "debug", "info", "log", "warn", "error", "fatal"}
terminalMethods == {"send", "send_with_store"}
LOGGER_EXPORTS == {"logger", "browserLogger", "edgeLogger", "cloudflareWorkerLogger",
                   "nodeLogger", "bunLogger", "denoLogger"}
FACTORY_EXPORTS == {"createLogger", "createBrowserLogger", "createEdgeLogger",
                    "createCloudflareWorkerLogger", "createNodeLogger",
                    "createBunLogger", "createDenoLogger"}
CLASS_EXPORTS == {"BaseLogger", "BrowserLogger", "EdgeLogger", "CloudflareWorkerLogger",
                  "NodeLogger", "BunLogger", "DenoLogger"}

-----------------------------------------------------------------------------
(* Expressions. *)

NoName == ""  \* undefined

\* The elements of s at the positions ks, in the order of s.
Picked(s, ks) ==
  [i \in 1 .. Cardinality(ks) |-> s[CHOOSE k \in ks : Cardinality({j \in ks : j <= k}) = i]]

\* unwrap, which every helper applies at every level
Links(e) == Picked(e.links, {k \in DOMAIN e.links : e.links[k].kind # "wrap"})

IsDot(l) == l.kind = "dot"

\* A path of properties from an identifier or this; <<>> is undefined.
PathName(root, links) ==
  IF root.kind \in {"name", "this"} /\ \A k \in DOMAIN links : IsDot(links[k]) /\ links[k].name # NoName
  THEN <<root.name>> \o [k \in DOMAIN links |-> links[k].name]
  ELSE <<>>

GetQualifiedName(e) == PathName(e.root, Links(e))

IsCall(e) == LET ls == Links(e) IN ls # <<>> /\ Seqs!Last(ls).kind = "call"

\* The number of method calls at the end of the chain.
MethodCount(ls) ==
  LET n == Len(ls)
      paired(k) == ls[n - 2 * k].kind = "call" /\ IsDot(ls[n - 2 * k - 1])
  IN  CHOOSE c \in 0 .. n \div 2 :
        /\ \A k \in 0 .. c - 1 : paired(k)
        /\ c = n \div 2 \/ ~paired(c)

\* collectCallChain: the root, and the names of the methods called on it.
CollectCallChain(e) ==
  LET ls == Links(e)
      base == Len(ls) - 2 * MethodCount(ls)
      calls == [k \in 1 .. MethodCount(ls) |-> ls[base + 2 * k - 1].name]
      bare == SubSeq(ls, 1, base)
  IN  [root |-> IF bare # <<>> /\ Seqs!Last(bare).kind = "call"
                THEN PathName(e.root, Seqs!Front(bare)) ELSE PathName(e.root, bare),
       methods |-> Picked(calls, {k \in DOMAIN calls : calls[k] # NoName})]

\* inspectChain: a terminal method counts after the first level method only.
InspectChain(e, loggers) ==
  LET chain == CollectCallChain(e)
      ms == chain.methods
      level == {k \in DOMAIN ms : ms[k] \in levelMethods}
  IN  [root |-> chain.root, methods |-> ms,
       isEvent |-> chain.root \in loggers \ {<<>>} /\ level # {},
       delivered |-> \E k \in level, j \in DOMAIN ms : k < j /\ ms[j] \in terminalMethods]

Undelivered(e) ==
  LET chain == InspectChain(e, knownLoggers) IN chain.isEvent /\ ~chain.delivered

IsTrackedModule(source) == \E m \in ModuleNames : Seqs!IsPrefix(m, source)

IsLoggerProducer(e) ==
  LET ls == Links(e)
      callee == Seqs!Front(ls)
  IN  \/ GetQualifiedName(e) \in knownLoggers \ {<<>>}
      \/ ls = <<>> /\ e.root.kind = "new" /\ e.root.name \in knownClasses
      \/ /\ IsCall(e)
         /\ \/ PathName(e.root, callee) \in knownFactories \ {<<>>}
            \/ /\ callee # <<>> /\ IsDot(Seqs!Last(callee)) /\ Seqs!Last(callee).name = "anew"
               /\ PathName(e.root, Seqs!Front(callee)) \in knownLoggers \ {<<>>}

-----------------------------------------------------------------------------
(* Uses. *)

\* current.arguments, of a call.
Arguments(e) == IF IsCall(e) THEN Seqs!Last(Links(e)).args ELSE <<>>

\* clearPending of every argument that is a name and pending, one after the
\* other: a name given twice is cleared in two scopes.
ClearArguments(stack, e) ==
  LET args == Arguments(e)
      given(n) == Cardinality({i \in DOMAIN args : GetQualifiedName(args[i]) = n})
      within(k, n) == Cardinality({j \in Holding(stack, n) : j > k})
  IN  [k \in DOMAIN stack |-> [n \in Names |->
         IF within(k, n) < given(n) THEN Nothing ELSE stack[k][n]]]

ConsumeTerminalUse(stack, e) ==
  LET chain == CollectCallChain(e)
      sent == \E k \in DOMAIN chain.methods : chain.methods[k] \in terminalMethods
  IN  ClearArguments(IF sent THEN Clear(stack, chain.root) ELSE stack, e)

-----------------------------------------------------------------------------
(* Visitors. *)

RuleInit(loggers) ==
  /\ todo = <<>>
  /\ ruleScopes = <<EmptyScope>>  \* Program()
  /\ knownLoggers = loggers
  /\ knownFactories = {} /\ knownClasses = {}
  /\ nodeLine = <<>> /\ ruleReported = <<>>

Visiting(kind) == todo # <<>> /\ Head(todo).visit = kind
Node == Head(todo)
Visited == todo' = Tail(todo)

SameKnown == UNCHANGED <<knownLoggers, knownFactories, knownClasses>>
SameReports == UNCHANGED <<nodeLine, ruleReported>>

MarkNode(name) ==
  /\ nodeLine' = Append(nodeLine, Node.line)
  /\ ruleReported' = Append(ruleReported, 0)
  /\ ruleScopes' = Mark(ruleScopes, name, Len(ruleReported) + 1)

FunctionEnter ==
  /\ Visiting("FunctionEnter")
  /\ ruleScopes' = Enter(ruleScopes)
  /\ Visited /\ SameKnown /\ SameReports

\* Variant: the body of an arrow function is looked at like any expression.
ArrowEnter_Opaque ==
  /\ Visiting("ArrowEnter")
  /\ ruleScopes' = Enter(ruleScopes)
  /\ Visited /\ SameKnown /\ SameReports

\* An expression body is returned, so a pending name there is handed over.
ArrowEnter ==
  /\ Visiting("ArrowEnter")
  /\ ruleScopes' = Clear(Enter(ruleScopes), GetQualifiedName(Node.body))
  /\ Visited /\ SameKnown /\ SameReports

\* exitScope, of functions and of the program; no comment silences it here
ScopeExit ==
  /\ Visiting("Exit")
  /\ IF ruleScopes = <<>>
     THEN UNCHANGED <<ruleScopes, ruleReported>>
     ELSE /\ ruleScopes' = SubSeq(ruleScopes, 1, Len(ruleScopes) - 1)
          /\ ruleReported' = Flush(ruleReported, ruleScopes[Len(ruleScopes)], {})
  /\ Visited /\ SameKnown /\ UNCHANGED nodeLine

\* What one specifier of an import from a tracked module adds.
Imported(spec, exports) ==
  CASE spec.kind = "namespace" -> {<<spec.local, x>> : x \in exports}
    [] spec.kind = "named" /\ spec.imported \in exports -> {<<spec.local>>}
    [] OTHER -> {}

ImportDeclaration ==
  LET add(exports) == UNION {Imported(s, exports) : s \in Node.specifiers}
      defaults == {<<s.local>> : s \in {t \in Node.specifiers : t.kind = "default"}}
  IN  /\ Visiting("ImportDeclaration")
      /\ IF IsTrackedModule(Node.source)
         THEN /\ knownLoggers' = knownLoggers \cup defaults \cup add(LOGGER_EXPORTS)
              /\ knownFactories' = knownFactories \cup add(FACTORY_EXPORTS)
              /\ knownClasses' = knownClasses \cup add(CLASS_EXPORTS)
         ELSE SameKnown
      /\ Visited /\ SameReports /\ UNCHANGED ruleScopes

\* Producing a logger makes its name known everywhere from here on.
Learn(name, e) ==
  /\ knownLoggers' = IF name # <<>> /\ IsLoggerProducer(e)
                     THEN knownLoggers \cup {name} ELSE knownLoggers
  /\ UNCHANGED <<knownFactories, knownClasses>>

\* The value bound to the name is an event that has not been delivered.
BindsEvent(name, e) ==
  LET learnt == IF IsLoggerProducer(e) THEN {name} ELSE {}
      chain == InspectChain(e, knownLoggers \cup learnt)
  IN  name # <<>> /\ chain.isEvent /\ ~chain.delivered

VariableDeclarator ==
  /\ Visiting("VariableDeclarator")
  /\ Learn(Node.id, Node.init)
  /\ IF BindsEvent(Node.id, Node.init)
     THEN MarkNode(Node.id)
     ELSE SameReports /\ UNCHANGED ruleScopes
  /\ Visited

AssignmentExpression ==
  LET name == GetQualifiedName(Node.left)
  IN  /\ Visiting("AssignmentExpression")
      /\ Learn(name, Node.right)
      /\ IF BindsEvent(name, Node.right)
         THEN MarkNode(name)
         ELSE SameReports /\ ruleScopes' = ConsumeTerminalUse(ruleScopes, Node.right)
      /\ Visited

ReturnStatement ==
  LET name == GetQualifiedName(Node.argument)
  IN  /\ Visiting("ReturnStatement")
      /\ ruleScopes' = IF IsPending(ruleScopes, name) THEN Clear(ruleScopes, name)
                       ELSE IF Undelivered(Node.argument) THEN ruleScopes
                       ELSE ConsumeTerminalUse(ruleScopes, Node.argument)
      /\ Visited /\ SameKnown /\ SameReports

CallExpression ==
  /\ Visiting("CallExpression")
  /\ ruleScopes' = ConsumeTerminalUse(ruleScopes, Node.call)
  /\ Visited /\ SameKnown /\ SameReports

ExpressionStatement ==
  /\ Visiting("ExpressionStatement")
  /\ IF Undelivered(Node.expression)
     THEN /\ nodeLine' = Append(nodeLine, Node.line)
          /\ ruleReported' = Append(ruleReported, 1)
          /\ UNCHANGED ruleScopes
     ELSE /\ ruleScopes' = ConsumeTerminalUse(ruleScopes, Node.expression)
          /\ SameReports
  /\ Visited /\ SameKnown

RuleStep ==
  \/ FunctionEnter \/ ArrowEnter \/ ScopeExit \/ ImportDeclaration
  \/ VariableDeclarator \/ AssignmentExpression \/ ReturnStatement
  \/ CallExpression \/ ExpressionStatement

-----------------------------------------------------------------------------
\* ESLint shows one problem per node: a node is passed to context.report at
\* most once, whether its statement or the end of its function reports it, and
\* not while it is still pending in some function (markPending, clearPending,
\* exitScope and ExpressionStatement).
RuleReportedOnce ==
  \A e \in DOMAIN ruleReported :
    /\ ruleReported[e] <= 1
    /\ ruleReported[e] = 1 => \A k \in DOMAIN ruleScopes : Times(ruleScopes[k], e) = 0
=============================================================================
