---------------------------- MODULE SendRuleProofs ----------------------------
(***************************************************************************)
(* What the ESLint half of the send rule finds, for any file: whatever     *)
(* names it has, however many statements of the suites it is written of    *)
(* and however deep its blocks and functions are nested.                   *)
(*                                                                         *)
(* RuleFindings speaks of the end of the file; RuleInv says what holds on  *)
(* the way there, in the order of its parts:                               *)
(*   ProgramInv   which variables are open, and what they hold: the event  *)
(*                bound last, so that a later one of the name hides it;    *)
(*   KnownOk, LearntOk                                                     *)
(*                what the rule takes for a logger is one, or some line    *)
(*                has one of the name, and no logger is missed;            *)
(*   RecordsOk, PendingOk, EndedOk                                         *)
(*                each node stands for a line that builds an event, is     *)
(*                pending under the name and in the function it was bound  *)
(*                in, and is reported when no such function is open;       *)
(*   UsedOk, AccusedOk                                                     *)
(*                what is pending or reported and used after all is one of *)
(*                the exceptions, or about to be cleared;                  *)
(*   HeardOk      no event that the rule can know of is forgotten unless   *)
(*                it is used, or the name is taken over;                   *)
(*   NodesOk      what is left to visit of the last statement.             *)
(* A visit leaves the file alone and a statement leaves the rule alone, so *)
(* that each is proved to keep the invariant apart from the other:         *)
(* VisitKeeps by the kinds of nodes, WriteKeeps by those of statements.    *)
(***************************************************************************)
EXTENDS SourceLintProofs

\* What is left to visit is a list, and so are the links of an expression.
Listed(t) == Len(t) \in Nat /\ t = [i \in 1 .. Len(t) |-> t[i]]

(***************************************************************************)
(* The elements of a sequence at some of its positions (Picked): p lists   *)
(* the positions ks in their order.                                        *)
(***************************************************************************)
Listing(p, n, ks) ==
  /\ n \in Nat /\ p \in [1 .. n -> ks]
  /\ \A i, j \in 1 .. n : i < j => p[i] < p[j]
  /\ \A k \in ks : \E i \in 1 .. n : p[i] = k

LEMMA SomeListing ==
  ASSUME NEW n \in Nat, NEW ks \in SUBSET (1 .. n)
  PROVE  \E m, p : Listing(p, m, ks)
<1> DEFINE S == {l \in Nat : \A qs \in SUBSET (1 .. l) : \E m, p : Listing(p, m, qs)}
<1>1. 0 \in S
  <2>1. \A qs \in SUBSET (1 .. 0) : qs = {}
    OBVIOUS
  <2>2. Listing([i \in 1 .. 0 |-> i], 0, {})
    BY DEF Listing
  <2> QED
    BY <2>1, <2>2
<1>2. ASSUME NEW l \in 1 .. n, l - 1 \in S PROVE l \in S
  <2>1. SUFFICES ASSUME NEW qs \in SUBSET (1 .. l) PROVE \E m, p : Listing(p, m, qs)
    OBVIOUS
  <2>2. qs \ {l} \in SUBSET (1 .. l - 1)
    OBVIOUS
  <2>3. PICK m, p : Listing(p, m, qs \ {l})
    BY <1>2, <2>2
  <2>4. CASE l \notin qs
    <3>1. qs \ {l} = qs
      BY <2>4
    <3> QED
      BY <2>3, <3>1
  <2>5. CASE l \in qs
    <3> DEFINE q == [i \in 1 .. m + 1 |-> IF i <= m THEN p[i] ELSE l]
    <3>1. m \in Nat /\ \A i \in 1 .. m : p[i] \in qs \ {l} /\ p[i] < l
      <4>1. m \in Nat /\ p \in [1 .. m -> qs \ {l}]
        BY <2>3 DEF Listing
      <4>2. \A i \in 1 .. m : p[i] \in qs \ {l}
        BY <4>1
      <4>3. \A k \in qs \ {l} : k < l
        BY <2>1
      <4> QED
        BY <4>1, <4>2, <4>3
    <3>2. q \in [1 .. m + 1 -> qs] /\ \A i \in 1 .. m : q[i] = p[i]
      BY <2>5, <3>1
    <3>3. q[m + 1] = l
      BY <3>1
    <3> HIDE DEF q
    <3>4. \A i, j \in 1 .. m + 1 : i < j => q[i] < q[j]
      <4> TAKE i, j \in 1 .. m + 1
      <4>1. CASE j = m + 1
        BY <3>1, <3>2, <3>3, <4>1
      <4>2. CASE j \in 1 .. m
        BY <2>3, <3>1, <3>2, <4>2 DEF Listing
      <4> QED
        BY <3>1, <4>1, <4>2
    <3>5. \A k \in qs : \E i \in 1 .. m + 1 : q[i] = k
      <4> TAKE k \in qs
      <4>1. CASE k = l
        BY <3>1, <3>3, <4>1
      <4>2. CASE k # l
        <5>1. PICK i \in 1 .. m : p[i] = k
          BY <2>3, <4>2 DEF Listing
        <5> QED
          BY <3>1, <3>2, <5>1
      <4> QED
        BY <4>1, <4>2
    <3>6. Listing(q, m + 1, qs)
      BY <3>1, <3>2, <3>4, <3>5 DEF Listing
    <3> QED
      BY <3>6
  <2> QED
    BY <2>4, <2>5
<1> HIDE DEF S
<1>3. n \in S
  BY <1>1, <1>2, UpTo
<1> QED
  BY <1>3 DEF S

\* The numbers of ks up to the i-th are i.
LEMMA RankOf ==
  ASSUME NEW ks \in SUBSET Int, NEW n, NEW p, Listing(p, n, ks), NEW i \in 1 .. n
  PROVE  Cardinality({j \in ks : j <= p[i]}) = i
<1> DEFINE low == {j \in ks : j <= p[i]}
           q == [l \in 1 .. i |-> p[l]]
<1>1. /\ n \in Nat /\ i \in Nat /\ \A l \in 1 .. n : p[l] \in ks /\ p[l] \in Int
      /\ \A a, b \in 1 .. n : a < b => p[a] < p[b]
  <2>1. n \in Nat /\ p \in [1 .. n -> ks]
    BY DEF Listing
  <2>2. \A l \in 1 .. n : p[l] \in ks
    BY <2>1
  <2>3. \A a, b \in 1 .. n : a < b => p[a] < p[b]
    BY DEF Listing
  <2>4. \A l \in 1 .. n : p[l] \in Int
    BY <2>2
  <2> QED
    BY <2>1, <2>2, <2>3, <2>4
<1>2. q \in [1 .. i -> low]
  <2>1. \A l \in 1 .. i : p[l] \in low
    <3> TAKE l \in 1 .. i
    <3>1. l \in 1 .. n /\ (l = i \/ l < i)
      BY <1>1
    <3>2. p[l] <= p[i]
      BY <1>1, <3>1
    <3> QED
      BY <1>1, <3>1, <3>2
  <2> QED
    BY <2>1
<1>3. \A a, b \in 1 .. i : q[a] = q[b] => a = b
  <2> TAKE a, b \in 1 .. i
  <2>1. a \in 1 .. n /\ b \in 1 .. n
    BY <1>1
  <2>2. a < b \/ b < a \/ a = b
    BY <2>1
  <2> QED
    BY <1>1, <2>1, <2>2
<1>4. \A k \in low : \E l \in 1 .. i : q[l] = k
  <2> TAKE k \in low
  <2>1. PICK l \in 1 .. n : p[l] = k
    BY DEF Listing
  <2>2. ~(i < l)
    BY <1>1, <2>1
  <2> QED
    BY <1>1, <2>1, <2>2
<1> HIDE DEF low, q
<1>5. q \in Bijection(1 .. i, low)
  BY <1>2, <1>3, <1>4 DEF Bijection, Injection, Surjection, IsInjective
<1>6. ExistsBijection(1 .. i, low)
  BY <1>5 DEF ExistsBijection
<1> QED
  BY <1>1, <1>6, FS_CountingElements DEF low

LEMMA PickedBy ==
  ASSUME NEW s, NEW ks \in SUBSET Int, NEW n, NEW p, Listing(p, n, ks)
  PROVE  Picked(s, ks) = [i \in 1 .. n |-> s[p[i]]]
<1> DEFINE place(i) == CHOOSE k \in ks : Cardinality({j \in ks : j <= k}) = i
<1>1. n \in Nat /\ \A l \in 1 .. n : p[l] \in ks
  BY DEF Listing
<1>2. Cardinality(ks) = n
  <2>1. p \in Bijection(1 .. n, ks)
    <3>1. \A a, b \in 1 .. n : p[a] = p[b] => a = b
      <4> TAKE a, b \in 1 .. n
      <4>1. a < b \/ b < a \/ a = b
        BY <1>1
      <4>2. p[a] \in Int /\ p[b] \in Int
        BY <1>1
      <4> QED
        BY <4>1, <4>2 DEF Listing
    <3> QED
      BY <1>1, <3>1 DEF Listing, Bijection, Injection, Surjection, IsInjective
  <2>2. ExistsBijection(1 .. n, ks)
    BY <2>1 DEF ExistsBijection
  <2> QED
    BY <1>1, <2>2, FS_CountingElements
<1>3. \A i \in 1 .. n : place(i) = p[i]
  <2> TAKE i \in 1 .. n
  <2>1. Cardinality({j \in ks : j <= p[i]}) = i
    BY RankOf
  <2>2. ASSUME NEW k \in ks, Cardinality({j \in ks : j <= k}) = i PROVE k = p[i]
    <3>1. PICK l \in 1 .. n : p[l] = k
      BY DEF Listing
    <3>2. Cardinality({j \in ks : j <= p[l]}) = l
      BY RankOf
    <3> QED
      BY <2>2, <3>1, <3>2
  <2> QED
    BY <1>1, <2>1, <2>2
<1> HIDE DEF place
<1>4. Picked(s, ks) = [i \in 1 .. n |-> s[place(i)]]
  BY <1>2, Zenon DEF Picked, place
<1> QED
  BY <1>3, <1>4

\* What is picked is of the sequence, and all that stands at ks is picked.
LEMMA PickedFacts ==
  ASSUME NEW s, NEW l \in Nat, NEW ks \in SUBSET (1 .. l)
  PROVE  /\ Listed(Picked(s, ks))
         /\ \A i \in 1 .. Len(Picked(s, ks)) : \E k \in ks : Picked(s, ks)[i] = s[k]
         /\ \A k \in ks : \E i \in 1 .. Len(Picked(s, ks)) : Picked(s, ks)[i] = s[k]
<1>1. PICK n, p : Listing(p, n, ks)
  BY SomeListing
<1>2. ks \in SUBSET Int
  OBVIOUS
<1>3. Picked(s, ks) = [i \in 1 .. n |-> s[p[i]]]
  BY <1>1, <1>2, PickedBy
<1>4. n \in Nat /\ (\A i \in 1 .. n : p[i] \in ks) /\ \A k \in ks : \E i \in 1 .. n : p[i] = k
  BY <1>1 DEF Listing
<1>5. /\ Len(Picked(s, ks)) = n
      /\ Picked(s, ks) = [i \in 1 .. n |-> Picked(s, ks)[i]]
      /\ \A i \in 1 .. n : Picked(s, ks)[i] = s[p[i]]
  BY <1>3, <1>4
<1>6. Listed(Picked(s, ks))
  BY <1>4, <1>5 DEF Listed
<1>7. /\ \A i \in 1 .. n : \E k \in ks : Picked(s, ks)[i] = s[k]
      /\ \A k \in ks : \E i \in 1 .. n : Picked(s, ks)[i] = s[k]
  BY <1>4, <1>5
<1> QED
  BY <1>5, <1>6, <1>7

LEMMA PickedAll ==
  ASSUME NEW S, NEW s \in Seq(S), NEW ks, ks = DOMAIN s
  PROVE  Picked(s, ks) = s
<1> DEFINE p == [i \in 1 .. Len(s) |-> i]
<1>1. ks = 1 .. Len(s) /\ Len(s) \in Nat
  OBVIOUS
<1>2. Listing(p, Len(s), ks)
  BY <1>1 DEF Listing
<1>3. Picked(s, ks) = [i \in 1 .. Len(s) |-> s[p[i]]]
  BY <1>1, <1>2, PickedBy
<1> QED
  BY <1>3

-----------------------------------------------------------------------------
\* An expression that sends nothing that is kept in a variable, though it may
\* send what hangs from log itself.
Mild(e) ==
  /\ \A k \in DOMAIN e.links : e.links[k].kind = "call" =>
       /\ Listed(e.links[k].args)
       /\ \A i \in DOMAIN e.links[k].args : GetQualifiedName(e.links[k].args[i]) \notin EventPlaces
  /\ \/ e.root.name = "log"
     \/ \A k \in DOMAIN e.links : e.links[k].kind = "dot" => e.links[k].name \notin terminalMethods

\* One without a level.
Silent(e) == \A k \in DOMAIN e.links : e.links[k].kind = "dot" => e.links[k].name \notin levelMethods

(***************************************************************************)
(* The nodes of a statement: those that leave all as it is, those that     *)
(* clear the name x, the one that may record the event of its line, those  *)
(* that teach the rule a logger, a factory or a class, and the ends of     *)
(* functions.                                                              *)
(***************************************************************************)
Passive(v) ==
  \/ v.visit = "CallExpression" /\ Listed(v.call.links) /\ Mild(v.call)
  \/ /\ v.visit = "ExpressionStatement" /\ Listed(v.expression.links)
     /\ Mild(v.expression) /\ Silent(v.expression)
  \/ /\ v.visit = "ReturnStatement" /\ Listed(v.argument.links)
     /\ Mild(v.argument) /\ GetQualifiedName(v.argument) \notin EventPlaces
  \/ v.visit = "VariableDeclarator" /\ v.id \in EventPlaces /\ v.init = Nowhere
  \/ v = Import(Theirs, Named)[1]

SendCall(x) == Then(Name(x), "send", <<>>)
PassTo(name, e) == Expr(Root("name", name), <<Call(<<e>>)>>)
UseOf(x) == {SendCall(x), PassTo("send", Name(x)), PassTo("run", Name(x))}

Used(x) == \E f \in Lines : births[f].place = x /\ uses[f] # {}

UsesName(v, x) ==
  /\ x \in EventPlaces /\ Used(x)
  /\ \/ v.visit = "CallExpression" /\ v.call \in UseOf(x)
     \/ v.visit = "ExpressionStatement" /\ v.expression \in UseOf(x)
     \/ v.visit = "ReturnStatement" /\ v.argument = Name(x)

UsesInside(v, x) == x \in EventPlaces /\ Used(x) /\ v = [visit |-> "ArrowEnter", body |-> Name(x)]

Clears(v, x) == UsesName(v, x) \/ UsesInside(v, x)

Binding == {"let", "typed", "assign"}
IsKept(e) == births[e].place # <<>>

Records(v, e) ==
  /\ e = Written /\ e \in Lines /\ uses[e] = {}
  /\ \E c \in Chains :
       /\ births[e].chain \in {c, "foreign"} /\ (births[e].chain = "foreign" => c = "alias")
       /\ births[e].chain = "alias" => App \in knownLoggers
       /\ \/ births[e].form = "stmt" /\ births[e].place = <<>>
               /\ v = [visit |-> "ExpressionStatement", expression |-> ChainExpr(c), line |-> e]
          \/ /\ births[e].form \in Binding /\ births[e].place \in EventPlaces
             /\ \/ v = [visit |-> "VariableDeclarator", id |-> births[e].place,
                        init |-> ChainExpr(c), line |-> e]
                \/ v = [visit |-> "AssignmentExpression", left |-> Name(births[e].place),
                        right |-> ChainExpr(c), line |-> e]

Anew == Then(Name(<<"log">>), "anew", <<>>)
Created == Expr(Root("name", "createLogger"), <<Call(<<>>)>>)
Constructed == Expr(Root("new", <<"otel", "BaseLogger">>), <<>>)

ImportsApp == Import(OurPackage, [kind |-> "default", local |-> "app"])[1]
ImportsFactory == Import(OurPackage \o <<"node">>, Named)[1]
ImportsPackage == Import(OurPackage, [kind |-> "namespace", local |-> "otel"])[1]

LoggerLine == \E k \in Lines : births[k].chain = "logger"

FactoryIsOurs ==
  /\ frames[1].holds[Factory] = Empty
  /\ \A d \in DOMAIN frames : frames[d].holds[Factory] # Foreign

Teaches(v) ==
  \/ v = ImportsApp /\ LoggerLine
  \/ v = ImportsFactory /\ FactoryIsOurs
  \/ v = ImportsPackage
  \/ /\ v.visit = "VariableDeclarator" /\ v.id = App
     /\ \/ v.init \in {Anew, Constructed} /\ LoggerLine
        \/ v.init = Created /\ (FactoryIsOurs => LoggerLine)

\* What it teaches, if the rule knows what it needs for that.
LearnsApp(v) ==
  /\ LoggerLine
  /\ \/ v = ImportsApp
     \/ /\ v.visit = "VariableDeclarator" /\ v.id = App
        /\ \/ v.init = Anew
           \/ v.init = Created /\ Factory \in knownFactories
           \/ v.init = Constructed /\ <<"otel", "BaseLogger">> \in knownClasses

-----------------------------------------------------------------------------
(***************************************************************************)
(* The linted file.                                                        *)
(***************************************************************************)
FrameRecords == [fun : BOOLEAN, id : Nat, holds : [Places -> Int]]

BirthRecords ==
  [chain : Chains \cup {"foreign", "logger", "none"}, place : {<<>>} \cup EventPlaces,
   form : {"stmt", "arg", "return", "tail", "none"} \cup Binding,
   block : Nat, fun : Nat, keep : Nat \X Nat]

FramesOk ==
  /\ frames \in Seq(FrameRecords)
  /\ frames # <<>> /\ frames[1].fun /\ frames[1].id = 0
  /\ \A j, k \in DOMAIN frames : j < k => frames[j].id < frames[k].id
  /\ \A k \in DOMAIN frames : frames[k].id <= Written

BirthsOk ==
  /\ births \in Seq(BirthRecords)
  /\ uses \in Seq(SUBSET {"call", "give", "piped", "argument", "arrow", "return of", "tail of"})
  /\ Len(uses) = Written
  /\ \A e \in Lines :
       /\ births[e].fun < e /\ births[e].keep[1] < e
       /\ uses[e] # {} => IsKept(e)

\* What a variable holds is the event that was last bound to it, and what the
\* package was imported as is not another one.
HoldsOk ==
  \A d \in DOMAIN frames, p \in Places :
    LET v == frames[d].holds[p] IN
    /\ v \in {Undeclared, Empty, Foreign} \cup Lines
    /\ v = Foreign => p \in {App, Factory}
    /\ v > Empty =>
         /\ births[v].place = p /\ births[v].keep[1] = frames[d].id
         /\ \E k \in 1 .. d : frames[k].fun /\ frames[k].id = births[v].keep[2]

\* While the variable an event was bound to is open, it is declared, and it
\* and the ones that hide it hold that event or later ones.
LaterOnes ==
  \A f \in Lines, d \in DOMAIN frames :
    IsKept(f) /\ frames[d].id = births[f].keep[1] =>
      /\ frames[d].holds[births[f].place] # Undeclared
      /\ \A b \in d .. Len(frames) :
           frames[b].holds[births[f].place] > Empty => frames[b].holds[births[f].place] >= f

\* The variable of an event is open while the function is, unless it is one of
\* a block inside.
KeptOpen ==
  \A f \in Lines :
    IsKept(f) /\ births[f].keep[1] <= births[f].fun
      /\ (\E d \in DOMAIN frames : frames[d].fun /\ frames[d].id = births[f].fun)
    => \E d \in DOMAIN frames : frames[d].id = births[f].keep[1]

ProgramInv == FramesOk /\ BirthsOk /\ HoldsOk /\ LaterOnes /\ KeptOpen

\* The open functions, the outermost first, by the line that opened each.
OpenFunctions(F) ==
  /\ F \in Seq(Nat)
  /\ \A j, k \in DOMAIN F : j < k => F[j] < F[k]
  /\ \A k \in DOMAIN F : \E d \in DOMAIN frames : frames[d].fun /\ frames[d].id = F[k]
  /\ \A d \in DOMAIN frames : frames[d].fun => \E k \in DOMAIN F : F[k] = frames[d].id

(***************************************************************************)
(* What the rule knows.                                                    *)
(***************************************************************************)
KnownOk ==
  /\ <<"log">> \in knownLoggers
  /\ \A p \in knownLoggers : p[1] = "otel" \/ p \in {<<"log">>, <<"logger">>, <<"ddlog">>, App}
  /\ \A p \in knownFactories : p[1] = "otel" \/ p = Factory
  /\ \A p \in knownClasses : p[1] = "otel"
  /\ App \in knownLoggers => LoggerLine
  /\ Factory \in knownFactories => FactoryIsOurs

\* Every logger, factory and package of ours is known, or about to be.
LearntOk ==
  \A d \in DOMAIN frames :
    /\ frames[d].holds[App] = Empty => App \in knownLoggers \/ \E i \in DOMAIN todo : LearnsApp(todo[i])
    /\ frames[d].holds[Factory] = Empty =>
         Factory \in knownFactories \/ (FactoryIsOurs /\ \E i \in DOMAIN todo : todo[i] = ImportsFactory)
    /\ frames[d].holds[Package] = Empty =>
         <<"otel", "BaseLogger">> \in knownClasses \/ \E i \in DOMAIN todo : todo[i] = ImportsPackage

(***************************************************************************)
(* What is left of the last statement, t, with G the open functions and a  *)
(* stack of that many scopes, but for one that an end or a beginning is    *)
(* about to take or add.                                                   *)
(***************************************************************************)
Mere(v) == Passive(v) \/ \E x \in EventPlaces : UsesName(v, x)

NodesOk(t, G, level) ==
  LET n == Len(G)
      m == Len(t)
  IN  /\ Listed(t)
      /\ \/ level = n /\ \A i \in 1 .. m : Mere(t[i])
         \/ /\ level = n /\ n > 0 /\ births[Written].fun = G[n]
            /\ \E r \in 1 .. m : Records(t[r], Written) /\ \A i \in 1 .. m : i # r => Passive(t[i])
         \/ level = n /\ m > 0 /\ Teaches(t[1]) /\ \A i \in 2 .. m : Passive(t[i])
         \/ level = n + 1 /\ m > 0 /\ t[m] = Exit /\ \A i \in 1 .. m - 1 : Mere(t[i])
         \/ /\ level = n /\ m > 1 /\ t[m] = Exit /\ (\E x \in EventPlaces : UsesInside(t[m - 1], x))
            /\ \A i \in 1 .. m - 2 : Passive(t[i])
         \/ level + 1 = n /\ m = 1 /\ t[1] = [visit |-> "FunctionEnter"]

(***************************************************************************)
(* What the rule remembers.                                                *)
(***************************************************************************)
Heard == {"plain", "comma", "derived", "alias", "emit"}

Excused(e) == births[e].keep[2] # births[e].fun \/ RuleHides(e)

\* Every node that was recorded stands for an event bound or dropped there.
RecordsOk ==
  /\ nodeLine \in Seq(Nat) /\ Len(nodeLine) = Len(ruleReported)
  /\ \A m \in DOMAIN nodeLine :
       LET e == nodeLine[m] IN
       /\ e \in Lines /\ births[e].chain \in Heard \cup {"foreign"} /\ births[e].form \in {"stmt"} \cup Binding
       /\ births[e].chain = "foreign" => LoggerLine
       /\ births[e].form = "stmt" => births[e].place = <<>>

\* What is pending, and in which function.
PendingOk(stack, G) ==
  \A k \in DOMAIN stack, x \in Names : stack[k][x] # Nothing =>
    LET e == nodeLine[stack[k][x]] IN
    /\ x \in EventPlaces /\ births[e].place = x /\ births[e].form \in Binding
    /\ k <= Len(G) => births[e].fun = G[k]
    /\ k < Len(G) => e < G[k + 1]
    /\ k > Len(G) => \A i \in DOMAIN G : births[e].fun # G[i]

\* A reported event that was bound is one of a function that has ended.
EndedOk(G) ==
  \A m \in DOMAIN nodeLine : ruleReported[m] # 0 /\ births[nodeLine[m]].form \in Binding =>
    \A i \in DOMAIN G : births[nodeLine[m]].fun # G[i]

\* A pending event that is used is about to be forgotten, or is excused.
UsedOk(stack, t) ==
  \A k \in DOMAIN stack, x \in Names : stack[k][x] # Nothing =>
    LET e == nodeLine[stack[k][x]] IN
    \/ uses[e] = {} \/ Excused(e)
    \/ /\ \A j \in DOMAIN stack : j > k => stack[j][x] = Nothing
       /\ \E i \in DOMAIN t : Clears(t[i], x)

\* A reported event is not used, or excused.
AccusedOk ==
  \A m \in DOMAIN nodeLine : ruleReported[m] # 0 => uses[nodeLine[m]] = {} \/ Excused(nodeLine[m])

\* An event that the rule can hear of is remembered until it is reported, or
\* else its name was used or taken over.
Remembered(stack, e) ==
  \E m \in DOMAIN nodeLine :
    /\ nodeLine[m] = e
    /\ \/ ruleReported[m] # 0
       \/ \E k \in DOMAIN stack, x \in Names : stack[k][x] = m
       \/ uses[e] # {} \/ RuleMixesUp(e)

HeardOk(stack, t) ==
  \A e \in Events : births[e].chain \in Heard /\ ~Handed(e) =>
    (\E i \in DOMAIN t : Records(t[i], e)) \/ Remembered(stack, e)

-----------------------------------------------------------------------------
(***************************************************************************)
(* Expressions.                                                            *)
(***************************************************************************)
LEMMA ListedFacts ==
  ASSUME NEW t, Listed(t)
  PROVE  DOMAIN t = 1 .. Len(t) /\ t \in Seq({t[i] : i \in 1 .. Len(t)})
<1>1. Len(t) \in Nat /\ t = [i \in 1 .. Len(t) |-> t[i]]
  BY DEF Listed
<1>2. t \in [1 .. Len(t) -> {t[i] : i \in 1 .. Len(t)}]
  BY <1>1
<1> QED
  BY <1>1, <1>2

LEMMA ListedSeq ==
  ASSUME NEW S, NEW t \in Seq(S) PROVE Listed(t)
BY DEF Listed

LEMMA Half ==
  ASSUME NEW n \in Nat PROVE n \div 2 \in Nat /\ 2 * (n \div 2) <= n /\ n <= 2 * (n \div 2) + 1
OBVIOUS

\* What unwrap leaves of the links.
LEMMA LinksFrom ==
  ASSUME NEW e, Listed(e.links)
  PROVE  /\ Listed(Links(e))
         /\ \A i \in DOMAIN Links(e) :
              \E k \in DOMAIN e.links : Links(e)[i] = e.links[k] /\ e.links[k].kind # "wrap"
<1> DEFINE ks == {k \in DOMAIN e.links : e.links[k].kind # "wrap"}
<1>1. ks \in SUBSET (1 .. Len(e.links)) /\ Len(e.links) \in Nat
  BY ListedFacts DEF Listed
<1>2. Links(e) = Picked(e.links, ks)
  BY DEF Links
<1>3. \A k \in ks : k \in DOMAIN e.links /\ e.links[k].kind # "wrap"
  OBVIOUS
<1> HIDE DEF ks
<1>4. /\ Listed(Links(e))
      /\ \A i \in 1 .. Len(Links(e)) : \E k \in ks : Links(e)[i] = e.links[k]
  <2> DEFINE s == e.links
             l == Len(s)
  <2>1. l \in Nat /\ ks \in SUBSET (1 .. l)
    BY <1>1
  <2> HIDE DEF l
  <2>2. /\ Listed(Picked(s, ks))
        /\ \A i \in 1 .. Len(Picked(s, ks)) : \E k \in ks : Picked(s, ks)[i] = s[k]
    BY ONLY <2>1, PickedFacts
  <2> QED
    BY <1>2, <2>2
<1> QED
  BY <1>3, <1>4, ListedFacts

LEMMA LinksPlain ==
  ASSUME NEW e, Listed(e.links), \A k \in DOMAIN e.links : e.links[k].kind # "wrap"
  PROVE  Links(e) = e.links
<1> DEFINE ks == {k \in DOMAIN e.links : e.links[k].kind # "wrap"}
<1>1. ks = DOMAIN e.links
  OBVIOUS
<1>2. Links(e) = Picked(e.links, ks)
  BY DEF Links
<1> HIDE DEF ks
<1> QED
  BY <1>1, <1>2, ListedFacts, PickedAll

\* The method calls at the end of a chain.
Paired(ls, k) == ls[Len(ls) - 2 * k].kind = "call" /\ IsDot(ls[Len(ls) - 2 * k - 1])

LEMMA MethodCountFacts ==
  ASSUME NEW ls, Len(ls) \in Nat
  PROVE  /\ MethodCount(ls) \in 0 .. Len(ls) \div 2
         /\ \A k \in 0 .. MethodCount(ls) - 1 : Paired(ls, k)
         /\ MethodCount(ls) = Len(ls) \div 2 \/ ~Paired(ls, MethodCount(ls))
<1> DEFINE h == Len(ls) \div 2
           Fits(c) == (\A k \in 0 .. c - 1 : Paired(ls, k)) /\ (c = h \/ ~Paired(ls, c))
           S == {c \in Nat : c = h \/ (c < h /\ ~Paired(ls, c))}
<1>1. h \in Nat
  BY Half
<1>2. MethodCount(ls) = CHOOSE c \in 0 .. h : Fits(c)
  BY DEF MethodCount, Paired
<1> HIDE DEF h
<1>3. S \in SUBSET Nat /\ S # {}
  BY <1>1
<1>4. PICK c \in S : \A k \in S : c <= k
  BY <1>3, LeastNumber
<1>5. c \in 0 .. h /\ Fits(c)
  BY <1>1, <1>4
<1>6. MethodCount(ls) \in 0 .. h /\ Fits(MethodCount(ls))
  <2> HIDE DEF Fits
  <2> QED
    BY <1>2, <1>5
<1> QED
  BY <1>6 DEF h

LEMMA MethodCountIs ==
  ASSUME NEW ls, Len(ls) \in Nat, NEW c \in 0 .. Len(ls) \div 2,
         \A k \in 0 .. c - 1 : Paired(ls, k), c = Len(ls) \div 2 \/ ~Paired(ls, c)
  PROVE  MethodCount(ls) = c
<1>1. /\ MethodCount(ls) \in Nat /\ MethodCount(ls) <= Len(ls) \div 2
      /\ \A k \in 0 .. MethodCount(ls) - 1 : Paired(ls, k)
      /\ MethodCount(ls) = Len(ls) \div 2 \/ ~Paired(ls, MethodCount(ls))
  BY MethodCountFacts
<1>2. c \in Nat /\ Len(ls) \div 2 \in Nat /\ c <= Len(ls) \div 2
  BY Half
<1>3. CASE MethodCount(ls) < c
  <2>1. MethodCount(ls) \in 0 .. c - 1
    BY <1>1, <1>2, <1>3
  <2> QED
    BY <1>1, <1>2, <1>3, <2>1
<1>4. CASE c < MethodCount(ls)
  <2>1. c \in 0 .. MethodCount(ls) - 1
    BY <1>1, <1>2, <1>4
  <2> QED
    BY <1>1, <1>2, <1>4, <2>1
<1> QED
  BY <1>1, <1>2, <1>3, <1>4

\* A path leads from its root, or is none.
LEMMA PathFrom ==
  ASSUME NEW root, NEW links, Listed(links), PathName(root, links) # <<>>
  PROVE  PathName(root, links)[1] = root.name
<1>1. [k \in DOMAIN links |-> links[k].name] \in Seq({links[k].name : k \in DOMAIN links})
  BY ListedFacts DEF Listed
<1>2. PathName(root, links) = <<root.name>> \o [k \in DOMAIN links |-> links[k].name]
  BY DEF PathName
<1> HIDE DEF PathName
<1> QED
  BY <1>1, <1>2

LEMMA NoPath ==
  ASSUME NEW root, NEW links, NEW k \in DOMAIN links, links[k].kind # "dot"
  PROVE  PathName(root, links) = <<>>
BY DEF PathName, IsDot

\* What collectCallChain makes of an expression comes from its links.
LEMMA CutListed ==
  ASSUME NEW t, Listed(t), NEW n \in Nat, n <= Len(t)
  PROVE  /\ Listed(SubSeq(t, 1, n)) /\ Len(SubSeq(t, 1, n)) = n
         /\ \A i \in 1 .. n : SubSeq(t, 1, n)[i] = t[i]
<1>1. Len(t) \in Nat /\ t \in Seq({t[i] : i \in 1 .. Len(t)})
  BY ListedFacts DEF Listed
<1>2. /\ SubSeq(t, 1, n) \in Seq({t[i] : i \in 1 .. Len(t)}) /\ Len(SubSeq(t, 1, n)) = n
      /\ \A i \in 1 .. n : SubSeq(t, 1, n)[i] = t[i]
  BY <1>1
<1> QED
  BY <1>2, ListedSeq

LEMMA LastListed ==
  ASSUME NEW t, Listed(t), t # <<>>
  PROVE  /\ Len(t) \in 1 .. Len(t) /\ Seqs!Last(t) = t[Len(t)]
         /\ Seqs!Front(t) = SubSeq(t, 1, Len(t) - 1)
<1>1. Len(t) \in Nat /\ t \in Seq({t[i] : i \in 1 .. Len(t)})
  BY ListedFacts DEF Listed
<1> QED
  BY <1>1 DEF Seqs!Last, Seqs!Front

LEMMA ChainFrom ==
  ASSUME NEW e, Listed(e.links)
  PROVE  LET chain == CollectCallChain(e)
         IN  /\ chain.root # <<>> => chain.root[1] = e.root.name
             /\ Listed(chain.methods)
             /\ \A k \in DOMAIN chain.methods :
                  \E j \in DOMAIN e.links : e.links[j].kind = "dot" /\ e.links[j].name = chain.methods[k]
<1> DEFINE ls == Links(e)
           c == MethodCount(ls)
           base == Len(ls) - 2 * c
           calls == [k \in 1 .. c |-> ls[base + 2 * k - 1].name]
           bare == SubSeq(ls, 1, base)
           ks == {k \in DOMAIN calls : calls[k] # NoName}
           chain == CollectCallChain(e)
<1>1. /\ chain.root = IF bare # <<>> /\ Seqs!Last(bare).kind = "call"
                      THEN PathName(e.root, Seqs!Front(bare)) ELSE PathName(e.root, bare)
      /\ chain.methods = Picked(calls, ks)
  BY DEF CollectCallChain
<1> HIDE DEF chain
<1>2. Listed(ls) /\ Len(ls) \in Nat /\ DOMAIN ls = 1 .. Len(ls)
  BY LinksFrom, ListedFacts DEF Listed
<1>3. c \in Nat /\ 2 * c <= Len(ls) /\ \A k \in 0 .. c - 1 : Paired(ls, k)
  <2>1. c \in 0 .. Len(ls) \div 2 /\ \A k \in 0 .. c - 1 : Paired(ls, k)
    BY <1>2, MethodCountFacts
  <2> QED
    BY <1>2, <2>1, Half
<1> HIDE DEF c
<1>4. Listed(bare) /\ base \in Nat /\ Len(bare) = base
  <2> HIDE DEF ls
  <2>1. Len(ls) \in Nat /\ c \in Nat /\ 2 * c <= Len(ls)
    BY <1>2, <1>3
  <2>2. base \in Nat /\ base <= Len(ls)
    BY <2>1
  <2> HIDE DEF base
  <2> QED
    BY <1>2, <2>2, CutListed
<1>5. chain.root # <<>> => chain.root[1] = e.root.name
  <2> HIDE DEF bare, base, ls
  <2>1. CASE bare # <<>> /\ Seqs!Last(bare).kind = "call"
    <3>1. Seqs!Front(bare) = SubSeq(bare, 1, Len(bare) - 1) /\ Len(bare) - 1 \in Nat
      BY <1>4, <2>1, LastListed
    <3>2. Listed(Seqs!Front(bare))
      BY <1>4, <3>1, CutListed
    <3> QED
      BY <1>1, <2>1, <3>2, PathFrom
  <2>2. CASE ~(bare # <<>> /\ Seqs!Last(bare).kind = "call")
    BY <1>1, <1>4, <2>2, PathFrom
  <2> QED
    BY <2>1, <2>2
<1>6. \A k \in 1 .. c : \E j \in DOMAIN e.links : e.links[j].kind = "dot" /\ e.links[j].name = calls[k]
  <2> TAKE k \in 1 .. c
  <2> DEFINE i == base + 2 * k - 1
  <2>1. c - k \in 0 .. c - 1 /\ Len(ls) - 2 * (c - k) - 1 = i /\ i \in 1 .. Len(ls)
    BY <1>2, <1>3
  <2>2. ls[i].kind = "dot"
    BY <1>3, <2>1 DEF Paired, IsDot
  <2>3. calls[k] = ls[i].name
    OBVIOUS
  <2> HIDE DEF i
  <2>4. PICK j \in DOMAIN e.links : ls[i] = e.links[j]
    BY <1>2, <2>1, LinksFrom
  <2> QED
    BY <2>2, <2>3, <2>4
<1>7. ks \in SUBSET (1 .. c)
  OBVIOUS
<1> HIDE DEF calls, ks, bare
<1>8. /\ Listed(Picked(calls, ks))
      /\ \A i \in 1 .. Len(Picked(calls, ks)) : \E k \in ks : Picked(calls, ks)[i] = calls[k]
  BY ONLY <1>3, <1>7, PickedFacts
<1>9. DOMAIN Picked(calls, ks) = 1 .. Len(Picked(calls, ks))
  BY <1>8, ListedFacts
<1>10. Listed(chain.methods)
  BY <1>1, <1>8
<1>11. \A k \in DOMAIN chain.methods :
         \E j \in DOMAIN e.links : e.links[j].kind = "dot" /\ e.links[j].name = chain.methods[k]
  <2> TAKE k \in DOMAIN chain.methods
  <2>1. PICK i \in ks : chain.methods[k] = calls[i]
    BY <1>1, <1>8, <1>9
  <2> QED
    BY <1>6, <1>7, <2>1
<1> QED
  BY <1>5, <1>10, <1>11 DEF chain

MethodsOf(ls, c) == [k \in 1 .. c |-> ls[Len(ls) - 2 * c + 2 * k - 1].name]
CalledOn(root, bare) ==
  IF bare # <<>> /\ Seqs!Last(bare).kind = "call" THEN PathName(root, Seqs!Front(bare)) ELSE PathName(root, bare)

LEMMA ChainOf ==
  ASSUME NEW e, NEW c \in Nat, NEW ls, Listed(ls), Links(e) = ls, MethodCount(ls) = c, 2 * c <= Len(ls),
         \A k \in 1 .. c : ls[Len(ls) - 2 * c + 2 * k - 1].name # NoName
  PROVE  /\ CollectCallChain(e).methods = MethodsOf(ls, c)
         /\ CollectCallChain(e).root = CalledOn(e.root, SubSeq(ls, 1, Len(ls) - 2 * c))
<1> DEFINE calls == MethodsOf(ls, c)
           ks == {k \in DOMAIN calls : calls[k] # NoName}
<1>1. /\ CollectCallChain(e).root = CalledOn(e.root, SubSeq(ls, 1, Len(ls) - 2 * c))
      /\ CollectCallChain(e).methods = Picked(calls, ks)
  BY DEF CollectCallChain, CalledOn, MethodsOf
<1>2. ks = DOMAIN calls
  BY DEF MethodsOf
<1>3. calls \in Seq({calls[k] : k \in 1 .. c})
  <2> DEFINE S == {calls[k] : k \in 1 .. c}
  <2> HIDE DEF calls, S
  <2>1. calls \in [1 .. c -> S]
    BY DEF S, calls, MethodsOf
  <2>2. calls \in Seq(S)
    BY <2>1
  <2> QED
    BY <2>2 DEF S
<1> HIDE DEF calls, ks
<1>4. Picked(calls, ks) = calls
  BY ONLY <1>2, <1>3, PickedAll
<1> QED
  BY <1>1, <1>4 DEF calls

\* A path with one method called on it at the end.
LEMMA OneCall ==
  ASSUME NEW e, Listed(e.links), NEW n \in Nat, Len(e.links) = n + 2,
         \A k \in 1 .. n + 1 : e.links[k].kind = "dot",
         e.links[n + 2].kind = "call", e.links[n + 1].name # NoName
  PROVE  /\ Links(e) = e.links
         /\ CollectCallChain(e).methods = <<e.links[n + 1].name>>
         /\ CollectCallChain(e).root = PathName(e.root, SubSeq(e.links, 1, n))
<1> DEFINE ls == e.links
<1>1. DOMAIN ls = 1 .. n + 2 /\ \A k \in 1 .. n + 2 : ls[k].kind # "wrap"
  <2>1. DOMAIN ls = 1 .. n + 2
    BY ListedFacts
  <2> QED
    BY <2>1
<1>2. Links(e) = ls
  BY <1>1, LinksPlain
<1>3. MethodCount(ls) = 1
  <2>1. 1 \in 0 .. Len(ls) \div 2 /\ Len(ls) \in Nat
    BY Half
  <2>2. \A k \in 0 .. 1 - 1 : Paired(ls, k)
    BY DEF Paired, IsDot
  <2>3. 1 = Len(ls) \div 2 \/ ~Paired(ls, 1)
    <3>1. CASE n = 0
      BY <3>1
    <3>2. CASE n # 0
      <4>1. Len(ls) - 2 * 1 \in 1 .. n + 1
        BY <3>2
      <4> QED
        BY <4>1 DEF Paired
    <3> QED
      BY <3>1, <3>2
  <2> HIDE DEF ls
  <2> QED
    BY ONLY <2>1, <2>2, <2>3, MethodCountIs
<1>4. \A k \in 1 .. 1 : ls[Len(ls) - 2 * 1 + 2 * k - 1].name # NoName
  OBVIOUS
<1>5. Listed(ls) /\ 2 * 1 <= Len(ls)
  OBVIOUS
<1>6. /\ CollectCallChain(e).methods = MethodsOf(ls, 1)
      /\ CollectCallChain(e).root = CalledOn(e.root, SubSeq(ls, 1, Len(ls) - 2 * 1))
  <2> HIDE DEF ls
  <2> QED
    BY ONLY <1>2, <1>3, <1>4, <1>5, ChainOf
<1>7. CollectCallChain(e).methods = <<ls[n + 1].name>>
  BY <1>6 DEF MethodsOf
<1>8. CollectCallChain(e).root = PathName(e.root, SubSeq(ls, 1, n))
  <2> DEFINE bare == SubSeq(ls, 1, n)
  <2>1. Listed(bare) /\ Len(bare) = n /\ \A i \in 1 .. n : bare[i] = ls[i]
    BY CutListed
  <2>2. Len(ls) - 2 * 1 = n
    OBVIOUS
  <2>3. CollectCallChain(e).root = CalledOn(e.root, bare)
    BY <1>6, <2>2
  <2> HIDE DEF bare
  <2>4. ~(bare # <<>> /\ Seqs!Last(bare).kind = "call")
    <3> SUFFICES ASSUME bare # <<>> PROVE Seqs!Last(bare).kind # "call"
      OBVIOUS
    <3>1. n \in 1 .. n /\ Seqs!Last(bare) = bare[n]
      BY <2>1, LastListed
    <3> QED
      BY <2>1, <3>1
  <2>5. CollectCallChain(e).root = PathName(e.root, bare)
    BY <2>3, <2>4 DEF CalledOn
  <2> QED
    BY <2>5 DEF bare
<1> QED
  BY <1>2, <1>7, <1>8

\* Two methods called on the root, one after the other.
LEMMA TwoCalls ==
  ASSUME NEW e, NEW a, NEW b, NEW c, NEW d, Links(e) = <<a, b, c, d>>,
         a.kind = "dot", a.name # NoName, b.kind = "call", c.kind = "dot", c.name # NoName, d.kind = "call"
  PROVE  /\ CollectCallChain(e).methods = <<a.name, c.name>>
         /\ e.root.kind = "name" /\ e.root.name # NoName => CollectCallChain(e).root = <<e.root.name>>
<1> DEFINE ls == <<a, b, c, d>>
<1>1. /\ Len(ls) = 4 /\ Listed(ls) /\ 4 \div 2 = 2
      /\ ls[1] = a /\ ls[2] = b /\ ls[3] = c /\ ls[4] = d
  BY DEF Listed
<1> HIDE DEF ls
<1>2. MethodCount(ls) = 2
  <2>1. Len(ls) \in Nat /\ 2 \in 0 .. Len(ls) \div 2 /\ 2 = Len(ls) \div 2
    BY <1>1
  <2>2. \A k \in 0 .. 2 - 1 : Paired(ls, k)
    <3>1. \A k \in 0 .. 2 - 1 : k = 0 \/ k = 1
      OBVIOUS
    <3> QED
      BY <1>1, <3>1 DEF Paired, IsDot
  <2> QED
    BY ONLY <2>1, <2>2, MethodCountIs
<1>3. \A k \in 1 .. 2 : ls[Len(ls) - 2 * 2 + 2 * k - 1].name # NoName
  <2>1. \A k \in 1 .. 2 : k = 1 \/ k = 2
    OBVIOUS
  <2> QED
    BY <1>1, <2>1
<1>4. /\ CollectCallChain(e).methods = MethodsOf(ls, 2)
      /\ CollectCallChain(e).root = CalledOn(e.root, SubSeq(ls, 1, Len(ls) - 2 * 2))
  <2>1. Links(e) = ls /\ 2 * 2 <= Len(ls)
    BY <1>1 DEF ls
  <2> QED
    BY ONLY <1>1, <1>2, <1>3, <2>1, ChainOf
<1>5. MethodsOf(ls, 2) = <<a.name, c.name>>
  BY <1>1 DEF MethodsOf
<1>6. ASSUME e.root.kind = "name", e.root.name # NoName
      PROVE  CalledOn(e.root, SubSeq(ls, 1, Len(ls) - 2 * 2)) = <<e.root.name>>
  <2> DEFINE none == SubSeq(ls, 1, 0)
             root == e.root
  <2>1. Listed(none) /\ Len(none) = 0
    BY <1>1, CutListed
  <2>2. none = <<>> /\ DOMAIN none = {} /\ Len(ls) - 2 * 2 = 0
    BY <1>1, <2>1, ListedFacts DEF Listed
  <2> HIDE DEF none
  <2>3. [k \in DOMAIN none |-> none[k].name] = <<>>
    BY <2>2
  <2>4. root.kind = "name" /\ root.name # NoName
    BY <1>6
  <2> HIDE DEF root
  <2>5. PathName(root, none) = <<root.name>> \o <<>>
    BY <2>2, <2>3, <2>4 DEF PathName
  <2>6. <<root.name>> \o <<>> = <<root.name>>
    OBVIOUS
  <2>7. CalledOn(root, none) = <<root.name>>
    BY <2>2, <2>5, <2>6 DEF CalledOn
  <2> QED
    BY <2>2, <2>7 DEF none, root
<1> QED
  BY <1>4, <1>5, <1>6

-----------------------------------------------------------------------------
(***************************************************************************)
(* Names, and what is sent or passed on under them.                        *)
(***************************************************************************)
LEMMA SameSeq ==
  ASSUME NEW S, NEW s \in Seq(S), NEW t \in Seq(S), Len(s) = Len(t), \A k \in 1 .. Len(s) : s[k] = t[k]
  PROVE  s = t
OBVIOUS

LEMMA ConcatFacts ==
  ASSUME NEW S, NEW s \in Seq(S), NEW t \in Seq(S)
  PROVE  /\ s \o t \in Seq(S) /\ Len(s \o t) = Len(s) + Len(t)
         /\ \A k \in 1 .. Len(s) : (s \o t)[k] = s[k]
         /\ \A k \in 1 .. Len(t) : (s \o t)[Len(s) + k] = t[k]
<1>1. s \o t \in Seq(S) /\ Len(s \o t) = Len(s) + Len(t) /\ Len(s) \in Nat /\ Len(t) \in Nat
  OBVIOUS
<1>2. \A k \in 1 .. Len(s) : (s \o t)[k] = s[k]
  OBVIOUS
<1>3. \A k \in 1 .. Len(t) : (s \o t)[Len(s) + k] = t[k]
  OBVIOUS
<1> QED
  BY <1>1, <1>2, <1>3

LEMMA TwoMore ==
  ASSUME NEW S, NEW s \in Seq(S), NEW a \in S, NEW b \in S
  PROVE  /\ s \o <<a, b>> \in Seq(S) /\ Len(s \o <<a, b>>) = Len(s) + 2
         /\ \A k \in 1 .. Len(s) : (s \o <<a, b>>)[k] = s[k]
         /\ (s \o <<a, b>>)[Len(s) + 1] = a /\ (s \o <<a, b>>)[Len(s) + 2] = b
<1> DEFINE two == <<a, b>>
<1>1. two \in Seq(S) /\ Len(two) = 2 /\ two[1] = a /\ two[2] = b
  OBVIOUS
<1> HIDE DEF two
<1>2. /\ s \o two \in Seq(S) /\ Len(s \o two) = Len(s) + Len(two)
      /\ \A k \in 1 .. Len(s) : (s \o two)[k] = s[k]
      /\ \A k \in 1 .. Len(two) : (s \o two)[Len(s) + k] = two[k]
  BY <1>1, ConcatFacts
<1>3. 1 \in 1 .. Len(two) /\ 2 \in 1 .. Len(two)
  BY <1>1
<1> QED
  BY <1>1, <1>2, <1>3 DEF two

LEMMA PathIs ==
  ASSUME NEW p, Listed(p), p # <<>>, \A k \in DOMAIN p : p[k] # NoName,
         NEW root, root.kind \in {"name", "this"}, root.name = p[1],
         NEW t, Listed(t), Len(t) = Len(p) - 1,
         \A k \in 1 .. Len(t) : t[k].kind = "dot" /\ t[k].name = p[k + 1]
  PROVE  PathName(root, t) = p
<1> DEFINE f == [k \in DOMAIN t |-> t[k].name]
           q == <<root.name>> \o f
           S == {p[k] : k \in 1 .. Len(p)}
<1>0. p \in Seq(S)
  BY ListedFacts
<1>1. /\ DOMAIN t = 1 .. Len(t) /\ Len(t) \in Nat /\ DOMAIN p = 1 .. Len(p) /\ Len(p) \in Nat
      /\ \A k \in 1 .. Len(p) : p[k] \in S
  BY ListedFacts DEF Listed
<1> HIDE DEF S
<1>2. \A k \in DOMAIN t : IsDot(t[k]) /\ t[k].name # NoName
  BY <1>1 DEF IsDot
<1>3. PathName(root, t) = q
  BY <1>2 DEF PathName
<1>4. f \in Seq(S) /\ Len(f) = Len(t) /\ \A k \in 1 .. Len(t) : f[k] = p[k + 1]
  <2>1. DOMAIN f = 1 .. Len(t) /\ \A k \in 1 .. Len(t) : f[k] = p[k + 1] /\ p[k + 1] \in S
    BY <1>1
  <2>2. f \in [1 .. Len(t) -> S]
    BY <2>1
  <2> HIDE DEF f
  <2> QED
    BY <1>1, <2>1, <2>2
<1>5. <<root.name>> \in Seq(S) /\ Len(<<root.name>>) = 1 /\ <<root.name>>[1] = p[1]
  BY <1>1
<1> HIDE DEF f
<1>6. q \in Seq(S) /\ Len(q) = Len(p) /\ \A k \in 1 .. Len(q) : q[k] = p[k]
  BY <1>1, <1>4, <1>5
<1> HIDE DEF q
<1>7. q = p
  BY <1>0, <1>6, SameSeq
<1> QED
  BY <1>3, <1>7

Spelled(p) == Listed(p) /\ p # <<>> /\ \A k \in DOMAIN p : p[k] # NoName

\* The links t behind a root spell p.
Spells(t, p) ==
  /\ Listed(t) /\ Len(t) = Len(p) - 1
  /\ \A k \in 1 .. Len(t) : t[k].kind = "dot" /\ t[k].name = p[k + 1]

Roots(root, p) == root.kind \in {"name", "this"} /\ root.name = p[1]

LEMMA PathSpelled ==
  ASSUME NEW p, Spelled(p), NEW root, Roots(root, p), NEW t, Spells(t, p)
  PROVE  PathName(root, t) = p
<1>1. Listed(p) /\ p # <<>> /\ \A k \in DOMAIN p : p[k] # NoName
  BY DEF Spelled
<1>2. root.kind \in {"name", "this"} /\ root.name = p[1]
  BY DEF Roots
<1>3. Listed(t) /\ Len(t) = Len(p) - 1 /\ \A k \in 1 .. Len(t) : t[k].kind = "dot" /\ t[k].name = p[k + 1]
  BY DEF Spells
<1> QED
  BY <1>1, <1>2, <1>3, PathIs

LEMMA NameFacts ==
  ASSUME NEW p, Spelled(p)
  PROVE  /\ Listed(Name(p).links) /\ Len(Name(p).links) = Len(p) - 1
         /\ \A k \in 1 .. Len(p) - 1 : Name(p).links[k].kind = "dot" /\ Name(p).links[k].name = p[k + 1]
         /\ Name(p).root.kind \in {"name", "this"} /\ Name(p).root.name = p[1]
         /\ Len(p) \in Nat \ {0}
<1> DEFINE ls == [k \in 1 .. Len(p) - 1 |-> Dot(p[k + 1])]
<1>1. Len(p) \in Nat \ {0}
  BY DEF Spelled, Listed
<1>2. /\ Name(p).links = ls /\ Name(p).root.name = p[1]
      /\ Name(p).root.kind \in {"name", "this"}
  BY DEF Name, Expr, Root
<1>3. Len(ls) = Len(p) - 1 /\ Listed(ls)
  BY <1>1 DEF Listed
<1>4. \A k \in 1 .. Len(p) - 1 : ls[k].kind = "dot" /\ ls[k].name = p[k + 1]
  BY DEF Dot
<1> HIDE DEF ls
<1> QED
  BY <1>1, <1>2, <1>3, <1>4

\* getQualifiedName finds a path that is written out.
LEMMA NameIs ==
  ASSUME NEW p, Spelled(p) PROVE GetQualifiedName(Name(p)) = p /\ Links(Name(p)) = Name(p).links
<1> DEFINE ls == Name(p).links
<1>1. /\ Listed(ls) /\ Len(ls) = Len(p) - 1 /\ Len(p) \in Nat \ {0}
      /\ \A k \in 1 .. Len(ls) : ls[k].kind = "dot" /\ ls[k].name = p[k + 1]
      /\ Name(p).root.kind \in {"name", "this"} /\ Name(p).root.name = p[1]
  BY NameFacts
<1>2. DOMAIN ls = 1 .. Len(ls)
  BY <1>1, ListedFacts
<1>3. \A k \in DOMAIN ls : ls[k].kind # "wrap"
  BY <1>1, <1>2
<1>4. Links(Name(p)) = ls
  BY <1>1, <1>3, LinksPlain
<1> HIDE DEF ls
<1>5. PathName(Name(p).root, ls) = p
  BY <1>1, PathIs DEF Spelled
<1> QED
  BY <1>4, <1>5 DEF GetQualifiedName, ls

LEMMA EventPaths ==
  ASSUME NEW p \in EventPlaces
  PROVE  Spelled(p) /\ p \in Names /\ p[1] # "log" /\ p # <<"c">> /\ p \notin {App, Factory, Package}
<1>1. p \in Seq(STRING) /\ p # <<>> /\ p # <<"c">> /\ p[1] # "log"
  BY PlacesAssumption
<1>2. Listed(p)
  BY <1>1, ListedSeq
<1> QED
  BY <1>1, <1>2, EventsAssumption DEF Spelled, EventPlaces

LEMMA WordPaths ==
  /\ Spelled(<<"log">>) /\ Spelled(<<"c">>) /\ Spelled(App) /\ Spelled(<<"self", "log">>)
  /\ NoName \notin {"log", "c", "app", "self", "info", "with", "send", "anew", "createLogger", "run"}
<1>1. NoName \notin {"log", "c", "app", "self", "info", "with", "send", "anew", "createLogger", "run"}
  BY Zenon DEF NoName
<1>2. Listed(<<"log">>) /\ Listed(<<"c">>) /\ Listed(<<"app">>) /\ Listed(<<"self", "log">>)
  BY DEF Listed
<1> QED
  BY <1>1, <1>2 DEF Spelled, App

\* A method called on a path at the end.
EndsIn(e, p, m, args) ==
  /\ Listed(e.links) /\ Links(e) = e.links /\ Len(e.links) = Len(p) + 1
  /\ \A k \in 1 .. Len(p) : e.links[k].kind = "dot"
  /\ \A k \in 1 .. Len(p) - 1 : e.links[k].name = p[k + 1]
  /\ e.links[Len(p)] = Dot(m) /\ e.links[Len(p) + 1] = Call(args)
  /\ CollectCallChain(e).methods = <<m>> /\ CollectCallChain(e).root = p
  /\ e.root = Name(p).root

LEMMA ThenFacts ==
  ASSUME NEW p, Spelled(p), NEW m, m # NoName, NEW args, NEW e, e = Then(Name(p), m, args)
  PROVE  EndsIn(e, p, m, args)
<1> DEFINE n == Len(p) - 1
           two == <<Dot(m), Call(args)>>
           A == {Name(p).links[k] : k \in 1 .. n} \cup {Dot(m), Call(args)}
<1>1. n \in Nat /\ Len(p) = n + 1
  BY NameFacts
<1>2. /\ Listed(Name(p).links) /\ Len(Name(p).links) = n
      /\ \A k \in 1 .. n : Name(p).links[k].kind = "dot" /\ Name(p).links[k].name = p[k + 1]
      /\ Name(p).root.kind \in {"name", "this"} /\ Name(p).root.name = p[1]
  BY NameFacts
<1>3. e.root = Name(p).root /\ e.links = Name(p).links \o two
  BY DEF Then, Expr
<1>4. Name(p).links \in Seq(A)
  <2>1. Name(p).links \in [1 .. n -> A]
    BY <1>2 DEF Listed
  <2> HIDE DEF A
  <2> QED
    BY <1>1, <2>1
<1>5. two \in Seq(A) /\ Len(two) = 2 /\ two[1] = Dot(m) /\ two[2] = Call(args)
  OBVIOUS
<1> HIDE DEF two, A
<1>6a. /\ Name(p).links \o two \in Seq(A) /\ Len(Name(p).links \o two) = n + 2
       /\ \A k \in 1 .. n : (Name(p).links \o two)[k] = Name(p).links[k]
       /\ (Name(p).links \o two)[n + 1] = Dot(m) /\ (Name(p).links \o two)[n + 2] = Call(args)
  <2> HIDE DEF n
  <2> DEFINE ls == Name(p).links
  <2>1. n = Len(ls) /\ Dot(m) \in A /\ Call(args) \in A
    BY <1>2 DEF A
  <2>2. ls \in Seq(A)
    BY <1>4
  <2> HIDE DEF ls
  <2>3. /\ ls \o two \in Seq(A) /\ Len(ls \o two) = Len(ls) + 2
        /\ \A k \in 1 .. Len(ls) : (ls \o two)[k] = ls[k]
        /\ (ls \o two)[Len(ls) + 1] = Dot(m) /\ (ls \o two)[Len(ls) + 2] = Call(args)
    BY ONLY <2>1, <2>2, TwoMore DEF two
  <2> QED
    BY <2>1, <2>3 DEF ls
<1>6. /\ e.links \in Seq(A) /\ Len(e.links) = n + 2
      /\ \A k \in 1 .. n : e.links[k] = Name(p).links[k]
      /\ e.links[n + 1] = Dot(m) /\ e.links[n + 2] = Call(args)
  <2> HIDE DEF n
  <2> QED
    BY <1>3, <1>6a
<1> HIDE DEF n
<1>7. Dot(m).kind = "dot" /\ Dot(m).name = m /\ Call(args).kind = "call"
  BY DEF Dot, Call
<1>8. /\ Listed(e.links)
      /\ \A k \in 1 .. n + 1 : e.links[k].kind = "dot"
      /\ e.links[n + 2].kind = "call" /\ e.links[n + 1].name # NoName
  BY <1>1, <1>2, <1>6, <1>7, ListedSeq
<1>9. /\ Links(e) = e.links
      /\ CollectCallChain(e).methods = <<e.links[n + 1].name>>
      /\ CollectCallChain(e).root = PathName(e.root, SubSeq(e.links, 1, n))
  BY <1>1, <1>6, <1>8, OneCall
<1>10. PathName(e.root, SubSeq(e.links, 1, n)) = p
  <2> DEFINE t == SubSeq(e.links, 1, n)
  <2>1. Listed(t) /\ Len(t) = n /\ \A k \in 1 .. n : t[k] = e.links[k]
    BY <1>1, <1>6, <1>8, CutListed
  <2> HIDE DEF t
  <2>2. \A k \in 1 .. Len(t) : t[k].kind = "dot" /\ t[k].name = p[k + 1]
    <3> TAKE k \in 1 .. Len(t)
    <3>1. k \in 1 .. n
      BY <2>1
    <3>2. t[k] = e.links[k]
      BY <2>1, <3>1
    <3>3. t[k] = Name(p).links[k]
      BY <1>6, <3>1, <3>2
    <3> QED
      BY <1>1, <1>2, <3>1, <3>3
  <2> HIDE DEF t
  <2>3. Len(t) = Len(p) - 1
    BY <1>1, <2>1
  <2>4. e.root.kind \in {"name", "this"} /\ e.root.name = p[1]
    BY <1>2, <1>3
  <2>5. Listed(p) /\ p # <<>> /\ \A k \in DOMAIN p : p[k] # NoName
    BY DEF Spelled
  <2> DEFINE root == e.root
  <2>7. root.kind \in {"name", "this"} /\ root.name = p[1]
    BY <2>4
  <2> HIDE DEF root
  <2>8. PathName(root, t) = p
    <3>1. Spells(t, p)
      BY <2>1, <2>2, <2>3 DEF Spells
    <3>2. Roots(root, p)
      BY <2>7 DEF Roots
    <3> QED
      BY <3>1, <3>2, PathSpelled
  <2>6. PathName(e.root, t) = p
    BY <2>8 DEF root
  <2> QED
    BY <2>6 DEF t
<1>11. e.links[n + 1].name = m
  BY <1>6, <1>7
<1>12. Len(p) = n + 1 /\ Len(p) - 1 = n /\ Len(p) + 1 = n + 2
  BY <1>1
<1>13. /\ Listed(e.links) /\ Links(e) = e.links /\ Len(e.links) = Len(p) + 1
       /\ e.links[Len(p)] = Dot(m) /\ e.links[Len(p) + 1] = Call(args)
  BY <1>6, <1>8, <1>9, <1>12
<1>14. \A k \in 1 .. Len(p) : e.links[k].kind = "dot"
  BY <1>8, <1>12
<1>15. \A k \in 1 .. Len(p) - 1 : e.links[k].name = p[k + 1]
  BY <1>2, <1>6, <1>12
<1>16. CollectCallChain(e).methods = <<m>> /\ CollectCallChain(e).root = p
  BY <1>9, <1>10, <1>11
<1> QED
  BY <1>3, <1>13, <1>14, <1>15, <1>16 DEF EndsIn

-----------------------------------------------------------------------------
(***************************************************************************)
(* What clearing does to a stack, place by place.                          *)
(***************************************************************************)
LEMMA SameStack ==
  ASSUME NEW a \in Stacks, NEW b \in Stacks, Len(a) = Len(b),
         \A k \in 1 .. Len(a), n \in Names : a[k][n] = b[k][n]
  PROVE  a = b
<1>1. \A k \in 1 .. Len(a) : a[k] \in [Names -> Nat] /\ b[k] \in [Names -> Nat]
  BY DEF Stacks
<1>2. \A k \in 1 .. Len(a) : a[k] = b[k]
  BY <1>1
<1> QED
  BY <1>2, SameSeq DEF Stacks

LEMMA StackFacts ==
  ASSUME NEW stack \in Stacks
  PROVE  /\ Len(stack) \in Nat /\ DOMAIN stack = 1 .. Len(stack)
         /\ \A k \in DOMAIN stack : stack[k] \in [Names -> Nat]
BY DEF Stacks

LEMMA ClearFacts ==
  ASSUME NEW stack \in Stacks, NEW x \in Names
  PROVE  /\ Clear(stack, x) \in Stacks /\ Len(Clear(stack, x)) = Len(stack)
         /\ \A k \in DOMAIN stack, n \in Names :
              Clear(stack, x)[k][n] =
                IF n = x /\ \A j \in Holding(stack, x) : j <= k THEN Nothing ELSE stack[k][n]
<1> DEFINE ks == Holding(stack, x)
           new == Clear(stack, x)
<1>1. new \in Stacks /\ Len(new) = Len(stack)
  BY ClearingThins DEF Thinner
<1>2. /\ Len(stack) \in Nat /\ DOMAIN stack = 1 .. Len(stack)
      /\ \A k \in DOMAIN stack : stack[k] \in [Names -> Nat]
  BY StackFacts
<1>3. \A k \in DOMAIN stack : k \in ks <=> stack[k][x] # Nothing
  BY DEF Holding
<1>4. ks \in SUBSET (1 .. Len(stack))
  BY <1>2 DEF Holding
<1>5. CASE ks = {}
  <2>1. new = stack
    BY <1>5 DEF Clear
  <2> HIDE DEF ks, new
  <2>2. \A k \in DOMAIN stack, n \in Names :
          new[k][n] = IF n = x /\ \A j \in ks : j <= k THEN Nothing ELSE stack[k][n]
    BY <1>3, <1>5, <2>1
  <2> QED
    BY <1>1, <2>2 DEF ks, new
<1>6. CASE ks # {}
  <2> DEFINE top == Innermost(ks)
  <2>1. top \in ks /\ \A j \in ks : j <= top
    <3> HIDE DEF ks
    <3>1. \E k \in ks : \A j \in ks : j <= k
      BY <1>2, <1>4, <1>6, HighestOf
    <3> QED
      BY <3>1 DEF Innermost
  <2>2. new = [stack EXCEPT ![top] = [@ EXCEPT ![x] = Nothing]]
    BY <1>6 DEF Clear
  <2> HIDE DEF ks, new, top
  <2>3. \A k \in DOMAIN stack : new[k] = IF k = top THEN [stack[k] EXCEPT ![x] = Nothing] ELSE stack[k]
    BY <1>2, <2>2
  <2>4. \A k \in DOMAIN stack, n \in Names :
          new[k][n] = IF k = top /\ n = x THEN Nothing ELSE stack[k][n]
    BY <1>2, <2>3
  <2>5. ASSUME NEW k \in DOMAIN stack, NEW n \in Names
        PROVE  new[k][n] = IF n = x /\ \A j \in ks : j <= k THEN Nothing ELSE stack[k][n]
    <3>1. CASE n # x
      BY <2>4, <3>1
    <3>2. CASE n = x /\ k = top
      BY <2>1, <2>4, <3>2
    <3>3. CASE n = x /\ k # top /\ k \in ks
      <4>1. k < top
        BY <1>2, <1>4, <2>1, <3>3
      <4> QED
        BY <1>2, <1>4, <2>1, <2>4, <3>3, <4>1
    <3>4. CASE n = x /\ k # top /\ k \notin ks
      BY <1>3, <2>4, <3>4
    <3> QED
      BY <3>1, <3>2, <3>3, <3>4
  <2> QED
    BY <1>1, <2>5 DEF ks, new
<1> QED
  BY <1>5, <1>6

LEMMA SmallNumbers ==
  ASSUME NEW n \in Nat, NEW S \in SUBSET (1 .. n)
  PROVE  Cardinality(S) \in Nat /\ (Cardinality(S) < 1 <=> S = {})
<1>1. IsFiniteSet(S)
  <2>1. IsFiniteSet(1 .. n)
    BY FS_Interval
  <2> QED
    BY <2>1, FS_Subset
<1>2. Cardinality(S) \in Nat /\ (Cardinality(S) = 0 <=> S = {})
  BY <1>1, FS_CardinalityType, FS_EmptySet
<1> QED
  BY <1>2

\* Arguments that are no pending names leave the stack as it is.
LEMMA NoArguments ==
  ASSUME NEW stack \in Stacks, NEW e, Listed(Arguments(e)),
         \A k \in DOMAIN stack, n \in Names : stack[k][n] # Nothing =>
           \A i \in DOMAIN Arguments(e) : GetQualifiedName(Arguments(e)[i]) # n
  PROVE  ClearArguments(stack, e) = stack
<1> DEFINE args == Arguments(e)
           given(n) == Cardinality({i \in DOMAIN args : GetQualifiedName(args[i]) = n})
           within(k, n) == Cardinality({j \in Holding(stack, n) : j > k})
           new == ClearArguments(stack, e)
<1>1. new \in Stacks /\ Len(new) = Len(stack)
  BY ClearingArgumentsThins DEF Thinner
<1>2. new = [k \in DOMAIN stack |-> [n \in Names |-> IF within(k, n) < given(n) THEN Nothing ELSE stack[k][n]]]
  BY Zenon DEF ClearArguments
<1>3. ASSUME NEW k \in DOMAIN stack, NEW n \in Names, stack[k][n] # Nothing PROVE ~(within(k, n) < given(n))
  <2>1. {i \in DOMAIN args : GetQualifiedName(args[i]) = n} = {}
    BY <1>3
  <2>2. given(n) = 0
    BY <2>1, FS_EmptySet
  <2>3. {j \in Holding(stack, n) : j > k} \in SUBSET (1 .. Len(stack)) /\ Len(stack) \in Nat
    BY StackFacts DEF Holding
  <2>4. within(k, n) \in Nat
    BY <2>3, SmallNumbers
  <2> QED
    BY <2>2, <2>4
<1> HIDE DEF within, given
<1>4. \A k \in DOMAIN stack, n \in Names : new[k][n] = stack[k][n]
  <2>1. \A k \in DOMAIN stack, n \in Names : new[k][n] = IF within(k, n) < given(n) THEN Nothing ELSE stack[k][n]
    BY <1>2
  <2> QED
    BY <1>3, <2>1
<1> HIDE DEF new
<1>5. new = stack
  BY <1>1, <1>4, SameStack, StackFacts
<1> QED
  BY <1>5 DEF new

\* One argument clears its name.
LEMMA OneArgument ==
  ASSUME NEW stack \in Stacks, NEW e, NEW x \in Names, NEW a,
         Arguments(e) = <<a>>, GetQualifiedName(a) = x
  PROVE  ClearArguments(stack, e) = Clear(stack, x)
<1> DEFINE args == Arguments(e)
           named(n) == {i \in DOMAIN args : GetQualifiedName(args[i]) = n}
           behind(k, n) == {j \in Holding(stack, n) : j > k}
           new == ClearArguments(stack, e)
<1>1. new \in Stacks /\ Len(new) = Len(stack)
  BY ClearingArgumentsThins DEF Thinner
<1>2. new = [k \in DOMAIN stack |-> [n \in Names |->
               IF Cardinality(behind(k, n)) < Cardinality(named(n)) THEN Nothing ELSE stack[k][n]]]
  BY Zenon DEF ClearArguments
<1>3. \A n \in Names : named(n) = IF n = x THEN {1} ELSE {}
  BY DOMAIN args = {1}
<1>4. ASSUME NEW k \in DOMAIN stack, NEW n \in Names
      PROVE  Cardinality(behind(k, n)) < Cardinality(named(n)) <=> n = x /\ behind(k, n) = {}
  <2>1. behind(k, n) \in SUBSET (1 .. Len(stack)) /\ Len(stack) \in Nat
    BY StackFacts DEF Holding
  <2> HIDE DEF behind
  <2>2. Cardinality(behind(k, n)) \in Nat /\ (Cardinality(behind(k, n)) < 1 <=> behind(k, n) = {})
    BY <2>1, SmallNumbers
  <2>3. Cardinality({1}) = 1 /\ Cardinality({}) = 0
    BY FS_Singleton, FS_EmptySet
  <2> HIDE DEF named
  <2> QED
    BY <1>3, <2>2, <2>3
<1>5. \A k \in DOMAIN stack, n \in Names :
        new[k][n] = IF n = x /\ behind(k, n) = {} THEN Nothing ELSE stack[k][n]
  <2> HIDE DEF behind, named
  <2>1. \A k \in DOMAIN stack, n \in Names :
          new[k][n] = IF Cardinality(behind(k, n)) < Cardinality(named(n)) THEN Nothing ELSE stack[k][n]
    BY <1>2
  <2> QED
    BY <1>4, <2>1
<1>6. \A k \in DOMAIN stack : behind(k, x) = {} <=> \A j \in Holding(stack, x) : j <= k
  <2>1. \A j \in Holding(stack, x) : j \in Int
    BY StackFacts DEF Holding
  <2>2. \A k \in DOMAIN stack : k \in Int
    BY StackFacts
  <2> QED
    BY <2>1, <2>2
<1> HIDE DEF new, behind
<1>7. \A k \in DOMAIN stack, n \in Names : new[k][n] = Clear(stack, x)[k][n]
  BY <1>5, <1>6, ClearFacts
<1>8. new = Clear(stack, x)
  <2> DEFINE other == Clear(stack, x)
  <2>1. other \in Stacks /\ Len(other) = Len(stack) /\ DOMAIN stack = 1 .. Len(stack)
    BY ClearFacts, StackFacts
  <2>2. \A k \in 1 .. Len(new), n \in Names : new[k][n] = other[k][n]
    BY <1>1, <1>7, <2>1
  <2> HIDE DEF other
  <2>3. new = other
    BY ONLY <1>1, <2>1, <2>2, SameStack
  <2> QED
    BY <2>3 DEF other
<1> QED
  BY <1>8 DEF new

-----------------------------------------------------------------------------
(***************************************************************************)
(* What a mild expression leaves alone, and what a use takes.              *)
(***************************************************************************)
LEMMA NoName0 == <<>> \notin EventPlaces
BY EventPaths DEF Spelled

\* All that is pending is pending under the names of the places of events.
OnlyPlaces(stack) == \A k \in DOMAIN stack, n \in Names : stack[k][n] # Nothing => n \in EventPlaces

LEMMA NothingToClear ==
  ASSUME NEW stack \in Stacks, OnlyPlaces(stack), NEW x, x \notin EventPlaces
  PROVE  Clear(stack, x) = stack
<1>1. Holding(stack, x) = {}
  BY DEF Holding, OnlyPlaces
<1> QED
  BY <1>1 DEF Clear

LEMMA ArgumentsFrom ==
  ASSUME NEW e, Listed(e.links)
  PROVE  \/ Arguments(e) = <<>>
         \/ \E k \in DOMAIN e.links : e.links[k].kind = "call" /\ Arguments(e) = e.links[k].args
<1>1. CASE ~IsCall(e)
  BY <1>1 DEF Arguments
<1>2. CASE IsCall(e)
  <2> DEFINE ls == Links(e)
  <2>1. ls # <<>> /\ Seqs!Last(ls).kind = "call" /\ Arguments(e) = Seqs!Last(ls).args
    BY <1>2 DEF IsCall, Arguments
  <2>2. Listed(ls) /\ \A i \in DOMAIN ls : \E k \in DOMAIN e.links : ls[i] = e.links[k]
    BY LinksFrom
  <2> HIDE DEF ls
  <2>3. Len(ls) \in DOMAIN ls /\ Seqs!Last(ls) = ls[Len(ls)]
    BY <2>1, <2>2, LastListed, ListedFacts
  <2> QED
    BY <2>1, <2>2, <2>3
<1> QED
  BY <1>1, <1>2

LEMMA MildConsumes ==
  ASSUME NEW stack \in Stacks, OnlyPlaces(stack), NEW e, Listed(e.links), Mild(e)
  PROVE  ConsumeTerminalUse(stack, e) = stack
<1> DEFINE chain == CollectCallChain(e)
<1>1. /\ chain.root # <<>> => chain.root[1] = e.root.name
      /\ \A k \in DOMAIN chain.methods :
           \E j \in DOMAIN e.links : e.links[j].kind = "dot" /\ e.links[j].name = chain.methods[k]
  BY ChainFrom
<1> HIDE DEF chain
<1>2. ClearArguments(stack, e) = stack
  <2>1. Listed(Arguments(e)) /\ \A i \in DOMAIN Arguments(e) : GetQualifiedName(Arguments(e)[i]) \notin EventPlaces
    <3>1. CASE Arguments(e) = <<>>
      BY <3>1 DEF Listed
    <3>2. CASE Arguments(e) # <<>>
      BY <3>2, ArgumentsFrom DEF Mild
    <3> QED
      BY <3>1, <3>2
  <2>2. \A k \in DOMAIN stack, n \in Names : stack[k][n] # Nothing =>
          \A i \in DOMAIN Arguments(e) : GetQualifiedName(Arguments(e)[i]) # n
    BY <2>1 DEF OnlyPlaces
  <2> QED
    BY <2>1, <2>2, NoArguments
<1>3. CASE \E k \in DOMAIN chain.methods : chain.methods[k] \in terminalMethods
  <2>1. e.root.name = "log"
    BY <1>1, <1>3 DEF Mild
  <2>2. chain.root \notin EventPlaces
    BY <1>1, <2>1, EventPaths, NoName0
  <2>3. Clear(stack, chain.root) = stack
    BY <2>2, NothingToClear
  <2> QED
    BY <1>2, <1>3, <2>3 DEF ConsumeTerminalUse, chain
<1>4. CASE ~\E k \in DOMAIN chain.methods : chain.methods[k] \in terminalMethods
  BY <1>2, <1>4 DEF ConsumeTerminalUse, chain
<1> QED
  BY <1>3, <1>4

LEMMA SilentNoEvent ==
  ASSUME NEW e, Listed(e.links), Silent(e), NEW L
  PROVE  ~InspectChain(e, L).isEvent
<1>1. \A k \in DOMAIN CollectCallChain(e).methods : CollectCallChain(e).methods[k] \notin levelMethods
  BY ChainFrom DEF Silent
<1> QED
  BY <1>1 DEF InspectChain

\* A single call of something that is no path.
LEMMA PassFacts ==
  ASSUME NEW r, NEW args
  PROVE  LET e == Expr(r, <<Call(args)>>)
         IN  /\ Listed(e.links) /\ Len(e.links) = 1 /\ e.links[1] = Call(args) /\ e.root = r
             /\ Arguments(e) = args /\ CollectCallChain(e).methods = <<>>
             /\ GetQualifiedName(e) = <<>> /\ Silent(e)
             /\ Links(e) = <<Call(args)>>
<1> DEFINE e == Expr(r, <<Call(args)>>)
<1>1. e.root = r /\ e.links = <<Call(args)>> /\ Call(args).kind = "call" /\ Call(args).args = args
  BY DEF Expr, Call
<1>2. Listed(e.links) /\ Len(e.links) = 1 /\ e.links[1] = Call(args) /\ DOMAIN e.links = {1}
  BY <1>1 DEF Listed
<1> HIDE DEF e
<1>3. Links(e) = e.links
  BY <1>1, <1>2, LinksPlain
<1>4. IsCall(e) /\ Seqs!Last(Links(e)) = Call(args)
  <2>1. e.links # <<>> /\ Listed(Links(e)) /\ Links(e) # <<>>
    BY <1>1, <1>2, <1>3
  <2>2. Seqs!Last(Links(e)) = Links(e)[1]
    BY <1>2, <1>3, <2>1, LastListed
  <2> QED
    BY <1>1, <1>2, <1>3, <2>1, <2>2 DEF IsCall
<1>5. Arguments(e) = args
  BY <1>1, <1>4 DEF Arguments
<1>6. CollectCallChain(e).methods = <<>>
  <2>1. /\ Listed(CollectCallChain(e).methods)
        /\ \A k \in DOMAIN CollectCallChain(e).methods :
             \E j \in DOMAIN e.links : e.links[j].kind = "dot" /\ e.links[j].name = CollectCallChain(e).methods[k]
    BY <1>2, ChainFrom
  <2> DEFINE ms == CollectCallChain(e).methods
  <2>2. Listed(ms) /\ DOMAIN ms = {}
    BY <1>1, <1>2, <2>1
  <2> HIDE DEF ms
  <2>3. Len(ms) \in Nat /\ DOMAIN ms = 1 .. Len(ms) /\ ms \in Seq({ms[i] : i \in 1 .. Len(ms)})
    BY <2>2, ListedFacts DEF Listed
  <2>4. Len(ms) = 0
    <3>1. 1 \notin 1 .. Len(ms)
      BY <2>2, <2>3
    <3> QED
      BY <2>3, <3>1
  <2>5. ms = <<>>
    BY <2>3, <2>4
  <2> QED
    BY <2>5 DEF ms
<1>7. GetQualifiedName(e) = <<>>
  BY <1>1, <1>2, <1>3, NoPath DEF GetQualifiedName
<1>8. Silent(e)
  BY <1>1, <1>2 DEF Silent
<1> QED
  BY <1>1, <1>2, <1>3, <1>5, <1>6, <1>7, <1>8 DEF e

LEMMA UseConsumes ==
  ASSUME NEW stack \in Stacks, NEW x \in EventPlaces, NEW e \in UseOf(x)
  PROVE  ConsumeTerminalUse(stack, e) = Clear(stack, x) /\ Listed(e.links) /\ \A L : ~InspectChain(e, L).isEvent
<1>0. Spelled(x) /\ x \in Names
  BY EventPaths
<1>1. CASE e = SendCall(x)
  <2>1. /\ Listed(e.links) /\ Links(e) = e.links /\ Len(e.links) = Len(x) + 1
        /\ e.links[Len(x) + 1] = Call(<<>>)
        /\ CollectCallChain(e).methods = <<"send">> /\ CollectCallChain(e).root = x
    <3>1. "send" # NoName
      BY WordPaths
    <3>2. e = Then(Name(x), "send", <<>>)
      BY <1>1 DEF SendCall
    <3> DEFINE none == <<>>
               m == "send"
    <3>3. m # NoName /\ e = Then(Name(x), m, none)
      BY <3>1, <3>2
    <3> HIDE DEF none, m
    <3>4. EndsIn(e, x, m, none)
      BY ONLY <1>0, <3>3, ThenFacts
    <3> QED
      BY <3>4 DEF EndsIn, none, m
  <2>2. ConsumeTerminalUse(stack, e) = ClearArguments(Clear(stack, x), e)
    BY <2>1 DEF ConsumeTerminalUse, terminalMethods
  <2>3. Arguments(e) = <<>>
    <3>1. e.links # <<>> /\ Len(x) + 1 \in Nat
      BY <1>0, <2>1 DEF Spelled, Listed
    <3>2. Seqs!Last(Links(e)) = Call(<<>>)
      BY <2>1, <3>1, LastListed
    <3> QED
      BY <3>2 DEF Arguments, Call
  <2>4. Clear(stack, x) \in Stacks
    BY <1>0, ClearFacts
  <2>5. ClearArguments(Clear(stack, x), e) = Clear(stack, x)
    <3>1. Listed(Arguments(e)) /\ DOMAIN Arguments(e) = {}
      BY <2>3 DEF Listed
    <3> QED
      BY <2>4, <3>1, NoArguments
  <2>6. ASSUME NEW L PROVE ~InspectChain(e, L).isEvent
    <3>1. \A k \in DOMAIN CollectCallChain(e).methods : CollectCallChain(e).methods[k] \notin levelMethods
      BY <2>1 DEF levelMethods
    <3> QED
      BY <3>1 DEF InspectChain
  <2> QED
    BY <2>1, <2>2, <2>5, <2>6
<1>2. ASSUME NEW r, e = Expr(r, <<Call(<<Name(x)>>)>>)
      PROVE  /\ ConsumeTerminalUse(stack, e) = Clear(stack, x) /\ Listed(e.links)
             /\ \A L : ~InspectChain(e, L).isEvent
  <2>1. /\ Arguments(e) = <<Name(x)>> /\ CollectCallChain(e).methods = <<>>
        /\ Listed(e.links) /\ Silent(e)
    BY <1>2, PassFacts
  <2>2. ConsumeTerminalUse(stack, e) = ClearArguments(stack, e)
    BY <2>1 DEF ConsumeTerminalUse
  <2>3. GetQualifiedName(Name(x)) = x
    BY <1>0, NameIs
  <2>4. ClearArguments(stack, e) = Clear(stack, x)
    BY <1>0, <2>1, <2>3, OneArgument
  <2> QED
    BY <2>1, <2>2, <2>4, SilentNoEvent
<1> QED
  BY <1>1, <1>2 DEF UseOf, PassTo

-----------------------------------------------------------------------------
(***************************************************************************)
(* The chains that build events.                                           *)
(***************************************************************************)
GoodArgs(args) == Listed(args) /\ \A i \in DOMAIN args : GetQualifiedName(args[i]) \notin EventPlaces

LEMMA NowhereIsNone == GetQualifiedName(Nowhere) = <<>> /\ Nowhere.links = <<>> /\ Listed(Nowhere.links)
<1>1. Nowhere.root.kind = "other" /\ Nowhere.links = <<>> /\ Listed(Nowhere.links)
  BY DEF Nowhere, Expr, Root, Listed
<1>2. GetQualifiedName(Nowhere) = <<>>
  <2> DEFINE root == Nowhere.root
             links == Links(Nowhere)
  <2>1. root.kind = "other"
    BY <1>1
  <2> HIDE DEF root, links
  <2>2. PathName(root, links) = <<>>
    BY <2>1 DEF PathName
  <2> QED
    BY <2>2 DEF GetQualifiedName, root, links
<1> QED
  BY <1>1, <1>2

LEMMA GoodArguments ==
  /\ GoodArgs(<<>>) /\ GoodArgs(<<Literal>>) /\ GoodArgs(<<Literal, Name(<<"c">>)>>)
  /\ GoodArgs(<<Literal, Literal, Name(<<"c">>)>>)
<1> DEFINE lit == Literal
           c == Name(<<"c">>)
<1>1. GetQualifiedName(lit) \notin EventPlaces
  BY NowhereIsNone, NoName0 DEF Literal
<1>2. GetQualifiedName(c) \notin EventPlaces
  <2>1. GetQualifiedName(c) = <<"c">>
    BY WordPaths, NameIs
  <2> QED
    BY <2>1, EventPaths
<1> HIDE DEF lit, c
<1>3. GoodArgs(<<>>)
  BY DEF GoodArgs, Listed
<1>4. GoodArgs(<<lit>>)
  BY <1>1 DEF GoodArgs, Listed
<1>5. GoodArgs(<<lit, c>>)
  BY <1>1, <1>2 DEF GoodArgs, Listed
<1>6. GoodArgs(<<lit, lit, c>>)
  BY <1>1, <1>2 DEF GoodArgs, Listed
<1> QED
  BY <1>3, <1>4, <1>5, <1>6 DEF lit, c

\* Most chains are one method called on the name of a logger.
OneMethod(c, p, m, args) ==
  /\ ChainExpr(c) = Then(Name(p), m, args) /\ Spelled(p) /\ m \in {"info", "log"} /\ GoodArgs(args)
  /\ \/ p = <<"log">> /\ c \in {"plain", "comma", "emit"}
     \/ p = <<"self", "log">> /\ c = "member"
     \/ p = App /\ c = "alias"

LEMMA OneMethodChains ==
  ASSUME NEW c \in {"plain", "comma", "emit", "member", "alias"}
  PROVE  \E p, m, args : OneMethod(c, p, m, args)
<1>1. CASE c = "plain"
  <2>1. ChainExpr(c) = Then(Name(<<"log">>), "info", <<Literal>>)
    BY <1>1 DEF ChainExpr
  <2>2. OneMethod(c, <<"log">>, "info", <<Literal>>)
    BY <1>1, <2>1, GoodArguments, WordPaths DEF OneMethod
  <2> QED
    BY <2>2
<1>2. CASE c = "comma"
  <2>1. ChainExpr(c) = Then(Name(<<"log">>), "info", <<Literal, Name(<<"c">>)>>)
    BY <1>2 DEF ChainExpr
  <2>2. OneMethod(c, <<"log">>, "info", <<Literal, Name(<<"c">>)>>)
    BY <1>2, <2>1, GoodArguments, WordPaths DEF OneMethod
  <2> QED
    BY <2>2
<1>3. CASE c = "emit"
  <2>1. ChainExpr(c) = Then(Name(<<"log">>), "log", <<Literal, Literal, Name(<<"c">>)>>)
    BY <1>3 DEF ChainExpr
  <2>2. OneMethod(c, <<"log">>, "log", <<Literal, Literal, Name(<<"c">>)>>)
    BY <1>3, <2>1, GoodArguments, WordPaths DEF OneMethod
  <2> QED
    BY <2>2
<1>4. CASE c = "member"
  <2>1. ChainExpr(c) = Then(Name(<<"self", "log">>), "info", <<Literal>>)
    BY <1>4 DEF ChainExpr
  <2>2. OneMethod(c, <<"self", "log">>, "info", <<Literal>>)
    BY <1>4, <2>1, GoodArguments, WordPaths DEF OneMethod
  <2> QED
    BY <2>2
<1>5. CASE c = "alias"
  <2>1. ChainExpr(c) = Then(Name(App), "info", <<Literal>>)
    BY <1>5 DEF ChainExpr
  <2>2. OneMethod(c, App, "info", <<Literal>>)
    BY <1>5, <2>1, GoodArguments, WordPaths DEF OneMethod
  <2> QED
    BY <2>2
<1> QED
  BY <1>1, <1>2, <1>3, <1>4, <1>5

\* The others are two, called on log one after the other.
TwoMethods(c, a, b) ==
  /\ Listed(ChainExpr(c).links) /\ ChainExpr(c).root = Root("name", "log")
  /\ \A k \in DOMAIN ChainExpr(c).links : ChainExpr(c).links[k].kind = "call" => GoodArgs(ChainExpr(c).links[k].args)
  /\ Links(ChainExpr(c)) = <<Dot(a), Call(<<Literal>>), Dot(b), Call(IF c = "sent" THEN <<>> ELSE <<Literal>>)>>

LEMMA OneMore ==
  ASSUME NEW S, NEW s \in Seq(S), NEW a \in S
  PROVE  /\ Append(s, a) \in Seq(S) /\ Len(Append(s, a)) = Len(s) + 1
         /\ \A k \in 1 .. Len(s) : Append(s, a)[k] = s[k]
         /\ Append(s, a)[Len(s) + 1] = a
OBVIOUS

LEMMA FourLinks ==
  ASSUME NEW a, NEW b, NEW c, NEW d
  PROVE  (<<>> \o <<a, b>>) \o <<c, d>> = <<a, b, c, d>>
<1> DEFINE S == {a, b, c, d}
           n == <<>>
           s == n \o <<a, b>>
           t == s \o <<c, d>>
           u == <<a, b, c, d>>
<1>1. n \in Seq(S) /\ Len(n) = 0 /\ a \in S /\ b \in S /\ c \in S /\ d \in S
  OBVIOUS
<1>2. u \in Seq(S) /\ Len(u) = 4 /\ u[1] = a /\ u[2] = b /\ u[3] = c /\ u[4] = d
  OBVIOUS
<1> HIDE DEF S, n, u
<1>3. s \in Seq(S) /\ Len(s) = 2 /\ s[1] = a /\ s[2] = b
  BY <1>1, TwoMore
<1> HIDE DEF s
<1>4. t \in Seq(S) /\ Len(t) = 4 /\ t[1] = a /\ t[2] = b /\ t[3] = c /\ t[4] = d
  <2>0. s \in Seq(S) /\ c \in S /\ d \in S
    BY <1>1, <1>3
  <2>1. /\ t \in Seq(S) /\ Len(t) = Len(s) + 2 /\ \A k \in 1 .. Len(s) : t[k] = s[k]
        /\ t[Len(s) + 1] = c /\ t[Len(s) + 2] = d
    BY ONLY <2>0, TwoMore
  <2> HIDE DEF t
  <2> QED
    BY <1>1, <1>3, <2>1
<1> HIDE DEF t
<1>5. t = u
  BY <1>2, <1>4, SameSeq
<1> QED
  BY <1>5 DEF n, s, t, u

LEMMA SixLinks ==
  ASSUME NEW a, NEW b, NEW w, NEW c, NEW d
  PROVE  Append(Append(<<>> \o <<a, b>>, w) \o <<c, d>>, w) = <<a, b, w, c, d, w>>
<1> DEFINE S == {a, b, c, d, w}
           n == <<>>
           s == n \o <<a, b>>
           r == Append(s, w)
           t == r \o <<c, d>>
           v == Append(t, w)
           u == <<a, b, w, c, d, w>>
<1>1. n \in Seq(S) /\ Len(n) = 0 /\ a \in S /\ b \in S /\ c \in S /\ d \in S /\ w \in S
  OBVIOUS
<1>2. u \in Seq(S) /\ Len(u) = 6 /\ u[1] = a /\ u[2] = b /\ u[3] = w /\ u[4] = c /\ u[5] = d /\ u[6] = w
  OBVIOUS
<1> HIDE DEF S, n, u
<1>3. s \in Seq(S) /\ Len(s) = 2 /\ s[1] = a /\ s[2] = b
  BY <1>1, TwoMore
<1> HIDE DEF s
<1>4. r \in Seq(S) /\ Len(r) = 3 /\ r[1] = a /\ r[2] = b /\ r[3] = w
  <2>0. s \in Seq(S) /\ w \in S
    BY <1>1, <1>3
  <2>1. /\ r \in Seq(S) /\ Len(r) = Len(s) + 1 /\ \A k \in 1 .. Len(s) : r[k] = s[k]
        /\ r[Len(s) + 1] = w
    BY ONLY <2>0, OneMore
  <2> HIDE DEF r
  <2> QED
    BY <1>1, <1>3, <2>1
<1> HIDE DEF r
<1>5. t \in Seq(S) /\ Len(t) = 5 /\ t[1] = a /\ t[2] = b /\ t[3] = w /\ t[4] = c /\ t[5] = d
  <2>0. r \in Seq(S) /\ c \in S /\ d \in S
    BY <1>1, <1>4
  <2>1. /\ t \in Seq(S) /\ Len(t) = Len(r) + 2 /\ \A k \in 1 .. Len(r) : t[k] = r[k]
        /\ t[Len(r) + 1] = c /\ t[Len(r) + 2] = d
    BY ONLY <2>0, TwoMore
  <2> HIDE DEF t
  <2> QED
    BY <1>1, <1>4, <2>1
<1> HIDE DEF t
<1>6. v \in Seq(S) /\ Len(v) = 6 /\ v[1] = a /\ v[2] = b /\ v[3] = w /\ v[4] = c /\ v[5] = d /\ v[6] = w
  <2>0. t \in Seq(S) /\ w \in S
    BY <1>1, <1>5
  <2>1. /\ v \in Seq(S) /\ Len(v) = Len(t) + 1 /\ \A k \in 1 .. Len(t) : v[k] = t[k]
        /\ v[Len(t) + 1] = w
    BY ONLY <2>0, OneMore
  <2> HIDE DEF v
  <2> QED
    BY <1>1, <1>5, <2>1
<1> HIDE DEF v
<1>7. v = u
  BY <1>2, <1>6, SameSeq
<1> QED
  BY <1>7 DEF n, s, r, t, u, v

LEMMA LogIs == Name(<<"log">>).root = Root("name", "log") /\ Name(<<"log">>).links = <<>>
<1>1. Name(<<"log">>).root = Root("name", "log")
  BY DEF Name, Expr
<1>2. Name(<<"log">>).links = [k \in 1 .. 0 |-> Dot(<<"log">>[k + 1])]
  BY DEF Name, Expr
<1>3. [k \in 1 .. 0 |-> Dot(<<"log">>[k + 1])] = <<>>
  OBVIOUS
<1> QED
  BY <1>1, <1>2, <1>3

LEMMA DerivedIs == TwoMethods("derived", "with", "info")
<1> DEFINE e == ChainExpr("derived")
           a == Dot("with")
           b == Call(<<Literal>>)
           d == Dot("info")
<1>1. e = Then(Then(Name(<<"log">>), "with", <<Literal>>), "info", <<Literal>>)
  BY DEF ChainExpr
<1>2. e.root = Root("name", "log") /\ e.links = (<<>> \o <<a, b>>) \o <<d, b>>
  <2> DEFINE l == Name(<<"log">>)
             one == Then(l, "with", <<Literal>>)
  <2>1. one.root = l.root /\ one.links = l.links \o <<a, b>>
    BY DEF Then, Expr
  <2>2. e = Then(one, "info", <<Literal>>)
    BY <1>1
  <2> HIDE DEF e, one
  <2>3. e.root = one.root /\ e.links = one.links \o <<d, b>>
    BY <2>2 DEF Then, Expr
  <2>4. l.root = Root("name", "log") /\ l.links = <<>>
    BY LogIs
  <2> HIDE DEF l, a, b, d
  <2> QED
    BY <2>1, <2>3, <2>4
<1>3. a.kind = "dot" /\ b.kind = "call" /\ d.kind = "dot" /\ b.args = <<Literal>>
  BY DEF Dot, Call
<1> HIDE DEF e, a, b, d
<1>4. e.links = <<a, b, d, b>>
  BY <1>2, FourLinks
<1>5. Listed(e.links) /\ DOMAIN e.links = 1 .. 4
  BY <1>4 DEF Listed
<1>6. \A k \in DOMAIN e.links : e.links[k].kind # "wrap"
  BY <1>3, <1>4, <1>5
<1>7. Links(e) = <<a, b, d, b>>
  BY <1>4, <1>5, <1>6, LinksPlain
<1>8. \A k \in DOMAIN e.links : e.links[k].kind = "call" => GoodArgs(e.links[k].args)
  BY <1>3, <1>4, <1>5, GoodArguments
<1>9. "derived" # "sent"
  OBVIOUS
<1> QED
  BY <1>2, <1>5, <1>7, <1>8, <1>9 DEF TwoMethods, e, a, b, d

LEMMA SentIs == TwoMethods("sent", "info", "send")
<1> DEFINE e == ChainExpr("sent")
           a == Dot("info")
           b == Call(<<Literal>>)
           w == [kind |-> "wrap"]
           c == Dot("send")
           d == Call(<<>>)
<1>1. e = Wrap(Then(Wrap(Then(Name(<<"log">>), "info", <<Literal>>)), "send", <<>>))
  BY DEF ChainExpr
<1>2. e.root = Root("name", "log") /\ e.links = Append(Append(<<>> \o <<a, b>>, w) \o <<c, d>>, w)
  <2> DEFINE l == Name(<<"log">>)
             one == Then(l, "info", <<Literal>>)
             two == Wrap(one)
             three == Then(two, "send", <<>>)
  <2>1. one.root = l.root /\ one.links = l.links \o <<a, b>>
    BY DEF Then, Expr
  <2>2. e = Wrap(three)
    BY <1>1
  <2> HIDE DEF e, one
  <2>3. two.root = one.root /\ two.links = Append(one.links, w)
    BY DEF Wrap, Expr
  <2> HIDE DEF two
  <2>4. three.root = two.root /\ three.links = two.links \o <<c, d>>
    BY DEF Then, Expr
  <2> HIDE DEF three
  <2>5. e.root = three.root /\ e.links = Append(three.links, w)
    BY <2>2 DEF Wrap, Expr
  <2>6. l.root = Root("name", "log") /\ l.links = <<>>
    BY LogIs
  <2> HIDE DEF l, a, b, c, d, w
  <2> QED
    BY <2>1, <2>3, <2>4, <2>5, <2>6
<1>3. /\ a.kind = "dot" /\ b.kind = "call" /\ w.kind = "wrap" /\ c.kind = "dot" /\ d.kind = "call"
      /\ b.args = <<Literal>> /\ d.args = <<>>
  BY DEF Dot, Call
<1> HIDE DEF e, a, b, c, d, w
<1>4. e.links = <<a, b, w, c, d, w>>
  BY <1>2, SixLinks
<1>5. Listed(e.links) /\ DOMAIN e.links = 1 .. 6
  BY <1>4 DEF Listed
<1>6. \A k \in DOMAIN e.links : e.links[k].kind = "call" => GoodArgs(e.links[k].args)
  BY <1>3, <1>4, <1>5, GoodArguments
<1>7. Links(e) = <<a, b, c, d>>
  <2> DEFINE ks == {k \in DOMAIN e.links : e.links[k].kind # "wrap"}
             p == <<1, 2, 4, 5>>
             ls == e.links
  <2>1. ks = {1, 2, 4, 5}
    BY <1>3, <1>4, <1>5
  <2>2. Links(e) = Picked(ls, ks)
    BY DEF Links
  <2>3. ls[1] = a /\ ls[2] = b /\ ls[4] = c /\ ls[5] = d
    BY <1>4
  <2> HIDE DEF ks, ls
  <2>4. p \in [1 .. 4 -> ks] /\ p[1] = 1 /\ p[2] = 2 /\ p[3] = 4 /\ p[4] = 5
    BY <2>1
  <2> HIDE DEF p
  <2>5. Listing(p, 4, ks)
    <3>1. \A i, j \in 1 .. 4 : i < j => p[i] < p[j]
      BY <2>4
    <3>2. \A k \in ks : \E i \in 1 .. 4 : p[i] = k
      BY <2>1, <2>4
    <3> QED
      BY <2>4, <3>1, <3>2 DEF Listing
  <2>6. Picked(ls, ks) = [i \in 1 .. 4 |-> ls[p[i]]]
    BY <2>1, <2>5, PickedBy
  <2>7. [i \in 1 .. 4 |-> ls[p[i]]] = <<a, b, c, d>>
    BY <2>3, <2>4
  <2> QED
    BY <2>2, <2>6, <2>7
<1> QED
  BY <1>2, <1>5, <1>6, <1>7 DEF TwoMethods, e, a, b, c, d

\* What the rule makes of a chain: the logger it starts from, and its methods.
Reads(c) ==
  LET chain == CollectCallChain(ChainExpr(c)) IN
  \/ /\ chain.methods = <<"info">> \/ chain.methods = <<"log">>
     /\ \/ chain.root = <<"log">> /\ c \in {"plain", "comma", "emit"}
        \/ chain.root = <<"self", "log">> /\ c = "member"
        \/ chain.root = App /\ c = "alias"
  \/ chain.methods = <<"with", "info">> /\ chain.root = <<"log">> /\ c = "derived"
  \/ chain.methods = <<"info", "send">> /\ chain.root = <<"log">> /\ c = "sent"

Sound(e) == Listed(e.links) /\ Mild(e) /\ GetQualifiedName(e) = <<>>

LEMMA OneMethodFacts ==
  ASSUME NEW c \in {"plain", "comma", "emit", "member", "alias"}
  PROVE  /\ Sound(ChainExpr(c)) /\ Reads(c) /\ IsCall(ChainExpr(c)) /\ Links(ChainExpr(c)) = ChainExpr(c).links
         /\ \A k \in DOMAIN ChainExpr(c).links :
              ChainExpr(c).links[k].kind = "dot" => ChainExpr(c).links[k].name \in {"info", "log"}
         /\ ChainExpr(c).root.name \in {"log", "self", "app"}
<1> DEFINE e == ChainExpr(c)
           ls == e.links
<1>1. PICK p, m, args : OneMethod(c, p, m, args)
  BY OneMethodChains
<1>2. /\ e = Then(Name(p), m, args) /\ Spelled(p) /\ m \in {"info", "log"} /\ GoodArgs(args)
      /\ \/ p = <<"log">> /\ c \in {"plain", "comma", "emit"}
         \/ p = <<"self", "log">> /\ c = "member"
         \/ p = App /\ c = "alias"
  BY <1>1 DEF OneMethod
<1>3. m # NoName
  <2>1. "info" # NoName /\ "log" # NoName
    BY WordPaths
  <2> QED
    BY <1>2, <2>1
<1>4. EndsIn(e, p, m, args)
  <2> HIDE DEF e
  <2> QED
    BY ONLY <1>2, <1>3, ThenFacts
<1> HIDE DEF e
<1>5. /\ Listed(ls) /\ Links(e) = ls /\ Len(ls) = Len(p) + 1
      /\ \A k \in 1 .. Len(p) : ls[k].kind = "dot"
      /\ \A k \in 1 .. Len(p) - 1 : ls[k].name = p[k + 1]
      /\ ls[Len(p)] = Dot(m) /\ ls[Len(p) + 1] = Call(args)
      /\ CollectCallChain(e).methods = <<m>> /\ CollectCallChain(e).root = p
      /\ e.root = Name(p).root
  BY <1>4 DEF EndsIn
<1>6. DOMAIN ls = 1 .. Len(ls) /\ Len(p) \in Nat \ {0} /\ Name(p).root.name = p[1]
  BY <1>2, <1>5, ListedFacts, NameFacts
<1> HIDE DEF ls
<1>7. \A k \in DOMAIN ls : ls[k].kind = "dot" => ls[k].name \in {"info", "log"}
  <2> TAKE k \in DOMAIN ls
  <2>1. CASE k = Len(p) + 1
    BY <1>5, <2>1 DEF Call
  <2>2. CASE k = Len(p)
    BY <1>2, <1>5, <2>2 DEF Dot
  <2>3. CASE k < Len(p)
    <3>1. k \in 1 .. Len(p) - 1 /\ ls[k].name = p[k + 1]
      BY <1>5, <1>6, <2>3
    <3>2. p = <<"self", "log">>
      <4>1. CASE p = <<"log">>
        BY <3>1, <4>1
      <4>2. CASE p = App
        BY <3>1, <4>2 DEF App
      <4> QED
        BY <1>2, <4>1, <4>2
    <3> QED
      BY <3>1, <3>2
  <2> QED
    BY <1>5, <1>6, <2>1, <2>2, <2>3
<1>8. \A k \in DOMAIN ls : ls[k].kind = "call" => GoodArgs(ls[k].args)
  <2> TAKE k \in DOMAIN ls
  <2>1. CASE k = Len(p) + 1
    BY <1>2, <1>5, <2>1 DEF Call
  <2>2. CASE k \in 1 .. Len(p)
    BY <1>5, <2>2
  <2> QED
    BY <1>5, <1>6, <2>1, <2>2
<1>9. Mild(e)
  BY <1>7, <1>8 DEF Mild, GoodArgs, terminalMethods, ls
<1>10. GetQualifiedName(e) = <<>>
  <2>1. Len(p) + 1 \in DOMAIN ls /\ ls[Len(p) + 1].kind # "dot"
    BY <1>5, <1>6 DEF Call
  <2>2. PathName(e.root, ls) = <<>>
    BY <2>1, NoPath
  <2> QED
    BY <1>5, <2>2 DEF GetQualifiedName
<1>11. IsCall(e)
  <2>1. ls # <<>> /\ Seqs!Last(ls) = ls[Len(p) + 1]
    BY <1>5, <1>6, LastListed
  <2> QED
    BY <1>5, <2>1 DEF IsCall, Call
<1>12. e.root.name \in {"log", "self", "app"}
  <2>1. e.root.name = p[1]
    BY <1>5, <1>6
  <2> QED
    BY <1>2, <2>1 DEF App
<1>13. Reads(c)
  <2>1. CollectCallChain(ChainExpr(c)).methods = <<m>> /\ CollectCallChain(ChainExpr(c)).root = p
    BY <1>5 DEF e
  <2>2. <<m>> = <<"info">> \/ <<m>> = <<"log">>
    BY <1>2
  <2> QED
    BY <1>2, <2>1, <2>2 DEF Reads
<1> QED
  BY <1>5, <1>7, <1>9, <1>10, <1>11, <1>12, <1>13 DEF Sound, e, ls

LEMMA TwoMethodsFacts ==
  ASSUME NEW c \in {"derived", "sent"}
  PROVE  /\ Sound(ChainExpr(c)) /\ Reads(c) /\ IsCall(ChainExpr(c))
         /\ \A k \in DOMAIN Links(ChainExpr(c)) :
              Links(ChainExpr(c))[k].kind = "dot" => Links(ChainExpr(c))[k].name \in {"info", "with", "send"}
         /\ ChainExpr(c).root.name = "log"
<1> DEFINE e == ChainExpr(c)
           ls == Links(e)
<1>1. PICK a, b : TwoMethods(c, a, b) /\ <<c, a, b>> \in {<<"derived", "with", "info">>, <<"sent", "info", "send">>}
  <2>1. CASE c = "derived"
    BY <2>1, DerivedIs
  <2>2. CASE c = "sent"
    BY <2>2, SentIs
  <2> QED
    BY <2>1, <2>2
<1>2. /\ (c = "derived" /\ a = "with" /\ b = "info") \/ (c = "sent" /\ a = "info" /\ b = "send")
  BY <1>1
<1>3. PICK x, y : ls = <<Dot(a), Call(x), Dot(b), Call(y)>>
  BY <1>1 DEF TwoMethods
<1>4. Listed(e.links) /\ e.root = Root("name", "log")
      /\ \A k \in DOMAIN e.links : e.links[k].kind = "call" => GoodArgs(e.links[k].args)
  BY <1>1 DEF TwoMethods
<1>5. e.root.kind = "name" /\ e.root.name = "log"
  BY <1>4 DEF Root
<1> HIDE DEF e
<1>6. Mild(e)
  BY <1>4, <1>5 DEF Mild, GoodArgs
<1>7. /\ Dot(a).kind = "dot" /\ Dot(a).name = a /\ Dot(b).kind = "dot" /\ Dot(b).name = b
      /\ Call(x).kind = "call" /\ Call(y).kind = "call"
  BY DEF Dot, Call
<1>8. a # NoName /\ b # NoName
  <2>1. "info" # NoName /\ "with" # NoName /\ "send" # NoName
    BY WordPaths
  <2> QED
    BY <1>2, <2>1
<1>9. CollectCallChain(e).methods = <<a, b>> /\ CollectCallChain(e).root = <<"log">>
  <2> DEFINE f == Dot(a)
             g == Call(x)
             h == Dot(b)
             i == Call(y)
  <2>1. /\ f.kind = "dot" /\ f.name = a /\ h.kind = "dot" /\ h.name = b /\ g.kind = "call" /\ i.kind = "call"
        /\ Links(e) = <<f, g, h, i>>
    BY <1>3, <1>7
  <2>3. e.root.name # NoName
    BY <1>5, WordPaths
  <2> HIDE DEF f, g, h, i
  <2>2. /\ CollectCallChain(e).methods = <<f.name, h.name>>
        /\ e.root.kind = "name" /\ e.root.name # NoName => CollectCallChain(e).root = <<e.root.name>>
    BY <1>8, <2>1, TwoCalls
  <2> QED
    BY <1>5, <2>1, <2>2, <2>3
<1>10. ls[4].kind = "call" /\ Len(ls) = 4 /\ DOMAIN ls = 1 .. 4 /\ Listed(ls) /\ ls # <<>>
  BY <1>3, <1>7 DEF Listed
<1>13. \A k \in DOMAIN ls : ls[k].kind = "dot" => ls[k].name \in {"info", "with", "send"}
  <2>1. ls[1] = Dot(a) /\ ls[2] = Call(x) /\ ls[3] = Dot(b) /\ ls[4] = Call(y)
    BY <1>3
  <2>2. \A k \in DOMAIN ls : k = 1 \/ k = 2 \/ k = 3 \/ k = 4
    BY <1>10
  <2> HIDE DEF ls
  <2> QED
    BY <1>2, <1>7, <2>1, <2>2
<1> HIDE DEF ls
<1>11. GetQualifiedName(e) = <<>>
  <2>1. 4 \in DOMAIN ls /\ ls[4].kind # "dot"
    BY <1>10
  <2>2. PathName(e.root, ls) = <<>>
    BY <2>1, NoPath
  <2> QED
    BY <2>2 DEF GetQualifiedName, ls
<1>12. IsCall(e)
  <2>1. Seqs!Last(ls) = ls[4]
    BY <1>10, LastListed
  <2> QED
    BY <1>10, <2>1 DEF IsCall, ls
<1>14. Reads(c)
  <2>1. CollectCallChain(ChainExpr(c)).methods = <<a, b>> /\ CollectCallChain(ChainExpr(c)).root = <<"log">>
    BY <1>9 DEF e
  <2> QED
    BY <1>2, <2>1 DEF Reads
<1> QED
  BY <1>4, <1>5, <1>6, <1>11, <1>12, <1>13, <1>14 DEF Sound, e, ls

LEMMA ChainFacts ==
  ASSUME NEW c \in Chains
  PROVE  /\ Sound(ChainExpr(c)) /\ Reads(c) /\ IsCall(ChainExpr(c))
         /\ \A k \in DOMAIN Links(ChainExpr(c)) :
              Links(ChainExpr(c))[k].kind = "dot" => Links(ChainExpr(c))[k].name \in {"info", "with", "send", "log"}
         /\ ChainExpr(c).root.name \in {"log", "self", "app"}
<1>1. CASE c \in {"derived", "sent"}
  BY <1>1, TwoMethodsFacts
<1>2. CASE c \in {"plain", "comma", "emit", "member", "alias"}
  BY <1>2, OneMethodFacts
<1> QED
  BY <1>1, <1>2 DEF Chains

\* What counts as an undelivered event of the loggers L.
LEMMA ChainJudged ==
  ASSUME NEW c \in Chains, NEW L, <<"log">> \in L, <<"self", "log">> \notin L
  PROVE  InspectChain(ChainExpr(c), L).isEvent /\ ~InspectChain(ChainExpr(c), L).delivered
           <=> c \in {"plain", "comma", "derived", "emit"} \/ (c = "alias" /\ App \in L)
<1> DEFINE chain == CollectCallChain(ChainExpr(c))
           ms == chain.methods
           level == {k \in DOMAIN ms : ms[k] \in levelMethods}
           delivered == \E k \in level, j \in DOMAIN ms : k < j /\ ms[j] \in terminalMethods
<1>1. /\ InspectChain(ChainExpr(c), L).isEvent <=> chain.root \in L \ {<<>>} /\ level # {}
      /\ InspectChain(ChainExpr(c), L).delivered <=> delivered
  BY DEF InspectChain
<1>2. \/ /\ ms = <<"info">> \/ ms = <<"log">>
         /\ \/ chain.root = <<"log">> /\ c \in {"plain", "comma", "emit"}
            \/ chain.root = <<"self", "log">> /\ c = "member"
            \/ chain.root = App /\ c = "alias"
      \/ ms = <<"with", "info">> /\ chain.root = <<"log">> /\ c = "derived"
      \/ ms = <<"info", "send">> /\ chain.root = <<"log">> /\ c = "sent"
  BY ChainFacts DEF Reads
<1> HIDE DEF chain
<1>3. CASE ms = <<"info">> \/ ms = <<"log">>
  <2>1. level = {1} /\ DOMAIN ms = {1}
    BY <1>3 DEF levelMethods
  <2>2. ~delivered
    BY <2>1
  <2>3. chain.root # <<>> /\ c \notin {"derived", "sent"}
    BY <1>2, <1>3 DEF App
  <2> HIDE DEF ms
  <2> QED
    BY <1>1, <1>2, <1>3, <2>1, <2>2, <2>3
<1>4. CASE c = "derived"
  <2>1. ms = <<"with", "info">> /\ chain.root = <<"log">>
    BY <1>2, <1>4
  <2>2. level = {2} /\ DOMAIN ms = {1, 2}
    BY <2>1 DEF levelMethods
  <2>3. ~delivered
    BY <2>1, <2>2 DEF terminalMethods
  <2> QED
    BY <1>1, <1>4, <2>1, <2>2, <2>3
<1>5. CASE c = "sent"
  <2>1. ms = <<"info", "send">> /\ chain.root = <<"log">>
    BY <1>2, <1>5
  <2>2. 1 \in level /\ 2 \in DOMAIN ms /\ ms[2] = "send"
    BY <2>1 DEF levelMethods
  <2>3. delivered
    BY <2>1, <2>2 DEF terminalMethods
  <2> QED
    BY <1>1, <1>5, <2>3
<1> QED
  BY <1>2, <1>3, <1>4, <1>5

\* A chain is no logger.
LEMMA ChainNoProducer ==
  ASSUME NEW c \in Chains, KnownOk
  PROVE  ~IsLoggerProducer(ChainExpr(c))
<1> DEFINE e == ChainExpr(c)
           ls == Links(e)
           callee == Seqs!Front(ls)
<1>1. /\ Sound(e) /\ IsCall(e) /\ e.root.name \in {"log", "self", "app"}
      /\ \A k \in DOMAIN ls : ls[k].kind = "dot" => ls[k].name \in {"info", "with", "send", "log"}
  BY ChainFacts
<1> HIDE DEF e
<1>2. GetQualifiedName(e) = <<>> /\ ls # <<>> /\ Listed(ls)
  BY <1>1, LinksFrom DEF Sound, IsCall
<1> HIDE DEF ls
<1>3. /\ Listed(callee) /\ Len(callee) = Len(ls) - 1 /\ Len(callee) \in Nat
      /\ \A i \in 1 .. Len(callee) : callee[i] = ls[i]
  <2>1. callee = SubSeq(ls, 1, Len(ls) - 1) /\ Len(ls) \in 1 .. Len(ls)
    BY <1>2, LastListed
  <2>2. Len(ls) - 1 \in Nat /\ Len(ls) - 1 <= Len(ls) /\ Len(ls) \in Nat
    BY <1>2, <2>1 DEF Listed
  <2> DEFINE n == Len(ls) - 1
  <2>3. n \in Nat /\ n <= Len(ls)
    BY <2>2
  <2>4. /\ Listed(SubSeq(ls, 1, n)) /\ Len(SubSeq(ls, 1, n)) = n
        /\ \A i \in 1 .. n : SubSeq(ls, 1, n)[i] = ls[i]
    BY ONLY <1>2, <2>3, CutListed
  <2> QED
    BY <2>1, <2>2, <2>4
<1> HIDE DEF callee
<1>4. PathName(e.root, callee) \notin knownFactories \ {<<>>}
  <2>1. SUFFICES ASSUME PathName(e.root, callee) # <<>>
                 PROVE  PathName(e.root, callee) \notin knownFactories
    OBVIOUS
  <2>2. PathName(e.root, callee)[1] = e.root.name
    BY <1>3, <2>1, PathFrom
  <2>3. Factory[1] = "createLogger"
    BY DEF Factory
  <2> QED
    BY <1>1, <2>2, <2>3 DEF KnownOk
<1>5. ~(callee # <<>> /\ IsDot(Seqs!Last(callee)) /\ Seqs!Last(callee).name = "anew")
  <2>1. SUFFICES ASSUME callee # <<>>, IsDot(Seqs!Last(callee)) PROVE Seqs!Last(callee).name # "anew"
    OBVIOUS
  <2>2. Seqs!Last(callee) = callee[Len(callee)] /\ Len(callee) \in 1 .. Len(callee)
    BY <1>3, <2>1, LastListed
  <2>3. Seqs!Last(callee) = ls[Len(callee)] /\ Len(callee) \in DOMAIN ls
    BY <1>2, <1>3, <2>2, ListedFacts
  <2> QED
    BY <1>1, <2>1, <2>3 DEF IsDot
<1>6. ~IsLoggerProducer(e)
  BY <1>2, <1>4, <1>5 DEF IsLoggerProducer, ls, callee
<1> QED
  BY <1>6 DEF e

-----------------------------------------------------------------------------
(* The calls inside an expression. *)
LEMMA CallsFrom ==
  ASSUME NEW e, Listed(e.links)
  PROVE  /\ Listed(CallVisits(e))
         /\ \A i \in 1 .. Len(CallVisits(e)) : \E m \in 1 .. Len(e.links) :
              /\ e.links[m].kind = "call"
              /\ CallVisits(e)[i] = [visit |-> "CallExpression", call |-> Expr(e.root, SubSeq(e.links, 1, m))]
<1> DEFINE n == Len(e.links)
           upTo == [k \in 1 .. n |-> [visit |-> "CallExpression",
                                      call |-> Expr(e.root, SubSeq(e.links, 1, n + 1 - k))]]
           ks == {k \in 1 .. n : e.links[n + 1 - k].kind = "call"}
<1>1. CallVisits(e) = Picked(upTo, ks) /\ n \in Nat /\ ks \in SUBSET (1 .. n)
  BY DEF CallVisits, Listed
<1>2. \A k \in ks : \E m \in 1 .. n : /\ e.links[m].kind = "call"
        /\ upTo[k] = [visit |-> "CallExpression", call |-> Expr(e.root, SubSeq(e.links, 1, m))]
  <2> TAKE k \in ks
  <2>1. n + 1 - k \in 1 .. n /\ k \in 1 .. n
    BY <1>1
  <2> WITNESS n + 1 - k \in 1 .. n
  <2> QED
    BY <2>1
<1> HIDE DEF upTo, ks, n
<1>3. /\ Listed(Picked(upTo, ks))
      /\ \A i \in 1 .. Len(Picked(upTo, ks)) : \E k \in ks : Picked(upTo, ks)[i] = upTo[k]
  BY <1>1, PickedFacts
<1> DEFINE cs == CallVisits(e)
<1>4. Listed(cs) /\ \A i \in 1 .. Len(cs) : \E k \in ks : cs[i] = upTo[k]
  BY <1>1, <1>3
<1> HIDE DEF cs
<1> QED
  BY <1>2, <1>4 DEF cs, n

LEMMA MildCalls ==
  ASSUME NEW e, Listed(e.links), Mild(e)
  PROVE  /\ Listed(CallVisits(e))
         /\ \A i \in 1 .. Len(CallVisits(e)) : Passive(CallVisits(e)[i])
<1>1. Listed(CallVisits(e))
  BY CallsFrom
<1>2. ASSUME NEW i \in 1 .. Len(CallVisits(e)) PROVE Passive(CallVisits(e)[i])
  <2> DEFINE v == CallVisits(e)[i]
             t == e.links
  <2>1. PICK m \in 1 .. Len(t) :
          v = [visit |-> "CallExpression", call |-> Expr(e.root, SubSeq(t, 1, m))]
    BY CallsFrom
  <2>2. Listed(t) /\ m \in Nat /\ m <= Len(t)
    BY DEF Listed
  <2> HIDE DEF v, t
  <2> DEFINE f == v.call
             u == SubSeq(t, 1, m)
  <2>3. v.visit = "CallExpression" /\ f.root = e.root /\ f.links = u
    BY <2>1 DEF Expr
  <2>4. Listed(u) /\ Len(u) = m /\ \A k \in 1 .. m : u[k] = t[k]
    BY <2>2, CutListed
  <2>5. DOMAIN u = 1 .. m /\ DOMAIN t = 1 .. Len(t)
    BY <2>2, <2>4, ListedFacts
  <2> HIDE DEF u, f
  <2>6. \A k \in DOMAIN f.links : k \in DOMAIN t /\ f.links[k] = t[k]
    BY <2>2, <2>3, <2>4, <2>5
  <2>7. Mild(f)
    BY <2>3, <2>6 DEF Mild, t
  <2> QED
    BY <2>3, <2>4, <2>7 DEF Passive, f, v
<1> QED
  BY <1>1, <1>2

-----------------------------------------------------------------------------
(***************************************************************************)
(* What each node does to what the rule keeps.                             *)
(***************************************************************************)
LEMMA UseCalls ==
  ASSUME NEW x \in EventPlaces, NEW e \in UseOf(x)
  PROVE  /\ Listed(CallVisits(e))
         /\ \A i \in 1 .. Len(CallVisits(e)) :
              CallVisits(e)[i].visit = "CallExpression" /\ CallVisits(e)[i].call = e
<1>0. Spelled(x)
  BY EventPaths
<1>1. /\ Listed(e.links) /\ e = Expr(e.root, e.links)
      /\ \A m \in 1 .. Len(e.links) : e.links[m].kind = "call" => m = Len(e.links)
  <2>1. CASE e = SendCall(x)
    <3>1. "send" # NoName /\ e = Then(Name(x), "send", <<>>)
      BY <2>1, WordPaths DEF SendCall
    <3> DEFINE none == <<>>
               m == "send"
    <3>2. m # NoName /\ e = Then(Name(x), m, none)
      BY <3>1
    <3> HIDE DEF none, m
    <3>3. EndsIn(e, x, m, none)
      BY ONLY <1>0, <3>2, ThenFacts
    <3>4. /\ Listed(e.links) /\ Len(e.links) = Len(x) + 1 /\ Len(x) \in Nat
          /\ \A k \in 1 .. Len(x) : e.links[k].kind = "dot"
      BY <1>0, <3>3 DEF EndsIn, Spelled, Listed
    <3>5. e = Expr(e.root, e.links)
      BY <3>1 DEF Then, Expr
    <3>6. \A m1 \in 1 .. Len(e.links) : e.links[m1].kind = "call" => m1 = Len(e.links)
      BY <3>4
    <3> QED
      BY <3>4, <3>5, <3>6
  <2>2. ASSUME NEW name, e = PassTo(name, Name(x))
        PROVE  /\ Listed(e.links) /\ e = Expr(e.root, e.links)
               /\ \A m \in 1 .. Len(e.links) : e.links[m].kind = "call" => m = Len(e.links)
    <3>1. e.links = <<Call(<<Name(x)>>)>> /\ e = Expr(e.root, e.links)
      BY <2>2 DEF PassTo, Expr
    <3>2. Listed(e.links) /\ Len(e.links) = 1
      BY <3>1 DEF Listed
    <3> QED
      BY <3>1, <3>2
  <2> QED
    BY <2>1, <2>2 DEF UseOf
<1>2. Listed(CallVisits(e))
  BY <1>1, CallsFrom
<1>3. ASSUME NEW i \in 1 .. Len(CallVisits(e))
      PROVE  CallVisits(e)[i].visit = "CallExpression" /\ CallVisits(e)[i].call = e
  <2> DEFINE v == CallVisits(e)[i]
             t == e.links
  <2>1. PICK m \in 1 .. Len(t) : /\ t[m].kind = "call"
          /\ v = [visit |-> "CallExpression", call |-> Expr(e.root, SubSeq(t, 1, m))]
    BY <1>1, CallsFrom
  <2>2. m = Len(t)
    BY <1>1, <2>1
  <2> HIDE DEF v, t
  <2>3. Listed(t)
    BY <1>1 DEF t
  <2>4. SubSeq(t, 1, Len(t)) = t
    <3> DEFINE S == {t[k] : k \in 1 .. Len(t)}
    <3>1. t \in Seq(S)
      BY <2>3, ListedFacts
    <3> HIDE DEF S
    <3> QED
      BY <3>1
  <2>5. Expr(e.root, SubSeq(t, 1, m)) = e
    BY <1>1, <2>2, <2>4 DEF t
  <2>6. v = [visit |-> "CallExpression", call |-> e]
    BY <2>1, <2>5
  <2>7. v.visit = "CallExpression" /\ v.call = e
    BY <2>6
  <2> QED
    BY <2>7 DEF v
<1> QED
  BY <1>2, <1>3

\* A name alone sends nothing and gives nothing away.
LEMMA NameConsumes ==
  ASSUME NEW stack \in Stacks, NEW x \in EventPlaces
  PROVE  /\ ConsumeTerminalUse(stack, Name(x)) = stack
         /\ \A L : ~InspectChain(Name(x), L).isEvent
<1> DEFINE e == Name(x)
           ls == e.links
<1>0. Spelled(x)
  BY EventPaths
<1>1. /\ Listed(ls) /\ Links(e) = ls
      /\ \A k \in 1 .. Len(ls) : ls[k].kind = "dot"
  BY <1>0, NameFacts, NameIs
<1>2. Len(ls) \in Nat /\ DOMAIN ls = 1 .. Len(ls)
  BY <1>1, ListedFacts DEF Listed
<1> HIDE DEF e, ls
<1>3. MethodCount(ls) = 0
  <2> DEFINE n == Len(ls)
             c == 0
  <2>0. n \div 2 \in Nat /\ 2 * (n \div 2) <= n /\ n <= 2 * (n \div 2) + 1
    BY <1>2, Half
  <2>1. c \in 0 .. n \div 2
    BY <2>0
  <2>2. \A k \in 0 .. c - 1 : Paired(ls, k)
    OBVIOUS
  <2>3. c = n \div 2 \/ ~Paired(ls, c)
    <3>1. CASE n < 2
      BY <1>2, <2>0, <3>1
    <3>2. CASE n >= 2
      <4>1. n - 2 * c \in 1 .. Len(ls)
        BY <1>2, <3>2
      <4>2. ls[n - 2 * c].kind = "dot"
        BY <1>1, <4>1
      <4> QED
        BY <4>2 DEF Paired
    <3> QED
      BY <1>2, <3>1, <3>2
  <2> HIDE DEF c
  <2>4. MethodCount(ls) = c
    BY ONLY <1>2, <2>1, <2>2, <2>3, MethodCountIs DEF n
  <2> QED
    BY <2>4 DEF c
<1>4. CollectCallChain(e).methods = <<>>
  <2>1. /\ CollectCallChain(e).methods = MethodsOf(ls, 0)
    <3> DEFINE c == 0
    <3>1. /\ c \in Nat /\ Listed(ls) /\ Links(e) = ls /\ MethodCount(ls) = c /\ 2 * c <= Len(ls)
          /\ \A k \in 1 .. c : ls[Len(ls) - 2 * c + 2 * k - 1].name # NoName
      BY <1>1, <1>2, <1>3 DEF e
    <3> HIDE DEF c
    <3>2. CollectCallChain(e).methods = MethodsOf(ls, c)
      BY ONLY <3>1, ChainOf
    <3> QED
      BY <3>2 DEF c
  <2>2. MethodsOf(ls, 0) = <<>>
    BY DEF MethodsOf
  <2> QED
    BY <2>1, <2>2
<1>5. ~IsCall(e)
  <2>1. SUFFICES ASSUME ls # <<>> PROVE Seqs!Last(ls).kind # "call"
    BY <1>1 DEF IsCall, e
  <2>2. Len(ls) \in 1 .. Len(ls) /\ Seqs!Last(ls) = ls[Len(ls)]
    BY <1>1, <2>1, LastListed
  <2> QED
    BY <1>1, <2>2
<1>6. Arguments(e) = <<>>
  BY <1>5 DEF Arguments
<1>7. ClearArguments(stack, e) = stack
  <2>1. Listed(Arguments(e)) /\ DOMAIN Arguments(e) = {}
    BY <1>6 DEF Listed
  <2> QED
    BY <2>1, NoArguments
<1>8. ConsumeTerminalUse(stack, e) = stack
  BY <1>4, <1>7 DEF ConsumeTerminalUse
<1>9. \A L : ~InspectChain(e, L).isEvent
  <2>1. DOMAIN CollectCallChain(e).methods = {}
    BY <1>4
  <2> QED
    BY <2>1 DEF InspectChain
<1> QED
  BY <1>8, <1>9 DEF e

\* Exactly the visitor of the node takes the step.
LEMMA VisitorIs ==
  ASSUME RuleStep, NEW v, v = Head(todo)
  PROVE  /\ todo # <<>> /\ todo' = Tail(todo)
         /\ v.visit = "FunctionEnter" => FunctionEnter
         /\ v.visit = "ArrowEnter" => ArrowEnter
         /\ v.visit = "Exit" => ScopeExit
         /\ v.visit = "ImportDeclaration" => ImportDeclaration
         /\ v.visit = "VariableDeclarator" => VariableDeclarator
         /\ v.visit = "AssignmentExpression" => AssignmentExpression
         /\ v.visit = "ReturnStatement" => ReturnStatement
         /\ v.visit = "CallExpression" => CallExpression
         /\ v.visit = "ExpressionStatement" => ExpressionStatement
<1>1. CASE FunctionEnter
  BY <1>1 DEF FunctionEnter, Visiting, Visited
<1>2. CASE ArrowEnter
  BY <1>2 DEF ArrowEnter, Visiting, Visited
<1>3. CASE ScopeExit
  BY <1>3 DEF ScopeExit, Visiting, Visited
<1>4. CASE ImportDeclaration
  BY <1>4 DEF ImportDeclaration, Visiting, Visited
<1>5. CASE VariableDeclarator
  BY <1>5 DEF VariableDeclarator, Visiting, Visited
<1>6. CASE AssignmentExpression
  BY <1>6 DEF AssignmentExpression, Visiting, Visited
<1>7. CASE ReturnStatement
  BY <1>7 DEF ReturnStatement, Visiting, Visited
<1>8. CASE CallExpression
  BY <1>8 DEF CallExpression, Visiting, Visited
<1>9. CASE ExpressionStatement
  BY <1>9 DEF ExpressionStatement, Visiting, Visited
<1> QED
  BY <1>1, <1>2, <1>3, <1>4, <1>5, <1>6, <1>7, <1>8, <1>9 DEF RuleStep

LEMMA NowhereQuiet ==
  /\ ~IsLoggerProducer(Nowhere)
  /\ \A L : ~InspectChain(Nowhere, L).isEvent
<1> DEFINE e == Nowhere
<1>1. /\ GetQualifiedName(e) = <<>> /\ Listed(e.links) /\ DOMAIN e.links = {} /\ e.links = <<>> /\ e.root.kind = "other"
  BY NowhereIsNone DEF Nowhere, Expr, Root
<1> HIDE DEF e
<1>2. Silent(e)
  BY <1>1 DEF Silent
<1>3. Links(e) = <<>>
  BY <1>1, LinksPlain
<1>4. ~IsLoggerProducer(e)
  BY <1>1, <1>3 DEF IsLoggerProducer, IsCall
<1> QED
  BY <1>1, <1>2, <1>4, SilentNoEvent DEF e

Rest == SameKnown /\ SameReports

LEMMA PassiveEffect ==
  ASSUME ruleScopes \in Stacks, OnlyPlaces(ruleScopes), RuleStep, Passive(Head(todo))
  PROVE  ruleScopes' = ruleScopes /\ Rest
<1> DEFINE v == Head(todo)
<1>0. v = Node
  BY DEF Node
<1>1. CASE v.visit = "CallExpression" /\ Listed(v.call.links) /\ Mild(v.call)
  <2>1. CallExpression
    BY <1>1, VisitorIs
  <2>2. ConsumeTerminalUse(ruleScopes, v.call) = ruleScopes
    BY <1>1, MildConsumes
  <2> QED
    BY <1>0, <2>1, <2>2 DEF CallExpression, Rest
<1>2. CASE v.visit = "ExpressionStatement" /\ Listed(v.expression.links) /\ Mild(v.expression) /\ Silent(v.expression)
  <2>1. ExpressionStatement
    BY <1>2, VisitorIs
  <2>2. ConsumeTerminalUse(ruleScopes, v.expression) = ruleScopes
    BY <1>2, MildConsumes
  <2>3. ~Undelivered(v.expression)
    BY <1>2, SilentNoEvent DEF Undelivered
  <2> QED
    BY <1>0, <2>1, <2>2, <2>3 DEF ExpressionStatement, Rest
<1>3. CASE /\ v.visit = "ReturnStatement" /\ Listed(v.argument.links)
           /\ Mild(v.argument) /\ GetQualifiedName(v.argument) \notin EventPlaces
  <2>1. ReturnStatement
    BY <1>3, VisitorIs
  <2>2. ConsumeTerminalUse(ruleScopes, v.argument) = ruleScopes
    BY <1>3, MildConsumes
  <2>3. ~IsPending(ruleScopes, GetQualifiedName(v.argument))
    BY <1>3 DEF IsPending, Holding, OnlyPlaces
  <2> QED
    BY <1>0, <2>1, <2>2, <2>3 DEF ReturnStatement, Rest
<1>4. CASE v.visit = "VariableDeclarator" /\ v.id \in EventPlaces /\ v.init = Nowhere
  <2>1. VariableDeclarator
    BY <1>4, VisitorIs
  <2>2. ~BindsEvent(v.id, v.init)
    BY <1>4, NowhereQuiet DEF BindsEvent
  <2>3. ~IsLoggerProducer(v.init)
    BY <1>4, NowhereQuiet
  <2> QED
    BY <1>0, <2>1, <2>2, <2>3 DEF VariableDeclarator, Learn, Rest, SameKnown
<1>5. CASE v = Import(Theirs, Named)[1]
  <2>1. v.visit = "ImportDeclaration" /\ v.source = Theirs
    BY <1>5 DEF Import
  <2>2. ImportDeclaration
    BY <2>1, VisitorIs
  <2> QED
    BY <1>0, <2>1, <2>2, PackagesAssumption DEF ImportDeclaration, Rest
<1> QED
  BY <1>1, <1>2, <1>3, <1>4, <1>5 DEF Passive

LEMMA UsesNameEffect ==
  ASSUME ruleScopes \in Stacks, RuleStep, NEW x, UsesName(Head(todo), x)
  PROVE  ruleScopes' = Clear(ruleScopes, x) /\ Rest
<1> DEFINE v == Head(todo)
<1>0. v = Node /\ x \in EventPlaces /\ Spelled(x)
  BY EventPaths DEF Node, UsesName
<1>1. CASE v.visit = "CallExpression" /\ v.call \in UseOf(x)
  <2>1. CallExpression
    BY <1>1, VisitorIs
  <2>2. ConsumeTerminalUse(ruleScopes, v.call) = Clear(ruleScopes, x)
    BY <1>0, <1>1, UseConsumes
  <2> QED
    BY <1>0, <2>1, <2>2 DEF CallExpression, Rest
<1>2. CASE v.visit = "ExpressionStatement" /\ v.expression \in UseOf(x)
  <2>1. ExpressionStatement
    BY <1>2, VisitorIs
  <2>2. /\ ConsumeTerminalUse(ruleScopes, v.expression) = Clear(ruleScopes, x)
        /\ \A L : ~InspectChain(v.expression, L).isEvent
    BY <1>0, <1>2, UseConsumes
  <2>3. ~Undelivered(v.expression)
    BY <2>2 DEF Undelivered
  <2> QED
    BY <1>0, <2>1, <2>2, <2>3 DEF ExpressionStatement, Rest
<1>3. CASE v.visit = "ReturnStatement" /\ v.argument = Name(x)
  <2>1. ReturnStatement
    BY <1>3, VisitorIs
  <2>2. /\ ConsumeTerminalUse(ruleScopes, v.argument) = ruleScopes
        /\ \A L : ~InspectChain(v.argument, L).isEvent
    BY <1>0, <1>3, NameConsumes
  <2>3. ~Undelivered(v.argument)
    BY <2>2 DEF Undelivered
  <2>4. GetQualifiedName(v.argument) = x
    BY <1>0, <1>3, NameIs
  <2>5. ~IsPending(ruleScopes, x) => Clear(ruleScopes, x) = ruleScopes
    BY DEF IsPending, Clear
  <2> QED
    BY <1>0, <2>1, <2>2, <2>3, <2>4, <2>5 DEF ReturnStatement, Rest
<1> QED
  BY <1>1, <1>2, <1>3 DEF UsesName

LEMMA UsesInsideEffect ==
  ASSUME RuleStep, NEW x, UsesInside(Head(todo), x)
  PROVE  ruleScopes' = Clear(Enter(ruleScopes), x) /\ Rest
<1> DEFINE v == Head(todo)
<1>1. v.visit = "ArrowEnter" /\ v.body = Name(x) /\ x \in EventPlaces /\ v = Node /\ Spelled(x)
  BY EventPaths DEF UsesInside, Node
<1>2. ArrowEnter
  BY <1>1, VisitorIs
<1>3. GetQualifiedName(v.body) = x
  BY <1>1, NameIs
<1> QED
  BY <1>1, <1>2, <1>3 DEF ArrowEnter, Rest

\* What a line that builds an event records of it.
LEMMA RecordsEffect ==
  ASSUME KnownOk, ruleScopes \in Stacks, OnlyPlaces(ruleScopes), RuleStep, NEW e, Records(Head(todo), e)
  PROVE  /\ SameKnown
         /\ \/ /\ births[e].chain \in Heard \cup {"foreign"} /\ (births[e].chain = "foreign" => LoggerLine)
               /\ nodeLine' = Append(nodeLine, e)
               /\ \/ /\ births[e].form = "stmt" /\ births[e].place = <<>>
                     /\ ruleReported' = Append(ruleReported, 1) /\ ruleScopes' = ruleScopes
                  \/ /\ births[e].form \in Binding /\ births[e].place \in EventPlaces
                     /\ ruleReported' = Append(ruleReported, 0)
                     /\ ruleScopes' = Mark(ruleScopes, births[e].place, Len(ruleReported) + 1)
            \/ births[e].chain \notin Heard /\ ruleScopes' = ruleScopes /\ SameReports
<1> DEFINE v == Head(todo)
           b == births[e]
<1>1. PICK c \in Chains :
        /\ b.chain \in {c, "foreign"} /\ (b.chain = "foreign" => c = "alias")
        /\ b.chain = "alias" => App \in knownLoggers
        /\ \/ b.form = "stmt" /\ b.place = <<>>
                /\ v = [visit |-> "ExpressionStatement", expression |-> ChainExpr(c), line |-> e]
           \/ /\ b.form \in Binding /\ b.place \in EventPlaces
              /\ \/ v = [visit |-> "VariableDeclarator", id |-> b.place, init |-> ChainExpr(c), line |-> e]
                 \/ v = [visit |-> "AssignmentExpression", left |-> Name(b.place), right |-> ChainExpr(c), line |-> e]
  BY DEF Records
<1>2. v = Node
  BY DEF Node
<1> DEFINE ce == ChainExpr(c)
           heard == InspectChain(ce, knownLoggers).isEvent /\ ~InspectChain(ce, knownLoggers).delivered
<1>3. /\ <<"log">> \in knownLoggers /\ <<"self", "log">> \notin knownLoggers
  BY DEF KnownOk, App
<1>4. heard <=> c \in {"plain", "comma", "derived", "emit"} \/ (c = "alias" /\ App \in knownLoggers)
  <2> DEFINE L == knownLoggers
  <2> HIDE DEF L
  <2>1. <<"log">> \in L /\ <<"self", "log">> \notin L
    BY <1>3 DEF L
  <2>2. InspectChain(ChainExpr(c), L).isEvent /\ ~InspectChain(ChainExpr(c), L).delivered
          <=> c \in {"plain", "comma", "derived", "emit"} \/ (c = "alias" /\ App \in L)
    BY ONLY <2>1, c \in Chains, ChainJudged
  <2> QED
    BY <2>2 DEF L
<1>5. Sound(ce) /\ ~IsLoggerProducer(ce)
  BY ChainFacts, ChainNoProducer
<1>6. ConsumeTerminalUse(ruleScopes, ce) = ruleScopes
  BY <1>5, MildConsumes DEF Sound
<1> HIDE DEF ce, b
<1>7. heard => b.chain \in Heard \cup {"foreign"} /\ (b.chain = "foreign" => LoggerLine)
  BY <1>1, <1>4 DEF Heard, KnownOk
<1>8. ~heard => b.chain \notin Heard
  BY <1>1, <1>4 DEF Heard
<1>9. Undelivered(ce) <=> heard
  BY DEF Undelivered
<1>10. ASSUME NEW name, name # <<>> PROVE BindsEvent(name, ce) <=> heard
  <2>1. knownLoggers \cup {} = knownLoggers
    OBVIOUS
  <2> QED
    BY <1>5, <1>10, <2>1 DEF BindsEvent
<1> HIDE DEF heard
<1>11. CASE /\ b.form = "stmt" /\ b.place = <<>>
            /\ v = [visit |-> "ExpressionStatement", expression |-> ce, line |-> e]
  <2>1. v.visit = "ExpressionStatement" /\ v.expression = ce /\ v.line = e
    BY <1>11
  <2>2. ExpressionStatement
    BY <2>1, VisitorIs
  <2> QED
    BY <1>2, <1>6, <1>7, <1>8, <1>9, <1>11, <2>1, <2>2 DEF ExpressionStatement, b, SameReports
<1>12. CASE /\ b.form \in Binding /\ b.place \in EventPlaces
            /\ v = [visit |-> "VariableDeclarator", id |-> b.place, init |-> ce, line |-> e]
  <2>1. v.visit = "VariableDeclarator" /\ v.id = b.place /\ v.init = ce /\ v.line = e /\ b.place # <<>>
    BY <1>12, NoName0
  <2>2. VariableDeclarator
    BY <2>1, VisitorIs
  <2>3. SameKnown
    BY <1>2, <1>5, <2>1, <2>2 DEF VariableDeclarator, Learn, SameKnown
  <2>4. CASE heard
    <3>1. MarkNode(b.place)
      BY <1>2, <1>10, <2>1, <2>2, <2>4 DEF VariableDeclarator
    <3> QED
      BY <1>2, <1>7, <1>12, <2>1, <2>3, <2>4, <3>1 DEF MarkNode, b
  <2>5. CASE ~heard
    <3>1. SameReports /\ UNCHANGED ruleScopes
      BY <1>2, <1>10, <2>1, <2>2, <2>5 DEF VariableDeclarator
    <3> QED
      BY <1>8, <2>3, <2>5, <3>1 DEF b
  <2> QED
    BY <2>4, <2>5
<1>13. CASE /\ b.form \in Binding /\ b.place \in EventPlaces
            /\ v = [visit |-> "AssignmentExpression", left |-> Name(b.place), right |-> ce, line |-> e]
  <2>1. v.visit = "AssignmentExpression" /\ v.left = Name(b.place) /\ v.right = ce /\ v.line = e /\ b.place # <<>>
    BY <1>13, NoName0
  <2>2. AssignmentExpression
    BY <2>1, VisitorIs
  <2>6. GetQualifiedName(v.left) = b.place
    BY <1>13, <2>1, EventPaths, NameIs
  <2>3. SameKnown
    BY <1>2, <1>5, <2>1, <2>2 DEF AssignmentExpression, Learn, SameKnown
  <2>4. CASE heard
    <3>1. MarkNode(b.place)
      BY <1>2, <1>10, <2>1, <2>2, <2>4, <2>6 DEF AssignmentExpression
    <3> QED
      BY <1>2, <1>7, <1>13, <2>1, <2>3, <2>4, <3>1 DEF MarkNode, b
  <2>5. CASE ~heard
    <3>1. SameReports /\ ruleScopes' = ruleScopes
      BY <1>2, <1>6, <1>10, <2>1, <2>2, <2>5, <2>6 DEF AssignmentExpression
    <3> QED
      BY <1>8, <2>3, <2>5, <3>1 DEF b
  <2> QED
    BY <2>4, <2>5
<1> QED
  BY <1>1, <1>11, <1>12, <1>13 DEF ce

-----------------------------------------------------------------------------
(* What the imports and the loggers bound to app teach. *)

LEMMA Tracked == IsTrackedModule(OurPackage) /\ IsTrackedModule(OurPackage \o <<"node">>)
<1> DEFINE s == OurPackage
           u == <<"node">>
           t == s \o u
           S == {"@oresoftware", "next-loggers", "node"}
<1>1. s \in Seq(S) /\ Len(s) = 2 /\ u \in Seq(S) /\ Len(u) = 1
  BY DEF OurPackage
<1> HIDE DEF s, u, S
<1>2. t \in Seq(S) /\ Len(t) = Len(s) + Len(u) /\ \A k \in 1 .. Len(s) : t[k] = s[k]
  <2>1. s \in Seq(S) /\ u \in Seq(S)
    BY ONLY <1>1
  <2>2. /\ s \o u \in Seq(S) /\ Len(s \o u) = Len(s) + Len(u)
        /\ \A k \in 1 .. Len(s) : (s \o u)[k] = s[k]
    BY ONLY <2>1, ConcatFacts
  <2> QED
    BY ONLY <2>2 DEF t
<1> HIDE DEF t
<1>3. SubSeq(s, 1, Len(s)) = SubSeq(t, 1, Len(s)) /\ Len(s) <= Len(t)
  BY <1>1, <1>2
<1>4. Seqs!IsPrefix(s, t) /\ Seqs!IsPrefix(s, s)
  BY <1>1, <1>3 DEF Seqs!IsPrefix
<1> QED
  BY <1>4, ModuleNamesAssumption DEF IsTrackedModule, s, t, u

LEMMA ImportEffect ==
  ASSUME RuleStep, NEW from, NEW spec, Head(todo) = Import(from, spec)[1], IsTrackedModule(from)
  PROVE  /\ SameReports /\ ruleScopes' = ruleScopes
         /\ knownLoggers' = knownLoggers \cup (IF spec.kind = "default" THEN {<<spec.local>>} ELSE {})
                              \cup Imported(spec, LOGGER_EXPORTS)
         /\ knownFactories' = knownFactories \cup Imported(spec, FACTORY_EXPORTS)
         /\ knownClasses' = knownClasses \cup Imported(spec, CLASS_EXPORTS)
<1> DEFINE v == Head(todo)
<1>1. v.visit = "ImportDeclaration" /\ v.source = from /\ v.specifiers = {spec} /\ v = Node
  BY DEF Import, Node
<1>2. ImportDeclaration
  BY <1>1, VisitorIs
<1> HIDE DEF v
<1> DEFINE add(exports) == UNION {Imported(s, exports) : s \in Node.specifiers}
           defaults == {<<s.local>> : s \in {t \in Node.specifiers : t.kind = "default"}}
<1>3. /\ SameReports /\ ruleScopes' = ruleScopes
      /\ knownLoggers' = knownLoggers \cup defaults \cup add(LOGGER_EXPORTS)
      /\ knownFactories' = knownFactories \cup add(FACTORY_EXPORTS)
      /\ knownClasses' = knownClasses \cup add(CLASS_EXPORTS)
  BY <1>1, <1>2 DEF ImportDeclaration
<1>4. ASSUME NEW exports PROVE add(exports) = Imported(spec, exports)
  BY <1>1
<1>5. defaults = IF spec.kind = "default" THEN {<<spec.local>>} ELSE {}
  BY <1>1
<1> HIDE DEF add, defaults
<1> QED
  BY <1>3, <1>4, <1>5

LEMMA ImportedNone ==
  ASSUME NEW spec, spec.kind = "default", NEW exports PROVE Imported(spec, exports) = {}
BY DEF Imported

LEMMA ImportedAll ==
  ASSUME NEW spec, spec.kind = "namespace", NEW exports
  PROVE  Imported(spec, exports) = {<<spec.local, x>> : x \in exports}
BY DEF Imported

LEMMA ImportedOne ==
  ASSUME NEW spec, spec.kind = "named", NEW exports
  PROVE  Imported(spec, exports) = IF spec.imported \in exports THEN {<<spec.local>>} ELSE {}
BY DEF Imported

LEMMA PathOfRoot ==
  ASSUME NEW root, root.kind \in {"name", "this"} PROVE PathName(root, <<>>) = <<root.name>>
<1> DEFINE none == <<>>
<1>1. DOMAIN none = {}
  OBVIOUS
<1>2. [k \in DOMAIN none |-> none[k].name] = <<>>
  BY <1>1
<1> HIDE DEF none
<1>3. PathName(root, none) = <<root.name>> \o <<>>
  BY <1>1, <1>2 DEF PathName
<1>4. <<root.name>> \o <<>> = <<root.name>>
  OBVIOUS
<1> QED
  BY <1>3, <1>4 DEF none

\* The front of a list of one or two.
LEMMA FrontOfOne ==
  ASSUME NEW a PROVE Seqs!Front(<<a>>) = <<>> /\ Seqs!Last(<<a>>) = a /\ <<a>> # <<>>
<1> DEFINE t == <<a>>
<1>1. Listed(t) /\ t # <<>> /\ Len(t) = 1 /\ t[1] = a
  BY DEF Listed
<1> HIDE DEF t
<1>2. Seqs!Last(t) = a /\ Seqs!Front(t) = SubSeq(t, 1, 0)
  BY <1>1, LastListed
<1>3. SubSeq(t, 1, 0) = <<>>
  OBVIOUS
<1> QED
  BY <1>1, <1>2, <1>3 DEF t

LEMMA FrontOfTwo ==
  ASSUME NEW a, NEW b
  PROVE  Seqs!Front(<<a, b>>) = <<a>> /\ Seqs!Last(<<a, b>>) = b /\ <<a, b>> # <<>>
<1> DEFINE t == <<a, b>>
           S == {a, b}
<1>1. Listed(t) /\ t # <<>> /\ Len(t) = 2 /\ t[1] = a /\ t[2] = b /\ t \in Seq(S)
  BY DEF Listed
<1> HIDE DEF t, S
<1>2. Seqs!Last(t) = b /\ Seqs!Front(t) = SubSeq(t, 1, 1)
  <2>1. Seqs!Last(t) = t[Len(t)] /\ Seqs!Front(t) = SubSeq(t, 1, Len(t) - 1)
    BY ONLY <1>1, LastListed
  <2> QED
    BY <1>1, <2>1
<1>3. SubSeq(t, 1, 1) = <<a>>
  <2> DEFINE u == SubSeq(t, 1, 1)
             one == <<a>>
             l == 1
  <2>1. l \in Nat /\ l <= Len(t) /\ u = SubSeq(t, 1, l)
    BY <1>1
  <2>2. one \in Seq({a}) /\ Len(one) = 1 /\ one[1] = a
    OBVIOUS
  <2> HIDE DEF l, one
  <2>3. Listed(u) /\ Len(u) = l /\ \A i \in 1 .. l : u[i] = t[i]
    <3> HIDE DEF u
    <3> QED
      BY ONLY <1>1, <2>1, CutListed
  <2> HIDE DEF u
  <2>4. Len(u) = 1 /\ u[1] = a
    BY <1>1, <2>3 DEF l
  <2>5. u \in Seq({a})
    <3>1. u \in Seq({u[i] : i \in 1 .. Len(u)})
      BY <2>3, ListedFacts
    <3>2. {u[i] : i \in 1 .. Len(u)} = {a}
      BY <2>4
    <3> QED
      BY <3>1, <3>2
  <2>6. u = one
    BY <2>2, <2>4, <2>5, SameSeq
  <2> QED
    BY <2>6 DEF u, one
<1> QED
  BY <1>1, <1>2, <1>3 DEF t

LEMMA AnewFacts ==
  ASSUME KnownOk
  PROVE  /\ IsLoggerProducer(Anew) /\ Listed(Anew.links) /\ Mild(Anew)
         /\ \A L : ~InspectChain(Anew, L).isEvent
<1> DEFINE e == Anew
           ls == e.links
           none == <<>>
           m == "anew"
           p == <<"log">>
<1>1. m # NoName /\ e = Then(Name(p), m, none) /\ Spelled(p)
  BY WordPaths DEF Anew
<1>2. EndsIn(e, p, m, none)
  <2> HIDE DEF m, none, e, p
  <2> QED
    BY ONLY <1>1, ThenFacts
<1>3. Name(p).links = <<>> /\ Name(p).root = Root("name", "log") /\ Len(p) = 1
  BY LogIs
<1>4. e.links = <<>> \o <<Dot(m), Call(none)>> /\ e.root = Root("name", "log")
  BY <1>1, <1>3 DEF Then, Expr
<1>5. ls = <<Dot(m), Call(none)>>
  <2> DEFINE a == Dot(m)
             b == Call(none)
  <2> HIDE DEF a, b
  <2>1. <<>> \o <<a, b>> = <<a, b>>
    <3> DEFINE S == {a, b}
               n == <<>>
               u == <<a, b>>
    <3>1. n \in Seq(S) /\ Len(n) = 0 /\ a \in S /\ b \in S /\ u \in Seq(S) /\ Len(u) = 2 /\ u[1] = a /\ u[2] = b
      OBVIOUS
    <3> HIDE DEF n, S
    <3>2. n \o <<a, b>> \in Seq(S) /\ Len(n \o <<a, b>>) = 2 /\ (n \o <<a, b>>)[1] = a /\ (n \o <<a, b>>)[2] = b
      BY <3>1, TwoMore
    <3> DEFINE w == n \o <<a, b>>
    <3>3. w \in Seq(S) /\ Len(w) = 2 /\ w[1] = a /\ w[2] = b
      BY <3>2
    <3> HIDE DEF w, u
    <3>4. w = u
      BY <3>1, <3>3, SameSeq
    <3> QED
      BY <3>4 DEF w, n, u
  <2> QED
    BY <1>4, <2>1 DEF a, b
<1>6. /\ Listed(ls) /\ Links(e) = ls /\ CollectCallChain(e).methods = <<m>>
      /\ e.root.kind = "name" /\ e.root.name = "log"
  BY <1>2, <1>4 DEF EndsIn, Root
<1>7. IsLoggerProducer(e)
  <2> DEFINE f == Dot(m)
             g == Call(none)
             callee == Seqs!Front(ls)
  <2>1. f.kind = "dot" /\ f.name = "anew" /\ g.kind = "call"
    BY DEF Dot, Call
  <2>2. ls = <<f, g>>
    BY <1>5
  <2> HIDE DEF f, g, e
  <2>3. Seqs!Last(ls) = g /\ callee = <<f>> /\ ls # <<>>
    BY <2>2, FrontOfTwo
  <2> HIDE DEF callee, ls
  <2>4. Seqs!Last(callee) = f /\ Seqs!Front(callee) = <<>> /\ callee # <<>>
    BY <2>3, FrontOfOne
  <2> DEFINE root == e.root
  <2>5. root.kind \in {"name", "this"} /\ root.name = "log"
    BY <1>6
  <2> HIDE DEF root
  <2>6. PathName(root, <<>>) = <<"log">>
    BY <2>5, PathOfRoot
  <2>7. PathName(e.root, Seqs!Front(callee)) \in knownLoggers \ {<<>>}
    BY <2>4, <2>6 DEF KnownOk, root
  <2>8. IsCall(e)
    BY <1>6, <2>1, <2>3 DEF IsCall
  <2>9. Links(e) = ls
    BY <1>6
  <2> QED
    BY <2>1, <2>4, <2>7, <2>8, <2>9 DEF IsLoggerProducer, IsDot, callee
<1>8. \A k \in DOMAIN ls : (ls[k].kind = "dot" => ls[k].name = "anew") /\ (ls[k].kind = "call" => ls[k].args = <<>>)
  BY <1>5 DEF Dot, Call
<1>9. Silent(e)
  BY <1>8 DEF Silent, levelMethods
<1>10. Mild(e)
  BY <1>6, <1>8, GoodArguments DEF Mild, GoodArgs
<1> QED
  BY <1>6, <1>7, <1>9, <1>10, SilentNoEvent

LEMMA CreatedFacts ==
  ASSUME KnownOk
  PROVE  /\ IsLoggerProducer(Created) <=> Factory \in knownFactories
         /\ Listed(Created.links) /\ Mild(Created)
         /\ \A L : ~InspectChain(Created, L).isEvent
<1> DEFINE e == Created
           ls == Links(e)
           g == Call(<<>>)
           callee == Seqs!Front(ls)
           root == e.root
<1>1. /\ Listed(e.links) /\ Len(e.links) = 1 /\ e.links[1] = g /\ e.root = Root("name", "createLogger")
      /\ GetQualifiedName(e) = <<>> /\ Silent(e) /\ ls = <<g>>
  BY PassFacts DEF Created
<1>2. g.kind = "call" /\ g.args = <<>> /\ root.kind \in {"name", "this"} /\ root.name = "createLogger"
  BY <1>1 DEF Call, Root
<1> HIDE DEF e, g
<1>3. Seqs!Last(ls) = g /\ callee = <<>> /\ ls # <<>>
  BY <1>1, FrontOfOne
<1> HIDE DEF root, callee, ls
<1>4. PathName(root, callee) = <<"createLogger">> /\ <<"createLogger">> # <<>>
  BY <1>2, <1>3, PathOfRoot
<1>5. IsCall(e)
  BY <1>2, <1>3 DEF IsCall, ls
<1>6. IsLoggerProducer(e) <=> Factory \in knownFactories
  BY <1>1, <1>3, <1>4, <1>5 DEF IsLoggerProducer, Factory, root, callee, ls
<1>7. Mild(e)
  <2>1. DOMAIN e.links = {1}
    BY <1>1, ListedFacts
  <2> QED
    BY <1>1, <1>2, <2>1, GoodArguments DEF Mild, GoodArgs
<1> QED
  BY <1>1, <1>6, <1>7, SilentNoEvent DEF e

LEMMA ConstructedFacts ==
  /\ <<"otel", "BaseLogger">> \in knownClasses => IsLoggerProducer(Constructed)
  /\ Listed(Constructed.links) /\ Mild(Constructed)
  /\ \A L : ~InspectChain(Constructed, L).isEvent
<1> DEFINE e == Constructed
<1>1. e.links = <<>> /\ Listed(e.links) /\ DOMAIN e.links = {} /\ e.root.kind = "new" /\ e.root.name = <<"otel", "BaseLogger">>
  BY DEF Constructed, Expr, Root, Listed
<1> HIDE DEF e
<1>2. Links(e) = <<>>
  BY <1>1, LinksPlain
<1>3. Silent(e) /\ Mild(e)
  BY <1>1 DEF Silent, Mild
<1>4. <<"otel", "BaseLogger">> \in knownClasses => IsLoggerProducer(e)
  BY <1>1, <1>2 DEF IsLoggerProducer
<1> QED
  BY <1>1, <1>3, <1>4, SilentNoEvent DEF e

Grows ==
  knownLoggers \subseteq knownLoggers' /\ knownFactories \subseteq knownFactories' /\ knownClasses \subseteq knownClasses'

LEMMA TeachesEffect ==
  ASSUME KnownOk, RuleStep, UNCHANGED programVars, NEW v, v = Head(todo), Teaches(v)
  PROVE  /\ ruleScopes' = ruleScopes /\ SameReports /\ Grows /\ KnownOk'
         /\ LearnsApp(v) => App \in knownLoggers'
         /\ v = ImportsFactory => Factory \in knownFactories'
         /\ v = ImportsPackage => <<"otel", "BaseLogger">> \in knownClasses'
<1>0. /\ (LoggerLine <=> LoggerLine') /\ (FactoryIsOurs <=> FactoryIsOurs')
  BY DEF programVars, LoggerLine, FactoryIsOurs, Lines
<1>k. /\ <<"log">> \in knownLoggers
      /\ \A p \in knownLoggers : p[1] = "otel" \/ p \in {<<"log">>, <<"logger">>, <<"ddlog">>, App}
      /\ \A p \in knownFactories : p[1] = "otel" \/ p = Factory
      /\ \A p \in knownClasses : p[1] = "otel"
      /\ App \in knownLoggers => LoggerLine
      /\ Factory \in knownFactories => FactoryIsOurs
  BY DEF KnownOk
<1>v. v.visit = "VariableDeclarator" => v # ImportsApp /\ v # ImportsFactory /\ v # ImportsPackage
  BY DEF ImportsApp, ImportsFactory, ImportsPackage, Import
<1>1. CASE v = ImportsApp /\ LoggerLine
  <2> DEFINE spec == [kind |-> "default", local |-> "app"]
  <2>1. v = Import(OurPackage, spec)[1] /\ spec.kind = "default" /\ <<spec.local>> = App
    BY <1>1 DEF ImportsApp, App
  <2> HIDE DEF spec
  <2>2. /\ SameReports /\ ruleScopes' = ruleScopes
        /\ knownLoggers' = knownLoggers \cup {App} /\ knownFactories' = knownFactories /\ knownClasses' = knownClasses
    <3>1. /\ SameReports /\ ruleScopes' = ruleScopes
          /\ knownLoggers' = knownLoggers \cup {<<spec.local>>} \cup Imported(spec, LOGGER_EXPORTS)
          /\ knownFactories' = knownFactories \cup Imported(spec, FACTORY_EXPORTS)
          /\ knownClasses' = knownClasses \cup Imported(spec, CLASS_EXPORTS)
      BY <2>1, ImportEffect, Tracked
    <3>2. /\ Imported(spec, LOGGER_EXPORTS) = {} /\ Imported(spec, FACTORY_EXPORTS) = {}
          /\ Imported(spec, CLASS_EXPORTS) = {}
      BY <2>1, ImportedNone
    <3> QED
      BY <2>1, <3>1, <3>2
  <2>3. v # ImportsFactory /\ v # ImportsPackage
    <3>1. v.specifiers = {spec}
      BY <2>1 DEF Import
    <3>2. /\ ImportsFactory.specifiers = {Named} /\ ImportsPackage.specifiers = {[kind |-> "namespace", local |-> "otel"]}
      BY DEF ImportsFactory, ImportsPackage, Import
    <3>3. spec.kind = "default" /\ Named.kind = "named" /\ [kind |-> "namespace", local |-> "otel"].kind = "namespace"
      BY <2>1 DEF Named
    <3> QED
      BY <3>1, <3>2, <3>3
  <2>4. KnownOk'
    BY <1>0, <1>1, <1>k, <2>2 DEF KnownOk
  <2> QED
    BY <2>2, <2>3, <2>4 DEF Grows
<1>2. CASE v = ImportsFactory /\ FactoryIsOurs
  <2> DEFINE spec == Named
             from == OurPackage \o <<"node">>
  <2>1. v = Import(from, spec)[1] /\ spec.kind = "named" /\ spec.local = "createLogger" /\ spec.imported = "createLogger"
    BY <1>2 DEF ImportsFactory, Named
  <2>a. IsTrackedModule(from)
    BY Tracked
  <2> HIDE DEF spec, from
  <2>2. /\ SameReports /\ ruleScopes' = ruleScopes
        /\ knownLoggers' = knownLoggers \cup {} \cup Imported(spec, LOGGER_EXPORTS)
        /\ knownFactories' = knownFactories \cup Imported(spec, FACTORY_EXPORTS)
        /\ knownClasses' = knownClasses \cup Imported(spec, CLASS_EXPORTS)
    BY <2>1, <2>a, ImportEffect
  <2>3. /\ Imported(spec, LOGGER_EXPORTS) = {} /\ Imported(spec, CLASS_EXPORTS) = {}
        /\ Imported(spec, FACTORY_EXPORTS) = {Factory}
    <3>1. /\ "createLogger" \notin LOGGER_EXPORTS /\ "createLogger" \notin CLASS_EXPORTS
          /\ "createLogger" \in FACTORY_EXPORTS
      BY DEF LOGGER_EXPORTS, CLASS_EXPORTS, FACTORY_EXPORTS
    <3> QED
      BY <2>1, <3>1, ImportedOne DEF Factory
  <2>4. ~LearnsApp(v)
    <3>1. v.visit = "ImportDeclaration" /\ v.specifiers = {spec}
      BY <2>1 DEF Import
    <3>2. ImportsApp.specifiers = {[kind |-> "default", local |-> "app"]}
      BY DEF ImportsApp, Import
    <3>3. [kind |-> "default", local |-> "app"].kind = "default"
      OBVIOUS
    <3> QED
      BY <2>1, <3>1, <3>2, <3>3 DEF LearnsApp
  <2>5. v # ImportsPackage
    <3>1. v.specifiers = {spec}
      BY <2>1 DEF Import
    <3>2. ImportsPackage.specifiers = {[kind |-> "namespace", local |-> "otel"]}
      BY DEF ImportsPackage, Import
    <3>3. [kind |-> "namespace", local |-> "otel"].kind = "namespace"
      OBVIOUS
    <3> QED
      BY <2>1, <3>1, <3>2, <3>3
  <2>6. KnownOk'
    BY <1>0, <1>2, <1>k, <2>2, <2>3 DEF KnownOk
  <2> QED
    BY <2>2, <2>3, <2>4, <2>5, <2>6 DEF Grows
<1>3. CASE v = ImportsPackage
  <2> DEFINE spec == [kind |-> "namespace", local |-> "otel"]
  <2>1. v = Import(OurPackage, spec)[1] /\ spec.kind = "namespace" /\ spec.local = "otel"
    BY <1>3 DEF ImportsPackage
  <2> HIDE DEF spec
  <2>2. /\ SameReports /\ ruleScopes' = ruleScopes
        /\ knownLoggers' = knownLoggers \cup {} \cup {<<"otel", x>> : x \in LOGGER_EXPORTS}
        /\ knownFactories' = knownFactories \cup {<<"otel", x>> : x \in FACTORY_EXPORTS}
        /\ knownClasses' = knownClasses \cup {<<"otel", x>> : x \in CLASS_EXPORTS}
    <3>1. spec.kind # "default"
      BY <2>1
    <3>2. /\ SameReports /\ ruleScopes' = ruleScopes
          /\ knownLoggers' = knownLoggers \cup {} \cup Imported(spec, LOGGER_EXPORTS)
          /\ knownFactories' = knownFactories \cup Imported(spec, FACTORY_EXPORTS)
          /\ knownClasses' = knownClasses \cup Imported(spec, CLASS_EXPORTS)
      BY <2>1, <3>1, ImportEffect, Tracked
    <3>3. /\ Imported(spec, LOGGER_EXPORTS) = {<<"otel", x>> : x \in LOGGER_EXPORTS}
          /\ Imported(spec, FACTORY_EXPORTS) = {<<"otel", x>> : x \in FACTORY_EXPORTS}
          /\ Imported(spec, CLASS_EXPORTS) = {<<"otel", x>> : x \in CLASS_EXPORTS}
      BY <2>1, ImportedAll
    <3> QED
      BY <3>2, <3>3
  <2>3. <<"otel", "BaseLogger">> \in knownClasses'
    <3>1. "BaseLogger" \in CLASS_EXPORTS
      BY DEF CLASS_EXPORTS
    <3> QED
      BY <2>2, <3>1
  <2>4. v.visit = "ImportDeclaration" /\ v.specifiers = {spec}
    BY <2>1 DEF Import
  <2>5. v # ImportsApp /\ v # ImportsFactory
    <3>1. ImportsFactory.specifiers = {Named} /\ ImportsApp.specifiers = {[kind |-> "default", local |-> "app"]}
      BY DEF ImportsFactory, ImportsApp, Import
    <3>2. Named.kind = "named" /\ [kind |-> "default", local |-> "app"].kind = "default"
      BY DEF Named
    <3> QED
      BY <2>1, <2>4, <3>1, <3>2
  <2>6. ~LearnsApp(v)
    BY <2>4, <2>5 DEF LearnsApp
  <2>7. KnownOk'
    <3>1. \A x : <<"otel", x>>[1] = "otel" /\ <<"otel", x>> # App /\ <<"otel", x>> # Factory
      BY DEF App, Factory
    <3>2. /\ \A p \in knownLoggers' : p \in knownLoggers \/ (p[1] = "otel" /\ p # App)
          /\ \A p \in knownFactories' : p \in knownFactories \/ (p[1] = "otel" /\ p # Factory)
          /\ \A p \in knownClasses' : p[1] = "otel"
          /\ <<"log">> \in knownLoggers'
      BY <1>k, <2>2, <3>1
    <3> QED
      BY <1>0, <1>k, <3>2 DEF KnownOk
  <2> QED
    BY <2>2, <2>3, <2>5, <2>6, <2>7 DEF Grows
<1>4. CASE /\ v.visit = "VariableDeclarator" /\ v.id = App
           /\ \/ v.init \in {Anew, Constructed} /\ LoggerLine
              \/ v.init = Created /\ (FactoryIsOurs => LoggerLine)
  <2>1. VariableDeclarator /\ v = Node
    BY <1>4, VisitorIs DEF Node
  <2>2. \A L : ~InspectChain(v.init, L).isEvent
    BY <1>4, AnewFacts, CreatedFacts, ConstructedFacts
  <2>3. ~BindsEvent(v.id, v.init)
    BY <2>2 DEF BindsEvent
  <2>4. SameReports /\ ruleScopes' = ruleScopes
    BY <2>1, <2>3 DEF VariableDeclarator
  <2>5. /\ knownLoggers' = IF IsLoggerProducer(v.init) THEN knownLoggers \cup {App} ELSE knownLoggers
        /\ knownFactories' = knownFactories /\ knownClasses' = knownClasses
    <3>1. App # <<>>
      BY DEF App
    <3> QED
      BY <1>4, <2>1, <3>1 DEF VariableDeclarator, Learn
  <2>6. IsLoggerProducer(v.init) => LoggerLine
    BY <1>4, <1>k, CreatedFacts
  <2>7. KnownOk'
    BY <1>0, <1>k, <2>5, <2>6 DEF KnownOk
  <2>8. LearnsApp(v) => IsLoggerProducer(v.init)
    BY <1>4, <1>v, AnewFacts, CreatedFacts, ConstructedFacts DEF LearnsApp
  <2> QED
    BY <1>4, <1>v, <2>4, <2>5, <2>7, <2>8 DEF Grows
<1> QED
  BY <1>1, <1>2, <1>3, <1>4 DEF Teaches

-----------------------------------------------------------------------------
(***************************************************************************)
(* A visit, and what is left to visit after it.                            *)
(***************************************************************************)
Quiet(e) == \A L : ~InspectChain(e, L).isEvent

LEMMA ChainLoud ==
  ASSUME NEW c \in Chains PROVE ~Quiet(ChainExpr(c))
<1> DEFINE chain == CollectCallChain(ChainExpr(c))
           ms == chain.methods
           L == {chain.root}
<1>1. /\ ms \in {<<"info">>, <<"log">>, <<"with", "info">>, <<"info", "send">>}
      /\ chain.root \in {<<"log">>, <<"self", "log">>, App}
  BY ChainFacts DEF Reads
<1>2. \E k \in DOMAIN ms : ms[k] \in levelMethods
  <2> HIDE DEF chain
  <2> HIDE DEF ms
  <2>1. CASE ms = <<"with", "info">>
    <3>1. 2 \in DOMAIN ms /\ ms[2] = "info"
      BY <2>1
    <3> QED
      BY <3>1 DEF levelMethods
  <2>2. CASE ms \in {<<"info">>, <<"log">>, <<"info", "send">>}
    <3>1. 1 \in DOMAIN ms /\ ms[1] \in {"info", "log"}
      BY <2>2
    <3> QED
      BY <3>1 DEF levelMethods
  <2> QED
    BY <1>1, <2>1, <2>2
<1>3. chain.root \in L \ {<<>>}
  BY <1>1 DEF App
<1>4. InspectChain(ChainExpr(c), L).isEvent
  BY <1>2, <1>3 DEF InspectChain
<1> QED
  BY <1>4 DEF Quiet

LEMMA NotRecords ==
  ASSUME NEW v, NEW e,
         \/ Passive(v) \/ \E x : UsesName(v, x)
         \/ Teaches(v)
         \/ v.visit \in {"Exit", "FunctionEnter", "ArrowEnter"}
  PROVE  ~Records(v, e)
<1> SUFFICES ASSUME Records(v, e) PROVE FALSE
  OBVIOUS
<1>1. PICK c \in Chains :
        \/ v = [visit |-> "ExpressionStatement", expression |-> ChainExpr(c), line |-> e]
        \/ /\ births[e].place \in EventPlaces
           /\ \/ v = [visit |-> "VariableDeclarator", id |-> births[e].place, init |-> ChainExpr(c), line |-> e]
              \/ v = [visit |-> "AssignmentExpression", left |-> Name(births[e].place), right |-> ChainExpr(c), line |-> e]
  BY DEF Records
<1>2. \/ v.visit = "ExpressionStatement" /\ v.expression = ChainExpr(c)
      \/ v.visit = "VariableDeclarator" /\ v.init = ChainExpr(c)
      \/ v.visit = "AssignmentExpression"
  BY <1>1
<1>3. ~Quiet(ChainExpr(c))
  BY ChainLoud
<1>4. CASE Passive(v)
  <2>1. ASSUME v.visit = "ExpressionStatement" PROVE Quiet(v.expression)
    BY <1>4, <2>1, SilentNoEvent DEF Passive, Quiet, Import
  <2>2. ASSUME v.visit = "VariableDeclarator" PROVE Quiet(v.init)
    BY <1>4, <2>2, NowhereQuiet DEF Passive, Quiet, Import
  <2>3. v.visit # "AssignmentExpression"
    BY <1>4 DEF Passive, Import
  <2> QED
    BY <1>2, <1>3, <2>1, <2>2, <2>3
<1>5. CASE \E x : UsesName(v, x)
  <2>1. PICK x : UsesName(v, x)
    BY <1>5
  <2>2. ASSUME v.visit = "ExpressionStatement" PROVE Quiet(v.expression)
    <3>1. v.expression \in UseOf(x) /\ x \in EventPlaces
      BY <2>1, <2>2 DEF UsesName
    <3>2. \A stack \in Stacks : \A L : ~InspectChain(v.expression, L).isEvent
      BY <3>1, UseConsumes
    <3>3. <<>> \in Stacks
      BY DEF Stacks
    <3> QED
      BY <3>2, <3>3 DEF Quiet
  <2>3. v.visit \in {"CallExpression", "ExpressionStatement", "ReturnStatement"}
    BY <2>1 DEF UsesName
  <2> QED
    BY <1>2, <1>3, <2>2, <2>3
<1>6. CASE Teaches(v)
  <2>1. v.visit = "ImportDeclaration" \/ (v.visit = "VariableDeclarator" /\ v.id = App)
    BY <1>6 DEF Teaches, ImportsApp, ImportsFactory, ImportsPackage, Import
  <2>2. ~(v.visit = "VariableDeclarator" /\ v.id = App)
    BY <1>1, EventPaths
  <2> QED
    BY <1>2, <2>1, <2>2
<1> QED
  BY <1>2, <1>4, <1>5, <1>6

LEMMA TailFacts ==
  ASSUME NEW t, Listed(t), t # <<>>
  PROVE  /\ Len(t) \in Nat \ {0} /\ Head(t) = t[1] /\ Listed(Tail(t)) /\ Len(Tail(t)) = Len(t) - 1
         /\ \A i \in 1 .. Len(t) - 1 : Tail(t)[i] = t[i + 1]
<1> DEFINE S == {t[i] : i \in 1 .. Len(t)}
<1>1. t \in Seq(S) /\ Len(t) \in Nat
  BY ListedFacts DEF Listed
<1> HIDE DEF S
<1>2. Len(t) \in Nat \ {0} /\ Head(t) = t[1] /\ Tail(t) \in Seq(S) /\ Len(Tail(t)) = Len(t) - 1
  BY <1>1
<1>3. \A i \in 1 .. Len(t) - 1 : Tail(t)[i] = t[i + 1]
  BY <1>1
<1> QED
  BY <1>2, <1>3, ListedSeq

LEMMA PrimeUsed ==
  ASSUME UNCHANGED <<births, uses, nodeLine>>
  PROVE  UsedOk(ruleScopes, todo)' <=> UsedOk(ruleScopes', todo')
BY DEF UsedOk, Excused, RuleHides, Lines, Clears, UsesName, UsesInside, Used

LEMMA PrimeHeard ==
  ASSUME UNCHANGED <<births, uses, nodeLine, ruleReported, knownLoggers>>
  PROVE  HeardOk(ruleScopes, todo)' <=> HeardOk(ruleScopes', todo')
BY DEF HeardOk, Events, Lines, Handed, Records, Remembered, RuleMixesUp, Written

LEMMA PrimePending ==
  ASSUME UNCHANGED <<births, nodeLine>>, NEW CONSTANT G
  PROVE  PendingOk(ruleScopes, G)' <=> PendingOk(ruleScopes', G)
BY DEF PendingOk

LEMMA NotTeaches ==
  ASSUME NEW v,
         \/ Passive(v) \/ \E x : UsesName(v, x)
         \/ \E e : Records(v, e)
         \/ v.visit \in {"Exit", "FunctionEnter", "ArrowEnter"}
  PROVE  ~LearnsApp(v) /\ v # ImportsFactory /\ v # ImportsPackage
<1>1. /\ ImportsApp.visit = "ImportDeclaration" /\ ImportsApp.source = OurPackage
      /\ ImportsFactory.visit = "ImportDeclaration" /\ ImportsFactory.source = OurPackage \o <<"node">>
      /\ ImportsPackage.visit = "ImportDeclaration" /\ ImportsPackage.source = OurPackage
  BY DEF ImportsApp, ImportsFactory, ImportsPackage, Import
<1>2. v.visit = "ImportDeclaration" => v.source = Theirs
  <2>1. CASE Passive(v)
    <3>1. Import(Theirs, Named)[1].source = Theirs
      BY DEF Import
    <3> QED
      BY <2>1, <3>1 DEF Passive
  <2>2. CASE \E x : UsesName(v, x)
    BY <2>2 DEF UsesName
  <2>3. CASE \E e : Records(v, e)
    BY <2>3 DEF Records
  <2> QED
    BY <2>1, <2>2, <2>3
<1>3. v # ImportsApp /\ v # ImportsFactory /\ v # ImportsPackage
  BY <1>1, <1>2, Tracked, PackagesAssumption
<1>4. ~(v.visit = "VariableDeclarator" /\ v.id = App)
  <2>1. CASE Passive(v)
    BY <2>1, EventPaths DEF Passive, Import
  <2>2. CASE \E x : UsesName(v, x)
    BY <2>2 DEF UsesName
  <2>3. CASE \E e : Records(v, e)
    BY <2>3, EventPaths DEF Records
  <2> QED
    BY <2>1, <2>2, <2>3
<1> QED
  BY <1>3, <1>4 DEF LearnsApp

LEMMA LearntKept ==
  ASSUME LearntOk, UNCHANGED programVars, Listed(todo), todo # <<>>, todo' = Tail(todo), Grows,
         LearnsApp(Head(todo)) => App \in knownLoggers',
         Head(todo) = ImportsFactory => Factory \in knownFactories',
         Head(todo) = ImportsPackage => <<"otel", "BaseLogger">> \in knownClasses'
  PROVE  LearntOk'
<1>1. /\ Len(todo) \in Nat \ {0} /\ Head(todo) = todo[1] /\ Listed(todo') /\ Len(todo') = Len(todo) - 1
      /\ \A i \in 1 .. Len(todo) - 1 : todo'[i] = todo[i + 1]
  BY TailFacts
<1>2. DOMAIN todo = 1 .. Len(todo) /\ DOMAIN todo' = 1 .. Len(todo')
  BY <1>1, ListedFacts
<1>3. /\ LoggerLine' <=> LoggerLine
      /\ FactoryIsOurs' <=> FactoryIsOurs
  BY DEF LoggerLine, Lines, FactoryIsOurs, programVars
<1>4. \A v : LearnsApp(v) => LearnsApp(v)'
  BY <1>3 DEF LearnsApp, Grows
<1>5. \A i \in DOMAIN todo : i = 1 \/ (i - 1 \in DOMAIN todo' /\ todo'[i - 1] = todo[i])
  BY <1>1, <1>2
<1>6. frames' = frames
  BY DEF programVars
<1>7. (\E i \in DOMAIN todo : LearnsApp(todo[i])) => App \in knownLoggers' \/ \E i \in DOMAIN todo' : LearnsApp(todo[i])'
  <2> SUFFICES ASSUME NEW i \in DOMAIN todo, LearnsApp(todo[i])
               PROVE  App \in knownLoggers' \/ \E j \in DOMAIN todo' : LearnsApp(todo[j])'
    OBVIOUS
  <2>1. CASE i = 1
    BY <1>1, <2>1
  <2>2. CASE i # 1
    <3>1. i - 1 \in DOMAIN todo' /\ todo'[i - 1] = todo[i]
      BY <1>5, <2>2
    <3>2. LearnsApp(todo[i - 1])'
      BY <1>3, <3>1 DEF LearnsApp, Grows
    <3> QED
      BY <3>1, <3>2
  <2> QED
    BY <2>1, <2>2
<1>8. (\E i \in DOMAIN todo : todo[i] = ImportsFactory) =>
         Factory \in knownFactories' \/ \E i \in DOMAIN todo' : todo'[i] = ImportsFactory
  BY <1>1, <1>5
<1>9. (\E i \in DOMAIN todo : todo[i] = ImportsPackage) =>
         <<"otel", "BaseLogger">> \in knownClasses' \/ \E i \in DOMAIN todo' : todo'[i] = ImportsPackage
  BY <1>1, <1>5
<1>10. ASSUME NEW d \in DOMAIN frames'
       PROVE  /\ frames'[d].holds[App] = Empty => App \in knownLoggers' \/ \E i \in DOMAIN todo' : LearnsApp(todo[i])'
              /\ frames'[d].holds[Factory] = Empty =>
                   Factory \in knownFactories' \/ (FactoryIsOurs' /\ \E i \in DOMAIN todo' : todo'[i] = ImportsFactory)
              /\ frames'[d].holds[Package] = Empty =>
                   <<"otel", "BaseLogger">> \in knownClasses' \/ \E i \in DOMAIN todo' : todo'[i] = ImportsPackage
  <2>1. d \in DOMAIN frames /\ frames'[d] = frames[d]
    BY <1>6
  <2>2. frames[d].holds[App] = Empty => App \in knownLoggers' \/ \E i \in DOMAIN todo' : LearnsApp(todo[i])'
    BY <1>7, <2>1 DEF LearntOk, Grows
  <2>3. frames[d].holds[Factory] = Empty =>
                   Factory \in knownFactories' \/ (FactoryIsOurs' /\ \E i \in DOMAIN todo' : todo'[i] = ImportsFactory)
    BY <1>3, <1>8, <2>1 DEF LearntOk, Grows
  <2>4. frames[d].holds[Package] = Empty =>
                   <<"otel", "BaseLogger">> \in knownClasses' \/ \E i \in DOMAIN todo' : todo'[i] = ImportsPackage
    BY <1>9, <2>1 DEF LearntOk, Grows
  <2> QED
    BY <2>1, <2>2, <2>3, <2>4
<1> QED
  BY <1>10 DEF LearntOk

-----------------------------------------------------------------------------
(* Forgetting events that were used keeps what is known of the others. *)

LEMMA PendingThin ==
  ASSUME NEW old \in Stacks, NEW new, Thinner(new, old), NEW G, PendingOk(old, G)
  PROVE  PendingOk(new, G)
<1>1. DOMAIN new = DOMAIN old
  BY StackFacts DEF Thinner
<1>2. ASSUME NEW k \in DOMAIN new, NEW x \in Names, new[k][x] # Nothing PROVE k \in DOMAIN old /\ old[k][x] = new[k][x]
  BY <1>1, <1>2 DEF Thinner
<1> QED
  BY <1>2 DEF PendingOk

LEMMA UsedThin ==
  ASSUME NEW old \in Stacks, NEW new, Thinner(new, old), NEW t, Listed(t), t # <<>>, UsedOk(old, t),
         \A x \in Names : Clears(Head(t), x) => new = Clear(old, x)
  PROVE  UsedOk(new, Tail(t))
<1>1. /\ DOMAIN new = DOMAIN old /\ DOMAIN old = 1 .. Len(old)
  BY StackFacts DEF Thinner
<1>2. /\ DOMAIN t = 1 .. Len(t) /\ DOMAIN Tail(t) = 1 .. Len(Tail(t)) /\ Head(t) = t[1] /\ Len(Tail(t)) = Len(t) - 1
      /\ \A i \in 1 .. Len(t) - 1 : Tail(t)[i] = t[i + 1]
      /\ Len(t) \in Nat
  BY TailFacts, ListedFacts
<1>3. ASSUME NEW k \in DOMAIN new, NEW x \in Names, new[k][x] # Nothing
      PROVE  LET e == nodeLine[new[k][x]] IN
             \/ uses[e] = {} \/ Excused(e)
             \/ /\ \A j \in DOMAIN new : j > k => new[j][x] = Nothing
                /\ \E i \in DOMAIN Tail(t) : Clears(Tail(t)[i], x)
  <2> DEFINE e == nodeLine[new[k][x]]
  <2>1. k \in DOMAIN old /\ old[k][x] = new[k][x]
    BY <1>1, <1>3 DEF Thinner
  <2>2. SUFFICES ASSUME uses[e] # {}, ~Excused(e)
                 PROVE  /\ \A j \in DOMAIN new : j > k => new[j][x] = Nothing
                        /\ \E i \in DOMAIN Tail(t) : Clears(Tail(t)[i], x)
    OBVIOUS
  <2>3. /\ \A j \in DOMAIN old : j > k => old[j][x] = Nothing
        /\ \E i \in DOMAIN t : Clears(t[i], x)
    BY <1>3, <2>1, <2>2 DEF UsedOk
  <2>4. \A j \in DOMAIN new : j > k => new[j][x] = Nothing
    BY <1>1, <2>3 DEF Thinner
  <2>5. PICK i \in DOMAIN t : Clears(t[i], x)
    BY <2>3
  <2>6. i # 1
    <3> SUFFICES ASSUME i = 1 PROVE FALSE
      OBVIOUS
    <3>1. new = Clear(old, x)
      BY <1>2, <2>5
    <3>2. \A j \in Holding(old, x) : j <= k
      BY <1>1, <2>3 DEF Holding
    <3>3. Clear(old, x)[k][x] = Nothing
      BY <2>1, <3>2, ClearFacts
    <3> QED
      BY <1>3, <3>1, <3>3
  <2>7. i - 1 \in DOMAIN Tail(t) /\ Tail(t)[i - 1] = t[i]
    BY <1>2, <2>6
  <2>8. Clears(Tail(t)[i - 1], x)
    BY <2>5, <2>7
  <2> QED
    BY <2>4, <2>7, <2>8
<1> QED
  BY <1>3 DEF UsedOk

LEMMA RememberedThin ==
  ASSUME NEW old \in Stacks, NEW new, Thinner(new, old), NEW G, PendingOk(old, G), RecordsOk,
         NEW e, Remembered(old, e),
         \A k \in DOMAIN old, x \in Names : old[k][x] # Nothing /\ new[k][x] = Nothing => Used(x)
  PROVE  Remembered(new, e)
<1>1. DOMAIN new = DOMAIN old
  BY StackFacts DEF Thinner
<1>2. PICK m \in DOMAIN nodeLine :
        /\ nodeLine[m] = e
        /\ \/ ruleReported[m] # 0
           \/ \E k \in DOMAIN old, x \in Names : old[k][x] = m
           \/ uses[e] # {} \/ RuleMixesUp(e)
  BY DEF Remembered
<1>3. CASE \E k \in DOMAIN old, x \in Names : old[k][x] = m
  <2>1. PICK k \in DOMAIN old, x \in Names : old[k][x] = m
    BY <1>3
  <2>2. CASE new[k][x] = m
    BY <1>1, <1>2, <2>1, <2>2 DEF Remembered
  <2>3. CASE new[k][x] # m
    <3>1. nodeLine \in Seq(Nat) /\ e \in Lines
      BY <1>2 DEF RecordsOk
    <3>2. m # Nothing
      BY <3>1 DEF Nothing
    <3>3. new[k][x] = Nothing
      BY <2>1, <2>3 DEF Thinner
    <3>4. Used(x) /\ x \in EventPlaces /\ births[e].place = x
      BY <1>2, <2>1, <3>2, <3>3 DEF PendingOk
    <3>5. PICK f \in Lines : births[f].place = x /\ uses[f] # {}
      BY <3>4 DEF Used
    <3>6. uses[e] # {} \/ RuleMixesUp(e)
      <4>1. CASE f = e
        BY <3>5, <4>1
      <4>2. CASE f # e
        BY <3>4, <3>5, <4>2, NoName0 DEF RuleMixesUp
      <4> QED
        BY <4>1, <4>2
    <3> QED
      BY <1>2, <3>6 DEF Remembered
  <2> QED
    BY <2>2, <2>3
<1> QED
  BY <1>2, <1>3 DEF Remembered

LEMMA HeardThin ==
  ASSUME NEW old \in Stacks, NEW new, Thinner(new, old), NEW G, PendingOk(old, G), RecordsOk,
         \A k \in DOMAIN old, x \in Names : old[k][x] # Nothing /\ new[k][x] = Nothing => Used(x),
         NEW t, Listed(t), t # <<>>, HeardOk(old, t), \A e : Records(Head(t), e) => births[e].chain \notin Heard
  PROVE  HeardOk(new, Tail(t))
<1>1. /\ DOMAIN t = 1 .. Len(t) /\ DOMAIN Tail(t) = 1 .. Len(Tail(t)) /\ Head(t) = t[1] /\ Len(Tail(t)) = Len(t) - 1
      /\ \A i \in 1 .. Len(t) - 1 : Tail(t)[i] = t[i + 1]
      /\ Len(t) \in Nat
  BY TailFacts, ListedFacts
<1>2. ASSUME NEW e \in Events, births[e].chain \in Heard /\ ~Handed(e)
      PROVE  (\E i \in DOMAIN Tail(t) : Records(Tail(t)[i], e)) \/ Remembered(new, e)
  <2>1. CASE Remembered(old, e)
    BY <2>1, RememberedThin
  <2>2. CASE \E i \in DOMAIN t : Records(t[i], e)
    <3>1. PICK i \in DOMAIN t : Records(t[i], e)
      BY <2>2
    <3>2. i # 1
      BY <1>1, <1>2, <3>1
    <3>3. i - 1 \in DOMAIN Tail(t) /\ Tail(t)[i - 1] = t[i]
      BY <1>1, <3>2
    <3> QED
      BY <3>1, <3>3
  <2> QED
    BY <1>2, <2>1, <2>2 DEF HeardOk
<1> QED
  BY <1>2 DEF HeardOk

AllPassive(t) == \A i \in DOMAIN t : Passive(t[i])

\* The node that is visited next, and what is left after it.
LEMMA NodesHead ==
  ASSUME NEW t, t # <<>>, NEW G, NEW level, NodesOk(t, G, level)
  PROVE  /\ Listed(t)
         /\ \/ Mere(Head(t)) /\ NodesOk(Tail(t), G, level)
            \/ /\ level = Len(G) /\ Len(G) > 0 /\ births[Written].fun = G[Len(G)]
               /\ Records(Head(t), Written) /\ NodesOk(Tail(t), G, level) /\ AllPassive(Tail(t))
            \/ level = Len(G) /\ Teaches(Head(t)) /\ NodesOk(Tail(t), G, level) /\ AllPassive(Tail(t))
            \/ level = Len(G) + 1 /\ Head(t) = Exit /\ Tail(t) = <<>>
            \/ /\ level = Len(G) /\ (\E x \in EventPlaces : UsesInside(Head(t), x))
               /\ Listed(Tail(t)) /\ Len(Tail(t)) = 1 /\ Tail(t)[1] = Exit
            \/ level + 1 = Len(G) /\ Head(t) = [visit |-> "FunctionEnter"] /\ Tail(t) = <<>>
<1> DEFINE n == Len(G)
           m == Len(t)
           u == Tail(t)
           v == Head(t)
<1>0. Listed(t)
  BY DEF NodesOk
<1>1. /\ m \in Nat \ {0} /\ v = t[1] /\ Listed(u) /\ Len(u) = m - 1
      /\ \A i \in 1 .. m - 1 : u[i] = t[i + 1]
  BY <1>0, TailFacts
<1>2. DOMAIN u = 1 .. m - 1
  BY <1>1, ListedFacts
<1>3. m = 1 => u = <<>>
  <2> SUFFICES ASSUME m = 1 PROVE u = <<>>
    OBVIOUS
  <2>0. Listed(u) /\ Len(u) = 0
    BY <1>1
  <2> HIDE DEF u
  <2>1. u \in Seq({u[i] : i \in 1 .. Len(u)}) /\ Len(u) = 0
    BY ONLY <2>0, ListedFacts
  <2> QED
    BY <2>1
<1> HIDE DEF u, v, m
<1>4. \/ level = n /\ \A i \in 1 .. m : Mere(t[i])
      \/ /\ level = n /\ n > 0 /\ births[Written].fun = G[n]
         /\ \E r \in 1 .. m : Records(t[r], Written) /\ \A i \in 1 .. m : i # r => Passive(t[i])
      \/ level = n /\ m > 0 /\ Teaches(t[1]) /\ \A i \in 2 .. m : Passive(t[i])
      \/ level = n + 1 /\ m > 0 /\ t[m] = Exit /\ \A i \in 1 .. m - 1 : Mere(t[i])
      \/ /\ level = n /\ m > 1 /\ t[m] = Exit /\ (\E x \in EventPlaces : UsesInside(t[m - 1], x))
         /\ \A i \in 1 .. m - 2 : Passive(t[i])
      \/ level + 1 = n /\ m = 1 /\ t[1] = [visit |-> "FunctionEnter"]
  BY DEF NodesOk, n, m
<1> DEFINE Left == NodesOk(u, G, level)
<1>5. ASSUME level = n, \A i \in 1 .. m - 1 : Mere(u[i]) PROVE Left
  BY <1>1, <1>5 DEF NodesOk
<1>6. CASE level = n /\ \A i \in 1 .. m : Mere(t[i])
  <2>1. Mere(v)
    BY <1>1, <1>6
  <2>2. \A i \in 1 .. m - 1 : Mere(u[i])
    BY <1>1, <1>6
  <2> QED
    BY <1>0, <1>5, <1>6, <2>1, <2>2 DEF u, v
<1>7. CASE /\ level = n /\ n > 0 /\ births[Written].fun = G[n]
           /\ \E r \in 1 .. m : Records(t[r], Written) /\ \A i \in 1 .. m : i # r => Passive(t[i])
  <2>1. PICK r \in 1 .. m : Records(t[r], Written) /\ \A i \in 1 .. m : i # r => Passive(t[i])
    BY <1>7
  <2>2. CASE r = 1
    <3>1. Records(v, Written)
      BY <1>1, <2>1, <2>2
    <3>2. \A i \in 1 .. m - 1 : Passive(u[i])
      BY <1>1, <2>1, <2>2
    <3>3. \A i \in 1 .. m - 1 : Mere(u[i])
      BY <3>2 DEF Mere
    <3>4. AllPassive(u)
      BY <1>2, <3>2 DEF AllPassive
    <3>5. Left
      BY <1>5, <1>7, <3>3
    <3>6. /\ level = Len(G) /\ Len(G) > 0 /\ births[Written].fun = G[Len(G)]
          /\ Records(Head(t), Written) /\ NodesOk(Tail(t), G, level) /\ AllPassive(Tail(t))
      BY <1>7, <3>1, <3>4, <3>5 DEF u, v, n
    <3> QED
      BY ONLY <1>0, <3>6
  <2>3. CASE r # 1
    <3>1. Mere(v)
      BY <1>1, <2>1, <2>3 DEF Mere
    <3>2. r - 1 \in 1 .. m - 1 /\ u[r - 1] = t[r]
      BY <1>1, <2>3
    <3>3. \A i \in 1 .. m - 1 : i # r - 1 => Passive(u[i])
      BY <1>1, <2>1
    <3>4. Records(u[r - 1], Written)
      BY <2>1, <3>2
    <3>5. Left
      BY <1>1, <1>7, <3>2, <3>3, <3>4 DEF NodesOk
    <3> QED
      BY <1>0, <3>1, <3>5 DEF u, v
  <2> QED
    BY <2>2, <2>3
<1>8. CASE level = n /\ m > 0 /\ Teaches(t[1]) /\ \A i \in 2 .. m : Passive(t[i])
  <2>1. \A i \in 1 .. m - 1 : Passive(u[i])
    BY <1>1, <1>8
  <2>2. \A i \in 1 .. m - 1 : Mere(u[i])
    BY <2>1 DEF Mere
  <2>3. Left
    BY <1>5, <1>8, <2>2
  <2>4. Teaches(v) /\ \A i \in DOMAIN u : Passive(u[i])
    BY <1>1, <1>2, <1>8, <2>1
  <2>5. AllPassive(u)
    BY <2>4 DEF AllPassive
  <2>6. level = Len(G)
    BY <1>8 DEF n
  <2>7. level = Len(G) /\ Teaches(Head(t)) /\ NodesOk(Tail(t), G, level) /\ AllPassive(Tail(t))
    BY <2>3, <2>4, <2>5, <2>6 DEF u, v
  <2> QED
    BY ONLY <1>0, <2>7
<1>9. CASE level = n + 1 /\ m > 0 /\ t[m] = Exit /\ \A i \in 1 .. m - 1 : Mere(t[i])
  <2>1. CASE m = 1
    BY <1>0, <1>1, <1>3, <1>9, <2>1 DEF u, v, n
  <2>2. CASE m > 1
    <3>1. Mere(v)
      BY <1>1, <1>9, <2>2
    <3>2. /\ m - 1 > 0 /\ u[m - 1] = Exit
          /\ \A i \in 1 .. (m - 1) - 1 : Mere(u[i])
      BY <1>1, <1>9, <2>2
    <3>3. Left
      BY <1>1, <1>9, <3>2 DEF NodesOk
    <3> QED
      BY <1>0, <3>1, <3>3 DEF u, v
  <2>3. m = 1 \/ m > 1
    BY <1>1
  <2> QED
    BY ONLY <2>1, <2>2, <2>3
<1>10. CASE /\ level = n /\ m > 1 /\ t[m] = Exit /\ (\E x \in EventPlaces : UsesInside(t[m - 1], x))
            /\ \A i \in 1 .. m - 2 : Passive(t[i])
  <2>1. CASE m = 2
    <3>1. u[1] = Exit /\ Len(u) = 1
      BY <1>1, <1>10, <2>1
    <3>2. \E x \in EventPlaces : UsesInside(v, x)
      BY <1>1, <1>10, <2>1
    <3> QED
      BY <1>0, <1>1, <1>10, <3>1, <3>2 DEF u, v, n
  <2>2. CASE m > 2
    <3>1. Mere(v)
      BY <1>1, <1>10, <2>2 DEF Mere
    <3>2. /\ m - 1 > 1 /\ u[m - 1] = Exit /\ u[(m - 1) - 1] = t[m - 1]
          /\ \A i \in 1 .. (m - 1) - 2 : Passive(u[i])
      BY <1>1, <1>10, <2>2
    <3>3. Left
      BY <1>1, <1>10, <3>2 DEF NodesOk
    <3> QED
      BY <1>0, <3>1, <3>3 DEF u, v
  <2>3. m = 2 \/ m > 2
    BY <1>1, <1>10
  <2> QED
    BY ONLY <2>1, <2>2, <2>3
<1>11. CASE level + 1 = n /\ m = 1 /\ t[1] = [visit |-> "FunctionEnter"]
  BY <1>0, <1>1, <1>3, <1>11 DEF u, v, n
<1> QED
  BY <1>4, <1>6, <1>7, <1>8, <1>9, <1>10, <1>11

LEMMA NoNodes ==
  ASSUME NEW G, Len(G) \in Nat PROVE NodesOk(<<>>, G, Len(G))
BY DEF NodesOk, Listed

LEMMA OneExit ==
  ASSUME NEW G, Len(G) \in Nat, NEW t, Listed(t), Len(t) = 1, t[1] = Exit PROVE NodesOk(t, G, Len(G) + 1)
BY DEF NodesOk

(***************************************************************************)
(* A visit keeps what the rule knows.                                      *)
(***************************************************************************)
RuleState(G) ==
  /\ KnownOk /\ LearntOk /\ RecordsOk /\ AccusedOk
  /\ UsedOk(ruleScopes, todo) /\ HeardOk(ruleScopes, todo)
  /\ NodesOk(todo, G, Len(ruleScopes)) /\ PendingOk(ruleScopes, G) /\ EndedOk(G)

LEMMA PrimeNodes ==
  ASSUME UNCHANGED <<births, uses, frames, knownLoggers>>, NEW CONSTANT G
  PROVE  NodesOk(todo, G, Len(ruleScopes))' <=> NodesOk(todo', G, Len(ruleScopes'))
BY DEF NodesOk, Mere, UsesName, Used, Records, Teaches, UsesInside, LoggerLine, FactoryIsOurs, Lines, Written

LEMMA PrimeReports ==
  ASSUME UNCHANGED <<births, uses, nodeLine, ruleReported>>, NEW CONSTANT G
  PROVE  /\ RecordsOk' <=> RecordsOk
         /\ AccusedOk' <=> AccusedOk
         /\ EndedOk(G)' <=> EndedOk(G)
BY DEF RecordsOk, AccusedOk, EndedOk, LoggerLine, Lines, Excused, RuleHides

LEMMA PrimeKnown ==
  ASSUME UNCHANGED <<births, frames, knownLoggers, knownFactories, knownClasses>>
  PROVE  KnownOk' <=> KnownOk
BY DEF KnownOk, LoggerLine, FactoryIsOurs, Lines

\* A visit that does no more than forget events that were used.
LEMMA VisitThin ==
  ASSUME NEW CONSTANT G, RuleState(G), UNCHANGED programVars, Rest, todo # <<>>, todo' = Tail(todo),
         NEW old \in Stacks, Thinner(ruleScopes', old), old = ruleScopes \/ old = Enter(ruleScopes),
         UsedOk(old, todo), HeardOk(old, todo), PendingOk(old, G),
         NodesOk(todo', G, Len(ruleScopes')),
         ~LearnsApp(Head(todo)), Head(todo) # ImportsFactory, Head(todo) # ImportsPackage,
         \A x \in Names : Clears(Head(todo), x) => ruleScopes' = Clear(old, x),
         \A k \in DOMAIN old, x \in Names : old[k][x] # Nothing /\ ruleScopes'[k][x] = Nothing => Used(x),
         \A e : Records(Head(todo), e) => births[e].chain \notin Heard
  PROVE  RuleState(G)'
<1>1. Listed(todo)
  BY DEF RuleState, NodesOk
<1>2. /\ UNCHANGED <<births, uses, frames, nodeLine, ruleReported>>
      /\ UNCHANGED <<knownLoggers, knownFactories, knownClasses>>
  BY DEF Rest, SameKnown, SameReports, programVars
<1>3. PendingOk(ruleScopes', G)
  BY PendingThin
<1>4. UsedOk(ruleScopes', todo')
  BY <1>1, UsedThin
<1>5. HeardOk(ruleScopes', todo')
  BY <1>1, HeardThin DEF RuleState
<1>6. LearntOk'
  BY <1>1, <1>2, LearntKept DEF RuleState, Grows
<1>7. /\ UsedOk(ruleScopes, todo)' /\ HeardOk(ruleScopes, todo)' /\ PendingOk(ruleScopes, G)'
      /\ NodesOk(todo, G, Len(ruleScopes))'
  <2>1. UsedOk(ruleScopes, todo)'
    BY <1>2, <1>4, PrimeUsed
  <2>2. HeardOk(ruleScopes, todo)'
    BY <1>2, <1>5, PrimeHeard
  <2>3. PendingOk(ruleScopes, G)'
    BY <1>2, <1>3, PrimePending
  <2>4. NodesOk(todo, G, Len(ruleScopes))'
    BY <1>2, PrimeNodes
  <2> QED
    BY <2>1, <2>2, <2>3, <2>4
<1>8. RecordsOk' /\ AccusedOk' /\ EndedOk(G)'
  BY <1>2, PrimeReports DEF RuleState
<1>9. KnownOk'
  BY <1>2, PrimeKnown DEF RuleState
<1> QED
  BY <1>6, <1>7, <1>8, <1>9 DEF RuleState

LEMMA VisitMere ==
  ASSUME NEW CONSTANT G, RuleState(G), Clean(ruleScopes, ruleReported), UNCHANGED programVars, RuleStep,
         Mere(Head(todo)), NodesOk(Tail(todo), G, Len(ruleScopes))
  PROVE  RuleState(G)'
<1> DEFINE v == Head(todo)
           old == ruleScopes
           new == ruleScopes'
<1>1. /\ todo # <<>> /\ todo' = Tail(todo) /\ old \in Stacks /\ OnlyPlaces(old)
      /\ UsedOk(old, todo) /\ HeardOk(old, todo) /\ PendingOk(old, G)
  BY VisitorIs DEF RuleState, Clean, PendingOk, OnlyPlaces
<1>2. /\ ~LearnsApp(v) /\ v # ImportsFactory /\ v # ImportsPackage
      /\ \A e : ~Records(v, e)
  BY NotTeaches, NotRecords DEF Mere
<1>3. \A x : UsesName(v, x) => new = Clear(old, x) /\ Rest
  BY <1>1, UsesNameEffect
<1>4. \A x \in Names : Clears(v, x) => new = Clear(old, x)
  <2>1. v.visit # "ArrowEnter"
    BY DEF Mere, Passive, UsesName, Import
  <2>2. \A x : ~UsesInside(v, x)
    BY <2>1 DEF UsesInside
  <2> QED
    BY <1>3, <2>2 DEF Clears
<1>5. /\ Rest /\ Thinner(new, old)
      /\ \A k \in DOMAIN old, x \in Names : old[k][x] # Nothing /\ new[k][x] = Nothing => Used(x)
  <2>1. CASE Passive(v)
    <3>1. new = old /\ Rest
      BY <1>1, <2>1, PassiveEffect
    <3> QED
      BY <1>1, <3>1, ThinnerThanItself
  <2>2. CASE \E x \in EventPlaces : UsesName(v, x)
    <3>1. PICK x \in EventPlaces : UsesName(v, x)
      BY <2>2
    <3>2. new = Clear(old, x) /\ Rest /\ Used(x) /\ x \in Names
      BY <1>3, <3>1, EventPaths DEF UsesName
    <3>3. Thinner(new, old)
      BY <1>1, <3>2, ClearingThins
    <3>4. \A k \in DOMAIN old, n \in Names : old[k][n] # Nothing /\ Clear(old, x)[k][n] = Nothing => n = x
      BY <1>1, <3>2, ClearFacts
    <3> QED
      BY <3>2, <3>3, <3>4
  <2> QED
    BY <2>1, <2>2 DEF Mere
<1>6. Len(new) = Len(old)
  BY <1>5 DEF Thinner
<1>7. NodesOk(todo', G, Len(new))
  BY <1>1, <1>6
<1> QED
  BY <1>1, <1>2, <1>4, <1>5, <1>7, VisitThin

LEMMA EnterFacts ==
  ASSUME NEW stack \in Stacks
  PROVE  /\ Enter(stack) \in Stacks /\ Len(Enter(stack)) = Len(stack) + 1
         /\ \A k \in DOMAIN stack : Enter(stack)[k] = stack[k]
         /\ \A n \in Names : Enter(stack)[Len(stack) + 1][n] = Nothing
<1>1. EmptyScope \in [Names -> Nat] /\ \A n \in Names : EmptyScope[n] = Nothing
  BY DEF EmptyScope, Nothing
<1>2. Len(stack) \in Nat /\ DOMAIN stack = 1 .. Len(stack)
  BY StackFacts
<1>3. /\ Enter(stack) \in Stacks /\ Len(Enter(stack)) = Len(stack) + 1
      /\ \A k \in 1 .. Len(stack) : Enter(stack)[k] = stack[k]
      /\ Enter(stack)[Len(stack) + 1] = EmptyScope
  BY <1>1, OneMore DEF Enter, Stacks
<1> QED
  BY <1>1, <1>2, <1>3

LEMMA EnterKeeps ==
  ASSUME NEW stack \in Stacks, NEW G, NEW t, UsedOk(stack, t), HeardOk(stack, t), PendingOk(stack, G)
  PROVE  UsedOk(Enter(stack), t) /\ HeardOk(Enter(stack), t) /\ PendingOk(Enter(stack), G)
<1> DEFINE new == Enter(stack)
<1>1. /\ new \in Stacks /\ Len(new) = Len(stack) + 1
      /\ \A k \in DOMAIN stack : new[k] = stack[k]
      /\ \A n \in Names : new[Len(stack) + 1][n] = Nothing
      /\ Len(stack) \in Nat /\ DOMAIN stack = 1 .. Len(stack) /\ DOMAIN new = 1 .. Len(stack) + 1
  BY EnterFacts, StackFacts
<1> HIDE DEF new
<1>2. \A k \in DOMAIN new, x \in Names : new[k][x] # Nothing => k \in DOMAIN stack /\ new[k] = stack[k]
  BY <1>1
<1>3. \A k \in DOMAIN stack : k \in DOMAIN new
  BY <1>1
<1>4. UsedOk(new, t)
  <2> SUFFICES ASSUME NEW k \in DOMAIN new, NEW x \in Names, new[k][x] # Nothing
               PROVE  LET e == nodeLine[new[k][x]] IN
                      \/ uses[e] = {} \/ Excused(e)
                      \/ /\ \A j \in DOMAIN new : j > k => new[j][x] = Nothing
                         /\ \E i \in DOMAIN t : Clears(t[i], x)
    BY DEF UsedOk
  <2> DEFINE e == nodeLine[new[k][x]]
  <2>1. k \in DOMAIN stack /\ new[k][x] = stack[k][x] /\ stack[k][x] # Nothing
    BY <1>2
  <2>2. \/ uses[e] = {} \/ Excused(e)
        \/ /\ \A j \in DOMAIN stack : j > k => stack[j][x] = Nothing
           /\ \E i \in DOMAIN t : Clears(t[i], x)
    BY <2>1 DEF UsedOk
  <2>3. ASSUME \A j \in DOMAIN stack : j > k => stack[j][x] = Nothing
        PROVE  \A j \in DOMAIN new : j > k => new[j][x] = Nothing
    BY <1>2, <2>3
  <2> HIDE DEF e
  <2>4. \/ uses[e] = {} \/ Excused(e)
        \/ /\ \A j \in DOMAIN new : j > k => new[j][x] = Nothing
           /\ \E i \in DOMAIN t : Clears(t[i], x)
    BY <2>2, <2>3
  <2> QED
    BY <2>4 DEF e
<1>5. HeardOk(new, t)
  <2>1. \A e : Remembered(stack, e) => Remembered(new, e)
    BY <1>1, <1>3 DEF Remembered
  <2> QED
    BY <2>1 DEF HeardOk
<1>6. PendingOk(new, G)
  BY <1>2 DEF PendingOk
<1> QED
  BY <1>4, <1>5, <1>6 DEF new

LEMMA VisitInside ==
  ASSUME NEW CONSTANT G, Len(G) \in Nat, RuleState(G), Clean(ruleScopes, ruleReported), UNCHANGED programVars, RuleStep,
         Len(ruleScopes) = Len(G), NEW x \in EventPlaces, UsesInside(Head(todo), x),
         Listed(Tail(todo)), Len(Tail(todo)) = 1, Tail(todo)[1] = Exit
  PROVE  RuleState(G)'
<1> DEFINE v == Head(todo)
           old == Enter(ruleScopes)
           new == ruleScopes'
<1>1. /\ todo # <<>> /\ todo' = Tail(todo) /\ ruleScopes \in Stacks
      /\ UsedOk(ruleScopes, todo) /\ HeardOk(ruleScopes, todo) /\ PendingOk(ruleScopes, G)
  BY VisitorIs DEF RuleState, Clean
<1>2. /\ old \in Stacks /\ Len(old) = Len(G) + 1 /\ UsedOk(old, todo) /\ HeardOk(old, todo) /\ PendingOk(old, G)
  BY <1>1, EnterFacts, EnterKeeps
<1>3. v.visit = "ArrowEnter"
  BY DEF UsesInside
<1>4. /\ ~LearnsApp(v) /\ v # ImportsFactory /\ v # ImportsPackage
      /\ \A e : ~Records(v, e)
  BY <1>3, NotTeaches, NotRecords
<1>5. \A y : UsesInside(v, y) => new = Clear(old, y) /\ Rest
  BY UsesInsideEffect
<1>6. \A y \in Names : Clears(v, y) => new = Clear(old, y)
  <2>1. \A y : ~UsesName(v, y)
    BY <1>3 DEF UsesName
  <2> QED
    BY <1>5, <2>1 DEF Clears
<1>7. new = Clear(old, x) /\ Rest /\ Used(x) /\ x \in Names
  BY <1>5, EventPaths DEF UsesInside
<1> HIDE DEF old
<1>8. Thinner(new, old)
  BY <1>2, <1>7, ClearingThins
<1>9. \A k \in DOMAIN old, n \in Names : old[k][n] # Nothing /\ new[k][n] = Nothing => Used(n)
  <2>1. \A k \in DOMAIN old, n \in Names : old[k][n] # Nothing /\ Clear(old, x)[k][n] = Nothing => n = x
    BY <1>2, <1>7, ClearFacts
  <2> QED
    BY <1>7, <2>1
<1>10. NodesOk(todo', G, Len(new))
  <2>1. Len(new) = Len(G) + 1
    BY <1>2, <1>8 DEF Thinner
  <2> QED
    BY <1>1, <2>1, OneExit
<1>11. old = ruleScopes \/ old = Enter(ruleScopes)
  BY DEF old
<1> QED
  BY <1>1, <1>2, <1>4, <1>6, <1>7, <1>8, <1>9, <1>10, <1>11, VisitThin

LEMMA VisitFunction ==
  ASSUME NEW CONSTANT G, Len(G) \in Nat, RuleState(G), Clean(ruleScopes, ruleReported), UNCHANGED programVars, RuleStep,
         Len(ruleScopes) + 1 = Len(G), Head(todo) = [visit |-> "FunctionEnter"], Tail(todo) = <<>>
  PROVE  RuleState(G)'
<1> DEFINE v == Head(todo)
           old == Enter(ruleScopes)
           new == ruleScopes'
<1>1. /\ todo # <<>> /\ todo' = Tail(todo) /\ ruleScopes \in Stacks
      /\ UsedOk(ruleScopes, todo) /\ HeardOk(ruleScopes, todo) /\ PendingOk(ruleScopes, G)
  BY VisitorIs DEF RuleState, Clean
<1>2. /\ old \in Stacks /\ Len(old) = Len(G) /\ UsedOk(old, todo) /\ HeardOk(old, todo) /\ PendingOk(old, G)
  BY <1>1, EnterFacts, EnterKeeps
<1>3. v.visit = "FunctionEnter"
  OBVIOUS
<1>4. /\ ~LearnsApp(v) /\ v # ImportsFactory /\ v # ImportsPackage
      /\ \A e : ~Records(v, e)
  BY <1>3, NotTeaches, NotRecords
<1>5. new = old /\ Rest
  BY <1>3, VisitorIs DEF FunctionEnter, Rest
<1>6. \A y \in Names : Clears(v, y) => new = Clear(old, y)
  BY <1>3 DEF Clears, UsesName, UsesInside
<1> HIDE DEF old
<1>8. Thinner(new, old)
  BY <1>2, <1>5, ThinnerThanItself
<1>9. \A k \in DOMAIN old, n \in Names : old[k][n] # Nothing /\ new[k][n] = Nothing => Used(n)
  BY <1>5
<1>10. NodesOk(todo', G, Len(new))
  BY <1>1, <1>2, <1>5, NoNodes
<1>11. old = ruleScopes \/ old = Enter(ruleScopes)
  BY DEF old
<1> QED
  BY <1>1, <1>2, <1>4, <1>5, <1>6, <1>8, <1>9, <1>10, <1>11, VisitThin

\* Only a use of a name clears it.
LEMMA Useless ==
  ASSUME NEW v, NEW x,
         \/ Passive(v) \/ Teaches(v) \/ \E e : Records(v, e)
         \/ v.visit \in {"Exit", "FunctionEnter"}
  PROVE  ~Clears(v, x)
<1>1. ASSUME UsesInside(v, x) PROVE FALSE
  <2>1. v.visit = "ArrowEnter"
    BY <1>1 DEF UsesInside
  <2>2. ~Passive(v)
    BY <2>1 DEF Passive, Import
  <2>3. ~Teaches(v)
    BY <2>1 DEF Teaches, ImportsApp, ImportsFactory, ImportsPackage, Import
  <2>4. \A e : ~Records(v, e)
    BY <2>1, NotRecords
  <2> QED
    BY <2>1, <2>2, <2>3, <2>4
<1>2. ASSUME UsesName(v, x) PROVE FALSE
  <2>1. /\ x \in EventPlaces
        /\ \/ v.visit = "CallExpression" /\ v.call \in UseOf(x)
           \/ v.visit = "ExpressionStatement" /\ v.expression \in UseOf(x)
           \/ v.visit = "ReturnStatement" /\ v.argument = Name(x)
    BY <1>2 DEF UsesName
  <2>2. ~Teaches(v)
    BY <2>1 DEF Teaches, ImportsApp, ImportsFactory, ImportsPackage, Import
  <2>3. \A e : ~Records(v, e)
    BY <1>2, NotRecords
  <2>4. ~Passive(v)
    <3> SUFFICES ASSUME Passive(v) PROVE FALSE
      OBVIOUS
    <3> DEFINE scope == [EmptyScope EXCEPT ![x] = 1]
               stack == <<scope>>
    <3>1. x \in Names
      BY <2>1, EventPaths
    <3>2. scope \in [Names -> Nat] /\ scope[x] = 1 /\ \A n \in Names : n # x => scope[n] = Nothing
      BY <3>1 DEF EmptyScope, Nothing
    <3> HIDE DEF scope
    <3>3. stack \in Stacks /\ Len(stack) = 1 /\ stack[1] = scope /\ DOMAIN stack = {1}
      BY <3>2 DEF Stacks
    <3> HIDE DEF stack
    <3>4. OnlyPlaces(stack)
      BY <2>1, <3>2, <3>3 DEF OnlyPlaces
    <3>5. \A f : f \in UseOf(x) /\ Listed(f.links) => ~Mild(f)
      <4> SUFFICES ASSUME NEW f, f \in UseOf(x), Listed(f.links), Mild(f) PROVE FALSE
        OBVIOUS
      <4>1. ConsumeTerminalUse(stack, f) = stack
        BY <3>3, <3>4, MildConsumes
      <4>2. ConsumeTerminalUse(stack, f) = Clear(stack, x)
        BY <2>1, <3>3, UseConsumes
      <4>3. Clear(stack, x)[1][x] = Nothing
        <5>1. \A j \in Holding(stack, x) : j <= 1
          BY <3>3 DEF Holding
        <5> QED
          BY <3>1, <3>3, <5>1, ClearFacts
      <4>4. Clear(stack, x) = stack
        BY <4>1, <4>2
      <4>5. stack[1][x] = Nothing
        BY <4>3, <4>4
      <4> QED
        BY <3>2, <3>3, <4>5 DEF Nothing
    <3>6. CASE v.visit = "CallExpression"
      <4>1. v.call \in UseOf(x)
        BY <2>1, <3>6
      <4>2. Listed(v.call.links) /\ Mild(v.call)
        BY <3>6 DEF Passive, Import
      <4> QED
        BY <3>5, <4>1, <4>2
    <3>7. CASE v.visit = "ExpressionStatement"
      <4>1. v.expression \in UseOf(x)
        BY <2>1, <3>7
      <4>2. Listed(v.expression.links) /\ Mild(v.expression)
        BY <3>7 DEF Passive, Import
      <4> QED
        BY <3>5, <4>1, <4>2
    <3>8. CASE v.visit = "ReturnStatement"
      <4>1. GetQualifiedName(v.argument) \notin EventPlaces
        BY <3>8 DEF Passive, Import
      <4>2. GetQualifiedName(v.argument) = x
        BY <2>1, <3>8, EventPaths, NameIs
      <4> QED
        BY <2>1, <4>1, <4>2
    <3> QED
      BY <2>1, <3>6, <3>7, <3>8
  <2> QED
    BY <2>1, <2>2, <2>3, <2>4
<1> QED
  BY <1>1, <1>2 DEF Clears

LEMMA PassiveNodes ==
  ASSUME NEW CONSTANT G, Listed(todo'), AllPassive(todo)', Len(ruleScopes') = Len(G)
  PROVE  NodesOk(todo, G, Len(ruleScopes))'
<1>1. DOMAIN todo' = 1 .. Len(todo')
  BY ListedFacts
<1>2. \A i \in 1 .. Len(todo') : Passive(todo[i])'
  BY <1>1 DEF AllPassive
<1>3. \A i \in 1 .. Len(todo') : Mere(todo[i])'
  BY <1>2 DEF Mere
<1> QED
  BY <1>3 DEF NodesOk, Listed

LEMMA VisitTeach ==
  ASSUME NEW CONSTANT G, Len(G) \in Nat, RuleState(G), Clean(ruleScopes, ruleReported), UNCHANGED programVars, RuleStep,
         Len(ruleScopes) = Len(G), Teaches(Head(todo)), AllPassive(Tail(todo))
  PROVE  RuleState(G)'
<1> DEFINE v == Head(todo)
           old == ruleScopes
<1>1. /\ todo # <<>> /\ todo' = Tail(todo) /\ old \in Stacks /\ Listed(todo)
      /\ UsedOk(old, todo) /\ HeardOk(old, todo) /\ PendingOk(old, G) /\ KnownOk /\ RecordsOk
  BY VisitorIs DEF RuleState, Clean, NodesOk
<1>2. /\ ruleScopes' = old /\ SameReports /\ Grows /\ KnownOk'
      /\ LearnsApp(v) => App \in knownLoggers'
      /\ v = ImportsFactory => Factory \in knownFactories'
      /\ v = ImportsPackage => <<"otel", "BaseLogger">> \in knownClasses'
  BY <1>1, TeachesEffect
<1>3. UNCHANGED <<births, uses, frames, nodeLine, ruleReported>>
  BY <1>2 DEF SameReports, programVars
<1>4. Thinner(old, old) /\ \A k \in DOMAIN old, x \in Names : ~(old[k][x] # Nothing /\ old[k][x] = Nothing)
  BY <1>1, ThinnerThanItself
<1>5. (\A x \in Names : ~Clears(v, x)) /\ (\A e : ~Records(v, e))
  BY Useless, NotRecords
<1>6. UsedOk(old, todo')
  BY <1>1, <1>4, <1>5, UsedThin
<1>7. HeardOk(old, todo')
  BY <1>1, <1>4, <1>5, HeardThin
<1>8. LearntOk'
  BY <1>1, <1>2, LearntKept DEF RuleState
<1>9. UsedOk(ruleScopes, todo)' /\ PendingOk(ruleScopes, G)'
  BY <1>1, <1>2, <1>3, <1>6, PrimeUsed, PrimePending
<1>10. HeardOk(ruleScopes, todo)'
  <2>1. /\ Events' = Events /\ (\A e : Handed(e)' <=> Handed(e)) /\ births' = births
        /\ \A e : Remembered(old, e) => Remembered(ruleScopes, e)'
    BY <1>2, <1>3 DEF Events, Lines, Handed, Remembered, RuleMixesUp
  <2>2. \A i \in DOMAIN todo' : \A e : Records(todo'[i], e) => Records(todo[i], e)'
    BY <1>2, <1>3 DEF Records, Grows, Written, Lines
  <2> QED
    BY <1>7, <2>1, <2>2 DEF HeardOk
<1>11. RecordsOk' /\ AccusedOk' /\ EndedOk(G)'
  BY <1>3, PrimeReports DEF RuleState
<1>12. NodesOk(todo, G, Len(ruleScopes))'
  <2>1. Listed(todo')
    BY <1>1, TailFacts
  <2>2. AllPassive(todo)'
    BY <1>1 DEF AllPassive, Passive
  <2> QED
    BY <1>2, <2>1, <2>2, PassiveNodes
<1> QED
  BY <1>2, <1>8, <1>9, <1>10, <1>11, <1>12 DEF RuleState

-----------------------------------------------------------------------------
(* A line that builds an event adds one node at most. *)

LEMMA NodeAdded ==
  ASSUME NEW CONSTANT G, RecordsOk, AccusedOk, EndedOk(G), ruleReported \in Reports, UNCHANGED programVars,
         NEW e \in Nat, e \in Lines, uses[e] = {}, births[e].chain \in Heard \cup {"foreign"},
         births[e].chain = "foreign" => LoggerLine,
         NEW r \in {0, 1}, nodeLine' = Append(nodeLine, e), ruleReported' = Append(ruleReported, r),
         \/ births[e].form = "stmt" /\ births[e].place = <<>>
         \/ births[e].form \in Binding /\ r = 0
  PROVE  /\ \A m \in DOMAIN nodeLine :
              m \in DOMAIN nodeLine' /\ nodeLine'[m] = nodeLine[m] /\ ruleReported'[m] = ruleReported[m]
         /\ Len(ruleReported) + 1 \in DOMAIN nodeLine'
         /\ nodeLine'[Len(ruleReported) + 1] = e /\ ruleReported'[Len(ruleReported) + 1] = r
         /\ RecordsOk' /\ AccusedOk' /\ EndedOk(G)'
<1> DEFINE l == Len(ruleReported)
           nodes == nodeLine'
           reports == ruleReported'
<1>1. /\ nodeLine \in Seq(Nat) /\ Len(nodeLine) = l /\ l \in Nat /\ ruleReported \in Seq({0, 1})
      /\ DOMAIN nodeLine = 1 .. l
  BY DEF RecordsOk, Reports
<1>2. /\ nodes \in Seq(Nat) /\ Len(nodes) = l + 1 /\ (\A m \in 1 .. l : nodes[m] = nodeLine[m]) /\ nodes[l + 1] = e
  BY <1>1, OneMore
<1>3. /\ Len(reports) = l + 1 /\ (\A m \in 1 .. l : reports[m] = ruleReported[m]) /\ reports[l + 1] = r
  BY <1>1, OneMore
<1>4. DOMAIN nodes = 1 .. l + 1 /\ \A m \in DOMAIN nodes : m \in DOMAIN nodeLine \/ m = l + 1
  BY <1>1, <1>2
<1> HIDE DEF nodes, reports, l
<1>5. /\ births' = births /\ uses' = uses
      /\ Lines' = Lines /\ (LoggerLine' <=> LoggerLine) /\ \A f : Excused(f)' <=> Excused(f)
  BY DEF programVars, Lines, LoggerLine, Excused, RuleHides
<1>6. \A m \in DOMAIN nodeLine : m \in DOMAIN nodes /\ nodes[m] = nodeLine[m] /\ reports[m] = ruleReported[m]
  BY <1>1, <1>2, <1>3, <1>4
<1>7. l + 1 \in DOMAIN nodes
  BY <1>1, <1>4
<1>8. births[e].form = "stmt" => births[e].form \notin Binding
  BY DEF Binding
<1>9. RecordsOk'
  <2>1. ASSUME NEW m \in DOMAIN nodes
        PROVE  LET f == nodes[m] IN
               /\ f \in Lines' /\ births'[f].chain \in Heard \cup {"foreign"} /\ births'[f].form \in {"stmt"} \cup Binding
               /\ births'[f].chain = "foreign" => LoggerLine'
               /\ births'[f].form = "stmt" => births'[f].place = <<>>
    <3>1. CASE m \in DOMAIN nodeLine
      BY <1>5, <1>6, <3>1 DEF RecordsOk
    <3>2. CASE m = l + 1
      BY <1>2, <1>5, <1>8, <3>2
    <3> QED
      BY <1>4, <3>1, <3>2
  <2> QED
    BY <1>2, <1>3, <2>1 DEF RecordsOk, nodes, reports
<1>10. AccusedOk'
  <2>1. ASSUME NEW m \in DOMAIN nodes, reports[m] # 0 PROVE uses[nodes[m]] = {} \/ Excused(nodes[m])
    <3>1. CASE m \in DOMAIN nodeLine
      <4>1. uses[nodeLine[m]] = {} \/ Excused(nodeLine[m])
        BY <1>6, <2>1, <3>1 DEF AccusedOk
      <4>2. nodes[m] = nodeLine[m]
        BY <1>6, <3>1
      <4> QED
        BY <4>1, <4>2
    <3>2. CASE m = l + 1
      BY <1>2, <3>2
    <3> QED
      BY <1>4, <3>1, <3>2
  <2>2. AccusedOk' <=> \A m \in DOMAIN nodes : reports[m] # 0 => uses[nodes[m]] = {} \/ Excused(nodes[m])
    BY <1>5 DEF AccusedOk, nodes, reports, Excused, RuleHides
  <2> QED
    BY <2>1, <2>2
<1>11. EndedOk(G)'
  <2>1. ASSUME NEW m \in DOMAIN nodes, reports[m] # 0, births'[nodes[m]].form \in Binding
        PROVE  \A i \in DOMAIN G : births'[nodes[m]].fun # G[i]
    <3>1. CASE m \in DOMAIN nodeLine
      BY <1>5, <1>6, <2>1, <3>1 DEF EndedOk
    <3>2. CASE m = l + 1
      BY <1>2, <1>3, <1>5, <1>8, <2>1, <3>2
    <3> QED
      BY <1>4, <3>1, <3>2
  <2> QED
    BY <2>1 DEF EndedOk, nodes, reports
<1> QED
  BY <1>2, <1>3, <1>6, <1>7, <1>9, <1>10, <1>11 DEF nodes, reports, l

LEMMA MarkFacts ==
  ASSUME NEW stack \in Stacks, stack # <<>>, NEW x \in Names, NEW m \in Nat
  PROVE  /\ DOMAIN Mark(stack, x, m) = DOMAIN stack
         /\ Len(stack) \in DOMAIN stack /\ Mark(stack, x, m)[Len(stack)][x] = m
         /\ \A k \in DOMAIN stack, n \in Names :
              k # Len(stack) \/ n # x => Mark(stack, x, m)[k][n] = stack[k][n]
<1>1. /\ Len(stack) \in Nat /\ DOMAIN stack = 1 .. Len(stack)
      /\ \A k \in DOMAIN stack : stack[k] \in [Names -> Nat]
  BY StackFacts
<1>2. Len(stack) \in DOMAIN stack
  <2>1. Len(stack) # 0
    BY DEF Stacks
  <2> QED
    BY <1>1, <2>1
<1>3. Mark(stack, x, m) = [stack EXCEPT ![Len(stack)] = [stack[Len(stack)] EXCEPT ![x] = m]]
  BY DEF Mark
<1> QED
  BY <1>1, <1>2, <1>3

LEMMA VisitNothing ==
  ASSUME NEW CONSTANT G, RuleState(G), Clean(ruleScopes, ruleReported), UNCHANGED programVars, Rest,
         todo # <<>>, todo' = Tail(todo), ruleScopes' = ruleScopes,
         NodesOk(Tail(todo), G, Len(ruleScopes)), Records(Head(todo), Written), births[Written].chain \notin Heard
  PROVE  RuleState(G)'
<1> DEFINE v == Head(todo)
           old == ruleScopes
<1>1. /\ old \in Stacks /\ UsedOk(old, todo) /\ HeardOk(old, todo) /\ PendingOk(old, G)
  BY DEF RuleState, Clean
<1>2. /\ ~LearnsApp(v) /\ v # ImportsFactory /\ v # ImportsPackage
  BY NotTeaches
<1>3. \A x : ~Clears(v, x)
  BY Useless
<1>4. \A e : Records(v, e) => births[e].chain \notin Heard
  BY DEF Records
<1>5. Thinner(old, old)
  BY <1>1, ThinnerThanItself
<1>6. NodesOk(todo', G, Len(ruleScopes'))
  OBVIOUS
<1> QED
  BY <1>1, <1>2, <1>3, <1>4, <1>5, <1>6, VisitThin

\* What is known of what it learns and has left to visit, after a line that
\* builds an event.
LEMMA RecordLeaves ==
  ASSUME NEW CONSTANT G, RuleState(G), UNCHANGED programVars, SameKnown,
         todo # <<>>, todo' = Tail(todo), Len(ruleScopes') = Len(G),
         \E e : Records(Head(todo), e), AllPassive(Tail(todo))
  PROVE  KnownOk' /\ LearntOk' /\ NodesOk(todo, G, Len(ruleScopes))'
<1>1. Listed(todo) /\ Listed(todo')
  BY TailFacts DEF RuleState, NodesOk
<1>2. /\ ~LearnsApp(Head(todo)) /\ Head(todo) # ImportsFactory /\ Head(todo) # ImportsPackage
  BY NotTeaches
<1>3. KnownOk'
  BY PrimeKnown DEF RuleState, SameKnown, programVars
<1>4. LearntOk'
  BY <1>1, <1>2, LearntKept DEF RuleState, SameKnown, Grows
<1>5. AllPassive(todo)'
  BY DEF AllPassive, Passive
<1> QED
  BY <1>1, <1>3, <1>4, <1>5, PassiveNodes

\* Nothing that is left clears a name, so that nothing used is pending.
LEMMA NoneToClear ==
  ASSUME NEW stack, NEW t, Listed(t), t # <<>>, UsedOk(stack, t),
         \E e : Records(Head(t), e), AllPassive(Tail(t))
  PROVE  \A k \in DOMAIN stack, x \in Names : stack[k][x] # Nothing =>
           uses[nodeLine[stack[k][x]]] = {} \/ Excused(nodeLine[stack[k][x]])
<1>1. /\ DOMAIN t = 1 .. Len(t) /\ DOMAIN Tail(t) = 1 .. Len(Tail(t)) /\ Head(t) = t[1] /\ Len(Tail(t)) = Len(t) - 1
      /\ \A i \in 1 .. Len(t) - 1 : Tail(t)[i] = t[i + 1]
      /\ Len(t) \in Nat
  BY TailFacts, ListedFacts
<1>2. \A x : ~Clears(Head(t), x)
  BY Useless
<1>3. ASSUME NEW i \in DOMAIN t, NEW x PROVE ~Clears(t[i], x)
  <2>1. CASE i = 1
    BY <1>1, <1>2, <2>1
  <2>2. CASE i # 1
    <3>1. i - 1 \in DOMAIN Tail(t) /\ Tail(t)[i - 1] = t[i]
      BY <1>1, <2>2
    <3>2. Passive(Tail(t)[i - 1])
      BY <3>1 DEF AllPassive
    <3>3. ~Clears(Tail(t)[i - 1], x)
      BY <3>2, Useless
    <3> QED
      BY <3>1, <3>3
  <2> QED
    BY <2>1, <2>2
<1> QED
  BY <1>3 DEF UsedOk

\* What the stack remembers is not disturbed by a new node.
LEMMA StillRemembered ==
  ASSUME NEW e, UNCHANGED programVars,
         \A m \in DOMAIN nodeLine :
           m \in DOMAIN nodeLine' /\ nodeLine'[m] = nodeLine[m] /\ ruleReported'[m] = ruleReported[m],
         NEW m \in DOMAIN nodeLine, nodeLine[m] = e,
         \/ ruleReported[m] # 0
         \/ \E k \in DOMAIN ruleScopes', x \in Names : ruleScopes'[k][x] = m
         \/ uses[e] # {} \/ RuleMixesUp(e)
  PROVE  Remembered(ruleScopes, e)'
<1>1. RuleMixesUp(e)' <=> RuleMixesUp(e)
  BY DEF RuleMixesUp, Lines, programVars
<1>2. uses' = uses
  BY DEF programVars
<1>3. m \in DOMAIN nodeLine' /\ nodeLine'[m] = e /\ ruleReported'[m] = ruleReported[m]
  OBVIOUS
<1> QED
  BY <1>1, <1>2, <1>3 DEF Remembered

\* Every event but the new one is remembered as before, if its node is.
LEMMA HeardStays ==
  ASSUME UNCHANGED programVars, SameKnown, NEW e, Records(Head(todo), e),
         Listed(todo), todo # <<>>, todo' = Tail(todo), HeardOk(ruleScopes, todo),
         Remembered(ruleScopes, e)',
         \A f \in Events : f # e /\ Remembered(ruleScopes, f) => Remembered(ruleScopes, f)'
  PROVE  HeardOk(ruleScopes, todo)'
<1>1. /\ DOMAIN todo = 1 .. Len(todo) /\ DOMAIN todo' = 1 .. Len(todo') /\ Head(todo) = todo[1]
      /\ \A i \in 1 .. Len(todo) - 1 : todo'[i] = todo[i + 1]
      /\ Len(todo) \in Nat /\ Len(todo') = Len(todo) - 1
  BY TailFacts, ListedFacts
<1>2. /\ births' = births /\ Events' = Events /\ \A f : Handed(f)' <=> Handed(f)
  BY DEF programVars, Events, Lines, Handed
<1>3. \A i \in DOMAIN todo' : \A f : Records(todo'[i], f) => Records(todo[i], f)'
  BY DEF Records, SameKnown, Written, Lines, programVars
<1>4. ASSUME NEW f \in Events, births[f].chain \in Heard /\ ~Handed(f), f # e
      PROVE  (\E i \in DOMAIN todo' : Records(todo[i], f)') \/ Remembered(ruleScopes, f)'
  <2>1. CASE Remembered(ruleScopes, f)
    BY <1>4, <2>1
  <2>2. CASE \E i \in DOMAIN todo : Records(todo[i], f)
    <3>1. PICK i \in DOMAIN todo : Records(todo[i], f)
      BY <2>2
    <3>2. i # 1
      BY <1>1, <1>4, <3>1 DEF Records
    <3>3. i - 1 \in DOMAIN todo' /\ todo'[i - 1] = todo[i]
      BY <1>1, <3>2
    <3> QED
      BY <1>3, <3>1, <3>3
  <2> QED
    BY <1>4, <2>1, <2>2 DEF HeardOk
<1> QED
  BY <1>2, <1>4 DEF HeardOk

\* A chain that is dropped is reported there and then.
LEMMA VisitReport ==
  ASSUME NEW CONSTANT G, RuleState(G), Clean(ruleScopes, ruleReported), UNCHANGED programVars, SameKnown,
         todo # <<>>, todo' = Tail(todo), ruleScopes' = ruleScopes, Len(ruleScopes) = Len(G),
         NEW e \in Nat, e \in Lines, Records(Head(todo), e), uses[e] = {}, AllPassive(Tail(todo)),
         births[e].chain \in Heard \cup {"foreign"}, births[e].chain = "foreign" => LoggerLine,
         births[e].form = "stmt", births[e].place = <<>>,
         nodeLine' = Append(nodeLine, e), ruleReported' = Append(ruleReported, 1)
  PROVE  RuleState(G)'
<1>1. KnownOk' /\ LearntOk' /\ NodesOk(todo, G, Len(ruleScopes))'
  BY RecordLeaves
<1>2. /\ RecordsOk /\ AccusedOk /\ EndedOk(G) /\ ruleReported \in Reports /\ ruleScopes \in Stacks
      /\ UsedOk(ruleScopes, todo) /\ HeardOk(ruleScopes, todo) /\ PendingOk(ruleScopes, G) /\ Listed(todo)
      /\ Known(ruleScopes, ruleReported)
  BY DEF RuleState, Clean, NodesOk
<1>3. /\ \A m \in DOMAIN nodeLine :
           m \in DOMAIN nodeLine' /\ nodeLine'[m] = nodeLine[m] /\ ruleReported'[m] = ruleReported[m]
      /\ Len(ruleReported) + 1 \in DOMAIN nodeLine'
      /\ nodeLine'[Len(ruleReported) + 1] = e /\ ruleReported'[Len(ruleReported) + 1] = 1
      /\ RecordsOk' /\ AccusedOk' /\ EndedOk(G)'
  <2>1. 1 \in {0, 1}
    OBVIOUS
  <2> QED
    BY <1>2, <2>1, NodeAdded
<1>4. DOMAIN ruleReported = DOMAIN nodeLine
  BY <1>2 DEF RecordsOk, Reports
<1>5. ASSUME NEW k \in DOMAIN ruleScopes, NEW x \in Names, ruleScopes[k][x] # Nothing
      PROVE  nodeLine'[ruleScopes[k][x]] = nodeLine[ruleScopes[k][x]]
  BY <1>2, <1>3, <1>4, <1>5 DEF Known
<1>6. UsedOk(ruleScopes, todo)'
  <2>1. \A k \in DOMAIN ruleScopes, x \in Names : ruleScopes[k][x] # Nothing =>
          uses[nodeLine[ruleScopes[k][x]]] = {} \/ Excused(nodeLine[ruleScopes[k][x]])
    BY <1>2, NoneToClear
  <2>2. /\ uses' = uses /\ \A f : Excused(f)' <=> Excused(f)
    BY DEF programVars, Excused, RuleHides, Lines
  <2>3. \A k \in DOMAIN ruleScopes, x \in Names : ruleScopes[k][x] # Nothing =>
          uses'[nodeLine'[ruleScopes[k][x]]] = {} \/ Excused(nodeLine[ruleScopes[k][x]])'
    <3> SUFFICES ASSUME NEW k \in DOMAIN ruleScopes, NEW x \in Names, ruleScopes[k][x] # Nothing
                 PROVE  uses'[nodeLine'[ruleScopes[k][x]]] = {} \/ Excused(nodeLine[ruleScopes[k][x]])'
      OBVIOUS
    <3>1. nodeLine'[ruleScopes[k][x]] = nodeLine[ruleScopes[k][x]]
      BY <1>5
    <3>2. uses[nodeLine[ruleScopes[k][x]]] = {} \/ Excused(nodeLine[ruleScopes[k][x]])
      BY <2>1
    <3>3. (nodeLine[ruleScopes[k][x]])' = nodeLine[ruleScopes[k][x]]
      BY <3>1
    <3> QED
      BY <2>2, <3>1, <3>2, <3>3 DEF Excused, RuleHides, programVars, Lines
  <2> QED
    BY <2>3 DEF UsedOk
<1>7. HeardOk(ruleScopes, todo)'
  <2>1. Remembered(ruleScopes, e)'
    BY <1>3 DEF Remembered
  <2>2. ASSUME NEW f \in Events, f # e, Remembered(ruleScopes, f) PROVE Remembered(ruleScopes, f)'
    <3>1. PICK m \in DOMAIN nodeLine :
            /\ nodeLine[m] = f
            /\ \/ ruleReported[m] # 0
               \/ \E k \in DOMAIN ruleScopes, x \in Names : ruleScopes[k][x] = m
               \/ uses[f] # {} \/ RuleMixesUp(f)
      BY <2>2 DEF Remembered
    <3>2. \/ ruleReported[m] # 0
          \/ \E k \in DOMAIN ruleScopes', x \in Names : ruleScopes'[k][x] = m
          \/ uses[f] # {} \/ RuleMixesUp(f)
      BY <3>1
    <3>3. UNCHANGED programVars /\ m \in DOMAIN nodeLine /\ nodeLine[m] = f
      BY <3>1
    <3> QED
      BY ONLY <1>3, <3>2, <3>3, StillRemembered
  <2> QED
    BY <1>2, <2>1, <2>2, HeardStays
<1>8. PendingOk(ruleScopes, G)'
  <2>1. births' = births
    BY DEF programVars
  <2>2. ASSUME NEW k \in DOMAIN ruleScopes', NEW x \in Names, ruleScopes'[k][x] # Nothing
        PROVE  LET f == nodeLine'[ruleScopes'[k][x]] IN
               /\ x \in EventPlaces /\ births'[f].place = x /\ births'[f].form \in Binding
               /\ k <= Len(G) => births'[f].fun = G[k]
               /\ k < Len(G) => f < G[k + 1]
               /\ k > Len(G) => \A i \in DOMAIN G : births'[f].fun # G[i]
    <3>1. k \in DOMAIN ruleScopes /\ ruleScopes[k][x] # Nothing
      BY <2>2
    <3>2. nodeLine'[ruleScopes'[k][x]] = nodeLine[ruleScopes[k][x]]
      BY <1>5, <3>1
    <3> DEFINE f == nodeLine[ruleScopes[k][x]]
    <3>3. /\ x \in EventPlaces /\ births[f].place = x /\ births[f].form \in Binding
          /\ k <= Len(G) => births[f].fun = G[k]
          /\ k < Len(G) => f < G[k + 1]
          /\ k > Len(G) => \A i \in DOMAIN G : births[f].fun # G[i]
      BY <1>2, <3>1 DEF PendingOk
    <3> QED
      BY <2>1, <3>2, <3>3
  <2> QED
    BY <2>2 DEF PendingOk
<1> QED
  BY <1>1, <1>3, <1>6, <1>7, <1>8 DEF RuleState

\* A chain that is bound is pending in the function it stands in, in the place
\* of the event that was pending there under the name.
LEMMA VisitMark ==
  ASSUME NEW CONSTANT G, RuleState(G), Clean(ruleScopes, ruleReported), UNCHANGED programVars, SameKnown,
         todo # <<>>, todo' = Tail(todo), Len(ruleScopes) = Len(G), Len(G) \in Nat, Len(G) > 0,
         NEW e \in Nat, e \in Lines, \A f \in Lines : f <= e /\ f \in Nat,
         Records(Head(todo), e), uses[e] = {}, AllPassive(Tail(todo)),
         births[e].chain \in Heard \cup {"foreign"}, births[e].chain = "foreign" => LoggerLine,
         births[e].form \in Binding, births[e].place \in EventPlaces, births[e].fun = G[Len(G)],
         nodeLine' = Append(nodeLine, e), ruleReported' = Append(ruleReported, 0),
         ruleScopes' = Mark(ruleScopes, births[e].place, Len(ruleReported) + 1)
  PROVE  RuleState(G)'
<1> DEFINE old == ruleScopes
           new == ruleScopes'
           y == births[e].place
           n == Len(G)
           l == Len(ruleReported) + 1
<1>1. /\ RecordsOk /\ AccusedOk /\ EndedOk(G) /\ ruleReported \in Reports /\ old \in Stacks
      /\ UsedOk(old, todo) /\ HeardOk(old, todo) /\ PendingOk(old, G) /\ Listed(todo)
      /\ Known(old, ruleReported)
  BY DEF RuleState, Clean, NodesOk
<1>2. /\ \A m \in DOMAIN nodeLine :
           m \in DOMAIN nodeLine' /\ nodeLine'[m] = nodeLine[m] /\ ruleReported'[m] = ruleReported[m]
      /\ l \in DOMAIN nodeLine' /\ nodeLine'[l] = e /\ ruleReported'[l] = 0
      /\ RecordsOk' /\ AccusedOk' /\ EndedOk(G)'
  <2>1. 0 \in {0, 1}
    OBVIOUS
  <2> QED
    BY <1>1, <2>1, NodeAdded
<1>3. DOMAIN ruleReported = DOMAIN nodeLine /\ l \in Nat
  BY <1>1 DEF RecordsOk, Reports
<1>4. y \in Names /\ y # <<>>
  BY EventPaths, NoName0
<1>5. /\ Len(old) = n /\ old # <<>>
  <2>1. Len(old) # 0
    OBVIOUS
  <2> QED
    BY <2>1
<1>6. /\ DOMAIN new = DOMAIN old /\ n \in DOMAIN old /\ new[n][y] = l
      /\ \A k \in DOMAIN old, x \in Names : k # n \/ x # y => new[k][x] = old[k][x]
      /\ DOMAIN old = 1 .. n
  BY <1>1, <1>3, <1>4, <1>5, MarkFacts, StackFacts
<1>7. /\ births' = births /\ uses' = uses
      /\ \A f : Excused(f)' <=> Excused(f)
      /\ \A f : RuleMixesUp(f)' <=> RuleMixesUp(f)
  BY DEF programVars, Excused, RuleHides, RuleMixesUp, Lines
<1>8. KnownOk' /\ LearntOk' /\ NodesOk(todo, G, Len(ruleScopes))'
  <2>1. Len(ruleScopes') = Len(G)
    <3>1. Len(Mark(old, y, l)) = Len(old)
      BY <1>1 DEF Mark, Stacks
    <3> QED
      BY <1>5, <3>1
  <2> QED
    BY <2>1, RecordLeaves
  \* What is pending now is the new node, or was before.
<1>9. ASSUME NEW k \in DOMAIN new, NEW x \in Names, new[k][x] # Nothing
      PROVE  \/ k = n /\ x = y /\ nodeLine'[new[k][x]] = e
             \/ /\ k \in DOMAIN old /\ old[k][x] = new[k][x] /\ old[k][x] # Nothing
                /\ nodeLine'[new[k][x]] = nodeLine[old[k][x]]
  <2>1. CASE k = n /\ x = y
    BY <1>2, <1>6, <2>1
  <2>2. CASE ~(k = n /\ x = y)
    <3>1. k \in DOMAIN old /\ old[k][x] = new[k][x] /\ old[k][x] # Nothing
      BY <1>6, <1>9, <2>2
    <3>2. old[k][x] \in DOMAIN nodeLine
      BY <1>1, <1>3, <3>1 DEF Known
    <3> QED
      BY <1>2, <3>1, <3>2
  <2> QED
    BY <2>1, <2>2
<1>10. UsedOk(ruleScopes, todo)'
  <2>1. \A k \in DOMAIN old, x \in Names : old[k][x] # Nothing =>
          uses[nodeLine[old[k][x]]] = {} \/ Excused(nodeLine[old[k][x]])
    BY <1>1, NoneToClear
  <2>2. ASSUME NEW k \in DOMAIN new, NEW x \in Names, new[k][x] # Nothing
        PROVE  uses[nodeLine'[new[k][x]]] = {} \/ Excused(nodeLine'[new[k][x]])
    <3>1. CASE nodeLine'[new[k][x]] = e
      BY <3>1
    <3>2. CASE /\ k \in DOMAIN old /\ old[k][x] # Nothing
               /\ nodeLine'[new[k][x]] = nodeLine[old[k][x]]
      BY <2>1, <3>2
    <3> QED
      BY <1>9, <2>2, <3>1, <3>2
  <2>3. \A f : (uses[f] = {} \/ Excused(f)) => (uses[f] = {} \/ Excused(f))'
    BY <1>7
  <2>4. \A k \in DOMAIN new, x \in Names : new[k][x] # Nothing =>
          (uses[nodeLine[ruleScopes[k][x]]] = {} \/ Excused(nodeLine[ruleScopes[k][x]]))'
    BY <1>7, <2>2 DEF Excused, RuleHides, Lines
  <2> QED
    BY <2>4 DEF UsedOk
<1>11. PendingOk(ruleScopes, G)'
  <2>1. ASSUME NEW k \in DOMAIN new, NEW x \in Names, new[k][x] # Nothing
        PROVE  LET f == nodeLine'[new[k][x]] IN
               /\ x \in EventPlaces /\ births'[f].place = x /\ births'[f].form \in Binding
               /\ k <= Len(G) => births'[f].fun = G[k]
               /\ k < Len(G) => f < G[k + 1]
               /\ k > Len(G) => \A i \in DOMAIN G : births'[f].fun # G[i]
    <3>1. CASE k = n /\ x = y /\ nodeLine'[new[k][x]] = e
      <4>1. ~(k < Len(G)) /\ ~(k > Len(G))
        BY <3>1
      <4> QED
        BY <1>7, <3>1, <4>1
    <3>2. CASE /\ k \in DOMAIN old /\ old[k][x] = new[k][x] /\ old[k][x] # Nothing
               /\ nodeLine'[new[k][x]] = nodeLine[old[k][x]]
      <4> DEFINE f == nodeLine[old[k][x]]
      <4>1. /\ x \in EventPlaces /\ births[f].place = x /\ births[f].form \in Binding
            /\ k <= Len(G) => births[f].fun = G[k]
            /\ k < Len(G) => f < G[k + 1]
            /\ k > Len(G) => \A i \in DOMAIN G : births[f].fun # G[i]
        <5>1. PendingOk(old, G) /\ k \in DOMAIN old /\ old[k][x] # Nothing
          BY <1>1, <3>2
        <5> HIDE DEF old
        <5> QED
          BY <5>1 DEF PendingOk
      <4> QED
        BY <1>7, <3>2, <4>1
    <3> QED
      BY <1>9, <2>1, <3>1, <3>2
  <2> QED
    BY <2>1 DEF PendingOk
<1>12. HeardOk(ruleScopes, todo)'
  <2>1. Remembered(ruleScopes, e)'
    <3>1. \E k \in DOMAIN new, x \in Names : new[k][x] = l
      BY <1>4, <1>6
    <3> QED
      BY <1>2, <3>1 DEF Remembered
  <2>2. ASSUME NEW f \in Events, f # e, Remembered(ruleScopes, f) PROVE Remembered(ruleScopes, f)'
    <3>1. PICK m \in DOMAIN nodeLine :
            /\ nodeLine[m] = f
            /\ \/ ruleReported[m] # 0
               \/ \E k \in DOMAIN old, x \in Names : old[k][x] = m
               \/ uses[f] # {} \/ RuleMixesUp(f)
      BY <2>2 DEF Remembered
    <3>2. ASSUME NEW k \in DOMAIN old, NEW x \in Names, old[k][x] = m
          PROVE  RuleMixesUp(f) \/ \E j \in DOMAIN new, z \in Names : new[j][z] = m
      <4>1. CASE k = n /\ x = y
        <5>1. old[k][x] # Nothing
          <6>1. nodeLine \in Seq(Nat)
            BY <1>1 DEF RecordsOk
          <6> QED
            BY <3>2, <6>1 DEF Nothing
        <5>2. births[f].place = x /\ births[f].fun = G[n]
          BY <1>1, <3>1, <3>2, <4>1, <5>1 DEF PendingOk
        <5>3. f \in Lines /\ e \in Lines \ {f} /\ e > f
          <6>1. f \in Lines
            BY <2>2 DEF Events
          <6>2. f <= e /\ f \in Nat
            BY <6>1
          <6>3. f # e
            BY <2>2
          <6> QED
            BY <6>1, <6>2, <6>3
        <5> QED
          BY <1>4, <4>1, <5>2, <5>3 DEF RuleMixesUp
      <4>2. CASE ~(k = n /\ x = y)
        BY <1>6, <3>2, <4>2
      <4> QED
        BY <4>1, <4>2
    <3>3. \/ ruleReported[m] # 0
          \/ \E k \in DOMAIN ruleScopes', x \in Names : ruleScopes'[k][x] = m
          \/ uses[f] # {} \/ RuleMixesUp(f)
      BY <3>1, <3>2
    <3>4. UNCHANGED programVars /\ m \in DOMAIN nodeLine /\ nodeLine[m] = f
      BY <3>1
    <3> QED
      BY ONLY <1>2, <3>3, <3>4, StillRemembered
  <2> QED
    BY <1>1, <2>1, <2>2, HeardStays
<1> QED
  BY <1>2, <1>8, <1>10, <1>11, <1>12 DEF RuleState

LEMMA VisitRecords ==
  ASSUME NEW CONSTANT G, RuleState(G), ProgramInv, Clean(ruleScopes, ruleReported), UNCHANGED programVars, RuleStep,
         Len(ruleScopes) = Len(G), Len(G) \in Nat, Len(G) > 0, births[Written].fun = G[Len(G)],
         Records(Head(todo), Written), NodesOk(Tail(todo), G, Len(ruleScopes)), AllPassive(Tail(todo))
  PROVE  RuleState(G)'
<1> DEFINE e == Written
<1>1. /\ todo # <<>> /\ todo' = Tail(todo) /\ KnownOk /\ ruleScopes \in Stacks /\ OnlyPlaces(ruleScopes)
  BY VisitorIs DEF RuleState, Clean, PendingOk, OnlyPlaces
<1>2. /\ e \in Nat /\ e \in Lines /\ uses[e] = {} /\ \A f \in Lines : f <= e /\ f \in Nat
  <2>1. e \in Lines /\ uses[e] = {}
    BY DEF Records
  <2>2. Len(births) \in Nat /\ DOMAIN births = 1 .. Len(births)
    <3>1. births \in Seq(BirthRecords)
      BY DEF ProgramInv, BirthsOk
    <3> QED
      BY ONLY <3>1
  <2> QED
    BY <2>1, <2>2 DEF Lines, Written
<1>3. Records(Head(todo), e)
  OBVIOUS
<1> HIDE DEF e
<1>4. /\ SameKnown
      /\ \/ /\ births[e].chain \in Heard \cup {"foreign"} /\ (births[e].chain = "foreign" => LoggerLine)
            /\ nodeLine' = Append(nodeLine, e)
            /\ \/ /\ births[e].form = "stmt" /\ births[e].place = <<>>
                  /\ ruleReported' = Append(ruleReported, 1) /\ ruleScopes' = ruleScopes
               \/ /\ births[e].form \in Binding /\ births[e].place \in EventPlaces
                  /\ ruleReported' = Append(ruleReported, 0)
                  /\ ruleScopes' = Mark(ruleScopes, births[e].place, Len(ruleReported) + 1)
         \/ births[e].chain \notin Heard /\ ruleScopes' = ruleScopes /\ SameReports
  BY <1>1, <1>3, RecordsEffect
<1>5. CASE /\ births[e].chain \in Heard \cup {"foreign"} /\ (births[e].chain = "foreign" => LoggerLine)
           /\ nodeLine' = Append(nodeLine, e)
           /\ births[e].form = "stmt" /\ births[e].place = <<>>
           /\ ruleReported' = Append(ruleReported, 1) /\ ruleScopes' = ruleScopes
  BY <1>1, <1>2, <1>3, <1>4, <1>5, VisitReport
<1>6. CASE /\ births[e].chain \in Heard \cup {"foreign"} /\ (births[e].chain = "foreign" => LoggerLine)
           /\ nodeLine' = Append(nodeLine, e)
           /\ births[e].form \in Binding /\ births[e].place \in EventPlaces
           /\ ruleReported' = Append(ruleReported, 0)
           /\ ruleScopes' = Mark(ruleScopes, births[e].place, Len(ruleReported) + 1)
  <2>1. births[e].fun = G[Len(G)]
    BY DEF e
  <2> QED
    BY <1>1, <1>2, <1>3, <1>4, <1>6, <2>1, VisitMark
<1>7. CASE births[e].chain \notin Heard /\ ruleScopes' = ruleScopes /\ SameReports
  <2>1. births[Written].chain \notin Heard /\ Rest
    BY <1>4, <1>7 DEF e, Rest
  <2> QED
    BY <1>1, <1>7, <2>1, VisitNothing
<1> QED
  BY <1>4, <1>5, <1>6, <1>7

-----------------------------------------------------------------------------
(* The end of a function reports what is pending in it. *)

LEMMA TimesOne ==
  ASSUME NEW stack, NEW reports, Clean(stack, reports), NEW k \in DOMAIN stack, NEW x \in Names,
         stack[k][x] # Nothing
  PROVE  Times(stack[k], stack[k][x]) = 1
<1>1. \A n \in Names : stack[k][n] = stack[k][x] => n = x
  BY DEF Clean, Apart
<1>2. {n \in Names : stack[k][n] = stack[k][x]} = {x}
  BY <1>1
<1>3. Cardinality({x}) = 1
  BY FS_Singleton
<1> QED
  BY <1>2, <1>3 DEF Times

LEMMA FlushFacts ==
  ASSUME NEW stack, NEW reports, Clean(stack, reports), NEW k \in DOMAIN stack, Len(reports) \in Nat
  PROVE  /\ DOMAIN Flush(reports, stack[k], {}) = DOMAIN reports
         /\ Len(Flush(reports, stack[k], {})) = Len(reports)
         /\ \A m \in DOMAIN reports :
              /\ Flush(reports, stack[k], {})[m] # 0 => reports[m] # 0 \/ \E x \in Names : stack[k][x] = m
              /\ reports[m] # 0 => Flush(reports, stack[k], {})[m] # 0
         /\ \A x \in Names : stack[k][x] # Nothing =>
              stack[k][x] \in DOMAIN reports /\ Flush(reports, stack[k], {})[stack[k][x]] # 0
<1> DEFINE new == Flush(reports, stack[k], {})
<1>1. reports \in Seq({0, 1}) /\ DOMAIN reports = 1 .. Len(reports)
  BY DEF Clean, Reports
<1>2. new = [m \in DOMAIN reports |-> reports[m] + Times(stack[k], m)]
  BY DEF Flush
<1> HIDE DEF new
<1>3. DOMAIN new = DOMAIN reports /\ \A m \in DOMAIN reports : new[m] = reports[m] + Times(stack[k], m)
  BY <1>2
<1>4. Len(new) = Len(reports)
  BY <1>1, <1>3
<1>5. ASSUME NEW m \in DOMAIN reports
      PROVE  /\ new[m] # 0 => reports[m] # 0 \/ \E x \in Names : stack[k][x] = m
             /\ reports[m] # 0 => new[m] # 0
  <2>1. /\ Times(stack[k], m) \in {0, 1}
        /\ (\A x \in Names : stack[k][x] # m) => Times(stack[k], m) = 0
    BY TimesOnce
  <2>2. reports[m] \in {0, 1}
    BY <1>1
  <2> QED
    BY <1>3, <2>1, <2>2
<1>6. ASSUME NEW x \in Names, stack[k][x] # Nothing
      PROVE  stack[k][x] \in DOMAIN reports /\ new[stack[k][x]] # 0
  <2>1. stack[k][x] \in DOMAIN reports
    BY <1>6 DEF Clean, Known
  <2>2. Times(stack[k], stack[k][x]) = 1
    BY <1>6, TimesOne
  <2>3. reports[stack[k][x]] \in {0, 1}
    BY <1>1, <2>1
  <2> QED
    BY <1>3, <2>1, <2>2, <2>3
<1> QED
  BY <1>3, <1>4, <1>5, <1>6 DEF new

LEMMA VisitExit ==
  ASSUME NEW CONSTANT G, Len(G) \in Nat, RuleState(G), Clean(ruleScopes, ruleReported), UNCHANGED programVars, RuleStep,
         Len(ruleScopes) = Len(G) + 1, Head(todo) = Exit, Tail(todo) = <<>>
  PROVE  RuleState(G)'
<1> DEFINE old == ruleScopes
           new == ruleScopes'
           n == Len(G) + 1
<1>1. /\ todo # <<>> /\ todo' = <<>> /\ old \in Stacks /\ Listed(todo) /\ ScopeExit
      /\ UsedOk(old, todo) /\ HeardOk(old, todo) /\ PendingOk(old, G) /\ RecordsOk /\ ruleReported \in Reports
  <2>1. Head(todo).visit = "Exit"
    BY DEF Exit
  <2> QED
    BY <2>1, VisitorIs DEF RuleState, Clean, NodesOk
<1>2. DOMAIN old = 1 .. n /\ n \in Nat /\ n \in DOMAIN old /\ old # <<>>
  <2>1. DOMAIN old = 1 .. n
    BY <1>1, StackFacts
  <2>2. Len(old) # 0
    OBVIOUS
  <2> QED
    BY <2>1, <2>2
<1>3. /\ SameKnown /\ nodeLine' = nodeLine
      /\ new = SubSeq(old, 1, n - 1) /\ ruleReported' = Flush(ruleReported, old[n], {})
  BY <1>1, <1>2 DEF ScopeExit
<1>4. /\ DOMAIN new = 1 .. Len(G) /\ Len(new) = Len(G)
      /\ \A k \in 1 .. Len(G) : k \in DOMAIN old /\ new[k] = old[k]
  <2>1. old \in Seq([Names -> Nat])
    BY <1>1 DEF Stacks
  <2> QED
    BY <1>2, <1>3, <2>1
<1>5. /\ Len(ruleReported) \in Nat /\ DOMAIN ruleReported = 1 .. Len(ruleReported)
      /\ DOMAIN nodeLine = DOMAIN ruleReported /\ Len(nodeLine) = Len(ruleReported)
  BY <1>1 DEF RecordsOk, Reports
<1>6. /\ DOMAIN ruleReported' = DOMAIN ruleReported /\ Len(ruleReported') = Len(ruleReported)
      /\ \A m \in DOMAIN ruleReported :
           /\ ruleReported'[m] # 0 => ruleReported[m] # 0 \/ \E x \in Names : old[n][x] = m
           /\ ruleReported[m] # 0 => ruleReported'[m] # 0
      /\ \A x \in Names : old[n][x] # Nothing =>
           old[n][x] \in DOMAIN ruleReported /\ ruleReported'[old[n][x]] # 0
  BY <1>2, <1>3, <1>5, FlushFacts
<1>7. DOMAIN todo = {1} /\ todo[1] = Exit
  <2>1. Len(todo) - 1 = 0 /\ Len(todo) \in Nat /\ Head(todo) = todo[1]
    <3>1. Len(Tail(todo)) = Len(todo) - 1 /\ Len(todo) \in Nat /\ Head(todo) = todo[1]
      BY <1>1, TailFacts
    <3> QED
      BY <3>1
  <2>2. DOMAIN todo = 1 .. Len(todo)
    BY <1>1, ListedFacts
  <2> QED
    BY <2>1, <2>2
<1>8. \A i \in DOMAIN todo : (\A x : ~Clears(todo[i], x)) /\ \A e : ~Records(todo[i], e)
  <2>1. Exit.visit = "Exit"
    BY DEF Exit
  <2> QED
    BY <1>7, <2>1, Useless, NotRecords
<1>9. \A k \in DOMAIN old, x \in Names : old[k][x] # Nothing =>
        uses[nodeLine[old[k][x]]] = {} \/ Excused(nodeLine[old[k][x]])
  BY <1>1, <1>8 DEF UsedOk
<1>10. /\ births' = births /\ uses' = uses /\ frames' = frames
       /\ UNCHANGED <<knownLoggers, knownFactories, knownClasses>>
  BY <1>3 DEF programVars, SameKnown
<1>11. KnownOk' /\ LearntOk' /\ NodesOk(todo, G, Len(ruleScopes))'
  <2>1. KnownOk'
    BY <1>10, PrimeKnown DEF RuleState
  <2>2. /\ ~LearnsApp(Head(todo)) /\ Head(todo) # ImportsFactory /\ Head(todo) # ImportsPackage
    <3>1. Head(todo).visit = "Exit"
      BY DEF Exit
    <3> QED
      BY <3>1, NotTeaches
  <2>3. LearntOk'
    BY <1>1, <1>10, <2>2, LearntKept DEF RuleState, Grows
  <2>4. NodesOk(todo', G, Len(ruleScopes'))
    BY <1>1, <1>4, NoNodes
  <2> QED
    BY <1>10, <2>1, <2>3, <2>4, PrimeNodes
<1>12. UsedOk(ruleScopes, todo)' /\ PendingOk(ruleScopes, G)'
  <2>1. UsedOk(new, todo')
    BY <1>4, <1>9 DEF UsedOk
  <2>2. PendingOk(new, G)
    BY <1>1, <1>4 DEF PendingOk
  <2> QED
    BY <1>3, <1>10, <2>1, <2>2, PrimeUsed, PrimePending
<1>13. RecordsOk'
  <2>1. LoggerLine' <=> LoggerLine
    BY <1>10 DEF LoggerLine, Lines
  <2> QED
    BY <1>1, <1>3, <1>5, <1>6, <1>10, <2>1 DEF RecordsOk, Lines
<1>14. AccusedOk'
  <2>1. ASSUME NEW m \in DOMAIN nodeLine, ruleReported'[m] # 0
        PROVE  uses[nodeLine[m]] = {} \/ Excused(nodeLine[m])
    <3>1. CASE ruleReported[m] # 0
      BY <3>1 DEF RuleState, AccusedOk
    <3>2. CASE \E x \in Names : old[n][x] = m
      <4>1. PICK x \in Names : old[n][x] = m
        BY <3>2
      <4>2. m # Nothing
        BY <1>5 DEF Nothing
      <4> QED
        BY <1>2, <1>9, <4>1, <4>2
    <3> QED
      BY <1>5, <1>6, <2>1, <3>1, <3>2
  <2> QED
    BY <1>3, <1>10, <2>1 DEF AccusedOk, Excused, RuleHides, Lines
<1>15. EndedOk(G)'
  <2>1. ASSUME NEW m \in DOMAIN nodeLine, ruleReported'[m] # 0, births[nodeLine[m]].form \in Binding
        PROVE  \A i \in DOMAIN G : births[nodeLine[m]].fun # G[i]
    <3>1. CASE ruleReported[m] # 0
      BY <2>1, <3>1 DEF RuleState, EndedOk
    <3>2. CASE \E x \in Names : old[n][x] = m
      <4>1. PICK x \in Names : old[n][x] = m
        BY <3>2
      <4>2. m # Nothing
        BY <1>5 DEF Nothing
      <4>3. n > Len(G)
        OBVIOUS
      <4> QED
        BY <1>1, <1>2, <4>1, <4>2, <4>3 DEF PendingOk
    <3> QED
      BY <1>5, <1>6, <2>1, <3>1, <3>2
  <2> QED
    BY <1>3, <1>10, <2>1 DEF EndedOk
<1>16. HeardOk(ruleScopes, todo)'
  <2>1. ASSUME NEW f, Remembered(old, f) PROVE Remembered(ruleScopes, f)'
    <3>1. PICK m \in DOMAIN nodeLine :
            /\ nodeLine[m] = f
            /\ \/ ruleReported[m] # 0
               \/ \E k \in DOMAIN old, x \in Names : old[k][x] = m
               \/ uses[f] # {} \/ RuleMixesUp(f)
      BY <2>1 DEF Remembered
    <3>2. ASSUME NEW k \in DOMAIN old, NEW x \in Names, old[k][x] = m
          PROVE  ruleReported'[m] # 0 \/ \E j \in DOMAIN new, z \in Names : new[j][z] = m
      <4>1. m # Nothing
        BY <1>5 DEF Nothing
      <4>2. CASE k = n
        BY <1>6, <3>2, <4>1, <4>2
      <4>3. CASE k # n
        <5>1. k \in 1 .. Len(G)
          BY <1>2, <4>3
        <5> QED
          BY <1>4, <3>2, <5>1
      <4> QED
        BY <4>2, <4>3
    <3>3. \/ ruleReported'[m] # 0
          \/ \E j \in DOMAIN new, z \in Names : new[j][z] = m
          \/ uses[f] # {} \/ RuleMixesUp(f)
      BY <1>5, <1>6, <3>1, <3>2
    <3>4. m \in DOMAIN nodeLine' /\ nodeLine'[m] = f
      BY <1>3, <3>1
    <3> QED
      BY <1>10, <3>3, <3>4 DEF Remembered, RuleMixesUp, Lines
  <2>2. /\ Events' = Events /\ \A f : Handed(f)' <=> Handed(f)
    BY <1>10 DEF Events, Lines, Handed
  <2>3. \A f \in Events : births[f].chain \in Heard /\ ~Handed(f) => Remembered(old, f)
    BY <1>1, <1>8 DEF HeardOk
  <2> QED
    BY <1>10, <2>1, <2>2, <2>3 DEF HeardOk
<1> QED
  BY <1>11, <1>12, <1>13, <1>14, <1>15, <1>16 DEF RuleState

\* Every visit keeps all of it.
LEMMA VisitKeeps ==
  ASSUME NEW CONSTANT G, Len(G) \in Nat, RuleState(G), ProgramInv, Clean(ruleScopes, ruleReported),
         UNCHANGED programVars, RuleStep
  PROVE  RuleState(G)'
<1> DEFINE v == Head(todo)
           level == Len(ruleScopes)
<1>1. todo # <<>> /\ NodesOk(todo, G, level)
  BY VisitorIs DEF RuleState
<1>2. CASE Mere(v) /\ NodesOk(Tail(todo), G, level)
  BY <1>2, VisitMere
<1>3. CASE /\ level = Len(G) /\ Len(G) > 0 /\ births[Written].fun = G[Len(G)]
           /\ Records(v, Written) /\ NodesOk(Tail(todo), G, level) /\ AllPassive(Tail(todo))
  BY <1>3, VisitRecords
<1>4. CASE level = Len(G) /\ Teaches(v) /\ NodesOk(Tail(todo), G, level) /\ AllPassive(Tail(todo))
  BY <1>4, VisitTeach
<1>5. CASE level = Len(G) + 1 /\ v = Exit /\ Tail(todo) = <<>>
  BY <1>5, VisitExit
<1>6. CASE /\ level = Len(G) /\ (\E x \in EventPlaces : UsesInside(v, x))
           /\ Listed(Tail(todo)) /\ Len(Tail(todo)) = 1 /\ Tail(todo)[1] = Exit
  BY <1>6, VisitInside
<1>7. CASE level + 1 = Len(G) /\ v = [visit |-> "FunctionEnter"] /\ Tail(todo) = <<>>
  BY <1>7, VisitFunction
<1> QED
  BY <1>1, <1>2, <1>3, <1>4, <1>5, <1>6, <1>7, NodesHead

-----------------------------------------------------------------------------
(***************************************************************************)
(* The file that is written: the blocks and functions that are open.       *)
(***************************************************************************)
LEMMA FramesFacts ==
  ASSUME FramesOk
  PROVE  /\ Len(frames) \in Nat \ {0} /\ DOMAIN frames = 1 .. Len(frames)
         /\ 1 \in DOMAIN frames /\ Len(frames) \in DOMAIN frames
         /\ \A d \in DOMAIN frames :
              /\ frames[d] \in FrameRecords /\ frames[d].id \in Nat /\ frames[d].fun \in BOOLEAN
              /\ \A p \in Places : frames[d].holds[p] \in Int
<1>1. frames \in Seq(FrameRecords) /\ frames # <<>>
  BY DEF FramesOk
<1>2. /\ Len(frames) \in Nat \ {0} /\ DOMAIN frames = 1 .. Len(frames)
      /\ \A d \in DOMAIN frames : frames[d] \in FrameRecords
  BY ONLY <1>1
<1>3. \A r \in FrameRecords : r.id \in Nat /\ r.fun \in BOOLEAN /\ \A p \in Places : r.holds[p] \in Int
  BY DEF FrameRecords
<1> QED
  BY <1>2, <1>3

LEMMA BirthsFacts ==
  ASSUME BirthsOk
  PROVE  /\ Written \in Nat /\ Lines = 1 .. Written
         /\ \A e \in Lines :
              /\ births[e] \in BirthRecords /\ births[e].place \in {<<>>} \cup EventPlaces
              /\ births[e].fun \in Nat /\ births[e].keep[1] \in Nat /\ births[e].keep[2] \in Nat
<1>1. births \in Seq(BirthRecords)
  BY DEF BirthsOk
<1>2. /\ Len(births) \in Nat /\ DOMAIN births = 1 .. Len(births)
      /\ \A e \in DOMAIN births : births[e] \in BirthRecords
  BY ONLY <1>1
<1>3. \A r \in BirthRecords : /\ r.place \in {<<>>} \cup EventPlaces
                              /\ r.fun \in Nat /\ r.keep \in Nat \X Nat
  BY DEF BirthRecords
<1>4. \A k \in Nat \X Nat : k[1] \in Nat /\ k[2] \in Nat
  OBVIOUS
<1>5. \A r \in BirthRecords : r.keep[1] \in Nat /\ r.keep[2] \in Nat
  BY <1>3, <1>4
<1> QED
  BY <1>2, <1>3, <1>5 DEF Written, Lines

LEMMA HighestIs ==
  ASSUME NEW n \in Nat, NEW S \in SUBSET (1 .. n), S # {}
  PROVE  /\ (CHOOSE k \in S : \A j \in S : j <= k) \in S
         /\ \A j \in S : j <= (CHOOSE k \in S : \A i \in S : i <= k)
<1>1. \E k \in S : \A j \in S : j <= k
  BY HighestOf
<1> QED
  BY <1>1

LEMMA FunctionAtIs ==
  ASSUME FramesOk, NEW d \in DOMAIN frames
  PROVE  /\ \E k \in 1 .. d : frames[k].fun /\ frames[k].id = FunctionAt(d) /\ \A j \in 1 .. d : frames[j].fun => j <= k
         /\ FunctionAt(d) \in Nat
<1> DEFINE S == {k \in 1 .. d : frames[k].fun}
<1>1. d \in Nat /\ 1 \in S /\ S \in SUBSET (1 .. d) /\ S \subseteq DOMAIN frames
  BY FramesFacts DEF FramesOk
<1>2. FunctionAt(d) = frames[CHOOSE k \in S : \A j \in S : j <= k].id
  BY DEF FunctionAt
<1>3. \E k \in S : FunctionAt(d) = frames[k].id /\ \A j \in S : j <= k
  <2> HIDE DEF S
  <2>1. S # {}
    BY <1>1
  <2> QED
    BY <1>1, <1>2, <2>1, HighestIs
<1>4. FunctionAt(d) \in Nat
  BY <1>1, <1>3, FramesFacts
<1> QED
  BY <1>3, <1>4

LEMMA DepthIs ==
  ASSUME FramesOk, NEW p
  PROVE  /\ Depth(p) # 0 => /\ Depth(p) \in DOMAIN frames /\ frames[Depth(p)].holds[p] # Undeclared
                            /\ Value(p) = frames[Depth(p)].holds[p]
         /\ Depth(p) \in Nat
         /\ Depth(p) = 0 => Value(p) = Empty
         /\ \A d \in DOMAIN frames : frames[d].holds[p] # Undeclared => Depth(p) # 0 /\ d <= Depth(p)
<1> DEFINE S == {k \in DOMAIN frames : frames[k].holds[p] # Undeclared}
<1>1. /\ Len(frames) \in Nat /\ S \in SUBSET (1 .. Len(frames))
  BY FramesFacts
<1>2. Depth(p) = IF S = {} THEN 0 ELSE CHOOSE k \in S : \A j \in S : j <= k
  BY DEF Depth
<1>3. Value(p) = IF Depth(p) = 0 THEN Empty ELSE frames[Depth(p)].holds[p]
  BY DEF Value
<1>4. S = {} \/ (Depth(p) \in S /\ \A j \in S : j <= Depth(p))
  <2> HIDE DEF S
  <2> QED
    BY <1>1, <1>2, HighestIs
<1>5. CASE S = {}
  BY <1>2, <1>3, <1>5
<1>6. CASE Depth(p) \in S /\ \A j \in S : j <= Depth(p)
  <2>1. Depth(p) \in 1 .. Len(frames)
    BY <1>1, <1>6
  <2>2. Depth(p) # 0 /\ Depth(p) \in Nat
    BY <2>1
  <2> QED
    BY <1>3, <1>6, <2>2
<1> QED
  BY <1>4, <1>5, <1>6

\* What is held under the name of a logger, of a factory or of a package is no event.
LEMMA HeldNames ==
  ASSUME FramesOk, BirthsOk, HoldsOk, NEW d \in DOMAIN frames, NEW p \in {App, Factory, Package},
         frames[d].holds[p] # Undeclared
  PROVE  /\ frames[d].holds[p] \in {Empty, Foreign}
         /\ p = Package => frames[d].holds[p] = Empty
<1>1. p \in Places /\ p \notin {<<>>} \cup EventPlaces
  BY PlacesAssumption DEF EventPlaces, App, Factory, Package
<1>2. /\ frames[d].holds[p] \in {Undeclared, Empty, Foreign} \cup Lines
      /\ frames[d].holds[p] = Foreign => p \in {App, Factory}
      /\ frames[d].holds[p] > Empty => births[frames[d].holds[p]].place = p
  BY <1>1 DEF HoldsOk
<1>3. frames[d].holds[p] \notin Lines
  <2> SUFFICES ASSUME frames[d].holds[p] \in Lines PROVE FALSE
    OBVIOUS
  <2>1. frames[d].holds[p] > Empty
    BY BirthsFacts DEF Empty
  <2>2. births[frames[d].holds[p]].place \in {<<>>} \cup EventPlaces
    BY BirthsFacts
  <2> QED
    BY <1>1, <1>2, <2>1, <2>2
<1>4. Package \notin {App, Factory}
  BY DEF Package, App, Factory
<1> QED
  BY <1>2, <1>3, <1>4

\* The innermost open function is the last one.
LEMMA InnermostOpen ==
  ASSUME FramesOk, NEW F, OpenFunctions(F)
  PROVE  /\ Len(F) \in Nat \ {0} /\ DOMAIN F = 1 .. Len(F) /\ (\A k \in DOMAIN F : F[k] \in Nat)
         /\ F[Len(F)] = FunctionAt(Len(frames))
         /\ \A k \in DOMAIN F : F[k] <= frames[Len(frames)].id
<1> DEFINE n == Len(F)
           l == Len(frames)
<1>1. F \in Seq(Nat)
  BY DEF OpenFunctions
<1>2. n \in Nat /\ DOMAIN F = 1 .. n /\ \A k \in DOMAIN F : F[k] \in Nat
  BY ONLY <1>1
<1>3. \E k \in DOMAIN F : F[k] = frames[1].id
  BY FramesFacts DEF FramesOk, OpenFunctions
<1>4. n \in Nat \ {0} /\ n \in DOMAIN F
  BY <1>2, <1>3
<1>5. /\ l \in Nat /\ DOMAIN frames = 1 .. l /\ l \in DOMAIN frames
      /\ \A d \in DOMAIN frames : frames[d].id \in Nat
  BY FramesFacts
<1>6. PICK k \in 1 .. l : /\ frames[k].fun /\ frames[k].id = FunctionAt(l)
                          /\ \A j \in 1 .. l : frames[j].fun => j <= k
  BY <1>5, FunctionAtIs
<1>7. \A i, j \in DOMAIN frames : i <= j => frames[i].id <= frames[j].id
  BY <1>5 DEF FramesOk
<1>8. \A i \in DOMAIN F : F[i] <= frames[k].id
  <2> TAKE i \in DOMAIN F
  <2>1. PICK d \in DOMAIN frames : frames[d].fun /\ frames[d].id = F[i]
    BY DEF OpenFunctions
  <2> QED
    BY <1>5, <1>6, <1>7, <2>1
<1>9. PICK i \in DOMAIN F : F[i] = frames[k].id
  BY <1>5, <1>6 DEF OpenFunctions
<1>10. i = n
  <2> SUFFICES ASSUME i # n PROVE FALSE
    OBVIOUS
  <2>1. i < n
    BY <1>2, <1>4
  <2>2. F[i] < F[n]
    BY <1>4, <2>1 DEF OpenFunctions
  <2>3. F[n] <= F[i]
    BY <1>4, <1>8, <1>9
  <2> QED
    BY <1>2, <1>4, <2>2, <2>3
<1>11. \A j \in DOMAIN F : F[j] <= frames[l].id
  <2>1. frames[k].id <= frames[l].id
    BY <1>5, <1>6, <1>7
  <2> QED
    BY <1>2, <1>5, <1>6, <1>8, <2>1
<1> QED
  BY <1>2, <1>4, <1>6, <1>9, <1>10, <1>11

-----------------------------------------------------------------------------
(***************************************************************************)
(* What each kind of statement does to the file.                           *)
(***************************************************************************)
Drops(s) == s.op = "build" /\ s.chain \in Chains /\ s.form \in {"stmt", "arg", "return", "tail"} /\ s.place = <<>>
Keeps(s) == s.op = "build" /\ s.chain \in Chains /\ s.form \in Binding /\ s.place \in EventPlaces
Imports(s) ==
  /\ s.op = "import" /\ s.chain = NoChain
  /\ \/ s.form = "default" /\ s.place = App
     \/ s.form \in {"named", "foreign"} /\ s.place = Factory
     \/ s.form = "namespace" /\ s.place = Package
DeclaresIt(s) == s.op = "bind" /\ s.chain = NoChain /\ s.form = "declare" /\ s.place \in EventPlaces
MakesLogger(s) == s.op = "bind" /\ s.chain = NoChain /\ s.form \in Loggers /\ s.place = App
Sends(s) ==
  /\ s.op \in {"send", "pass"} /\ s.chain = NoChain /\ s.place \in EventPlaces
  /\ s.form \in {"call", "give", "piped", "argument", "arrow", "return of", "tail of"}
Begins(s) == s.op = "open" /\ s.chain = NoChain /\ s.form \in {"block", "function"} /\ s.place = <<>>
Shuts(s) == s.op = "close" /\ s.chain = NoChain /\ s.form = "close" /\ s.place = <<>>

LEMMA StatementIs ==
  ASSUME NEW s \in Statements
  PROVE  Drops(s) \/ Keeps(s) \/ Imports(s) \/ DeclaresIt(s) \/ MakesLogger(s) \/ Sends(s) \/ Begins(s) \/ Shuts(s)
<1>1. \/ s \in [op : {"import"}, chain : {NoChain}, place : {App}, form : {"default"}]
      \/ s \in [op : {"import"}, chain : {NoChain}, place : {Factory}, form : {"named", "foreign"}]
      \/ s \in [op : {"import"}, chain : {NoChain}, place : {Package}, form : {"namespace"}]
      \/ s \in [op : {"build"}, chain : Chains, place : {<<>>}, form : {"stmt", "arg", "return", "tail"}]
      \/ s \in [op : {"build"}, chain : Chains, place : EventPlaces, form : {"let", "typed", "assign"}]
      \/ s \in [op : {"bind"}, chain : {NoChain}, place : EventPlaces, form : {"declare"}]
      \/ s \in [op : {"bind"}, chain : {NoChain}, place : {App}, form : Loggers]
      \/ s \in [op : {"send"}, chain : {NoChain}, place : EventPlaces, form : {"call", "give", "piped"}]
      \/ s \in [op : {"pass"}, chain : {NoChain}, place : EventPlaces, form : {"argument", "arrow", "return of", "tail of"}]
      \/ s \in [op : {"open"}, chain : {NoChain}, place : {<<>>}, form : {"block", "function"}]
      \/ s = Simple("close")
  BY DEF Statements
<1>2. CASE s \in [op : {"import"}, chain : {NoChain}, place : {App}, form : {"default"}]
  BY ONLY <1>2 DEF Imports
<1>3. CASE s \in [op : {"import"}, chain : {NoChain}, place : {Factory}, form : {"named", "foreign"}]
  BY ONLY <1>3 DEF Imports
<1>4. CASE s \in [op : {"import"}, chain : {NoChain}, place : {Package}, form : {"namespace"}]
  BY ONLY <1>4 DEF Imports
<1>5. CASE s \in [op : {"build"}, chain : Chains, place : {<<>>}, form : {"stmt", "arg", "return", "tail"}]
  BY ONLY <1>5 DEF Drops
<1>6. CASE s \in [op : {"build"}, chain : Chains, place : EventPlaces, form : {"let", "typed", "assign"}]
  BY ONLY <1>6 DEF Keeps, Binding
<1>7. CASE s \in [op : {"bind"}, chain : {NoChain}, place : EventPlaces, form : {"declare"}]
  BY ONLY <1>7 DEF DeclaresIt
<1>8. CASE s \in [op : {"bind"}, chain : {NoChain}, place : {App}, form : Loggers]
  BY ONLY <1>8 DEF MakesLogger
<1>9. CASE s \in [op : {"send"}, chain : {NoChain}, place : EventPlaces, form : {"call", "give", "piped"}]
  BY ONLY <1>9 DEF Sends
<1>10. CASE s \in [op : {"pass"}, chain : {NoChain}, place : EventPlaces, form : {"argument", "arrow", "return of", "tail of"}]
  BY ONLY <1>10 DEF Sends
<1>11. CASE s \in [op : {"open"}, chain : {NoChain}, place : {<<>>}, form : {"block", "function"}]
  BY ONLY <1>11 DEF Begins
<1>12. CASE s = Simple("close")
  BY ONLY <1>12 DEF Simple, Statement, Shuts
<1> QED
  BY ONLY <1>1, <1>2, <1>3, <1>4, <1>5, <1>6, <1>7, <1>8, <1>9, <1>10, <1>11, <1>12

\* The new line is added to the others, and one of them may have been used.
LEMMA LineAdded ==
  ASSUME FramesOk, BirthsOk, HoldsOk, NEW s \in Statements, Extend(s)
  PROVE  /\ Written' = Written + 1 /\ Lines' = 1 .. Written + 1 /\ Lines \subseteq Lines' /\ Written + 1 \in Lines'
         /\ births' = Append(births, Birth(s))
         /\ \A e \in Lines : births'[e] = births[e]
         /\ births'[Written + 1] = Birth(s)
         /\ DOMAIN uses' = 1 .. Written + 1
         /\ uses'[Written + 1] = {}
         /\ \A e \in Lines : uses'[e] = uses[e] \/ (Uses(s) /\ e = Value(s.place) /\ uses'[e] = uses[e] \cup {s.form})
         /\ Uses(s) => /\ Value(s.place) \in Lines /\ births[Value(s.place)].place = s.place
                       /\ s.form \in uses'[Value(s.place)]
<1>1. Written \in Nat /\ Lines = 1 .. Written
  BY BirthsFacts
<1>2. births' = Append(births, Birth(s)) /\ births \in Seq(BirthRecords)
  BY DEF Extend, BirthsOk
<1>3. /\ Len(births') = Written + 1 /\ DOMAIN births' = 1 .. Written + 1
      /\ \A e \in 1 .. Written : births'[e] = births[e]
      /\ births'[Written + 1] = Birth(s)
  <2> DEFINE S == BirthRecords \cup {Birth(s)}
  <2>1. births \in Seq(S) /\ Birth(s) \in S /\ Len(births) = Written
    <3>1. BirthRecords \subseteq S /\ Birth(s) \in S
      OBVIOUS
    <3> HIDE DEF S
    <3>2. births \in Seq(S)
      BY ONLY <1>2, <3>1
    <3> QED
      BY <3>1, <3>2 DEF Written
  <2> HIDE DEF S
  <2>2. /\ births' \in Seq(S) /\ Len(births') = Written + 1
        /\ (\A e \in 1 .. Written : births'[e] = births[e]) /\ births'[Written + 1] = Birth(s)
    BY <1>2, <2>1, OneMore
  <2>3. DOMAIN births' = 1 .. Len(births')
    BY ONLY <2>2
  <2> QED
    BY <2>2, <2>3
<1>4. Uses(s) => /\ Value(s.place) \in Lines /\ births[Value(s.place)].place = s.place
  <2> SUFFICES ASSUME Uses(s) PROVE Value(s.place) \in Lines /\ births[Value(s.place)].place = s.place
    OBVIOUS
  <2>1. Value(s.place) > Empty
    BY DEF Extend, Allowed
  <2>2. Depth(s.place) # 0
    BY <2>1, DepthIs DEF Empty
  <2>3. Depth(s.place) \in DOMAIN frames /\ Value(s.place) = frames[Depth(s.place)].holds[s.place]
    BY <2>2, DepthIs
  <2>4. s.place \in Places
    <3>1. Sends(s)
      BY StatementIs DEF Uses, Drops, Keeps, Imports, DeclaresIt, MakesLogger, Begins, Shuts
    <3> QED
      BY <3>1 DEF Sends, EventPlaces
  <2>5. Value(s.place) \in {Undeclared, Empty, Foreign} \cup Lines /\ births[Value(s.place)].place = s.place
    BY <2>1, <2>3, <2>4 DEF HoldsOk
  <2> QED
    BY <2>1, <2>5 DEF Undeclared, Empty, Foreign
<1>5. uses' = [e \in 1 .. Written + 1 |->
                (IF e <= Written THEN uses[e] ELSE {}) \cup
                (IF e = (IF Uses(s) THEN Value(s.place) ELSE Empty) THEN {s.form} ELSE {})]
  BY DEF Extend
<1>6. DOMAIN uses' = 1 .. Written + 1 /\ uses'[Written + 1] = {}
  BY <1>1, <1>4, <1>5 DEF Empty
<1>7. \A e \in Lines : uses'[e] = uses[e] \/ (Uses(s) /\ e = Value(s.place) /\ uses'[e] = uses[e] \cup {s.form})
  <2> TAKE e \in Lines
  <2>1. e \in 1 .. Written + 1 /\ e <= Written /\ e # Empty
    BY <1>1 DEF Empty
  <2>2. uses'[e] = uses[e] \cup (IF e = (IF Uses(s) THEN Value(s.place) ELSE Empty) THEN {s.form} ELSE {})
    BY <1>5, <2>1
  <2>3. CASE Uses(s) /\ e = Value(s.place)
    BY <2>2, <2>3
  <2>4. CASE ~(Uses(s) /\ e = Value(s.place))
    BY <2>1, <2>2, <2>4
  <2> QED
    BY <2>3, <2>4
<1>8. Uses(s) => s.form \in uses'[Value(s.place)]
  BY <1>1, <1>4, <1>5
<1> QED
  BY <1>1, <1>2, <1>3, <1>4, <1>6, <1>7, <1>8 DEF Written, Lines

-----------------------------------------------------------------------------
(* The blocks and functions after it. *)

Adds(s) ==
  frames' = Append(frames, [fun |-> s.form = "function", id |-> Written + 1,
                            holds |-> [p \in Places |-> Undeclared]])
Removes == Len(frames) > 1 /\ frames' = SubSeq(frames, 1, Len(frames) - 1)
Puts(d, p, v) ==
  /\ d \in DOMAIN frames /\ p \in Places /\ v \in {Empty, Foreign, Written + 1}
  /\ frames' = [frames EXCEPT ![d].holds[p] = v]
  /\ \A b \in DOMAIN frames : b > d => frames[b].holds[p] = Undeclared
  /\ v = Foreign => p \in {App, Factory}

LEMMA AfterBegins ==
  ASSUME NEW s, Begins(s), Extend(s) PROVE Adds(s)
<1>1. s.op = "open" /\ s.op # "close" /\ ~Ends(s) /\ ~Declares(s) /\ s.form # "assign"
  BY DEF Begins, Ends, Declares, Loggers
<1>2. frames' = FramesAfter(s)
  BY DEF Extend
<1> QED
  BY ONLY <1>1, <1>2, Zenon DEF FramesAfter, Adds

LEMMA AfterEnds ==
  ASSUME NEW s \in Statements, Shuts(s) \/ Ends(s), Extend(s)
  PROVE  Removes /\ (Ends(s) => frames[Len(frames)].fun)
<1>1. s.op # "open" /\ ~Declares(s) /\ s.form # "assign" /\ (s.op = "close" \/ Ends(s))
  <2>1. s.form \notin {"block", "function", "assign", "let", "typed", "declare"} \cup Loggers
    BY DEF Shuts, Ends, Loggers
  <2>2. (s.op = "open" => s.form \in {"block", "function"}) /\ (s.op = "import" => ~(Shuts(s) \/ Ends(s)))
    BY StatementIs DEF Drops, Keeps, Imports, DeclaresIt, MakesLogger, Sends, Begins, Shuts, Ends
  <2> QED
    BY <2>1, <2>2 DEF Declares, Shuts
<1>2. Len(frames) > 1 /\ (Ends(s) => frames[Len(frames)].fun)
  BY DEF Extend, Allowed, Shuts
<1>3. frames' = FramesAfter(s)
  BY DEF Extend
<1>4. frames' = SubSeq(frames, 1, Len(frames) - 1)
  BY ONLY <1>1, <1>3, Zenon DEF FramesAfter
<1> QED
  BY <1>2, <1>4 DEF Removes

LEMMA AfterOthers ==
  ASSUME NEW s, Drops(s) \/ Sends(s), ~Ends(s), Extend(s) PROVE frames' = frames
<1>1. s.op \notin {"open", "close", "import"} /\ s.form \notin {"let", "typed", "declare", "assign"} \cup Loggers
  BY DEF Drops, Sends, Loggers
<1> QED
  BY <1>1 DEF Extend, FramesAfter, Declares

\* A declaration of a name that is new in the innermost block.
LEMMA AfterDeclares ==
  ASSUME FramesOk, BirthsOk, HoldsOk, NEW s \in Statements, Extend(s), Declares(s)
  PROVE  /\ s.place \in Places /\ frames[Len(frames)].holds[s.place] = Undeclared
         /\ Keeps(s) => Puts(Len(frames), s.place, Written + 1)
         /\ DeclaresIt(s) => Puts(Len(frames), s.place, Empty)
         /\ Imports(s) => /\ Len(frames) = 1
                          /\ Puts(Len(frames), s.place, IF s.form = "foreign" THEN Foreign ELSE Empty)
         /\ MakesLogger(s) => /\ s.form = "factory" => Value(Factory) \in {Empty, Foreign}
                              /\ Puts(Len(frames), App, IF s.form = "factory" THEN Value(Factory) ELSE Empty)
<1> DEFINE l == Len(frames)
           value == CASE s.op = "build" -> Written + 1
                      [] s.form = "foreign" -> Foreign
                      [] s.form = "factory" -> Value(Factory)
                      [] OTHER -> Empty
<1>1. l \in DOMAIN frames /\ l \in Nat /\ \A b \in DOMAIN frames : ~(b > l)
  BY FramesFacts
<1>2. Keeps(s) \/ Imports(s) \/ DeclaresIt(s) \/ MakesLogger(s)
  BY StatementIs DEF Declares, Drops, Sends, Begins, Shuts, Loggers
<1>3. s.op \notin {"open", "close"} /\ ~Ends(s) /\ s.form # "assign"
  BY <1>2 DEF Keeps, Imports, DeclaresIt, MakesLogger, Declares, Ends, Loggers, Binding
<1>4. frames' = [frames EXCEPT ![l].holds[s.place] = value]
  BY <1>3 DEF Extend, FramesAfter
<1>5. frames[l].holds[s.place] = Undeclared /\ (s.op = "import" => l = 1) /\ (s.form = "factory" => Depth(Factory) > 0)
  BY DEF Extend, Allowed
<1>6. s.place \in Places
  BY <1>2, PlacesAssumption DEF Keeps, Imports, DeclaresIt, MakesLogger, EventPlaces
<1>7. ASSUME value \in {Empty, Foreign, Written + 1}, value = Foreign => s.place \in {App, Factory}
      PROVE  Puts(l, s.place, value)
  BY <1>1, <1>4, <1>6, <1>7 DEF Puts
<1>8. Empty # Foreign /\ Written + 1 # Foreign
  BY BirthsFacts DEF Empty, Foreign
<1>9. ASSUME Keeps(s) PROVE Puts(l, s.place, Written + 1)
  <2>1. s.op = "build" /\ s.form # "foreign" /\ s.form # "factory"
    BY <1>9 DEF Keeps, Binding
  <2>2. value = Written + 1
    BY ONLY <2>1, Zenon
  <2> QED
    BY <1>7, <1>8, <2>2
<1>10. ASSUME DeclaresIt(s) PROVE Puts(l, s.place, Empty)
  <2>1. value = Empty
    BY <1>10 DEF DeclaresIt
  <2> QED
    BY <1>7, <1>8, <2>1
<1>11. ASSUME Imports(s) PROVE l = 1 /\ Puts(l, s.place, IF s.form = "foreign" THEN Foreign ELSE Empty)
  <2>1. value = IF s.form = "foreign" THEN Foreign ELSE Empty
    BY <1>11 DEF Imports
  <2>2. s.form = "foreign" => s.place = Factory
    BY <1>11 DEF Imports
  <2>3. s.op = "import"
    BY <1>11 DEF Imports
  <2> HIDE DEF value
  <2> QED
    BY <1>5, <1>7, <1>8, <2>1, <2>2, <2>3
<1>12. ASSUME MakesLogger(s)
       PROVE  /\ s.form = "factory" => Value(Factory) \in {Empty, Foreign}
              /\ Puts(l, App, IF s.form = "factory" THEN Value(Factory) ELSE Empty)
  <2>1. value = IF s.form = "factory" THEN Value(Factory) ELSE Empty
    BY <1>12 DEF MakesLogger, Loggers
  <2>2. s.form = "factory" => Value(Factory) \in {Empty, Foreign}
    <3> SUFFICES ASSUME s.form = "factory" PROVE Value(Factory) \in {Empty, Foreign}
      OBVIOUS
    <3>1. Depth(Factory) # 0
      BY <1>5, DepthIs
    <3>2. Depth(Factory) \in DOMAIN frames /\ frames[Depth(Factory)].holds[Factory] # Undeclared
          /\ Value(Factory) = frames[Depth(Factory)].holds[Factory]
      BY <3>1, DepthIs
    <3> QED
      BY <3>2, HeldNames
  <2>3. s.place = App
    BY <1>12 DEF MakesLogger
  <2> HIDE DEF value
  <2> QED
    BY <1>7, <1>8, <2>1, <2>2, <2>3
<1> QED
  BY <1>5, <1>6, <1>9, <1>10, <1>11, <1>12

\* Where an event is kept: in the variable of that name that is declared last.
LEMMA AfterKeeps ==
  ASSUME FramesOk, BirthsOk, HoldsOk, NEW s \in Statements, Extend(s), Keeps(s)
  PROVE  \E d \in DOMAIN frames :
           /\ Puts(d, s.place, Written + 1)
           /\ Birth(s).keep = <<frames[d].id, FunctionAt(d)>>
<1> DEFINE l == Len(frames)
<1>1. l \in DOMAIN frames
  BY FramesFacts
<1>2. s.op = "build" /\ s.form \in Binding /\ s.place \in Places /\ s.op \notin {"open", "close"} /\ ~Ends(s)
  BY DEF Keeps, Binding, Ends, EventPlaces
<1>3. CASE s.form = "assign"
  <2> DEFINE d == Depth(s.place)
  <2>1. d # 0
    <3>1. d > 0
      BY <1>3 DEF Extend, Allowed
    <3> QED
      BY <3>1
  <2>2. d \in DOMAIN frames /\ \A b \in DOMAIN frames : b > d => frames[b].holds[s.place] = Undeclared
    <3>1. d \in DOMAIN frames /\ d \in Nat /\ \A b \in DOMAIN frames : frames[b].holds[s.place] # Undeclared => b <= d
      BY <2>1, DepthIs
    <3>2. \A b \in DOMAIN frames : b \in Nat
      BY FramesFacts
    <3> QED
      BY <3>1, <3>2
  <2>3. frames' = [frames EXCEPT ![d].holds[s.place] = Written + 1]
    BY <1>2, <1>3 DEF Extend, FramesAfter
  <2>4. Birth(s).keep = <<frames[d].id, FunctionAt(d)>>
    BY <1>2, <1>3 DEF Birth
  <2>5. Written + 1 # Foreign
    BY BirthsFacts DEF Foreign
  <2> QED
    BY <1>2, <2>2, <2>3, <2>4, <2>5 DEF Puts
<1>4. CASE s.form # "assign"
  <2>1. Declares(s)
    BY <1>2, <1>4 DEF Declares, Binding
  <2>2. Puts(l, s.place, Written + 1)
    BY <2>1, AfterDeclares
  <2>3. Birth(s).keep = <<frames[l].id, FunctionAt(l)>>
    BY <1>2, <1>4 DEF Birth
  <2> QED
    BY <1>1, <2>2, <2>3
<1> QED
  BY <1>3, <1>4

LEMMA PutFacts ==
  ASSUME FramesOk, NEW d, NEW p, NEW v, Puts(d, p, v)
  PROVE  /\ Len(frames') = Len(frames) /\ DOMAIN frames' = DOMAIN frames
         /\ \A b \in DOMAIN frames :
              /\ frames'[b].id = frames[b].id /\ frames'[b].fun = frames[b].fun
              /\ \A q \in Places :
                   frames'[b].holds[q] = IF b = d /\ q = p THEN v ELSE frames[b].holds[q]
         /\ v \in Int => frames' \in Seq(FrameRecords)
<1>1. /\ frames \in Seq(FrameRecords) /\ DOMAIN frames = 1 .. Len(frames) /\ Len(frames) \in Nat
      /\ d \in DOMAIN frames /\ p \in Places
      /\ \A b \in DOMAIN frames : frames[b] \in FrameRecords
  BY FramesFacts DEF FramesOk, Puts
<1>2. frames' = [frames EXCEPT ![d].holds[p] = v]
  BY DEF Puts
<1>3. frames' = [frames EXCEPT ![d] = [frames[d] EXCEPT !.holds = [frames[d].holds EXCEPT ![p] = v]]]
  BY <1>2
<1> DEFINE r == [frames[d] EXCEPT !.holds = [frames[d].holds EXCEPT ![p] = v]]
<1>4. /\ frames[d].holds \in [Places -> Int] /\ frames[d] \in [fun : BOOLEAN, id : Nat, holds : [Places -> Int]]
  BY <1>1 DEF FrameRecords
<1>5. /\ r.id = frames[d].id /\ r.fun = frames[d].fun
      /\ \A q \in Places : r.holds[q] = IF q = p THEN v ELSE frames[d].holds[q]
      /\ v \in Int => r \in FrameRecords
  BY <1>4 DEF FrameRecords
<1>6. frames' = [frames EXCEPT ![d] = r]
  BY <1>3
<1> HIDE DEF r
<1>7. /\ Len(frames') = Len(frames) /\ DOMAIN frames' = DOMAIN frames
      /\ \A b \in DOMAIN frames : frames'[b] = IF b = d THEN r ELSE frames[b]
  BY <1>1, <1>6
<1>8. v \in Int => frames' \in Seq(FrameRecords)
  BY <1>1, <1>5, <1>6
<1> QED
  BY <1>5, <1>7, <1>8

-----------------------------------------------------------------------------
(* What the new line is. *)

LEMMA BuildIs ==
  ASSUME FramesOk, BirthsOk, HoldsOk, NEW s \in Statements, Extend(s), Drops(s) \/ Keeps(s)
  PROVE  /\ Birth(s).place = s.place /\ Birth(s).form = s.form /\ Birth(s).fun = FunctionAt(Len(frames))
         /\ Birth(s).chain = IF s.chain = "alias" /\ Value(App) = Foreign THEN "foreign" ELSE s.chain
         /\ \E d \in DOMAIN frames :
              /\ Birth(s).keep = <<frames[d].id, FunctionAt(d)>>
              /\ Keeps(s) => Puts(d, s.place, Written + 1)
         /\ Birth(s) \in BirthRecords
<1>1. s.op = "build" /\ s.form # "factory" /\ s.chain \in Chains
  BY DEF Drops, Keeps, Binding
<1> DEFINE l == Len(frames)
           d0 == IF s.form = "assign" THEN Depth(s.place) ELSE l
           chain == IF s.chain = "alias" /\ Value(App) = Foreign THEN "foreign" ELSE s.chain
<1>2. Birth(s) = [chain |-> chain, place |-> s.place, form |-> s.form, block |-> frames[l].id,
                  fun |-> FunctionAt(l), keep |-> <<frames[d0].id, FunctionAt(d0)>>]
  BY <1>1 DEF Birth
<1>3. /\ Birth(s).place = s.place /\ Birth(s).form = s.form /\ Birth(s).fun = FunctionAt(l)
      /\ Birth(s).chain = chain /\ Birth(s).keep = <<frames[d0].id, FunctionAt(d0)>>
  BY <1>2
<1>4. l \in DOMAIN frames /\ frames[l].id \in Nat /\ FunctionAt(l) \in Nat
  BY FramesFacts, FunctionAtIs
<1>5. \E d \in DOMAIN frames :
        /\ Birth(s).keep = <<frames[d].id, FunctionAt(d)>>
        /\ Keeps(s) => Puts(d, s.place, Written + 1)
  <2>1. CASE Keeps(s)
    BY <2>1, AfterKeeps
  <2>2. CASE Drops(s)
    <3>1. d0 = l /\ ~Keeps(s)
      BY <2>2 DEF Drops, Keeps, Binding
    <3> QED
      BY <1>3, <1>4, <3>1
  <2> QED
    BY <2>1, <2>2
<1>6. Birth(s) \in BirthRecords
  <2>1. Birth(s).keep \in Nat \X Nat
    <3>1. PICK d \in DOMAIN frames : Birth(s).keep = <<frames[d].id, FunctionAt(d)>>
      BY <1>5
    <3>2. frames[d].id \in Nat /\ FunctionAt(d) \in Nat
      BY FramesFacts, FunctionAtIs
    <3> QED
      BY <3>1, <3>2
  <2>2. chain \in Chains \cup {"foreign", "logger", "none"}
    BY <1>1
  <2>3. s.form \in {"stmt", "arg", "return", "tail", "none"} \cup Binding /\ s.place \in {<<>>} \cup EventPlaces
    BY DEF Drops, Keeps
  <2>4. <<frames[d0].id, FunctionAt(d0)>> \in Nat \X Nat
    BY <1>3, <2>1
  <2> HIDE DEF chain, d0, l
  <2> QED
    BY <1>2, <1>4, <2>2, <2>3, <2>4 DEF BirthRecords
<1> QED
  BY <1>3, <1>5, <1>6

LEMMA NoBuildIs ==
  ASSUME NEW s \in Statements, ~Drops(s), ~Keeps(s)
  PROVE  /\ Birth(s).place = <<>> /\ Birth(s).form = "none" /\ Birth(s).chain \in {"logger", "none"}
         /\ Birth(s).fun = 0 /\ Birth(s).keep = <<0, 0>> /\ Birth(s) \in BirthRecords
         /\ s.form \in {"default", "anew", "class"} => Birth(s).chain = "logger"
         /\ s.form = "factory" /\ Value(Factory) # Foreign => Birth(s).chain = "logger"
<1>1. s.op # "build" /\ s.chain = NoChain
  BY StatementIs DEF Drops, Keeps, Imports, DeclaresIt, MakesLogger, Sends, Begins, Shuts
<1>2. s.chain # "alias"
  <2>1. NoChain # "alias"
    BY Zenon DEF NoChain
  <2> QED
    BY <1>1, <2>1
<1> DEFINE what == IF s.form \in Loggers \cup {"default"} /\ ~(s.form = "factory" /\ Value(Factory) = Foreign)
                   THEN "logger" ELSE "none"
<1>3. Birth(s) = NoEvent(what)
  BY <1>1, <1>2 DEF Birth
<1>4. /\ what \in {"logger", "none"}
      /\ s.form \in {"default", "anew", "class"} => what = "logger"
      /\ s.form = "factory" /\ Value(Factory) # Foreign => what = "logger"
  BY DEF Loggers
<1> HIDE DEF what
<1>5. Birth(s) = [chain |-> what, place |-> <<>>, form |-> "none", block |-> 0, fun |-> 0, keep |-> <<0, 0>>]
  BY <1>3 DEF NoEvent
<1>6. <<0, 0>> \in Nat \X Nat
  OBVIOUS
<1>7. Birth(s) \in BirthRecords
  BY <1>4, <1>5, <1>6 DEF BirthRecords
<1> QED
  BY <1>4, <1>5, <1>7

(* How the open blocks change: one may be added, or removed, or hold something else. *)
Changes(d, p, v) ==
  /\ Len(frames') \in Nat \ {0} /\ DOMAIN frames' = 1 .. Len(frames')
  /\ \A b \in DOMAIN frames' :
       \/ /\ b \in DOMAIN frames /\ frames'[b].id = frames[b].id /\ frames'[b].fun = frames[b].fun
          /\ \A q \in Places : frames'[b].holds[q] = IF b = d /\ q = p THEN v ELSE frames[b].holds[q]
       \/ /\ b = Len(frames) + 1 /\ frames'[b].id = Written + 1 /\ \A q \in Places : frames'[b].holds[q] = Undeclared
  /\ \/ d = 0
     \/ /\ Puts(d, p, v) /\ d \in DOMAIN frames' /\ frames'[d].id = frames[d].id
        /\ frames'[d].holds[p] = v
        /\ v = Written + 1 => /\ births'[Written + 1].place = p
                              /\ births'[Written + 1].keep = <<frames[d].id, FunctionAt(d)>>
  /\ births'[Written + 1].place # <<>> => d # 0 /\ p = births'[Written + 1].place /\ v = Written + 1

LEMMA ChangeNone ==
  ASSUME FramesOk, frames' = frames, births'[Written + 1].place = <<>>
  PROVE  Changes(0, <<>>, Empty)
<1>1. Len(frames) \in Nat \ {0} /\ DOMAIN frames = 1 .. Len(frames) /\ \A b \in DOMAIN frames : b # 0
  BY FramesFacts
<1> QED
  BY <1>1 DEF Changes

LEMMA ChangeRemoves ==
  ASSUME FramesOk, Removes, births'[Written + 1].place = <<>>
  PROVE  /\ Changes(0, <<>>, Empty) /\ frames' \in Seq(FrameRecords) /\ Len(frames') = Len(frames) - 1
         /\ \A b \in 1 .. Len(frames) - 1 : b \in DOMAIN frames' /\ frames'[b] = frames[b]
<1>1. Len(frames) \in Nat /\ DOMAIN frames = 1 .. Len(frames) /\ (\A b \in DOMAIN frames : b # 0) /\ frames \in Seq(FrameRecords)
  BY FramesFacts DEF FramesOk
<1>2. Len(frames) > 1 /\ frames' = SubSeq(frames, 1, Len(frames) - 1)
  BY DEF Removes
<1>3. /\ frames' \in Seq(FrameRecords) /\ Len(frames') = Len(frames) - 1
      /\ \A b \in 1 .. Len(frames) - 1 : frames'[b] = frames[b]
  BY ONLY <1>1, <1>2
<1>4. DOMAIN frames' = 1 .. Len(frames') /\ \A b \in DOMAIN frames' : b \in DOMAIN frames /\ b # 0 /\ frames'[b] = frames[b]
  BY <1>1, <1>2, <1>3
<1>5. Changes(0, <<>>, Empty)
  BY <1>1, <1>2, <1>3, <1>4 DEF Changes
<1> QED
  BY <1>1, <1>2, <1>3, <1>4, <1>5

LEMMA ChangeAdds ==
  ASSUME FramesOk, BirthsOk, NEW s, Adds(s), births'[Written + 1].place = <<>>
  PROVE  /\ Changes(0, <<>>, Empty) /\ frames' \in Seq(FrameRecords) /\ Len(frames') = Len(frames) + 1
         /\ \A b \in 1 .. Len(frames) : b \in DOMAIN frames' /\ frames'[b] = frames[b]
         /\ frames'[Len(frames) + 1].id = Written + 1
         /\ frames'[Len(frames) + 1].fun <=> s.form = "function"
<1> DEFINE new == [fun |-> s.form = "function", id |-> Written + 1, holds |-> [p \in Places |-> Undeclared]]
<1>1. Len(frames) \in Nat /\ DOMAIN frames = 1 .. Len(frames) /\ (\A b \in DOMAIN frames : b # 0) /\ frames \in Seq(FrameRecords)
  BY FramesFacts DEF FramesOk
<1>2. frames' = Append(frames, new)
  BY DEF Adds
<1>3. new.id = Written + 1 /\ (new.fun <=> s.form = "function") /\ \A q \in Places : new.holds[q] = Undeclared
  OBVIOUS
<1>4. new \in FrameRecords
  BY BirthsFacts DEF FrameRecords, Undeclared
<1> HIDE DEF new
<1>5. /\ frames' \in Seq(FrameRecords) /\ Len(frames') = Len(frames) + 1
      /\ (\A b \in 1 .. Len(frames) : frames'[b] = frames[b]) /\ frames'[Len(frames) + 1] = new
  BY <1>1, <1>2, <1>4, OneMore
<1>6. DOMAIN frames' = 1 .. Len(frames')
  BY ONLY <1>5
<1>7. \A b \in DOMAIN frames' : b \in DOMAIN frames \/ b = Len(frames) + 1
  BY <1>1, <1>5, <1>6
<1>8. Changes(0, <<>>, Empty)
  BY <1>1, <1>3, <1>5, <1>6, <1>7 DEF Changes
<1>9. \A b \in 1 .. Len(frames) : b \in DOMAIN frames'
  BY <1>1, <1>5, <1>6
<1> QED
  BY <1>3, <1>5, <1>8, <1>9

LEMMA ChangePuts ==
  ASSUME FramesOk, BirthsOk, NEW d, NEW p, NEW v, Puts(d, p, v),
         \/ v # Written + 1 /\ births'[Written + 1].place = <<>>
         \/ /\ v = Written + 1 /\ births'[Written + 1].place = p
            /\ births'[Written + 1].keep = <<frames[d].id, FunctionAt(d)>>
  PROVE  Changes(d, p, v) /\ frames' \in Seq(FrameRecords)
<1>1. /\ Len(frames') = Len(frames) /\ DOMAIN frames' = DOMAIN frames
      /\ \A b \in DOMAIN frames :
           /\ frames'[b].id = frames[b].id /\ frames'[b].fun = frames[b].fun
           /\ \A q \in Places :
                frames'[b].holds[q] = IF b = d /\ q = p THEN v ELSE frames[b].holds[q]
      /\ v \in Int => frames' \in Seq(FrameRecords)
  BY PutFacts
<1>2. Len(frames) \in Nat \ {0} /\ DOMAIN frames = 1 .. Len(frames) /\ \A b \in DOMAIN frames : b # 0
  BY FramesFacts
<1>3. d \in DOMAIN frames /\ p \in Places /\ v \in {Empty, Foreign, Written + 1}
  BY DEF Puts
<1>4. v \in Int
  BY <1>3, BirthsFacts DEF Empty, Foreign
<1>5. frames'[d].holds[p] = v
  BY <1>1, <1>3
<1> QED
  BY <1>1, <1>2, <1>3, <1>4, <1>5 DEF Changes

LEMMA FramesChange ==
  ASSUME FramesOk, BirthsOk, HoldsOk, NEW s \in Statements, Extend(s)
  PROVE  /\ \E d, p, v : Changes(d, p, v)
         /\ frames' \in Seq(FrameRecords)
<1>1. births'[Written + 1] = Birth(s)
  BY LineAdded
<1>2. Empty # Written + 1 /\ Foreign # Written + 1
  BY BirthsFacts DEF Empty, Foreign
<1>3. ~Keeps(s) => births'[Written + 1].place = <<>>
  <2>1. Drops(s) => births'[Written + 1].place = <<>>
    BY <1>1, BuildIs DEF Drops
  <2> QED
    BY <1>1, <2>1, NoBuildIs
<1>4. CASE Keeps(s)
  <2>1. PICK d \in DOMAIN frames : /\ Birth(s).keep = <<frames[d].id, FunctionAt(d)>>
                                   /\ Puts(d, s.place, Written + 1)
    BY <1>4, BuildIs
  <2>2. births'[Written + 1].place = s.place
    BY <1>1, <1>4, BuildIs
  <2> QED
    BY <1>1, <2>1, <2>2, ChangePuts
<1>5. CASE Imports(s) \/ DeclaresIt(s) \/ MakesLogger(s)
  <2>1. Declares(s) /\ ~Keeps(s)
    BY <1>5 DEF Imports, DeclaresIt, MakesLogger, Declares, Keeps
  <2>2. \E d, p, v : Puts(d, p, v) /\ v # Written + 1
    <3>1. CASE Imports(s)
      <4> DEFINE v == IF s.form = "foreign" THEN Foreign ELSE Empty
      <4>1. Puts(Len(frames), s.place, v)
        BY <2>1, <3>1, AfterDeclares
      <4>2. v # Written + 1
        BY <1>2
      <4> HIDE DEF v
      <4> QED
        BY <4>1, <4>2
    <3>2. CASE DeclaresIt(s)
      BY <1>2, <2>1, <3>2, AfterDeclares
    <3>3. CASE MakesLogger(s)
      <4> DEFINE v == IF s.form = "factory" THEN Value(Factory) ELSE Empty
      <4>1. Puts(Len(frames), App, v) /\ (s.form = "factory" => Value(Factory) \in {Empty, Foreign})
        BY <2>1, <3>3, AfterDeclares
      <4>2. v # Written + 1
        BY <1>2, <4>1
      <4> HIDE DEF v
      <4> QED
        BY <4>1, <4>2
    <3> QED
      BY <1>5, <3>1, <3>2, <3>3
  <2>3. births'[Written + 1].place = <<>>
    BY <1>3, <2>1
  <2> QED
    BY <2>2, <2>3, ChangePuts
<1>6. CASE Shuts(s) \/ ((Drops(s) \/ Sends(s)) /\ Ends(s))
  <2>1. Removes /\ ~Keeps(s)
    BY <1>6, AfterEnds DEF Shuts, Drops, Sends, Keeps, Binding
  <2> QED
    BY <1>3, <2>1, ChangeRemoves
<1>7. CASE (Drops(s) \/ Sends(s)) /\ ~Ends(s)
  <2>1. frames' = frames /\ ~Keeps(s)
    BY <1>7, AfterOthers DEF Drops, Sends, Keeps, Binding
  <2> QED
    BY <1>3, <2>1, ChangeNone DEF FramesOk
<1>8. CASE Begins(s)
  <2>1. Adds(s) /\ ~Keeps(s)
    BY <1>8, AfterBegins DEF Begins, Keeps
  <2> QED
    BY <1>3, <2>1, ChangeAdds
<1> QED
  BY <1>4, <1>5, <1>6, <1>7, <1>8, StatementIs

(***************************************************************************)
(* A statement keeps what holds of the file.                               *)
(***************************************************************************)
\* The change of the blocks: those that stay have their number, and one that
\* is new has the number of the line.
LEMMA BlocksStay ==
  ASSUME FramesOk, BirthsOk, NEW d, NEW p, NEW v, Changes(d, p, v), frames' \in Seq(FrameRecords),
         Written' = Written + 1
  PROVE  /\ FramesOk'
         /\ \A b \in DOMAIN frames' : frames'[b].id <= Written =>
              b \in DOMAIN frames /\ frames'[b].id = frames[b].id /\ frames'[b].fun = frames[b].fun
         /\ \A b \in DOMAIN frames', c \in DOMAIN frames : c <= b =>
              b \in DOMAIN frames \/ b = Len(frames) + 1
         /\ \A b \in DOMAIN frames, c \in DOMAIN frames' : b <= c =>
              b \in DOMAIN frames' /\ frames'[b].id = frames[b].id /\ frames'[b].fun = frames[b].fun
<1>1. /\ Len(frames) \in Nat \ {0} /\ DOMAIN frames = 1 .. Len(frames) /\ Written \in Nat
      /\ \A b \in DOMAIN frames : frames[b].id \in Nat /\ frames[b].id <= Written
  BY FramesFacts, BirthsFacts DEF FramesOk
<1>2. Len(frames') \in Nat \ {0} /\ DOMAIN frames' = 1 .. Len(frames')
  BY DEF Changes
<1>3. \A b \in DOMAIN frames' :
        \/ b \in DOMAIN frames /\ frames'[b].id = frames[b].id /\ frames'[b].fun = frames[b].fun
        \/ b = Len(frames) + 1 /\ frames'[b].id = Written + 1
  BY DEF Changes
<1>4. \A b \in DOMAIN frames' : frames'[b].id <= Written =>
        b \in DOMAIN frames /\ frames'[b].id = frames[b].id /\ frames'[b].fun = frames[b].fun
  BY <1>1, <1>3
<1>5. \A b \in DOMAIN frames, c \in DOMAIN frames' : b <= c =>
        b \in DOMAIN frames' /\ frames'[b].id = frames[b].id /\ frames'[b].fun = frames[b].fun
  <2> TAKE b \in DOMAIN frames, c \in DOMAIN frames'
  <2> HAVE b <= c
  <2>1. b \in DOMAIN frames' /\ b # Len(frames) + 1
    BY <1>1, <1>2
  <2> QED
    BY <1>3, <2>1
<1>6. /\ \A j, k \in DOMAIN frames : j < k => frames[j].id < frames[k].id
      /\ frames[1].fun /\ frames[1].id = 0
  BY DEF FramesOk
<1>7. frames' # <<>> /\ frames'[1].fun /\ frames'[1].id = 0
  <2>1. 1 \in DOMAIN frames' /\ 1 \in DOMAIN frames /\ frames' # <<>>
    BY <1>1, <1>2
  <2> QED
    BY <1>5, <1>6, <2>1
<1>8. \A j, k \in DOMAIN frames' : j < k => frames'[j].id < frames'[k].id
  <2> TAKE j, k \in DOMAIN frames'
  <2> HAVE j < k
  <2>1. j \in DOMAIN frames /\ frames'[j].id = frames[j].id
    <3>1. j # Len(frames) + 1 \/ k > Len(frames) + 1
      BY <1>1, <1>2
    <3>2. k <= Len(frames) + 1
      BY <1>1, <1>3
    <3> QED
      BY <1>1, <1>2, <1>3, <3>1, <3>2
  <2>2. CASE k \in DOMAIN frames /\ frames'[k].id = frames[k].id
    BY <1>6, <2>1, <2>2
  <2>3. CASE frames'[k].id = Written + 1
    <3>1. frames[j].id \in Nat /\ frames[j].id <= Written /\ Written \in Nat
      BY <1>1, <2>1
    <3> QED
      BY <2>1, <2>3, <3>1
  <2> QED
    BY <1>3, <2>2, <2>3
<1>9. \A b \in DOMAIN frames' : frames'[b].id <= Written + 1
  <2> TAKE b \in DOMAIN frames'
  <2>1. CASE b \in DOMAIN frames /\ frames'[b].id = frames[b].id
    <3>1. frames[b].id \in Nat /\ frames[b].id <= Written /\ Written \in Nat
      BY <1>1, <2>1
    <3> QED
      BY <2>1, <3>1
  <2>2. CASE frames'[b].id = Written + 1
    BY <1>1, <2>2
  <2> QED
    BY <1>3, <2>1, <2>2
<1>10. FramesOk'
  BY <1>7, <1>8, <1>9 DEF FramesOk
<1>11. \A b \in DOMAIN frames' : b \in DOMAIN frames \/ b = Len(frames) + 1
  BY <1>3
<1> QED
  BY <1>4, <1>5, <1>10, <1>11

LEMMA LinesStay ==
  ASSUME FramesOk, BirthsOk, HoldsOk, NEW s \in Statements, Extend(s)
  PROVE  BirthsOk'
<1>1. /\ Written \in Nat /\ Written' = Written + 1 /\ Lines' = 1 .. Written + 1 /\ Lines = 1 .. Written
      /\ births' = Append(births, Birth(s))
      /\ \A e \in Lines : births'[e] = births[e]
      /\ births'[Written + 1] = Birth(s)
      /\ DOMAIN uses' = 1 .. Written + 1 /\ uses'[Written + 1] = {}
      /\ \A e \in Lines : uses'[e] = uses[e] \/ (Uses(s) /\ e = Value(s.place) /\ uses'[e] = uses[e] \cup {s.form})
      /\ Uses(s) => Value(s.place) \in Lines /\ births[Value(s.place)].place = s.place
  BY LineAdded, BirthsFacts
<1>2. Drops(s) \/ Keeps(s) \/ (~Drops(s) /\ ~Keeps(s))
  OBVIOUS
<1>3. Birth(s) \in BirthRecords
  BY <1>2, BuildIs, NoBuildIs
<1>4. births' \in Seq(BirthRecords)
  BY <1>1, <1>3, OneMore DEF BirthsOk
<1>5. Birth(s).fun < Written + 1 /\ Birth(s).keep[1] < Written + 1
  <2>1. \A d \in DOMAIN frames : frames[d].id \in Nat /\ frames[d].id <= Written
    BY FramesFacts DEF FramesOk
  <2>2. CASE Drops(s) \/ Keeps(s)
    <3>1. PICK d \in DOMAIN frames : Birth(s).keep = <<frames[d].id, FunctionAt(d)>>
      BY <2>2, BuildIs
    <3>2. Birth(s).fun = FunctionAt(Len(frames)) /\ Len(frames) \in DOMAIN frames /\ DOMAIN frames = 1 .. Len(frames)
      BY <2>2, BuildIs, FramesFacts
    <3>3. \E k \in 1 .. Len(frames) : frames[k].fun /\ frames[k].id = FunctionAt(Len(frames))
      BY <3>2, FunctionAtIs
    <3>4. Birth(s).keep[1] = frames[d].id /\ \E k \in DOMAIN frames : frames[k].id = Birth(s).fun
      BY <3>1, <3>2, <3>3
    <3> QED
      BY <1>1, <2>1, <3>4
  <2>3. CASE ~Drops(s) /\ ~Keeps(s)
    <3>1. Birth(s).fun = 0 /\ Birth(s).keep[1] = 0
      BY <2>3, NoBuildIs
    <3> QED
      BY <1>1, <3>1
  <2> QED
    BY <1>2, <2>2, <2>3
<1> DEFINE kinds == {"call", "give", "piped", "argument", "arrow", "return of", "tail of"}
<1>6. Uses(s) => s.form \in kinds /\ s.place \in EventPlaces
  BY StatementIs DEF Uses, Drops, Keeps, Imports, DeclaresIt, MakesLogger, Sends, Begins, Shuts
<1>11. uses \in Seq(SUBSET kinds) /\ Len(uses) = Written
  BY DEF BirthsOk
<1> HIDE DEF kinds
<1>7. \A e \in Lines : uses[e] \in SUBSET kinds
  <2>1. \A e \in 1 .. Len(uses) : uses[e] \in SUBSET kinds
    BY ONLY <1>11
  <2> QED
    BY <1>1, <1>11, <2>1
<1>8. \A e \in 1 .. Written + 1 : uses'[e] \in SUBSET kinds
  <2> TAKE e \in 1 .. Written + 1
  <2>1. e = Written + 1 \/ e \in Lines
    BY <1>1
  <2>2. CASE e = Written + 1
    BY <1>1, <2>2
  <2>3. CASE e \in Lines
    BY <1>1, <1>6, <1>7, <2>3
  <2> QED
    BY <2>1, <2>2, <2>3
<1>9. uses' \in Seq(SUBSET kinds) /\ Len(uses') = Written + 1
  <2>1. \E f : uses' = [e \in 1 .. Written + 1 |-> f[e]]
    <3> DEFINE used == IF Uses(s) THEN Value(s.place) ELSE Empty
               g == [e \in 1 .. Written + 1 |->
                       (IF e <= Written THEN uses[e] ELSE {}) \cup (IF e = used THEN {s.form} ELSE {})]
    <3>1. uses' = g
      BY DEF Extend
    <3>2. g = [e \in 1 .. Written + 1 |-> g[e]]
      OBVIOUS
    <3> QED
      BY <3>1, <3>2
  <2>2. PICK f : uses' = [e \in 1 .. Written + 1 |-> f[e]]
    BY <2>1
  <2>3. \A e \in 1 .. Written + 1 : f[e] \in SUBSET kinds
    BY <1>8, <2>2
  <2>4. [e \in 1 .. Written + 1 |-> f[e]] \in Seq(SUBSET kinds)
    BY <1>1, <2>3
  <2>5. Len([e \in 1 .. Written + 1 |-> f[e]]) = Written + 1
    BY <1>1
  <2> QED
    BY <2>2, <2>4, <2>5
<1>10. \A e \in Lines' : /\ births'[e].fun < e /\ births'[e].keep[1] < e
                         /\ uses'[e] # {} => births'[e].place # <<>>
  <2> TAKE e \in Lines'
  <2>1. CASE e = Written + 1
    <3>1. births'[e] = Birth(s) /\ uses'[e] = {}
      BY <1>1, <2>1
    <3> QED
      BY <1>5, <2>1, <3>1
  <2>2. CASE e \in Lines
    <3>1. /\ births[e].fun < e /\ births[e].keep[1] < e
          /\ uses[e] # {} => births[e].place # <<>>
      BY <2>2 DEF BirthsOk, IsKept
    <3>2. uses'[e] # uses[e] => births[e].place # <<>>
      BY <1>1, <1>6, <2>2, EventPaths DEF Spelled
    <3>3. births'[e] = births[e] /\ (uses'[e] # {} => births[e].place # <<>>)
      BY <1>1, <2>2, <3>1, <3>2
    <3> QED
      BY <3>1, <3>3
  <2>3. e = Written + 1 \/ e \in Lines
    BY <1>1
  <2> QED
    BY <2>1, <2>2, <2>3
<1> QED
  BY <1>1, <1>4, <1>9, <1>10 DEF BirthsOk, IsKept, kinds

\* What is held after the change: what was held there, or what was put.
LEMMA HeldAfter ==
  ASSUME NEW d, NEW p, NEW v, Changes(d, p, v), NEW b \in DOMAIN frames', NEW q \in Places
  PROVE  \/ frames'[b].holds[q] = Undeclared
         \/ b \in DOMAIN frames /\ frames'[b].holds[q] = frames[b].holds[q] /\ ~(b = d /\ q = p)
         \/ b = d /\ q = p /\ frames'[b].holds[q] = v /\ Puts(d, p, v)
<1>1. CASE /\ b \in DOMAIN frames
           /\ \A o \in Places : frames'[b].holds[o] = IF b = d /\ o = p THEN v ELSE frames[b].holds[o]
  <2>1. b = d /\ q = p => Puts(d, p, v) \/ d = 0
    BY DEF Changes
  <2>2. b # 0
    BY DEF Changes
  <2> QED
    BY <1>1, <2>1, <2>2
<1>2. CASE \A o \in Places : frames'[b].holds[o] = Undeclared
  BY <1>2
<1> QED
  BY <1>1, <1>2 DEF Changes

LEMMA HoldsStay ==
  ASSUME FramesOk, BirthsOk, HoldsOk, NEW d, NEW p, NEW v, Changes(d, p, v), frames' \in Seq(FrameRecords),
         Written' = Written + 1, Lines' = 1 .. Written + 1, \A e \in Lines : births'[e] = births[e]
  PROVE  HoldsOk'
<1>1. SUFFICES ASSUME NEW b \in DOMAIN frames', NEW q \in Places
      PROVE  /\ frames'[b].holds[q] \in {Undeclared, Empty, Foreign} \cup Lines'
             /\ frames'[b].holds[q] = Foreign => q \in {App, Factory}
             /\ frames'[b].holds[q] > Empty =>
                  /\ births'[frames'[b].holds[q]].place = q
                  /\ births'[frames'[b].holds[q]].keep[1] = frames'[b].id
                  /\ \E k \in 1 .. b : frames'[k].fun /\ frames'[k].id = births'[frames'[b].holds[q]].keep[2]
  BY DEF HoldsOk
<1>2. Written \in Nat /\ Lines = 1 .. Written /\ Len(frames) \in Nat /\ DOMAIN frames = 1 .. Len(frames)
  BY FramesFacts, BirthsFacts
<1>3. Undeclared = -1 /\ Empty = 0 /\ Foreign = -2
  BY DEF Undeclared, Empty, Foreign
<1>4. CASE frames'[b].holds[q] = Undeclared
  BY <1>3, <1>4
<1>5. \A j \in DOMAIN frames : b \in DOMAIN frames' /\ j <= b =>
        j \in DOMAIN frames' /\ frames'[j].id = frames[j].id /\ frames'[j].fun = frames[j].fun
  BY BlocksStay
<1>6. CASE b \in DOMAIN frames /\ frames'[b].holds[q] = frames[b].holds[q]
  <2> DEFINE e == frames[b].holds[q]
  <2>1. /\ e \in {Undeclared, Empty, Foreign} \cup Lines
        /\ e = Foreign => q \in {App, Factory}
        /\ e > Empty =>
             /\ births[e].place = q /\ births[e].keep[1] = frames[b].id
             /\ \E k \in 1 .. b : frames[k].fun /\ frames[k].id = births[e].keep[2]
    BY <1>6 DEF HoldsOk
  <2>2. e \in {Undeclared, Empty, Foreign} \cup Lines'
    BY <1>2, <2>1
  <2>3. e > Empty => e \in Lines /\ births'[e] = births[e]
    BY <1>3, <2>1
  <2>4. frames'[b].id = frames[b].id
    BY <1>2, <1>5, <1>6
  <2>5. ASSUME NEW k \in 1 .. b PROVE frames'[k].id = frames[k].id /\ frames'[k].fun = frames[k].fun
    <3>1. k \in DOMAIN frames /\ k <= b
      BY <1>2, <1>6
    <3> QED
      BY <1>5, <3>1
  <2> HIDE DEF e
  <2>6. frames'[b].holds[q] = e
    BY <1>6 DEF e
  <2> QED
    BY <2>1, <2>2, <2>3, <2>4, <2>5, <2>6
<1>7. CASE b = d /\ q = p /\ frames'[b].holds[q] = v /\ Puts(d, p, v)
  <2>1. /\ v \in {Empty, Foreign, Written + 1} /\ (v = Foreign => p \in {App, Factory})
        /\ d \in DOMAIN frames
    BY <1>7 DEF Puts
  <2>2. v = Written + 1 =>
          births'[Written + 1].place = p /\ births'[Written + 1].keep = <<frames[d].id, FunctionAt(d)>>
    BY <1>2, <2>1 DEF Changes
  <2>3. v > Empty => v = Written + 1
    BY <1>3, <2>1
  <2>4. \E k \in 1 .. d : frames[k].fun /\ frames[k].id = FunctionAt(d)
    BY <2>1, FunctionAtIs
  <2>5. PICK k \in 1 .. d : frames[k].fun /\ frames[k].id = FunctionAt(d)
    BY <2>4
  <2>6. k \in DOMAIN frames /\ k <= b /\ b <= b
    BY <1>2, <1>7, <2>1
  <2>7. frames'[k].fun /\ frames'[k].id = FunctionAt(d) /\ frames'[b].id = frames[d].id
    BY <1>5, <1>7, <2>1, <2>5, <2>6
  <2>8. v > Empty => births'[v].place = p /\ births'[v].keep[1] = frames[d].id /\ births'[v].keep[2] = FunctionAt(d)
    BY <2>2, <2>3
  <2>9. v \in {Undeclared, Empty, Foreign} \cup Lines'
    BY <1>2, <2>1
  <2> QED
    BY <1>7, <2>1, <2>5, <2>7, <2>8, <2>9
<1> QED
  BY <1>4, <1>6, <1>7, HeldAfter

LEMMA LaterStay ==
  ASSUME FramesOk, BirthsOk, HoldsOk, LaterOnes, NEW d, NEW p, NEW v, Changes(d, p, v), frames' \in Seq(FrameRecords),
         Written' = Written + 1, Lines' = 1 .. Written + 1, \A e \in Lines : births'[e] = births[e],
         births' \in Seq(BirthRecords)
  PROVE  LaterOnes'
<1>1. SUFFICES ASSUME NEW f \in Lines', NEW c \in DOMAIN frames',
                      births'[f].place # <<>>, frames'[c].id = births'[f].keep[1]
      PROVE  /\ frames'[c].holds[births'[f].place] # Undeclared
             /\ \A b \in c .. Len(frames') :
                  frames'[b].holds[births'[f].place] > Empty => frames'[b].holds[births'[f].place] >= f
  BY DEF LaterOnes, IsKept
<1>2. /\ Written \in Nat /\ Lines = 1 .. Written /\ Len(frames) \in Nat /\ DOMAIN frames = 1 .. Len(frames)
      /\ Len(frames') \in Nat /\ DOMAIN frames' = 1 .. Len(frames')
  BY FramesFacts, BirthsFacts DEF Changes
<1>3. Undeclared = -1 /\ Empty = 0 /\ Foreign = -2
  BY DEF Undeclared, Empty, Foreign
<1>4. \A b \in DOMAIN frames' : frames'[b].id <= Written =>
        b \in DOMAIN frames /\ frames'[b].id = frames[b].id /\ frames'[b].fun = frames[b].fun
  BY BlocksStay
<1>5. CASE f \in Lines
  <2> DEFINE x == births[f].place
  <2>1. births'[f] = births[f] /\ x # <<>> /\ births[f].keep[1] \in Nat /\ births[f].keep[1] < f /\ f <= Written
    <3>1. births'[f] = births[f] /\ births[f].keep[1] \in Nat /\ births[f].keep[1] < f
      BY <1>5, BirthsFacts DEF BirthsOk
    <3>2. x # <<>>
      BY <1>1, <3>1
    <3>3. f <= Written
      BY <1>2, <1>5
    <3> QED
      BY <3>1, <3>2, <3>3
  <2>2. c \in DOMAIN frames /\ frames[c].id = births[f].keep[1]
    BY <1>1, <1>2, <1>4, <2>1
  <2>3. x \in Places
    BY <1>5, <2>1, BirthsFacts DEF EventPlaces
  <2>4. /\ frames[c].holds[x] # Undeclared
        /\ \A b \in c .. Len(frames) : frames[b].holds[x] > Empty => frames[b].holds[x] >= f
    BY <1>5, <2>1, <2>2 DEF LaterOnes, IsKept
  <2> HIDE DEF x
  <2>5. v # Undeclared \/ ~Puts(d, p, v)
    <3>1. Puts(d, p, v) => v \in {Empty, Foreign, Written + 1}
      BY DEF Puts
    <3> QED
      BY <1>2, <1>3, <3>1
  <2>6. frames'[c].holds[x] # Undeclared
    <3>1. \/ /\ c \in DOMAIN frames /\ frames'[c].id = frames[c].id
             /\ frames'[c].holds[x] = IF c = d /\ x = p THEN v ELSE frames[c].holds[x]
          \/ c = Len(frames) + 1
      BY <2>3 DEF Changes
    <3>2. d # 0 => Puts(d, p, v)
      BY DEF Changes
    <3>3. c # 0 /\ c # Len(frames) + 1
      BY <1>2, <2>2
    <3> QED
      BY <2>4, <2>5, <3>1, <3>2, <3>3
  <2>7. ASSUME NEW b \in c .. Len(frames'), frames'[b].holds[x] > Empty PROVE frames'[b].holds[x] >= f
    <3>1. b \in DOMAIN frames'
      BY <1>2, <2>7
    <3>2. CASE frames'[b].holds[x] = Undeclared
      BY <1>3, <2>7, <3>2
    <3>3. CASE b \in DOMAIN frames /\ frames'[b].holds[x] = frames[b].holds[x]
      <4>1. b \in c .. Len(frames)
        BY <1>2, <3>3
      <4> QED
        BY <2>4, <2>7, <3>3, <4>1
    <3>4. CASE frames'[b].holds[x] = v /\ Puts(d, p, v)
      <4>1. v = Written + 1
        BY <1>3, <2>7, <3>4 DEF Puts
      <4> QED
        BY <1>2, <1>5, <3>4, <4>1
    <3> QED
      BY <2>3, <3>1, <3>2, <3>3, <3>4, HeldAfter
  <2>8. births'[f].place = x
    BY <2>1 DEF x
  <2> QED
    BY <2>6, <2>7, <2>8
<1>6. CASE f = Written + 1
  <2>1. d # 0 /\ p = births'[f].place /\ v = Written + 1
    BY <1>1, <1>6 DEF Changes
  <2>2. /\ Puts(d, p, v) /\ d \in DOMAIN frames' /\ frames'[d].id = frames[d].id /\ frames'[d].holds[p] = v
        /\ births'[f].keep = <<frames[d].id, FunctionAt(d)>>
    BY <1>6, <2>1 DEF Changes
  <2>3. births'[f].keep[1] = frames'[d].id
    BY <2>2
  <2>4. FramesOk'
    BY BlocksStay
  <2>5. \A j, k \in DOMAIN frames' : j < k => frames'[j].id < frames'[k].id
    BY <2>4 DEF FramesOk
  <2>6. \A k \in DOMAIN frames' : frames'[k].id \in Nat
    <3>1. \A k \in 1 .. Len(frames') : frames'[k] \in FrameRecords
      OBVIOUS
    <3> QED
      BY <1>2, <3>1 DEF FrameRecords
  <2>7. c = d
    <3>1. frames'[c].id = frames'[d].id /\ frames'[c].id \in Nat /\ c \in Nat /\ d \in Nat
      BY <1>1, <1>2, <2>2, <2>3, <2>6
    <3>2. c < d \/ d < c \/ c = d
      BY <3>1
    <3> QED
      BY <1>1, <2>2, <2>5, <3>1, <3>2
  <2>8. v # Undeclared /\ v > Empty
    BY <1>2, <1>3, <2>1
  <2>9. ASSUME NEW b \in c .. Len(frames'), frames'[b].holds[p] > Empty PROVE frames'[b].holds[p] >= f
    <3>1. b \in DOMAIN frames' /\ (b = d \/ b > d)
      BY <1>2, <2>7, <2>9
    <3>2. CASE b = d
      BY <1>2, <1>6, <2>1, <2>2, <3>2
    <3>3. CASE b > d
      <4>1. p \in Places /\ (b \in DOMAIN frames => frames[b].holds[p] = Undeclared)
        BY <2>2, <3>3 DEF Puts
      <4>2. b # d
        BY <1>2, <2>2, <3>3
      <4>3. frames'[b].holds[p] = Undeclared
        BY <3>1, <4>1, <4>2, HeldAfter
      <4> QED
        BY <1>3, <2>9, <4>3
    <3> QED
      BY <3>1, <3>2, <3>3
  <2> QED
    BY <2>1, <2>2, <2>7, <2>8, <2>9
<1>7. f \in Lines \/ f = Written + 1
  BY <1>2
<1> QED
  BY <1>5, <1>6, <1>7

LEMMA OpenStay ==
  ASSUME FramesOk, BirthsOk, KeptOpen, NEW d, NEW p, NEW v, Changes(d, p, v), frames' \in Seq(FrameRecords),
         Written' = Written + 1, Lines' = 1 .. Written + 1, \A e \in Lines : births'[e] = births[e]
  PROVE  KeptOpen'
<1>1. SUFFICES ASSUME NEW f \in Lines', births'[f].place # <<>>, births'[f].keep[1] <= births'[f].fun,
                      NEW c \in DOMAIN frames', frames'[c].fun, frames'[c].id = births'[f].fun
      PROVE  \E b \in DOMAIN frames' : frames'[b].id = births'[f].keep[1]
  BY DEF KeptOpen, IsKept
<1>2. /\ Written \in Nat /\ Lines = 1 .. Written /\ Len(frames) \in Nat /\ DOMAIN frames = 1 .. Len(frames)
  BY FramesFacts, BirthsFacts
<1>3. CASE f \in Lines
  <2>1. births'[f] = births[f] /\ births[f].fun \in Nat /\ births[f].keep[1] \in Nat /\ births[f].fun < f /\ f \in 1 .. Written
    BY <1>2, <1>3, BirthsFacts DEF BirthsOk
  <2>2. c \in DOMAIN frames /\ frames'[c].id = frames[c].id /\ frames'[c].fun = frames[c].fun
    <3>1. frames'[c].id <= Written
      BY <1>1, <1>2, <2>1
    <3> QED
      BY <3>1, BlocksStay
  <2>3. PICK b \in DOMAIN frames : frames[b].id = births[f].keep[1]
    BY <1>1, <1>3, <2>1, <2>2 DEF KeptOpen, IsKept
  <2>4. b <= c
    <3>1. ~(frames[c].id < frames[b].id)
      BY <1>1, <2>1, <2>2, <2>3
    <3>2. ~(c < b)
      BY <2>2, <2>3, <3>1 DEF FramesOk
    <3> QED
      BY <1>2, <2>2, <2>3, <3>2
  <2>5. b \in DOMAIN frames' /\ frames'[b].id = frames[b].id
    BY <2>3, <2>4, BlocksStay
  <2> QED
    BY <2>1, <2>3, <2>5
<1>4. CASE f = Written + 1
  <2>1. d # 0 /\ p = births'[f].place /\ v = Written + 1
    BY <1>1, <1>4 DEF Changes
  <2>2. /\ d \in DOMAIN frames' /\ frames'[d].id = frames[d].id
        /\ births'[f].keep = <<frames[d].id, FunctionAt(d)>>
    BY <1>4, <2>1 DEF Changes
  <2> QED
    BY <2>2
<1>5. f \in Lines \/ f = Written + 1
  BY <1>2
<1> QED
  BY <1>3, <1>4, <1>5

LEMMA ProgramStays ==
  ASSUME ProgramInv, NEW s \in Statements, Extend(s)
  PROVE  ProgramInv'
<1>1. FramesOk /\ BirthsOk /\ HoldsOk /\ LaterOnes /\ KeptOpen
  BY DEF ProgramInv
<1>2. /\ Written' = Written + 1 /\ Lines' = 1 .. Written + 1 /\ \A e \in Lines : births'[e] = births[e]
  BY <1>1, LineAdded
<1>3. frames' \in Seq(FrameRecords) /\ \E d, p, v : Changes(d, p, v)
  BY <1>1, FramesChange
<1>4. PICK d, p, v : Changes(d, p, v)
  BY <1>3
<1>5. BirthsOk'
  BY <1>1, LinesStay
<1>6. births' \in Seq(BirthRecords)
  BY <1>5 DEF BirthsOk
<1>7. FramesOk'
  BY <1>1, <1>2, <1>3, <1>4, BlocksStay
<1>8. HoldsOk'
  BY <1>1, <1>2, <1>3, <1>4, HoldsStay
<1>9. LaterOnes'
  BY <1>1, <1>2, <1>3, <1>4, <1>6, LaterStay
<1>10. KeptOpen'
  BY <1>1, <1>2, <1>3, <1>4, OpenStay
<1> QED
  BY <1>5, <1>7, <1>8, <1>9, <1>10 DEF ProgramInv

-----------------------------------------------------------------------------
(* The functions that are open after it. *)

LEMMA SameOpen ==
  ASSUME NEW CONSTANT F, OpenFunctions(F),
         \A b \in DOMAIN frames : frames[b].fun =>
           \E c \in DOMAIN frames' : frames'[c].fun /\ frames'[c].id = frames[b].id,
         \A c \in DOMAIN frames' : frames'[c].fun =>
           \E b \in DOMAIN frames : frames[b].fun /\ frames[b].id = frames'[c].id
  PROVE  OpenFunctions(F)'
<1>1. /\ F \in Seq(Nat) /\ \A j, k \in DOMAIN F : j < k => F[j] < F[k]
      /\ \A k \in DOMAIN F : \E d \in DOMAIN frames : frames[d].fun /\ frames[d].id = F[k]
      /\ \A d \in DOMAIN frames : frames[d].fun => \E k \in DOMAIN F : F[k] = frames[d].id
  BY DEF OpenFunctions
<1>2. \A k \in DOMAIN F : \E d \in DOMAIN frames' : frames'[d].fun /\ frames'[d].id = F[k]
  <2> TAKE k \in DOMAIN F
  <2>1. PICK d \in DOMAIN frames : frames[d].fun /\ frames[d].id = F[k]
    BY <1>1
  <2>2. PICK c \in DOMAIN frames' : frames'[c].fun /\ frames'[c].id = frames[d].id
    BY <2>1
  <2> QED
    BY <2>1, <2>2
<1>3. \A d \in DOMAIN frames' : frames'[d].fun => \E k \in DOMAIN F : F[k] = frames'[d].id
  <2> TAKE d \in DOMAIN frames'
  <2> HAVE frames'[d].fun
  <2>1. PICK b \in DOMAIN frames : frames[b].fun /\ frames[b].id = frames'[d].id
    OBVIOUS
  <2>2. PICK k \in DOMAIN F : F[k] = frames[b].id
    BY <1>1, <2>1
  <2> QED
    BY <2>1, <2>2
<1> QED
  BY <1>1, <1>2, <1>3 DEF OpenFunctions

\* A change of what is held.
LEMMA OpenPuts ==
  ASSUME FramesOk, NEW CONSTANT F, OpenFunctions(F), \E d, p, v : Puts(d, p, v)
  PROVE  OpenFunctions(F)'
<1>1. PICK d, p, v : Puts(d, p, v)
  OBVIOUS
<1>2. /\ DOMAIN frames' = DOMAIN frames
      /\ \A b \in DOMAIN frames : frames'[b].id = frames[b].id /\ frames'[b].fun = frames[b].fun
  BY <1>1, PutFacts
<1>3. /\ \A b \in DOMAIN frames : frames[b].fun =>
           \E c \in DOMAIN frames' : frames'[c].fun /\ frames'[c].id = frames[b].id
      /\ \A c \in DOMAIN frames' : frames'[c].fun =>
           \E b \in DOMAIN frames : frames[b].fun /\ frames[b].id = frames'[c].id
  BY ONLY <1>2
<1> QED
  BY <1>3, SameOpen

LEMMA OpenSame ==
  ASSUME NEW CONSTANT F, OpenFunctions(F), frames' = frames PROVE OpenFunctions(F)'
<1>1. /\ \A b \in DOMAIN frames : frames[b].fun =>
           \E c \in DOMAIN frames' : frames'[c].fun /\ frames'[c].id = frames[b].id
      /\ \A c \in DOMAIN frames' : frames'[c].fun =>
           \E b \in DOMAIN frames : frames[b].fun /\ frames[b].id = frames'[c].id
  OBVIOUS
<1> QED
  BY <1>1, SameOpen

\* The beginning of a block, and of a function.
LEMMA OpenBegins ==
  ASSUME FramesOk, BirthsOk, NEW CONSTANT F, OpenFunctions(F), NEW s, Adds(s), births'[Written + 1].place = <<>>,
         NEW CONSTANT G, G = IF s.form = "function" THEN Append(F, Written + 1) ELSE F
  PROVE  OpenFunctions(G)'
<1>1. /\ Len(frames) \in Nat \ {0} /\ DOMAIN frames = 1 .. Len(frames) /\ Written \in Nat
      /\ \A b \in DOMAIN frames : frames[b].id \in Nat /\ frames[b].id <= Written
  BY FramesFacts, BirthsFacts DEF FramesOk
<1>2. /\ frames' \in Seq(FrameRecords) /\ Len(frames') = Len(frames) + 1
      /\ \A b \in 1 .. Len(frames) : b \in DOMAIN frames' /\ frames'[b] = frames[b]
      /\ frames'[Len(frames) + 1].id = Written + 1
      /\ frames'[Len(frames) + 1].fun <=> s.form = "function"
  BY ChangeAdds
<1>3. DOMAIN frames' = 1 .. Len(frames')
  BY ONLY <1>2
<1>4. \A b \in DOMAIN frames' : b \in DOMAIN frames \/ b = Len(frames) + 1
  BY <1>1, <1>2, <1>3
<1>5. Len(frames) + 1 \in DOMAIN frames' /\ \A b \in DOMAIN frames : b \in DOMAIN frames' /\ frames'[b] = frames[b]
  BY <1>1, <1>2, <1>3
<1>6. CASE s.form # "function"
  <2>1. \A b \in DOMAIN frames : frames[b].fun =>
          \E c \in DOMAIN frames' : frames'[c].fun /\ frames'[c].id = frames[b].id
    BY <1>5
  <2>2. \A c \in DOMAIN frames' : frames'[c].fun =>
          \E b \in DOMAIN frames : frames[b].fun /\ frames[b].id = frames'[c].id
    <3> TAKE c \in DOMAIN frames'
    <3> HAVE frames'[c].fun
    <3>1. c \in DOMAIN frames
      BY <1>2, <1>4, <1>6
    <3> QED
      BY <1>5, <3>1
  <2>3. G = F
    BY <1>6
  <2> QED
    BY <2>1, <2>2, <2>3, SameOpen
<1>7. CASE s.form = "function"
  <2>1. /\ F \in Seq(Nat) /\ \A j, k \in DOMAIN F : j < k => F[j] < F[k]
        /\ \A k \in DOMAIN F : \E d \in DOMAIN frames : frames[d].fun /\ frames[d].id = F[k]
        /\ \A d \in DOMAIN frames : frames[d].fun => \E k \in DOMAIN F : F[k] = frames[d].id
    BY DEF OpenFunctions
  <2>2. Len(F) \in Nat /\ DOMAIN F = 1 .. Len(F)
    BY ONLY <2>1
  <2>3. /\ G \in Seq(Nat) /\ Len(G) = Len(F) + 1 /\ (\A k \in 1 .. Len(F) : G[k] = F[k]) /\ G[Len(F) + 1] = Written + 1
    <3>1. Written + 1 \in Nat /\ G = Append(F, Written + 1)
      BY <1>1, <1>7
    <3> QED
      BY <2>1, <3>1, OneMore
  <2>4. DOMAIN G = 1 .. Len(G)
    BY ONLY <2>3
  <2>5. \A k \in DOMAIN F : F[k] \in Nat /\ F[k] <= Written /\ k \in DOMAIN G /\ G[k] = F[k]
    <3> TAKE k \in DOMAIN F
    <3>1. PICK d \in DOMAIN frames : frames[d].id = F[k]
      BY <2>1
    <3>2. F[k] \in Nat /\ F[k] <= Written
      BY <1>1, <3>1
    <3>3. k \in 1 .. Len(F) /\ k \in 1 .. Len(G)
      BY <2>2, <2>3
    <3> QED
      BY <2>3, <2>4, <3>2, <3>3
  <2>6. \A k \in DOMAIN G : k \in DOMAIN F \/ k = Len(F) + 1
    BY <2>2, <2>3, <2>4
  <2>7. \A j, k \in DOMAIN G : j < k => G[j] < G[k]
    <3> TAKE j, k \in DOMAIN G
    <3> HAVE j < k
    <3>1. j \in DOMAIN F
      BY <2>2, <2>3, <2>4
    <3>2. CASE k \in DOMAIN F
      BY <2>1, <2>5, <3>1, <3>2
    <3>3. CASE k = Len(F) + 1
      BY <1>1, <2>3, <2>5, <3>1, <3>3
    <3> QED
      BY <2>6, <3>2, <3>3
  <2>8. \A k \in DOMAIN G : \E d \in DOMAIN frames' : frames'[d].fun /\ frames'[d].id = G[k]
    <3> TAKE k \in DOMAIN G
    <3>1. CASE k \in DOMAIN F
      <4>1. PICK d \in DOMAIN frames : frames[d].fun /\ frames[d].id = F[k]
        BY <2>1, <3>1
      <4>2. G[k] = F[k]
        BY <2>5, <3>1
      <4>3. d \in DOMAIN frames' /\ frames'[d].fun = frames[d].fun /\ frames'[d].id = frames[d].id
        BY <1>5
      <4> QED
        BY <4>1, <4>2, <4>3
    <3>2. CASE k = Len(F) + 1
      BY <1>2, <1>5, <1>7, <2>3, <3>2
    <3> QED
      BY <2>6, <3>1, <3>2
  <2>9. \A d \in DOMAIN frames' : frames'[d].fun => \E k \in DOMAIN G : G[k] = frames'[d].id
    <3> TAKE d \in DOMAIN frames'
    <3> HAVE frames'[d].fun
    <3>1. CASE d \in DOMAIN frames
      <4>1. PICK k \in DOMAIN F : F[k] = frames[d].id
        BY <1>5, <2>1, <3>1
      <4> QED
        BY <1>5, <2>5, <3>1, <4>1
    <3>2. CASE d = Len(frames) + 1
      <4>1. Len(F) + 1 \in DOMAIN G
        BY <2>2, <2>3, <2>4
      <4> QED
        BY <1>2, <2>3, <3>2, <4>1
    <3> QED
      BY <1>4, <3>1, <3>2
  <2> QED
    BY <2>3, <2>7, <2>8, <2>9 DEF OpenFunctions
<1> QED
  BY <1>6, <1>7

\* The end of a block, and of a function.
LEMMA OpenEnds ==
  ASSUME FramesOk, BirthsOk, NEW CONSTANT F, OpenFunctions(F), Removes, births'[Written + 1].place = <<>>,
         NEW CONSTANT G, G = IF frames[Len(frames)].fun THEN SubSeq(F, 1, Len(F) - 1) ELSE F
  PROVE  OpenFunctions(G)'
<1> DEFINE l == Len(frames)
           n == Len(F)
<1>1. /\ l \in Nat \ {0} /\ DOMAIN frames = 1 .. l
      /\ \A b \in DOMAIN frames : frames[b].id \in Nat
      /\ \A j, k \in DOMAIN frames : j < k => frames[j].id < frames[k].id
  BY FramesFacts DEF FramesOk
<1>2. /\ frames' \in Seq(FrameRecords) /\ Len(frames') = l - 1
      /\ \A b \in 1 .. l - 1 : b \in DOMAIN frames' /\ frames'[b] = frames[b]
  BY ChangeRemoves
<1>3. DOMAIN frames' = 1 .. l - 1 /\ \A b \in DOMAIN frames' : b \in DOMAIN frames /\ b # l /\ frames'[b] = frames[b]
  <2>1. DOMAIN frames' = 1 .. Len(frames')
    BY ONLY <1>2
  <2> QED
    BY <1>1, <1>2, <2>1
<1>4. \A b \in DOMAIN frames : b # l => b \in DOMAIN frames' /\ frames'[b] = frames[b]
  BY <1>1, <1>2
<1>5. CASE ~frames[l].fun
  <2>1. \A b \in DOMAIN frames : frames[b].fun =>
          \E c \in DOMAIN frames' : frames'[c].fun /\ frames'[c].id = frames[b].id
    BY <1>4, <1>5
  <2>2. \A c \in DOMAIN frames' : frames'[c].fun =>
          \E b \in DOMAIN frames : frames[b].fun /\ frames[b].id = frames'[c].id
    BY <1>3
  <2>3. G = F
    BY <1>5
  <2> QED
    BY <2>1, <2>2, <2>3, SameOpen
<1>6. CASE frames[l].fun
  <2>1. /\ F \in Seq(Nat) /\ \A j, k \in DOMAIN F : j < k => F[j] < F[k]
        /\ \A k \in DOMAIN F : \E d \in DOMAIN frames : frames[d].fun /\ frames[d].id = F[k]
        /\ \A d \in DOMAIN frames : frames[d].fun => \E k \in DOMAIN F : F[k] = frames[d].id
    BY DEF OpenFunctions
  <2>2. /\ n \in Nat \ {0} /\ DOMAIN F = 1 .. n /\ (\A k \in DOMAIN F : F[k] \in Nat)
        /\ F[n] = FunctionAt(l)
    BY InnermostOpen
  <2>3. F[n] = frames[l].id
    <3>1. l \in DOMAIN frames /\ l \in 1 .. l
      BY <1>1
    <3>2. PICK k \in 1 .. l : frames[k].fun /\ frames[k].id = FunctionAt(l) /\ \A j \in 1 .. l : frames[j].fun => j <= k
      BY <3>1, FunctionAtIs
    <3>3. k = l
      <4>1. l <= k /\ k <= l
        BY <1>6, <3>1, <3>2
      <4>2. l \in Nat /\ k \in Nat
        BY <1>1, <3>2
      <4> HIDE DEF l
      <4> QED
        BY ONLY <4>1, <4>2
    <3> QED
      BY <2>2, <3>2, <3>3
  <2>4. G = SubSeq(F, 1, n - 1)
    BY <1>6
  <2> HIDE DEF n, l
  <2>5. G \in Seq(Nat) /\ Len(G) = n - 1 /\ \A k \in 1 .. n - 1 : G[k] = F[k]
    <3>1. F \in Seq(Nat) /\ n = Len(F) /\ n \in Nat \ {0}
      BY <2>1, <2>2 DEF n
    <3> QED
      BY ONLY <2>4, <3>1
  <2>6. DOMAIN G = 1 .. n - 1
    BY ONLY <2>2, <2>5
  <2>7. \A k \in DOMAIN G : k \in DOMAIN F /\ k < n /\ G[k] = F[k]
    BY <2>2, <2>5, <2>6
  <2>8. \A j, k \in DOMAIN G : j < k => G[j] < G[k]
    BY <2>1, <2>7
  <2>9. \A k \in DOMAIN G : \E d \in DOMAIN frames' : frames'[d].fun /\ frames'[d].id = G[k]
    <3> TAKE k \in DOMAIN G
    <3>1. k \in DOMAIN F /\ n \in DOMAIN F /\ F[k] < F[n] /\ G[k] = F[k]
      <4>1. k \in DOMAIN F /\ k < n /\ G[k] = F[k] /\ n \in DOMAIN F
        BY <2>2, <2>7
      <4> QED
        BY <2>1, <4>1
    <3>2. PICK d \in DOMAIN frames : frames[d].fun /\ frames[d].id = F[k]
      BY <2>1, <3>1
    <3>3. d # l
      BY <1>1, <2>3, <3>1, <3>2
    <3> QED
      BY <1>4, <3>1, <3>2, <3>3
  <2>10. \A d \in DOMAIN frames' : frames'[d].fun => \E k \in DOMAIN G : G[k] = frames'[d].id
    <3> TAKE d \in DOMAIN frames'
    <3> HAVE frames'[d].fun
    <3>1. d \in DOMAIN frames /\ d < l /\ frames'[d] = frames[d] /\ l \in DOMAIN frames
      BY <1>1, <1>3
    <3>2. PICK k \in DOMAIN F : F[k] = frames[d].id
      BY <2>1, <3>1
    <3>3. k # n
      <4>1. frames[d].id < frames[l].id /\ frames[d].id \in Nat /\ frames[l].id \in Nat
        BY <1>1, <3>1
      <4> QED
        BY <2>3, <3>2, <4>1
    <3>4. k \in DOMAIN G
      BY <2>2, <2>6, <3>2, <3>3
    <3> QED
      BY <2>7, <3>1, <3>2, <3>4
  <2> QED
    BY <2>5, <2>8, <2>9, <2>10 DEF OpenFunctions
<1> QED
  BY <1>5, <1>6

-----------------------------------------------------------------------------
(***************************************************************************)
(* The nodes of each kind of statement.                                    *)
(***************************************************************************)
InStatement(e, l) == <<[visit |-> "ExpressionStatement", expression |-> e, line |-> l]>> \o CallVisits(e)
InDeclarator(x, e, l) == <<[visit |-> "VariableDeclarator", id |-> x, init |-> e, line |-> l]>> \o CallVisits(e)
InReturn(e) == <<[visit |-> "ReturnStatement", argument |-> e]>> \o CallVisits(e) \o <<Exit>>
InAssignment(x, e, l) ==
  InStatement(Nowhere, l) \o
  <<[visit |-> "AssignmentExpression", left |-> Name(x), right |-> e, line |-> l]>> \o CallVisits(e)

LEMMA NodesOfDrop ==
  ASSUME NEW s, NEW l, s.op # "close"
  PROVE  /\ s.form = "stmt" => Nodes(s, l) = InStatement(ChainExpr(s.chain), l)
         /\ s.form = "arg" =>
              Nodes(s, l) = InStatement(PassTo("run", ChainExpr(s.chain)), l) \o CallVisits(ChainExpr(s.chain))
         /\ s.form = "return" => Nodes(s, l) = InReturn(ChainExpr(s.chain))
         /\ s.form = "tail" => Nodes(s, l) = InReturn(ChainExpr(s.chain))
<1>1. s.form = "stmt" => Nodes(s, l) = InStatement(ChainExpr(s.chain), l)
  BY Zenon DEF Nodes, InStatement
<1>2. s.form = "arg" =>
        Nodes(s, l) = InStatement(PassTo("run", ChainExpr(s.chain)), l) \o CallVisits(ChainExpr(s.chain))
  BY Zenon DEF Nodes, InStatement, PassTo
<1>3. s.form = "return" => Nodes(s, l) = InReturn(ChainExpr(s.chain))
  BY Zenon DEF Nodes, InReturn
<1>4. s.form = "tail" => Nodes(s, l) = InReturn(ChainExpr(s.chain))
  BY Zenon DEF Nodes, InReturn
<1> QED
  BY <1>1, <1>2, <1>3, <1>4

LEMMA NodesOfBinding ==
  ASSUME NEW s, NEW l, s.op # "close"
  PROVE  /\ s.form = "let" => Nodes(s, l) = InDeclarator(s.place, ChainExpr(s.chain), l)
         /\ s.form = "typed" => Nodes(s, l) = InDeclarator(s.place, ChainExpr(s.chain), l)
         /\ s.form = "assign" => Nodes(s, l) = InAssignment(s.place, ChainExpr(s.chain), l)
         /\ s.form = "declare" => Nodes(s, l) = InDeclarator(s.place, Nowhere, l)
         /\ s.form = "anew" => Nodes(s, l) = InDeclarator(s.place, Anew, l)
         /\ s.form = "factory" => Nodes(s, l) = InDeclarator(s.place, Created, l)
         /\ s.form = "class" => Nodes(s, l) = InDeclarator(s.place, Constructed, l)
<1>1. s.form = "let" => Nodes(s, l) = InDeclarator(s.place, ChainExpr(s.chain), l)
  BY Zenon DEF Nodes, InDeclarator
<1>2. s.form = "typed" => Nodes(s, l) = InDeclarator(s.place, ChainExpr(s.chain), l)
  BY Zenon DEF Nodes, InDeclarator
<1>3. s.form = "assign" => Nodes(s, l) = InAssignment(s.place, ChainExpr(s.chain), l)
  BY Zenon DEF Nodes, InAssignment, InStatement
<1>4. s.form = "declare" => Nodes(s, l) = InDeclarator(s.place, Nowhere, l)
  BY Zenon DEF Nodes, InDeclarator
<1>5. s.form = "anew" => Nodes(s, l) = InDeclarator(s.place, Anew, l)
  BY Zenon DEF Nodes, InDeclarator, Anew
<1>6. s.form = "factory" => Nodes(s, l) = InDeclarator(s.place, Created, l)
  BY Zenon DEF Nodes, InDeclarator, Created
<1>7. s.form = "class" => Nodes(s, l) = InDeclarator(s.place, Constructed, l)
  BY Zenon DEF Nodes, InDeclarator, Constructed
<1> QED
  BY <1>1, <1>2, <1>3, <1>4, <1>5, <1>6, <1>7

LEMMA NodesOfImport ==
  ASSUME NEW s, NEW l, s.op # "close"
  PROVE  /\ s.form = "default" => Nodes(s, l) = <<ImportsApp>>
         /\ s.form = "named" => Nodes(s, l) = <<ImportsFactory>>
         /\ s.form = "foreign" => Nodes(s, l) = <<Import(Theirs, Named)[1]>>
         /\ s.form = "namespace" => Nodes(s, l) = <<ImportsPackage>>
<1>1. \A a, b : Import(a, b) = <<Import(a, b)[1]>>
  BY DEF Import
<1>2. s.form = "default" => Nodes(s, l) = Import(OurPackage, [kind |-> "default", local |-> "app"])
  BY Zenon DEF Nodes
<1>3. s.form = "named" => Nodes(s, l) = Import(OurPackage \o <<"node">>, Named)
  BY Zenon DEF Nodes
<1>4. s.form = "foreign" => Nodes(s, l) = Import(Theirs, Named)
  BY Zenon DEF Nodes
<1>5. s.form = "namespace" => Nodes(s, l) = Import(OurPackage, [kind |-> "namespace", local |-> "otel"])
  BY Zenon DEF Nodes
<1> QED
  BY <1>1, <1>2, <1>3, <1>4, <1>5 DEF ImportsApp, ImportsFactory, ImportsPackage

LEMMA NodesOfUse ==
  ASSUME NEW s, NEW l, s.op # "close"
  PROVE  /\ s.form = "call" => Nodes(s, l) = InStatement(SendCall(s.place), l)
         /\ s.form = "give" => Nodes(s, l) = InStatement(PassTo("send", Name(s.place)), l)
         /\ s.form = "piped" => Nodes(s, l) = InStatement(PassTo("send", Name(s.place)), l)
         /\ s.form = "argument" => Nodes(s, l) = InStatement(PassTo("run", Name(s.place)), l)
         /\ s.form = "arrow" =>
              Nodes(s, l) = InStatement(PassTo("run", Nowhere), l)
                              \o <<[visit |-> "ArrowEnter", body |-> Name(s.place)], Exit>>
         /\ s.form = "return of" => Nodes(s, l) = InReturn(Name(s.place))
         /\ s.form = "tail of" => Nodes(s, l) = InReturn(Name(s.place))
<1>1. s.form = "call" => Nodes(s, l) = InStatement(SendCall(s.place), l)
  BY Zenon DEF Nodes, InStatement, SendCall
<1>2. s.form = "give" => Nodes(s, l) = InStatement(PassTo("send", Name(s.place)), l)
  BY Zenon DEF Nodes, InStatement, PassTo
<1>3. s.form = "piped" => Nodes(s, l) = InStatement(PassTo("send", Name(s.place)), l)
  BY Zenon DEF Nodes, InStatement, PassTo
<1>4. s.form = "argument" => Nodes(s, l) = InStatement(PassTo("run", Name(s.place)), l)
  BY Zenon DEF Nodes, InStatement, PassTo
<1>5. s.form = "arrow" =>
        Nodes(s, l) = InStatement(PassTo("run", Nowhere), l)
                        \o <<[visit |-> "ArrowEnter", body |-> Name(s.place)], Exit>>
  BY Zenon DEF Nodes, InStatement, PassTo
<1>6. s.form = "return of" => Nodes(s, l) = InReturn(Name(s.place))
  BY Zenon DEF Nodes, InReturn
<1>7. s.form = "tail of" => Nodes(s, l) = InReturn(Name(s.place))
  BY Zenon DEF Nodes, InReturn
<1> QED
  BY <1>1, <1>2, <1>3, <1>4, <1>5, <1>6, <1>7

LEMMA NodesOfBlock ==
  ASSUME NEW s, NEW l
  PROVE  /\ s.op # "close" /\ s.form = "block" => Nodes(s, l) = <<>>
         /\ s.op # "close" /\ s.form = "function" => Nodes(s, l) = <<[visit |-> "FunctionEnter"]>>
         /\ s.op = "close" /\ s.form = "close" =>
              Nodes(s, l) = IF frames[Len(frames)].fun THEN <<Exit>> ELSE <<>>
<1>1. s.op # "close" /\ s.form = "block" => Nodes(s, l) = <<>>
  BY Zenon DEF Nodes
<1>2. s.op # "close" /\ s.form = "function" => Nodes(s, l) = <<[visit |-> "FunctionEnter"]>>
  BY Zenon DEF Nodes
<1>3. s.op = "close" /\ s.form = "close" =>
        Nodes(s, l) = IF frames[Len(frames)].fun THEN <<Exit>> ELSE <<>>
  BY Zenon DEF Nodes
<1> QED
  BY <1>1, <1>2, <1>3

\* What they are, one by one.
LEMMA ListedBehind ==
  ASSUME NEW a, NEW b, Listed(a), Listed(b)
  PROVE  /\ Listed(a \o b) /\ Len(a \o b) = Len(a) + Len(b)
         /\ \A i \in 1 .. Len(a) : (a \o b)[i] = a[i]
         /\ \A i \in 1 .. Len(b) : (a \o b)[Len(a) + i] = b[i]
         /\ \A i \in 1 .. Len(a \o b) : i \in 1 .. Len(a) \/ (i > Len(a) /\ i - Len(a) \in 1 .. Len(b) /\ (a \o b)[i] = b[i - Len(a)])
<1> DEFINE A == {a[i] : i \in 1 .. Len(a)}
           B == {b[i] : i \in 1 .. Len(b)}
           S == A \cup B
<1>1. a \in Seq(A) /\ b \in Seq(B)
  BY ListedFacts
<1> HIDE DEF A, B
<1>2. a \in Seq(S) /\ b \in Seq(S)
  BY ONLY <1>1
<1> HIDE DEF S
<1>3. /\ a \o b \in Seq(S) /\ Len(a \o b) = Len(a) + Len(b)
      /\ \A k \in 1 .. Len(a) : (a \o b)[k] = a[k]
      /\ \A k \in 1 .. Len(b) : (a \o b)[Len(a) + k] = b[k]
  BY <1>2, ConcatFacts
<1>4. Listed(a \o b)
  BY <1>3, ListedSeq
<1>5. Len(a) \in Nat /\ Len(b) \in Nat
  BY DEF Listed
<1>6. \A i \in 1 .. Len(a \o b) : i \in 1 .. Len(a) \/ (i > Len(a) /\ i - Len(a) \in 1 .. Len(b) /\ (a \o b)[i] = b[i - Len(a)])
  <2> TAKE i \in 1 .. Len(a \o b)
  <2>1. i \in 1 .. Len(a) \/ (i > Len(a) /\ i - Len(a) \in 1 .. Len(b) /\ Len(a) + (i - Len(a)) = i)
    BY <1>3, <1>5
  <2> QED
    BY <1>3, <2>1
<1> QED
  BY <1>3, <1>4, <1>6

LEMMA ListedOne ==
  ASSUME NEW v PROVE Listed(<<v>>) /\ Len(<<v>>) = 1 /\ <<v>>[1] = v
<1>1. <<v>> \in Seq({v})
  OBVIOUS
<1> QED
  BY <1>1, ListedSeq

LEMMA ListedTwo ==
  ASSUME NEW v, NEW w PROVE Listed(<<v, w>>) /\ Len(<<v, w>>) = 2 /\ <<v, w>>[1] = v /\ <<v, w>>[2] = w
<1>1. <<v, w>> \in Seq({v, w})
  OBVIOUS
<1> QED
  BY <1>1, ListedSeq

\* One node first, and passive ones after it.
Led(t, v) == Listed(t) /\ Len(t) > 0 /\ t[1] = v /\ \A i \in 2 .. Len(t) : Passive(t[i])

LEMMA LedBy ==
  ASSUME NEW v, NEW t, Listed(t), \A i \in 1 .. Len(t) : Passive(t[i])
  PROVE  Led(<<v>> \o t, v)
<1>1. /\ Listed(<<v>> \o t) /\ Len(<<v>> \o t) = 1 + Len(t)
      /\ (<<v>> \o t)[1] = v
      /\ \A i \in 1 .. Len(<<v>> \o t) : i \in 1 .. 1 \/ (i > 1 /\ i - 1 \in 1 .. Len(t) /\ (<<v>> \o t)[i] = t[i - 1])
  <2>1. Listed(<<v>>) /\ Len(<<v>>) = 1 /\ <<v>>[1] = v
    BY ListedOne
  <2>2. /\ Listed(<<v>> \o t) /\ Len(<<v>> \o t) = Len(<<v>>) + Len(t)
        /\ \A i \in 1 .. Len(<<v>>) : (<<v>> \o t)[i] = <<v>>[i]
        /\ \A i \in 1 .. Len(<<v>> \o t) :
             i \in 1 .. Len(<<v>>) \/ (i > Len(<<v>>) /\ i - Len(<<v>>) \in 1 .. Len(t) /\ (<<v>> \o t)[i] = t[i - Len(<<v>>)])
    BY <2>1, ListedBehind
  <2> DEFINE u == <<v>> \o t
             n == Len(<<v>>)
             w == <<v>>[1]
             o == <<v>>
  <2>3. n = 1 /\ w = v /\ Listed(u) /\ Len(u) = n + Len(t) /\ u[1] = o[1] /\ o[1] = w
    BY <2>1, <2>2
  <2>4. \A i \in 1 .. Len(u) : i \in 1 .. n \/ (i > n /\ i - n \in 1 .. Len(t) /\ u[i] = t[i - n])
    BY <2>2
  <2> HIDE DEF u, n, w, o
  <2>5. /\ Listed(u) /\ Len(u) = 1 + Len(t) /\ u[1] = v
        /\ \A i \in 1 .. Len(u) : i \in 1 .. 1 \/ (i > 1 /\ i - 1 \in 1 .. Len(t) /\ u[i] = t[i - 1])
    BY <2>3, <2>4
  <2> QED
    BY <2>5 DEF u
<1>2. Len(t) \in Nat
  BY DEF Listed
<1> QED
  BY <1>1, <1>2 DEF Led

LEMMA StatementLed ==
  ASSUME NEW e, Listed(e.links), Mild(e), NEW l
  PROVE  Led(InStatement(e, l), [visit |-> "ExpressionStatement", expression |-> e, line |-> l])
<1>1. Listed(CallVisits(e)) /\ \A i \in 1 .. Len(CallVisits(e)) : Passive(CallVisits(e)[i])
  BY MildCalls
<1> QED
  BY <1>1, LedBy DEF InStatement

LEMMA DeclaratorLed ==
  ASSUME NEW e, Listed(e.links), Mild(e), NEW l, NEW x
  PROVE  Led(InDeclarator(x, e, l), [visit |-> "VariableDeclarator", id |-> x, init |-> e, line |-> l])
<1>1. Listed(CallVisits(e)) /\ \A i \in 1 .. Len(CallVisits(e)) : Passive(CallVisits(e)[i])
  BY MildCalls
<1> QED
  BY <1>1, LedBy DEF InDeclarator

\* A return, its calls, and the end of the function.
Finishes(t, v) ==
  Listed(t) /\ Len(t) > 1 /\ t[1] = v /\ t[Len(t)] = Exit /\ \A i \in 2 .. Len(t) - 1 : Passive(t[i])

LEMMA ReturnFinishes ==
  ASSUME NEW e, Listed(CallVisits(e)), \A i \in 1 .. Len(CallVisits(e)) : Passive(CallVisits(e)[i])
  PROVE  Finishes(InReturn(e), [visit |-> "ReturnStatement", argument |-> e])
<1> DEFINE v == [visit |-> "ReturnStatement", argument |-> e]
           t == <<v>> \o CallVisits(e)
           u == <<Exit>>
<1>1. Led(t, v)
  BY LedBy
<1>2. Listed(u) /\ Len(u) = 1 /\ u[1] = Exit
  BY ListedOne
<1>3. InReturn(e) = t \o u
  BY DEF InReturn
<1> HIDE DEF v, t, u
<1>4. /\ Listed(t \o u) /\ Len(t \o u) = Len(t) + Len(u)
      /\ \A i \in 1 .. Len(t) : (t \o u)[i] = t[i]
      /\ \A i \in 1 .. Len(u) : (t \o u)[Len(t) + i] = u[i]
  <2>1. Listed(t)
    BY <1>1 DEF Led
  <2>2. Listed(u)
    BY <1>2
  <2> QED
    BY ONLY <2>1, <2>2, ListedBehind
<1>5. Len(t) \in Nat /\ Len(t) > 0
  BY <1>1 DEF Led, Listed
<1> DEFINE w == t \o u
<1>6. /\ Listed(w) /\ Len(w) = Len(t) + 1 /\ w[1] = t[1] /\ w[Len(t) + 1] = Exit
      /\ \A i \in 2 .. Len(t) : w[i] = t[i]
  BY <1>2, <1>4, <1>5
<1> HIDE DEF w
<1>7. Finishes(w, v)
  BY <1>1, <1>5, <1>6 DEF Finishes, Led
<1> QED
  BY <1>3, <1>7 DEF w, v

LEMMA NowhereMild == Mild(Nowhere) /\ Silent(Nowhere)
<1>1. Nowhere.links = <<>> /\ DOMAIN Nowhere.links = {}
  BY NowhereIsNone
<1> QED
  BY <1>1 DEF Mild, Silent

\* Something that is no name, given away.
LEMMA PassMild ==
  ASSUME NEW r, r \in {"run", "send"}, NEW e, GetQualifiedName(e) \notin EventPlaces
  PROVE  LET p == PassTo(r, e) IN Listed(p.links) /\ Mild(p) /\ Silent(p)
<1> DEFINE p == PassTo(r, e)
<1>1. /\ Listed(p.links) /\ Len(p.links) = 1 /\ p.links[1] = Call(<<e>>) /\ Silent(p)
  BY PassFacts DEF PassTo
<1>2. DOMAIN p.links = 1 .. 1
  BY <1>1, ListedFacts
<1>3. p.links[1].kind = "call" /\ p.links[1].args = <<e>>
  BY <1>1 DEF Call
<1>4. Listed(<<e>>) /\ DOMAIN <<e>> = 1 .. 1 /\ <<e>>[1] = e
  BY ListedOne
<1> HIDE DEF p
<1>5. Mild(p)
  BY <1>2, <1>3, <1>4 DEF Mild
<1> QED
  BY <1>1, <1>5 DEF p

LEMMA DropNodes ==
  ASSUME NEW s, Drops(s), NEW l
  PROVE  /\ s.form = "stmt" =>
              Led(Nodes(s, l), [visit |-> "ExpressionStatement", expression |-> ChainExpr(s.chain), line |-> l])
         /\ s.form = "arg" => Listed(Nodes(s, l)) /\ \A i \in 1 .. Len(Nodes(s, l)) : Passive(Nodes(s, l)[i])
         /\ s.form \in {"return", "tail"} => \E v : Passive(v) /\ Finishes(Nodes(s, l), v)
<1> DEFINE e == ChainExpr(s.chain)
           t == Nodes(s, l)
<1>1. s.op # "close" /\ s.chain \in Chains
  BY DEF Drops
<1>2. Listed(e.links) /\ Mild(e) /\ GetQualifiedName(e) \notin EventPlaces
  BY <1>1, ChainFacts, NoName0 DEF Sound
<1>3. s.form = "stmt" => Led(t, [visit |-> "ExpressionStatement", expression |-> e, line |-> l])
  BY <1>1, <1>2, NodesOfDrop, StatementLed
<1>4. Listed(CallVisits(e)) /\ \A i \in 1 .. Len(CallVisits(e)) : Passive(CallVisits(e)[i])
  BY <1>2, MildCalls
<1>5. ASSUME s.form = "arg" PROVE Listed(t) /\ \A i \in 1 .. Len(t) : Passive(t[i])
  <2> DEFINE p == PassTo("run", e)
             a == InStatement(p, l)
             v == [visit |-> "ExpressionStatement", expression |-> p, line |-> l]
             b == CallVisits(e)
  <2>1. Listed(p.links) /\ Mild(p) /\ Silent(p)
    BY <1>2, PassMild
  <2>2. Led(a, v)
    BY <2>1, StatementLed
  <2>3. Passive(v)
    BY <2>1 DEF Passive
  <2>4. Listed(a) /\ \A i \in 1 .. Len(a) : Passive(a[i])
    <3>1. Listed(a) /\ Len(a) \in Nat /\ a[1] = v /\ \A i \in 2 .. Len(a) : Passive(a[i])
      BY <2>2 DEF Led, Listed
    <3> HIDE DEF a, v
    <3> QED
      BY <2>3, <3>1
  <2>5. t = a \o b
    BY <1>1, <1>5, NodesOfDrop
  <2>6. Listed(b) /\ \A i \in 1 .. Len(b) : Passive(b[i])
    BY <1>4
  <2> HIDE DEF a, b, v, p, t
  <2>7. /\ Listed(a \o b)
        /\ \A i \in 1 .. Len(a) : (a \o b)[i] = a[i]
        /\ \A i \in 1 .. Len(a \o b) : i \in 1 .. Len(a) \/ (i - Len(a) \in 1 .. Len(b) /\ (a \o b)[i] = b[i - Len(a)])
    BY <2>4, <2>6, ListedBehind
  <2> QED
    BY <2>4, <2>5, <2>6, <2>7
<1>6. ASSUME s.form \in {"return", "tail"} PROVE \E v : Passive(v) /\ Finishes(t, v)
  <2> DEFINE v == [visit |-> "ReturnStatement", argument |-> e]
  <2>1. Passive(v)
    BY <1>2 DEF Passive
  <2>2. Finishes(t, v)
    BY <1>1, <1>4, <1>6, NodesOfDrop, ReturnFinishes
  <2> QED
    BY <2>1, <2>2
<1> QED
  BY <1>3, <1>5, <1>6

\* The node of a chain that is bound.
Binds(v, x, c, l) ==
  \/ v = [visit |-> "VariableDeclarator", id |-> x, init |-> ChainExpr(c), line |-> l]
  \/ v = [visit |-> "AssignmentExpression", left |-> Name(x), right |-> ChainExpr(c), line |-> l]

LEMMA KeepNodes ==
  ASSUME NEW s, Keeps(s), NEW l
  PROVE  /\ Listed(Nodes(s, l))
         /\ \E r \in 1 .. Len(Nodes(s, l)) :
              /\ Binds(Nodes(s, l)[r], s.place, s.chain, l)
              /\ \A i \in 1 .. Len(Nodes(s, l)) : i # r => Passive(Nodes(s, l)[i])
<1> DEFINE e == ChainExpr(s.chain)
           t == Nodes(s, l)
<1>1. s.op # "close" /\ s.chain \in Chains /\ s.form \in {"let", "typed", "assign"}
  BY DEF Keeps, Binding
<1>2. Listed(e.links) /\ Mild(e)
  BY <1>1, ChainFacts DEF Sound
<1>3. CASE s.form \in {"let", "typed"}
  <2> DEFINE v == [visit |-> "VariableDeclarator", id |-> s.place, init |-> e, line |-> l]
  <2>1. Led(t, v)
    BY <1>1, <1>2, <1>3, NodesOfBinding, DeclaratorLed
  <2>2. Binds(v, s.place, s.chain, l)
    BY DEF Binds
  <2>3. Listed(t) /\ Len(t) \in Nat \ {0} /\ t[1] = v /\ \A i \in 2 .. Len(t) : Passive(t[i])
    BY <2>1 DEF Led, Listed
  <2> HIDE DEF t, v
  <2>4. \A i \in 1 .. Len(t) : i # 1 => Passive(t[i])
    BY <2>3
  <2>5. 1 \in 1 .. Len(t)
    BY <2>3
  <2> QED
    BY <2>2, <2>3, <2>4, <2>5 DEF t
<1>4. CASE s.form = "assign"
  <2> DEFINE a == InStatement(Nowhere, l)
             w == [visit |-> "ExpressionStatement", expression |-> Nowhere, line |-> l]
             v == [visit |-> "AssignmentExpression", left |-> Name(s.place), right |-> e, line |-> l]
             b == <<v>> \o CallVisits(e)
  <2>1. Led(a, w)
    BY NowhereIsNone, NowhereMild, StatementLed
  <2>2. Passive(w)
    BY NowhereIsNone, NowhereMild DEF Passive
  <2>3. Listed(CallVisits(e)) /\ \A i \in 1 .. Len(CallVisits(e)) : Passive(CallVisits(e)[i])
    BY <1>2, MildCalls
  <2>4. Led(b, v)
    BY <2>3, LedBy
  <2>5. t = a \o b
    <3>1. t = (a \o <<v>>) \o CallVisits(e)
      BY <1>1, <1>4, NodesOfBinding DEF InAssignment
    <3>2. Listed(a) /\ Listed(<<v>>) /\ Listed(CallVisits(e))
      BY <2>1, <2>3, ListedOne DEF Led
    <3> DEFINE c == CallVisits(e)
               o == <<v>>
    <3>3. Listed(a) /\ Listed(o) /\ Listed(c)
      BY <3>2
    <3> HIDE DEF a, o, c
    <3>4. (a \o o) \o c = a \o (o \o c)
      <4> DEFINE S == {a[i] : i \in 1 .. Len(a)} \cup {o[i] : i \in 1 .. Len(o)} \cup {c[i] : i \in 1 .. Len(c)}
      <4>1. /\ a \in Seq({a[i] : i \in 1 .. Len(a)}) /\ o \in Seq({o[i] : i \in 1 .. Len(o)})
            /\ c \in Seq({c[i] : i \in 1 .. Len(c)})
        BY <3>3, ListedFacts
      <4>2. a \in Seq(S) /\ o \in Seq(S) /\ c \in Seq(S)
        BY ONLY <4>1
      <4> HIDE DEF S
      <4> QED
        BY ONLY <4>2
    <3> QED
      BY <3>1, <3>4 DEF c, o
  <2>6. Binds(v, s.place, s.chain, l)
    BY DEF Binds
  <2> HIDE DEF a, b, v, w, t
  <2>7. Listed(a) /\ Len(a) \in Nat /\ \A i \in 1 .. Len(a) : Passive(a[i])
    <3>1. Listed(a) /\ Len(a) \in Nat /\ a[1] = w /\ \A i \in 2 .. Len(a) : Passive(a[i])
      BY <2>1 DEF Led, Listed
    <3> QED
      BY <2>2, <3>1
  <2>8. Listed(b) /\ Len(b) \in Nat \ {0} /\ b[1] = v /\ \A i \in 2 .. Len(b) : Passive(b[i])
    BY <2>4 DEF Led, Listed
  <2>9. /\ Listed(t) /\ Len(t) = Len(a) + Len(b)
        /\ \A i \in 1 .. Len(a) : t[i] = a[i]
        /\ \A i \in 1 .. Len(b) : t[Len(a) + i] = b[i]
        /\ \A i \in 1 .. Len(t) : i \in 1 .. Len(a) \/ (i > Len(a) /\ i - Len(a) \in 1 .. Len(b) /\ t[i] = b[i - Len(a)])
    BY <2>5, <2>7, <2>8, ListedBehind
  <2>10. Len(a) + 1 \in 1 .. Len(t) /\ t[Len(a) + 1] = v
    BY <2>7, <2>8, <2>9
  <2>11. \A i \in 1 .. Len(t) : i # Len(a) + 1 => Passive(t[i])
    BY <2>7, <2>8, <2>9
  <2> QED
    BY <2>6, <2>9, <2>10, <2>11 DEF t
<1> QED
  BY <1>1, <1>3, <1>4

LEMMA BindNodes ==
  ASSUME NEW s, DeclaresIt(s) \/ MakesLogger(s), KnownOk, NEW l
  PROVE  \E v : /\ Led(Nodes(s, l), v) /\ v.visit = "VariableDeclarator" /\ v.id = s.place
                /\ DeclaresIt(s) => v.init = Nowhere
                /\ s.form = "anew" => v.init = Anew
                /\ s.form = "factory" => v.init = Created
                /\ s.form = "class" => v.init = Constructed
<1>1. s.op # "close" /\ s.form \in {"declare", "anew", "factory", "class"} /\ (DeclaresIt(s) <=> s.form = "declare")
  BY DEF DeclaresIt, MakesLogger, Loggers
<1>2. /\ Listed(Nowhere.links) /\ Mild(Nowhere) /\ Listed(Anew.links) /\ Mild(Anew)
      /\ Listed(Created.links) /\ Mild(Created) /\ Listed(Constructed.links) /\ Mild(Constructed)
  BY NowhereIsNone, NowhereMild, AnewFacts, CreatedFacts, ConstructedFacts
<1> DEFINE init == IF s.form = "declare" THEN Nowhere ELSE IF s.form = "anew" THEN Anew
                   ELSE IF s.form = "factory" THEN Created ELSE Constructed
           v == [visit |-> "VariableDeclarator", id |-> s.place, init |-> init, line |-> l]
<1>3. Listed(init.links) /\ Mild(init)
  BY <1>2
<1>4. Nodes(s, l) = InDeclarator(s.place, init, l)
  BY <1>1, NodesOfBinding
<1>5. /\ s.form = "declare" => init = Nowhere
      /\ s.form = "anew" => init = Anew
      /\ s.form = "factory" => init = Created
      /\ s.form = "class" => init = Constructed
  OBVIOUS
<1> HIDE DEF init
<1>6. Led(Nodes(s, l), v)
  BY <1>3, <1>4, DeclaratorLed
<1> QED
  BY <1>1, <1>5, <1>6

\* The node of a use of x.
UseNode(v, x) ==
  \/ v.visit = "CallExpression" /\ v.call \in UseOf(x)
  \/ v.visit = "ExpressionStatement" /\ v.expression \in UseOf(x)
  \/ v.visit = "ReturnStatement" /\ v.argument = Name(x)

LEMMA UseNodes ==
  ASSUME NEW s, Sends(s), NEW l
  PROVE  /\ s.form \in {"call", "give", "piped", "argument"} =>
              /\ Listed(Nodes(s, l)) /\ Len(Nodes(s, l)) > 0
              /\ \A i \in 1 .. Len(Nodes(s, l)) : UseNode(Nodes(s, l)[i], s.place)
         /\ s.form \in {"return of", "tail of"} => \E v : UseNode(v, s.place) /\ Finishes(Nodes(s, l), v)
         /\ s.form = "arrow" =>
              /\ Listed(Nodes(s, l)) /\ Len(Nodes(s, l)) > 1 /\ Nodes(s, l)[Len(Nodes(s, l))] = Exit
              /\ Nodes(s, l)[Len(Nodes(s, l)) - 1] = [visit |-> "ArrowEnter", body |-> Name(s.place)]
              /\ \A i \in 1 .. Len(Nodes(s, l)) - 2 : Passive(Nodes(s, l)[i])
<1> DEFINE x == s.place
           t == Nodes(s, l)
<1>1. s.op # "close" /\ x \in EventPlaces
  BY DEF Sends
<1>2. ASSUME s.form \in {"call", "give", "piped", "argument"}
      PROVE  /\ Listed(t) /\ Len(t) > 0 /\ \A i \in 1 .. Len(t) : UseNode(t[i], x)
  <2>1. \E e \in UseOf(x) : t = InStatement(e, l)
    <3>1. SendCall(x) \in UseOf(x) /\ PassTo("send", Name(x)) \in UseOf(x) /\ PassTo("run", Name(x)) \in UseOf(x)
      BY DEF UseOf
    <3> QED
      BY <1>1, <1>2, <3>1, NodesOfUse
  <2>2. PICK e \in UseOf(x) : t = InStatement(e, l)
    BY <2>1
  <2> DEFINE v == [visit |-> "ExpressionStatement", expression |-> e, line |-> l]
             a == <<v>>
             b == CallVisits(e)
  <2>3. /\ Listed(b)
        /\ \A i \in 1 .. Len(b) : b[i].visit = "CallExpression" /\ b[i].call = e
    BY <1>1, UseCalls
  <2>4. UseNode(v, x)
    BY DEF UseNode
  <2>5. Listed(a) /\ Len(a) = 1 /\ a[1] = v
    BY ListedOne
  <2>6. t = a \o b
    BY <2>2 DEF InStatement
  <2> HIDE DEF a, b, v, t
  <2>7. /\ Listed(a \o b) /\ Len(a \o b) = Len(a) + Len(b)
        /\ \A i \in 1 .. Len(a) : (a \o b)[i] = a[i]
        /\ \A i \in 1 .. Len(a \o b) : i \in 1 .. Len(a) \/ (i - Len(a) \in 1 .. Len(b) /\ (a \o b)[i] = b[i - Len(a)])
    BY <2>3, <2>5, ListedBehind
  <2>8. Len(b) \in Nat
    BY <2>3 DEF Listed
  <2>9. \A i \in 1 .. Len(b) : UseNode(b[i], x)
    BY <2>3 DEF UseNode
  <2>10. \A i \in 1 .. Len(a) : UseNode(a[i], x)
    BY <2>4, <2>5
  <2>11. Listed(t) /\ Len(t) = 1 + Len(b)
    BY <2>5, <2>6, <2>7
  <2>12. \A i \in 1 .. Len(t) : UseNode(t[i], x)
    BY <2>6, <2>7, <2>9, <2>10
  <2> QED
    BY <2>8, <2>11, <2>12
<1>3. ASSUME s.form \in {"return of", "tail of"} PROVE \E v : UseNode(v, x) /\ Finishes(t, v)
  <2> DEFINE v == [visit |-> "ReturnStatement", argument |-> Name(x)]
  <2>1. UseNode(v, x)
    BY DEF UseNode
  <2>2. Listed(CallVisits(Name(x))) /\ \A i \in 1 .. Len(CallVisits(Name(x))) : Passive(CallVisits(Name(x))[i])
    <3>1. /\ Listed(Name(x).links) /\ Len(Name(x).links) = Len(x) - 1
          /\ \A k \in 1 .. Len(x) - 1 : Name(x).links[k].kind = "dot"
      BY <1>1, EventPaths, NameFacts
    <3>2. \A k \in 1 .. Len(Name(x).links) : Name(x).links[k].kind # "call"
      BY <3>1
    <3> QED
      BY <3>1, <3>2, CallsFrom
  <2>3. t = InReturn(Name(x))
    BY <1>1, <1>3, NodesOfUse
  <2>4. Finishes(t, v)
    BY <2>2, <2>3, ReturnFinishes
  <2> QED
    BY <2>1, <2>4
<1>4. ASSUME s.form = "arrow"
      PROVE  /\ Listed(t) /\ Len(t) > 1 /\ t[Len(t)] = Exit
             /\ t[Len(t) - 1] = [visit |-> "ArrowEnter", body |-> Name(x)]
             /\ \A i \in 1 .. Len(t) - 2 : Passive(t[i])
  <2> DEFINE p == PassTo("run", Nowhere)
             a == InStatement(p, l)
             v == [visit |-> "ExpressionStatement", expression |-> p, line |-> l]
             w == [visit |-> "ArrowEnter", body |-> Name(x)]
             b == <<w, Exit>>
  <2>1. Listed(p.links) /\ Mild(p) /\ Silent(p)
    BY NowhereIsNone, NoName0, PassMild
  <2>2. Led(a, v)
    BY <2>1, StatementLed
  <2>3. Passive(v)
    BY <2>1 DEF Passive
  <2>4. Listed(b) /\ Len(b) = 2 /\ b[1] = w /\ b[2] = Exit
    BY ListedTwo
  <2>5. t = a \o b
    BY <1>1, <1>4, NodesOfUse
  <2> HIDE DEF a, b, v, w, p, t
  <2>6. Listed(a) /\ Len(a) \in Nat \ {0} /\ \A i \in 1 .. Len(a) : Passive(a[i])
    <3>1. Listed(a) /\ Len(a) \in Nat \ {0} /\ a[1] = v /\ \A i \in 2 .. Len(a) : Passive(a[i])
      BY <2>2 DEF Led, Listed
    <3> QED
      BY <2>3, <3>1
  <2>7. /\ Listed(t) /\ Len(t) = Len(a) + Len(b)
        /\ \A i \in 1 .. Len(a) : t[i] = a[i]
        /\ \A i \in 1 .. Len(b) : t[Len(a) + i] = b[i]
    <3>1. Listed(a) /\ Listed(b)
      BY <2>4, <2>6
    <3> QED
      BY ONLY <2>5, <3>1, ListedBehind
  <2>8. Len(t) = Len(a) + 2 /\ t[Len(a) + 1] = w /\ t[Len(a) + 2] = Exit
    BY <2>4, <2>7
  <2>9. Len(t) - 1 = Len(a) + 1 /\ Len(t) - 2 = Len(a) /\ Len(t) > 1
    BY <2>6, <2>8
  <2> QED
    BY <2>6, <2>7, <2>8, <2>9 DEF w
<1> QED
  BY <1>2, <1>3, <1>4

-----------------------------------------------------------------------------
(***************************************************************************)
(* A statement is written when nothing is left to visit.                   *)
(***************************************************************************)
Writes(s, F) ==
  /\ ProgramInv /\ RuleState(F) /\ Clean(ruleScopes, ruleReported) /\ OpenFunctions(F)
  /\ s \in Statements /\ Extend(s) /\ todo = <<>>
  /\ SameKnown /\ SameReports /\ ruleScopes' = ruleScopes

\* Whatever the file was found to have, it still has.
LEMMA WritesFacts ==
  ASSUME NEW s, NEW F, Writes(s, F)
  PROVE  /\ FramesOk /\ BirthsOk /\ HoldsOk /\ LaterOnes /\ KeptOpen
         /\ Written \in Nat /\ Lines = 1 .. Written /\ Written' = Written + 1 /\ Lines' = 1 .. Written + 1
         /\ \A e \in Lines : e \in Lines' /\ births'[e] = births[e]
         /\ births'[Written + 1] = Birth(s) /\ uses'[Written + 1] = {}
         /\ \A e \in Lines : /\ uses'[e] = uses[e] \/ (Uses(s) /\ e = Value(s.place) /\ births[e].place = s.place)
                             /\ uses[e] # {} => uses'[e] # {}
         /\ Uses(s) => Value(s.place) \in Lines /\ births[Value(s.place)].place = s.place /\ uses'[Value(s.place)] # {}
<1>1. FramesOk /\ BirthsOk /\ HoldsOk /\ LaterOnes /\ KeptOpen /\ s \in Statements /\ Extend(s)
  BY DEF Writes, ProgramInv
<1>2. /\ Written' = Written + 1 /\ Lines' = 1 .. Written + 1 /\ Written + 1 \in Lines' /\ Lines \subseteq Lines'
      /\ \A e \in Lines : births'[e] = births[e]
      /\ births'[Written + 1] = Birth(s) /\ uses'[Written + 1] = {}
      /\ \A e \in Lines : uses'[e] = uses[e] \/ (Uses(s) /\ e = Value(s.place) /\ uses'[e] = uses[e] \cup {s.form})
      /\ Uses(s) => /\ Value(s.place) \in Lines /\ births[Value(s.place)].place = s.place
                    /\ s.form \in uses'[Value(s.place)]
  BY <1>1, LineAdded
<1>3. Written \in Nat /\ Lines = 1 .. Written
  BY <1>1, BirthsFacts
<1>4. \A e \in Lines : /\ uses'[e] = uses[e] \/ (Uses(s) /\ e = Value(s.place) /\ births[e].place = s.place)
                       /\ uses[e] # {} => uses'[e] # {}
  <2> TAKE e \in Lines
  <2>1. CASE uses'[e] = uses[e]
    BY <2>1
  <2>2. CASE Uses(s) /\ e = Value(s.place) /\ uses'[e] = uses[e] \cup {s.form}
    BY <1>2, <2>2
  <2> QED
    BY <1>2, <2>1, <2>2
<1>5. Uses(s) => Value(s.place) \in Lines /\ births[Value(s.place)].place = s.place /\ uses'[Value(s.place)] # {}
  BY <1>2
<1> QED
  BY <1>1, <1>2, <1>3, <1>4, <1>5

LEMMA StatementStays ==
  ASSUME NEW s, NEW F, Writes(s, F)
  PROVE  /\ LoggerLine => LoggerLine'
         /\ Birth(s).chain = "logger" => LoggerLine'
         /\ \A e \in Lines :
              /\ Excused(e) => Excused(e)'
              /\ RuleMixesUp(e) => RuleMixesUp(e)'
         /\ \A x : Used(x) => Used(x)'
<1>1. /\ \A e \in Lines : e \in Lines' /\ births'[e] = births[e] /\ (uses[e] # {} => uses'[e] # {})
      /\ births'[Written + 1] = Birth(s) /\ Written + 1 \in Lines'
  <2>1. /\ \A e \in Lines : e \in Lines' /\ births'[e] = births[e]
        /\ \A e \in Lines : uses[e] # {} => uses'[e] # {}
        /\ births'[Written + 1] = Birth(s) /\ Lines' = 1 .. Written + 1 /\ Written \in Nat
    BY WritesFacts
  <2>2. Written + 1 \in Lines'
    BY <2>1
  <2> QED
    BY <2>1, <2>2
<1> HIDE DEF Lines
<1>2. LoggerLine => LoggerLine'
  BY <1>1 DEF LoggerLine
<1>3. Birth(s).chain = "logger" => LoggerLine'
  BY <1>1 DEF LoggerLine
<1>4. \A e \in Lines : Excused(e) => Excused(e)'
  BY <1>1 DEF Excused, RuleHides
<1>5. \A e \in Lines : RuleMixesUp(e) => RuleMixesUp(e)'
  BY <1>1 DEF RuleMixesUp
<1>6. \A x : Used(x) => Used(x)'
  BY <1>1 DEF Used
<1> QED
  BY <1>2, <1>3, <1>4, <1>5, <1>6

LEMMA NothingLeft ==
  ASSUME NEW F, todo = <<>>, RuleState(F), OpenFunctions(F), FramesOk, HoldsOk, BirthsOk
  PROVE  /\ Len(ruleScopes) = Len(F)
         /\ \A k \in DOMAIN ruleScopes, x \in Names : ruleScopes[k][x] # Nothing =>
              uses[nodeLine[ruleScopes[k][x]]] = {} \/ Excused(nodeLine[ruleScopes[k][x]])
         /\ \A e \in Events : births[e].chain \in Heard /\ ~Handed(e) => Remembered(ruleScopes, e)
         /\ \A d \in DOMAIN frames :
              /\ frames[d].holds[App] = Empty => App \in knownLoggers
              /\ frames[d].holds[Factory] = Empty => Factory \in knownFactories
              /\ frames[d].holds[Package] = Empty => <<"otel", "BaseLogger">> \in knownClasses
<1>1. DOMAIN todo = {} /\ Len(todo) = 0
  OBVIOUS
<1>2. Len(ruleScopes) = Len(F)
  <2>1. NodesOk(todo, F, Len(ruleScopes))
    BY DEF RuleState
  <2> QED
    BY <1>1, <2>1 DEF NodesOk
<1>3. \A k \in DOMAIN ruleScopes, x \in Names : ruleScopes[k][x] # Nothing =>
        uses[nodeLine[ruleScopes[k][x]]] = {} \/ Excused(nodeLine[ruleScopes[k][x]])
  BY <1>1 DEF RuleState, UsedOk
<1>4. \A e \in Events : births[e].chain \in Heard /\ ~Handed(e) => Remembered(ruleScopes, e)
  BY <1>1 DEF RuleState, HeardOk
<1>5. \A d \in DOMAIN frames :
        /\ frames[d].holds[App] = Empty => App \in knownLoggers
        /\ frames[d].holds[Factory] = Empty => Factory \in knownFactories
        /\ frames[d].holds[Package] = Empty => <<"otel", "BaseLogger">> \in knownClasses
  BY <1>1 DEF RuleState, LearntOk
<1> QED
  BY <1>2, <1>3, <1>4, <1>5

\* What is held under the names of loggers, factories and packages.
LEMMA NamesHeld ==
  ASSUME NEW s, NEW F, Writes(s, F), NEW q \in {App, Factory, Package}, NEW b \in DOMAIN frames'
  PROVE  \/ b \in DOMAIN frames /\ frames'[b].holds[q] = frames[b].holds[q]
         \/ b \notin DOMAIN frames /\ frames'[b].holds[q] = Undeclared
         \/ /\ q = s.place /\ b = Len(frames) /\ frames[b].holds[q] = Undeclared
            /\ \/ Imports(s) /\ Len(frames) = 1 /\ frames'[b].holds[q] = IF s.form = "foreign" THEN Foreign ELSE Empty
               \/ MakesLogger(s) /\ frames'[b].holds[q] = IF s.form = "factory" THEN Value(Factory) ELSE Empty
<1>1. FramesOk /\ BirthsOk /\ HoldsOk /\ s \in Statements /\ Extend(s)
  BY DEF Writes, ProgramInv
<1>2. Len(frames) \in Nat \ {0} /\ DOMAIN frames = 1 .. Len(frames)
  BY <1>1, FramesFacts
<1>3. q \in Places /\ q \notin EventPlaces
  BY PlacesAssumption DEF EventPlaces
<1>4. births'[Written + 1] = Birth(s)
  BY WritesFacts
<1>5. Drops(s) \/ ~Keeps(s) => births'[Written + 1].place = <<>>
  BY <1>1, <1>4, BuildIs, NoBuildIs DEF Drops
<1>6. CASE Keeps(s)
  <2>1. PICK d \in DOMAIN frames : Puts(d, s.place, Written + 1)
    BY <1>1, <1>6, AfterKeeps
  <2>2. q # s.place
    BY <1>3, <1>6 DEF Keeps
  <2> QED
    BY <1>1, <1>3, <2>1, <2>2, PutFacts
<1>7. CASE Imports(s) \/ DeclaresIt(s) \/ MakesLogger(s)
  <2>1. Declares(s)
    BY <1>7 DEF Imports, DeclaresIt, MakesLogger, Declares
  <2>2. frames[Len(frames)].holds[s.place] = Undeclared
    BY <1>1, <2>1, AfterDeclares
  <2>3. CASE Imports(s)
    <3>1. Len(frames) = 1 /\ Puts(Len(frames), s.place, IF s.form = "foreign" THEN Foreign ELSE Empty)
      BY <1>1, <2>1, <2>3, AfterDeclares
    <3> DEFINE v == IF s.form = "foreign" THEN Foreign ELSE Empty
    <3>2. Puts(Len(frames), s.place, v)
      BY <3>1
    <3> HIDE DEF v
    <3>3. b \in DOMAIN frames /\ frames'[b].holds[q] = IF b = Len(frames) /\ q = s.place THEN v ELSE frames[b].holds[q]
      BY <1>1, <1>3, <3>2, PutFacts
    <3> QED
      BY <2>2, <2>3, <3>1, <3>3 DEF v
  <2>4. CASE DeclaresIt(s)
    <3>1. Puts(Len(frames), s.place, Empty) /\ q # s.place
      BY <1>1, <1>3, <2>1, <2>4, AfterDeclares DEF DeclaresIt
    <3> QED
      BY <1>1, <1>3, <3>1, PutFacts
  <2>5. CASE MakesLogger(s)
    <3> DEFINE v == IF s.form = "factory" THEN Value(Factory) ELSE Empty
    <3>1. Puts(Len(frames), App, v) /\ s.place = App
      BY <1>1, <2>1, <2>5, AfterDeclares DEF MakesLogger
    <3> HIDE DEF v
    <3>2. b \in DOMAIN frames /\ frames'[b].holds[q] = IF b = Len(frames) /\ q = App THEN v ELSE frames[b].holds[q]
      BY <1>1, <1>3, <3>1, PutFacts
    <3> QED
      BY <2>2, <2>5, <3>1, <3>2 DEF v
  <2> QED
    BY <1>7, <2>3, <2>4, <2>5
<1>8. CASE Shuts(s) \/ ((Drops(s) \/ Sends(s)) /\ Ends(s))
  <2>1. Removes /\ births'[Written + 1].place = <<>>
    BY <1>1, <1>5, <1>8, AfterEnds DEF Shuts, Drops, Sends, Keeps, Binding
  <2>2. /\ frames' \in Seq(FrameRecords) /\ Len(frames') = Len(frames) - 1
        /\ \A c \in 1 .. Len(frames) - 1 : frames'[c] = frames[c]
    BY <1>1, <2>1, ChangeRemoves
  <2>3. DOMAIN frames' = 1 .. Len(frames')
    BY ONLY <2>2
  <2>4. b \in 1 .. Len(frames) - 1 /\ b \in DOMAIN frames
    BY <1>2, <2>2, <2>3
  <2> QED
    BY <2>2, <2>4
<1>9. CASE (Drops(s) \/ Sends(s)) /\ ~Ends(s)
  <2>1. frames' = frames
    BY <1>1, <1>9, AfterOthers
  <2> QED
    BY <2>1
<1>10. CASE Begins(s)
  <2>1. Adds(s) /\ births'[Written + 1].place = <<>>
    BY <1>1, <1>5, <1>10, AfterBegins DEF Begins, Keeps
  <2>2. /\ frames' \in Seq(FrameRecords) /\ Len(frames') = Len(frames) + 1
        /\ Changes(0, <<>>, Empty)
        /\ \A c \in 1 .. Len(frames) : frames'[c] = frames[c]
    BY <1>1, <2>1, ChangeAdds
  <2>3. b \in DOMAIN frames \/ (b = Len(frames) + 1 /\ \A o \in Places : frames'[b].holds[o] = Undeclared)
    BY <2>2 DEF Changes
  <2>4. b = Len(frames) + 1 => b \notin DOMAIN frames
    BY <1>2
  <2> QED
    BY <1>2, <1>3, <2>2, <2>3, <2>4
<1> QED
  BY <1>1, <1>6, <1>7, <1>8, <1>9, <1>10, StatementIs

LEMMA OuterBlock ==
  ASSUME NEW s, NEW F, Writes(s, F)
  PROVE  1 \in DOMAIN frames /\ 1 \in DOMAIN frames'
<1>1. FramesOk /\ BirthsOk /\ HoldsOk /\ s \in Statements /\ Extend(s)
  BY DEF Writes, ProgramInv
<1>2. PICK d, p, v : Changes(d, p, v)
  BY <1>1, FramesChange
<1>3. Len(frames') \in Nat \ {0} /\ DOMAIN frames' = 1 .. Len(frames')
  BY <1>2 DEF Changes
<1>4. 1 \in DOMAIN frames
  BY <1>1, FramesFacts
<1> QED
  BY <1>3, <1>4

LEMMA FactoryStays ==
  ASSUME NEW s, NEW F, Writes(s, F), FactoryIsOurs
  PROVE  FactoryIsOurs'
<1>1. 1 \in DOMAIN frames /\ 1 \in DOMAIN frames'
  BY OuterBlock
<1>2. frames[1].holds[Factory] = Empty /\ \A d \in DOMAIN frames : frames[d].holds[Factory] # Foreign
  BY DEF FactoryIsOurs
<1>3. Undeclared # Empty /\ Undeclared # Foreign /\ Empty # Foreign /\ App # Factory
  BY DEF Undeclared, Empty, Foreign, App, Factory
<1>4. \A b \in DOMAIN frames' :
        \/ b \in DOMAIN frames /\ frames'[b].holds[Factory] = frames[b].holds[Factory]
        \/ b \notin DOMAIN frames /\ frames'[b].holds[Factory] = Undeclared
  <2> TAKE b \in DOMAIN frames'
  <2>1. Imports(s) /\ b = Len(frames) /\ Len(frames) = 1 => frames[b].holds[Factory] # Undeclared
    BY <1>2, <1>3
  <2>2. MakesLogger(s) => s.place # Factory
    BY <1>3 DEF MakesLogger
  <2>3. \/ b \in DOMAIN frames /\ frames'[b].holds[Factory] = frames[b].holds[Factory]
        \/ b \notin DOMAIN frames /\ frames'[b].holds[Factory] = Undeclared
        \/ /\ Factory = s.place /\ b = Len(frames) /\ frames[b].holds[Factory] = Undeclared
           /\ (Imports(s) /\ Len(frames) = 1) \/ MakesLogger(s)
    BY NamesHeld
  <2> QED
    BY <2>1, <2>2, <2>3
<1> QED
  BY <1>1, <1>2, <1>3, <1>4 DEF FactoryIsOurs

LEMMA KnownStays ==
  ASSUME NEW s, NEW F, Writes(s, F)
  PROVE  KnownOk'
<1>1. /\ knownLoggers' = knownLoggers /\ knownFactories' = knownFactories /\ knownClasses' = knownClasses
      /\ KnownOk
  BY DEF Writes, SameKnown, RuleState
<1>2. (LoggerLine => LoggerLine') /\ (FactoryIsOurs => FactoryIsOurs')
  BY StatementStays, FactoryStays
<1> QED
  BY <1>1, <1>2 DEF KnownOk

LEMMA RecordsStay ==
  ASSUME NEW s, NEW F, Writes(s, F)
  PROVE  RecordsOk' /\ AccusedOk'
<1>1. /\ nodeLine' = nodeLine /\ ruleReported' = ruleReported
      /\ RecordsOk /\ AccusedOk /\ EndedOk(F) /\ OpenFunctions(F)
  BY DEF Writes, SameReports, RuleState
<1>2. /\ FramesOk /\ HoldsOk /\ \A e \in Lines : e \in Lines' /\ births'[e] = births[e]
      /\ \A e \in Lines : /\ uses'[e] = uses[e] \/ (Uses(s) /\ e = Value(s.place) /\ births[e].place = s.place)
      /\ Uses(s) => Value(s.place) \in Lines
      /\ Lines = 1 .. Written /\ Written \in Nat
  BY WritesFacts
<1>3. /\ LoggerLine => LoggerLine'
      /\ \A e \in Lines : Excused(e) => Excused(e)'
  BY StatementStays
<1>4. RecordsOk'
  <2>1. /\ nodeLine \in Seq(Nat) /\ Len(nodeLine) = Len(ruleReported)
        /\ \A m \in DOMAIN nodeLine :
             /\ nodeLine[m] \in Lines /\ births[nodeLine[m]].chain \in Heard \cup {"foreign"}
             /\ births[nodeLine[m]].form \in {"stmt"} \cup Binding
             /\ births[nodeLine[m]].chain = "foreign" => LoggerLine
             /\ births[nodeLine[m]].form = "stmt" => births[nodeLine[m]].place = <<>>
    BY <1>1 DEF RecordsOk
  <2>2. \A m \in DOMAIN nodeLine :
          /\ nodeLine[m] \in Lines' /\ births'[nodeLine[m]].chain \in Heard \cup {"foreign"}
          /\ births'[nodeLine[m]].form \in {"stmt"} \cup Binding
          /\ births'[nodeLine[m]].chain = "foreign" => LoggerLine'
          /\ births'[nodeLine[m]].form = "stmt" => births'[nodeLine[m]].place = <<>>
    <3> TAKE m \in DOMAIN nodeLine
    <3>1. nodeLine[m] \in Lines /\ nodeLine[m] \in Lines' /\ births'[nodeLine[m]] = births[nodeLine[m]]
      BY <1>2, <2>1
    <3> QED
      BY <1>3, <2>1, <3>1
  <2> QED
    BY <1>1, <2>1, <2>2 DEF RecordsOk
<1>5. AccusedOk'
  <2>1. SUFFICES ASSUME NEW m \in DOMAIN nodeLine, ruleReported[m] # 0
        PROVE  uses'[nodeLine[m]] = {} \/ Excused(nodeLine[m])'
    BY <1>1 DEF AccusedOk
  <2>7. PICK e : e = nodeLine[m]
    OBVIOUS
  <2>2. e \in Lines /\ births[e].form \in {"stmt"} \cup Binding /\ (births[e].form = "stmt" => births[e].place = <<>>)
    BY <1>1, <2>7 DEF RecordsOk
  <2>3. uses[e] = {} \/ Excused(e)
    BY <1>1, <2>1, <2>7 DEF AccusedOk
  <2>4. Excused(e) => Excused(e)'
    BY <1>3, <2>2
  <2>5. ASSUME uses'[e] # uses[e] PROVE Excused(e)
    <3>1. Uses(s) /\ e = Value(s.place) /\ births[e].place = s.place /\ s.place \in EventPlaces
      <4>1. Uses(s) => s.place \in EventPlaces
        BY StatementIs DEF Writes, Uses, Drops, Keeps, Imports, DeclaresIt, MakesLogger, Sends, Begins, Shuts
      <4> QED
        BY <1>2, <2>2, <2>5, <4>1
    <3>2. births[e].form \in Binding
      BY <2>2, <3>1, EventPaths DEF Spelled
    <3>3. \A i \in DOMAIN F : births[e].fun # F[i]
      BY <1>1, <2>1, <2>7, <3>2 DEF EndedOk
    <3>4. e > Empty
      BY <1>2, <2>2 DEF Empty
    <3> DEFINE d == Depth(s.place)
    <3>5. d \in DOMAIN frames /\ frames[d].holds[s.place] = e
      <4>1. d # 0
        BY <1>2, <3>1, <3>4, DepthIs DEF Empty
      <4> QED
        BY <1>2, <3>1, <4>1, DepthIs
    <3>6. s.place \in Places
      BY <3>1 DEF EventPlaces
    <3> HIDE DEF d
    <3>7. \E k \in 1 .. d : frames[k].fun /\ frames[k].id = births[e].keep[2]
      BY <1>2, <3>4, <3>5, <3>6 DEF HoldsOk
    <3>8. PICK k \in 1 .. d : frames[k].fun /\ frames[k].id = births[e].keep[2]
      BY <3>7
    <3>9. k \in DOMAIN frames
      BY <1>2, <3>5, <3>8, FramesFacts
    <3>10. \E i \in DOMAIN F : F[i] = births[e].keep[2]
      BY <1>1, <3>8, <3>9 DEF OpenFunctions
    <3> QED
      BY <3>3, <3>10 DEF Excused
  <2>6. uses'[e] = {} \/ Excused(e)'
    BY <2>3, <2>4, <2>5
  <2> QED
    BY <1>1, <2>6, <2>7 DEF Excused, RuleHides
<1> QED
  BY <1>4, <1>5

\* The functions that are open afterwards: the same, one less or one more.
Opened(G, F) ==
  \/ G = F
  \/ G = SubSeq(F, 1, Len(F) - 1)
  \/ G = Append(F, Written + 1)

LEMMA OpenedFacts ==
  ASSUME NEW F, NEW G, OpenFunctions(F), FramesOk, BirthsOk, Opened(G, F)
  PROVE  /\ F \in Seq(Nat) /\ Len(F) \in Nat \ {0} /\ DOMAIN F = 1 .. Len(F)
         /\ Len(G) \in Nat /\ DOMAIN G = 1 .. Len(G)
         /\ \A i \in DOMAIN G : (i \in DOMAIN F /\ G[i] = F[i]) \/ (i = Len(F) + 1 /\ G[i] = Written + 1)
         /\ \/ G = F
            \/ Len(G) = Len(F) - 1
            \/ Len(G) = Len(F) + 1 /\ G[Len(G)] = Written + 1
<1>1. Len(F) \in Nat \ {0} /\ DOMAIN F = 1 .. Len(F) /\ F \in Seq(Nat)
  BY InnermostOpen DEF OpenFunctions
<1>2. Written \in Nat
  BY BirthsFacts
<1>3. CASE G = F
  BY <1>1, <1>3
<1>4. CASE G = SubSeq(F, 1, Len(F) - 1)
  <2>1. /\ G \in Seq(Nat) /\ Len(G) = Len(F) - 1
        /\ \A k \in 1 .. Len(F) - 1 : G[k] = F[k]
    BY ONLY <1>1, <1>4
  <2>2. DOMAIN G = 1 .. Len(G)
    BY ONLY <2>1
  <2> QED
    BY <1>1, <2>1, <2>2
<1>5. CASE G = Append(F, Written + 1)
  <2>1. Written + 1 \in Nat
    BY <1>2
  <2>2. /\ G \in Seq(Nat) /\ Len(G) = Len(F) + 1
        /\ (\A k \in 1 .. Len(F) : G[k] = F[k]) /\ G[Len(F) + 1] = Written + 1
    BY <1>1, <1>5, <2>1, OneMore
  <2>3. DOMAIN G = 1 .. Len(G)
    BY ONLY <2>2
  <2>4. \A i \in DOMAIN G : i \in DOMAIN F \/ i = Len(F) + 1
    BY <1>1, <2>2, <2>3
  <2>5. \A i \in DOMAIN F : G[i] = F[i]
    BY <1>1, <2>2
  <2> QED
    BY <1>1, <2>2, <2>3, <2>4, <2>5
<1> QED
  BY <1>3, <1>4, <1>5 DEF Opened

LEMMA EndedStays ==
  ASSUME NEW s, NEW CONSTANT F, Writes(s, F), NEW CONSTANT G, Opened(G, F)
  PROVE  EndedOk(G)'
<1>1. /\ nodeLine' = nodeLine /\ ruleReported' = ruleReported
      /\ RecordsOk /\ EndedOk(F) /\ OpenFunctions(F)
  BY DEF Writes, SameReports, RuleState
<1>2. /\ FramesOk /\ BirthsOk /\ \A e \in Lines : births'[e] = births[e]
      /\ Lines = 1 .. Written /\ Written \in Nat
  BY WritesFacts
<1>3. \A i \in DOMAIN G : (i \in DOMAIN F /\ G[i] = F[i]) \/ G[i] = Written + 1
  BY <1>1, <1>2, OpenedFacts
<1>4. SUFFICES ASSUME NEW m \in DOMAIN nodeLine, ruleReported[m] # 0, births'[nodeLine[m]].form \in Binding,
                      NEW i \in DOMAIN G
      PROVE  births'[nodeLine[m]].fun # G[i]
  BY <1>1 DEF EndedOk
<1>5. nodeLine[m] \in Lines /\ births'[nodeLine[m]] = births[nodeLine[m]]
  BY <1>1, <1>2 DEF RecordsOk
<1>6. \A j \in DOMAIN F : births[nodeLine[m]].fun # F[j]
  BY <1>1, <1>4, <1>5 DEF EndedOk
<1>7. births[nodeLine[m]].fun # Written + 1
  <2>1. births[nodeLine[m]].fun < nodeLine[m] /\ births[nodeLine[m]].fun \in Nat
    BY <1>2, <1>5, BirthsFacts DEF BirthsOk
  <2> QED
    BY <1>2, <1>5, <2>1
<1> QED
  BY <1>3, <1>5, <1>6, <1>7

LEMMA PendingStays ==
  ASSUME NEW s, NEW CONSTANT F, Writes(s, F), NEW CONSTANT G, Opened(G, F)
  PROVE  PendingOk(ruleScopes, G)'
<1>1. /\ nodeLine' = nodeLine /\ ruleScopes' = ruleScopes /\ todo = <<>> /\ RuleState(F)
      /\ RecordsOk /\ PendingOk(ruleScopes, F) /\ OpenFunctions(F) /\ Clean(ruleScopes, ruleReported)
  BY DEF Writes, SameReports, RuleState
<1>2. /\ FramesOk /\ BirthsOk /\ HoldsOk /\ \A e \in Lines : births'[e] = births[e]
      /\ Lines = 1 .. Written /\ Written \in Nat
  BY WritesFacts
<1>3. /\ Len(F) \in Nat \ {0} /\ DOMAIN F = 1 .. Len(F)
      /\ Len(G) \in Nat /\ DOMAIN G = 1 .. Len(G)
      /\ \A i \in DOMAIN G : (i \in DOMAIN F /\ G[i] = F[i]) \/ (i = Len(F) + 1 /\ G[i] = Written + 1)
      /\ \/ G = F
         \/ Len(G) = Len(F) - 1
         \/ Len(G) = Len(F) + 1 /\ G[Len(G)] = Written + 1
  BY <1>1, <1>2, OpenedFacts
<1>4. Len(ruleScopes) = Len(F) /\ DOMAIN ruleScopes = 1 .. Len(F) /\ ruleScopes \in Stacks
  BY <1>1, <1>2, NothingLeft, StackFacts DEF Clean
<1>5. \A i, j \in DOMAIN F : i < j => F[i] < F[j]
  BY <1>1 DEF OpenFunctions
<1>6. \A k \in DOMAIN F : F[k] \in Nat
  BY <1>1, <1>2, InnermostOpen
<1>7. SUFFICES ASSUME NEW k \in DOMAIN ruleScopes, NEW x \in Names, ruleScopes[k][x] # Nothing,
                      NEW e, e = nodeLine[ruleScopes[k][x]]
      PROVE  /\ x \in EventPlaces /\ births'[e].place = x /\ births'[e].form \in Binding
             /\ k <= Len(G) => births'[e].fun = G[k]
             /\ k < Len(G) => e < G[k + 1]
             /\ k > Len(G) => \A i \in DOMAIN G : births'[e].fun # G[i]
  BY <1>1 DEF PendingOk
<1>8. /\ x \in EventPlaces /\ births[e].place = x /\ births[e].form \in Binding
      /\ k <= Len(F) => births[e].fun = F[k]
      /\ k < Len(F) => e < F[k + 1]
  BY <1>1, <1>7 DEF PendingOk
<1>9. e \in Lines /\ births'[e] = births[e] /\ e \in Nat /\ e <= Written
  <2>1. ruleScopes[k][x] \in DOMAIN ruleReported
    BY <1>1, <1>7 DEF Clean, Known
  <2>2. ruleScopes[k][x] \in DOMAIN nodeLine
    <3>1. nodeLine \in Seq(Nat) /\ Len(nodeLine) = Len(ruleReported) /\ ruleReported \in Reports
      BY <1>1 DEF RecordsOk, Clean
    <3>2. DOMAIN nodeLine = DOMAIN ruleReported
      BY ONLY <3>1 DEF Reports
    <3> QED
      BY <2>1, <3>2
  <2>3. e \in Lines
    BY <1>1, <1>7, <2>2 DEF RecordsOk
  <2> QED
    BY <1>2, <2>3
<1>14. Len(F) \in Nat /\ DOMAIN F = 1 .. Len(F) /\ Len(G) \in Nat /\ DOMAIN G = 1 .. Len(G)
  BY <1>3
<1>15. k \in 1 .. Len(F)
  BY <1>4, <1>7
<1>16. k \in DOMAIN F /\ k \in Nat /\ k <= Len(F)
  BY ONLY <1>14, <1>15
<1>10. births[e].fun = F[k]
  BY <1>8, <1>16
<1>11. k <= Len(G) => births[e].fun = G[k]
  <2> HAVE k <= Len(G)
  <2>1. k \in DOMAIN G /\ k # Len(F) + 1
    BY ONLY <1>14, <1>16, k <= Len(G)
  <2> QED
    BY <1>3, <1>10, <2>1
<1>12. k < Len(G) => e < G[k + 1]
  <2> HAVE k < Len(G)
  <2>1. k + 1 \in DOMAIN G
    BY ONLY <1>14, <1>16, k < Len(G)
  <2>2. CASE k + 1 \in DOMAIN F /\ G[k + 1] = F[k + 1]
    <3>1. k < Len(F)
      BY ONLY <1>14, <1>16, <2>2
    <3> QED
      BY <1>8, <2>2, <3>1
  <2>3. CASE G[k + 1] = Written + 1
    BY <1>2, <1>9, <2>3
  <2> QED
    BY <1>3, <2>1, <2>2, <2>3
<1>13. k > Len(G) => \A i \in DOMAIN G : births[e].fun # G[i]
  <2> HAVE k > Len(G)
  <2> TAKE i \in DOMAIN G
  <2>1. i < k /\ i # Len(F) + 1
    BY ONLY <1>14, <1>16, k > Len(G), i \in DOMAIN G
  <2>2. i \in DOMAIN F /\ G[i] = F[i]
    BY <1>3, <2>1
  <2>3. F[i] < F[k] /\ F[i] \in Nat /\ F[k] \in Nat
    BY <1>5, <1>6, <1>16, <2>1, <2>2
  <2> QED
    BY <1>10, <2>2, <2>3
<1> QED
  BY <1>8, <1>9, <1>11, <1>12, <1>13

\* A use is among what is visited.
LEMMA UseVisited ==
  ASSUME NEW s, Sends(s), NEW l, NEW t, t = Nodes(s, l)
  PROVE  \E i \in DOMAIN t : UseNode(t[i], s.place) \/ t[i] = [visit |-> "ArrowEnter", body |-> Name(s.place)]
<1>1. CASE s.form \in {"call", "give", "piped", "argument"}
  <2>1. Listed(t) /\ Len(t) > 0 /\ \A i \in 1 .. Len(t) : UseNode(t[i], s.place)
    BY <1>1, UseNodes
  <2>2. 1 \in 1 .. Len(t) /\ DOMAIN t = 1 .. Len(t)
    BY <2>1, ListedFacts DEF Listed
  <2> QED
    BY <2>1, <2>2
<1>2. CASE s.form \in {"return of", "tail of"}
  <2>1. PICK v : UseNode(v, s.place) /\ Finishes(t, v)
    BY <1>2, UseNodes
  <2>2. Listed(t) /\ Len(t) > 1 /\ t[1] = v
    BY <2>1 DEF Finishes
  <2>3. 1 \in DOMAIN t
    BY <2>2, ListedFacts DEF Listed
  <2> QED
    BY <2>1, <2>2, <2>3
<1>3. CASE s.form = "arrow"
  <2>1. Listed(t) /\ Len(t) > 1 /\ t[Len(t) - 1] = [visit |-> "ArrowEnter", body |-> Name(s.place)]
    BY <1>3, UseNodes
  <2>2. Len(t) - 1 \in DOMAIN t
    BY <2>1, ListedFacts DEF Listed
  <2> QED
    BY <2>1, <2>2
<1> QED
  BY <1>1, <1>2, <1>3 DEF Sends

LEMMA UsedStays ==
  ASSUME NEW s, NEW CONSTANT F, Writes(s, F), NEW CONSTANT T, T = Nodes(s, Written + 1), todo' = T
  PROVE  UsedOk(ruleScopes, todo)'
<1>1. /\ nodeLine' = nodeLine /\ ruleScopes' = ruleScopes /\ todo = <<>> /\ RuleState(F) /\ s \in Statements
      /\ RecordsOk /\ PendingOk(ruleScopes, F) /\ OpenFunctions(F) /\ Clean(ruleScopes, ruleReported)
  BY DEF Writes, SameReports, RuleState
<1>2. /\ FramesOk /\ BirthsOk /\ HoldsOk /\ LaterOnes /\ KeptOpen
      /\ \A e \in Lines : e \in Lines' /\ births'[e] = births[e]
      /\ \A e \in Lines : uses'[e] = uses[e] \/ (Uses(s) /\ e = Value(s.place) /\ births[e].place = s.place)
      /\ Lines = 1 .. Written /\ Written \in Nat
  BY WritesFacts
<1>3. /\ Len(ruleScopes) = Len(F) /\ DOMAIN ruleScopes = 1 .. Len(F) /\ ruleScopes \in Stacks
      /\ \A k \in DOMAIN ruleScopes, x \in Names : ruleScopes[k][x] # Nothing =>
              uses[nodeLine[ruleScopes[k][x]]] = {} \/ Excused(nodeLine[ruleScopes[k][x]])
  BY <1>1, <1>2, NothingLeft, StackFacts DEF Clean
<1>4. \A e \in Lines : Excused(e) => Excused(e)'
  BY StatementStays
<1>5. Len(F) \in Nat \ {0} /\ DOMAIN F = 1 .. Len(F) /\ (\A i, j \in DOMAIN F : i < j => F[i] < F[j])
      /\ \A k \in DOMAIN F : F[k] \in Nat
  BY <1>1, <1>2, InnermostOpen DEF OpenFunctions
<1>6. \A k \in DOMAIN ruleScopes, x \in Names : ruleScopes[k][x] # Nothing => nodeLine[ruleScopes[k][x]] \in Lines
  <2>1. nodeLine \in Seq(Nat) /\ Len(nodeLine) = Len(ruleReported) /\ ruleReported \in Reports
    BY <1>1 DEF RecordsOk, Clean
  <2>2. DOMAIN nodeLine = DOMAIN ruleReported
    BY ONLY <2>1 DEF Reports
  <2>3. \A k \in DOMAIN ruleScopes, x \in Names : ruleScopes[k][x] # Nothing => ruleScopes[k][x] \in DOMAIN nodeLine
    BY <1>1, <2>2 DEF Clean, Known
  <2> QED
    BY <1>1, <2>3 DEF RecordsOk
<1>7. SUFFICES ASSUME NEW k \in DOMAIN ruleScopes, NEW x \in Names, ruleScopes[k][x] # Nothing,
                      NEW CONSTANT e, e = nodeLine[ruleScopes[k][x]]
      PROVE  \/ uses'[e] = {} \/ Excused(e)'
             \/ /\ \A j \in DOMAIN ruleScopes : j > k => ruleScopes[j][x] = Nothing
                /\ \E i \in DOMAIN T : Clears(T[i], x)'
  <2>1. \A k \in DOMAIN ruleScopes, x \in Names : ruleScopes[k][x] # Nothing =>
          \E e : /\ e = nodeLine[ruleScopes[k][x]]
                 /\ \/ uses'[e] = {} \/ Excused(e)'
                    \/ /\ \A j \in DOMAIN ruleScopes : j > k => ruleScopes[j][x] = Nothing
                       /\ \E i \in DOMAIN T : Clears(T[i], x)'
    BY <1>7
  <2> QED
    BY <1>1, <2>1 DEF UsedOk, Excused, RuleHides, Clears, UsesName, UsesInside, Used
<1>8. e \in Lines /\ (uses[e] = {} \/ Excused(e))
  BY <1>3, <1>6, <1>7
<1>9. CASE uses'[e] = uses[e]
  BY <1>4, <1>8, <1>9
<1>10. CASE Uses(s) /\ e = Value(s.place) /\ births[e].place = s.place /\ uses'[e] # {}
  <2>1. Sends(s) /\ s.place = x /\ x \in EventPlaces
    <3>1. Sends(s)
      BY <1>1, <1>10, StatementIs DEF Uses, Drops, Keeps, Imports, DeclaresIt, MakesLogger, Sends, Begins, Shuts
    <3>2. births[e].place = x /\ x \in EventPlaces
      BY <1>1, <1>7 DEF PendingOk
    <3> QED
      BY <1>10, <3>1, <3>2
  <2>2. CASE \A j \in DOMAIN ruleScopes : j > k => ruleScopes[j][x] = Nothing
    <3>1. Used(x)'
      <4>1. e \in Lines' /\ births'[e].place = x /\ uses'[e] # {}
        BY <1>2, <1>8, <1>10, <2>1
      <4> QED
        BY <4>1 DEF Used
    <3>2. PICK i \in DOMAIN T : UseNode(T[i], x) \/ T[i] = [visit |-> "ArrowEnter", body |-> Name(x)]
      BY <2>1, UseVisited
    <3>3. Clears(T[i], x)'
      BY <2>1, <3>1, <3>2 DEF Clears, UsesName, UsesInside, UseNode
    <3> QED
      BY <2>2, <3>3
  <2>3. CASE \E j \in DOMAIN ruleScopes : j > k /\ ruleScopes[j][x] # Nothing
    <3>1. PICK j \in DOMAIN ruleScopes : j > k /\ ruleScopes[j][x] # Nothing
      BY <2>3
    <3>2. PICK f : f = nodeLine[ruleScopes[j][x]]
      OBVIOUS
    <3>3. f \in Lines /\ f \in Nat /\ births[f].place = x /\ x # <<>>
      BY <1>1, <1>2, <1>6, <2>1, <3>1, <3>2, NoName0 DEF PendingOk
    <3>4. k \in Nat /\ k + 1 \in DOMAIN F /\ j \in DOMAIN F /\ k + 1 <= j /\ k < Len(F) /\ j <= Len(F)
      BY <1>3, <1>5, <3>1
    <3>5. births[f].fun = F[j] /\ e < F[k + 1]
      BY <1>1, <1>7, <3>1, <3>2, <3>4 DEF PendingOk
    <3>6. F[k + 1] <= F[j] /\ F[k + 1] \in Nat /\ F[j] \in Nat
      <4>1. k + 1 = j \/ k + 1 < j
        BY <1>5, <3>4
      <4> QED
        BY <1>5, <3>4, <4>1
    <3>7. e \in Nat /\ e < births[f].fun /\ births[f].fun < f
      <4>1. e \in Nat
        BY <1>2, <1>8
      <4>2. births[f].fun < f
        BY <1>2, <3>3 DEF BirthsOk
      <4>3. e < F[j]
        BY <3>5, <3>6, <4>1
      <4> QED
        BY <3>5, <4>1, <4>2, <4>3
    <3>8. CASE births[f].keep[1] > births[f].fun
      <4>1. births[f].place = births[e].place
        BY <1>10, <2>1, <3>3
      <4>2. Excused(e)
        BY <3>3, <3>7, <3>8, <4>1 DEF Excused, RuleHides
      <4> QED
        BY <1>4, <1>8, <4>2
    <3>9. CASE births[f].keep[1] <= births[f].fun
      <4>1. \E d \in DOMAIN frames : frames[d].fun /\ frames[d].id = births[f].fun
        BY <1>1, <3>4, <3>5 DEF OpenFunctions
      <4>2. PICK d \in DOMAIN frames : frames[d].id = births[f].keep[1]
        BY <1>2, <3>3, <3>9, <4>1 DEF KeptOpen, IsKept
      <4>3. /\ frames[d].holds[x] # Undeclared
            /\ \A b \in d .. Len(frames) : frames[b].holds[x] > Empty => frames[b].holds[x] >= f
        BY <1>2, <3>3, <4>2 DEF LaterOnes, IsKept
      <4> DEFINE D == Depth(x)
      <4>4. D # 0 /\ d <= D /\ D \in DOMAIN frames /\ Value(x) = frames[D].holds[x]
        BY <1>2, <4>2, <4>3, DepthIs
      <4> HIDE DEF D
      <4>5. D \in d .. Len(frames)
        <5>1. Len(frames) \in Nat /\ DOMAIN frames = 1 .. Len(frames)
          BY <1>2, FramesFacts
        <5> QED
          BY <4>2, <4>4, <5>1
      <4>6. frames[D].holds[x] = e /\ e > Empty
        BY <1>2, <1>8, <1>10, <2>1, <4>4 DEF Empty
      <4>7. e >= f
        BY <4>3, <4>5, <4>6
      <4> QED
        BY <3>3, <3>5, <3>6, <3>7, <4>7
    <3> QED
      <4>1. births[f].keep[1] \in Nat /\ births[f].fun \in Nat
        BY <1>2, <3>3, BirthsFacts
      <4>2. births[f].keep[1] > births[f].fun \/ births[f].keep[1] <= births[f].fun
        BY <4>1
      <4> QED
        BY <3>8, <3>9, <4>2
  <2> QED
    BY <2>2, <2>3
<1> QED
  BY <1>2, <1>8, <1>9, <1>10

\* The node of a line that builds an event is about to record it.
LEMMA NewRecords ==
  ASSUME NEW s, NEW F, Writes(s, F), NEW l, l = Written + 1, NEW v,
         \/ /\ Drops(s) /\ s.form = "stmt"
            /\ v = [visit |-> "ExpressionStatement", expression |-> ChainExpr(s.chain), line |-> l]
         \/ Keeps(s) /\ Binds(v, s.place, s.chain, l)
  PROVE  Records(v, l)' /\ Records(v, Written)'
<1>1. FramesOk /\ BirthsOk /\ HoldsOk /\ s \in Statements /\ Extend(s) /\ todo = <<>> /\ RuleState(F) /\ OpenFunctions(F)
      /\ knownLoggers' = knownLoggers
  BY DEF Writes, ProgramInv, SameKnown
<1>2. Written' = l /\ l \in Lines' /\ births'[l] = Birth(s) /\ uses'[l] = {}
  <2>1. Written' = l /\ Lines' = 1 .. l /\ births'[l] = Birth(s) /\ uses'[l] = {} /\ Written \in Nat
    BY WritesFacts
  <2> QED
    BY <2>1
<1>3. /\ Birth(s).place = s.place /\ Birth(s).form = s.form
      /\ Birth(s).chain = IF s.chain = "alias" /\ Value(App) = Foreign THEN "foreign" ELSE s.chain
  BY <1>1, BuildIs
<1>4. s.chain \in Chains /\ "foreign" \notin Chains
  BY DEF Drops, Keeps, Chains
<1>5. Birth(s).chain \in {s.chain, "foreign"} /\ (Birth(s).chain = "foreign" => s.chain = "alias")
  BY <1>3, <1>4
<1>6. Birth(s).chain = "alias" => App \in knownLoggers
  <2> HAVE Birth(s).chain = "alias"
  <2>1. s.chain = "alias" /\ Value(App) # Foreign
    BY <1>3, <1>5
  <2>2. Depth(App) > 0
    BY <1>1, <2>1 DEF Extend, Allowed
  <2>3. Depth(App) \in DOMAIN frames /\ frames[Depth(App)].holds[App] # Undeclared /\ Value(App) = frames[Depth(App)].holds[App]
    BY <1>1, <2>2, DepthIs
  <2>4. frames[Depth(App)].holds[App] = Empty
    BY <1>1, <2>1, <2>3, HeldNames
  <2> QED
    BY <1>1, <2>3, <2>4, NothingLeft
<1>7. \/ births'[l].form = "stmt" /\ births'[l].place = <<>>
           /\ v = [visit |-> "ExpressionStatement", expression |-> ChainExpr(s.chain), line |-> l]
      \/ /\ births'[l].form \in Binding /\ births'[l].place \in EventPlaces
         /\ \/ v = [visit |-> "VariableDeclarator", id |-> births'[l].place,
                    init |-> ChainExpr(s.chain), line |-> l]
            \/ v = [visit |-> "AssignmentExpression", left |-> Name(births'[l].place),
                    right |-> ChainExpr(s.chain), line |-> l]
  BY <1>2, <1>3 DEF Drops, Keeps, Binds
<1>8. Records(v, l)'
  BY <1>1, <1>2, <1>4, <1>5, <1>6, <1>7 DEF Records
<1> QED
  BY <1>2, <1>8 DEF Records

LEMMA HeardWrites ==
  ASSUME NEW s, NEW F, Writes(s, F), NEW T, T = Nodes(s, Written + 1), todo' = T
  PROVE  HeardOk(ruleScopes, todo)'
<1>1. /\ nodeLine' = nodeLine /\ ruleScopes' = ruleScopes /\ ruleReported' = ruleReported /\ todo = <<>>
      /\ RuleState(F) /\ s \in Statements /\ Extend(s) /\ OpenFunctions(F)
  BY DEF Writes, SameReports
<1>2. /\ FramesOk /\ BirthsOk /\ HoldsOk
      /\ \A e \in Lines : e \in Lines' /\ births'[e] = births[e] /\ (uses[e] # {} => uses'[e] # {})
      /\ Lines = 1 .. Written /\ Written \in Nat /\ Lines' = 1 .. Written + 1
      /\ births'[Written + 1] = Birth(s)
  BY WritesFacts
<1>3. \A e \in Lines : RuleMixesUp(e) => RuleMixesUp(e)'
  BY StatementStays
<1>4. SUFFICES ASSUME NEW e \in Lines', births'[e].chain \in Chains, births'[e].chain \in Heard,
                      births'[e].form \notin {"arg", "return", "tail"}
      PROVE  (\E i \in DOMAIN T : Records(T[i], e)') \/ Remembered(ruleScopes, e)'
  <2>1. \A e \in Lines' : births'[e].chain \in Chains /\ births'[e].chain \in Heard
                              /\ births'[e].form \notin {"arg", "return", "tail"} =>
          (\E i \in DOMAIN T : Records(T[i], e)') \/ Remembered(ruleScopes, e)'
    BY <1>4
  <2> QED
    BY <2>1 DEF HeardOk, Events, Handed
<1>5. CASE e \in Lines
  <2>1. Remembered(ruleScopes, e)
    BY <1>1, <1>2, <1>4, <1>5, NothingLeft DEF Events, Handed
  <2> QED
    BY <1>1, <1>2, <1>3, <1>5, <2>1 DEF Remembered
<1>6. CASE e = Written + 1
  <2>1. PICK l : l = e
    OBVIOUS
  <2>2. (Drops(s) /\ s.form = "stmt") \/ Keeps(s)
    <3>1. Drops(s) \/ Keeps(s)
      <4>1. Birth(s).chain \notin {"logger", "none"}
        BY <1>2, <1>4, <1>6 DEF Heard
      <4> QED
        BY <1>1, <4>1, NoBuildIs
    <3>2. Birth(s).form = s.form
      BY <1>1, <1>2, <3>1, BuildIs
    <3>3. s.form \notin {"arg", "return", "tail"}
      BY <1>2, <1>4, <1>6, <3>2
    <3> QED
      BY <3>1, <3>3 DEF Drops
  <2>3. \E i \in DOMAIN T :
          \/ /\ Drops(s) /\ s.form = "stmt"
             /\ T[i] = [visit |-> "ExpressionStatement", expression |-> ChainExpr(s.chain), line |-> l]
          \/ Keeps(s) /\ Binds(T[i], s.place, s.chain, l)
    <3>1. CASE Drops(s) /\ s.form = "stmt"
      <4>1. Led(T, [visit |-> "ExpressionStatement", expression |-> ChainExpr(s.chain), line |-> l])
        BY <1>6, <2>1, <3>1, DropNodes
      <4>2. 1 \in DOMAIN T
        BY <4>1, ListedFacts DEF Led, Listed
      <4> QED
        BY <3>1, <4>1, <4>2 DEF Led
    <3>2. CASE Keeps(s)
      <4>1. Listed(T) /\ \E r \in 1 .. Len(T) : Binds(T[r], s.place, s.chain, l)
        BY <1>6, <2>1, <3>2, KeepNodes
      <4>2. DOMAIN T = 1 .. Len(T)
        BY <4>1, ListedFacts
      <4> QED
        BY <3>2, <4>1, <4>2
    <3> QED
      BY <2>2, <3>1, <3>2
  <2>4. PICK i \in DOMAIN T :
          \/ /\ Drops(s) /\ s.form = "stmt"
             /\ T[i] = [visit |-> "ExpressionStatement", expression |-> ChainExpr(s.chain), line |-> l]
          \/ Keeps(s) /\ Binds(T[i], s.place, s.chain, l)
    BY <2>3
  <2>5. Records(T[i], l)'
    BY <1>6, <2>1, <2>4, NewRecords
  <2> QED
    BY <2>1, <2>5
<1>7. e \in Lines \/ e = Written + 1
  BY <1>2
<1> QED
  BY <1>5, <1>6, <1>7

\* A logger that is bound to app is about to be learnt.
LEMMA LoggerTaught ==
  ASSUME NEW s, NEW F, Writes(s, F), MakesLogger(s), NEW v,
         v.visit = "VariableDeclarator", v.id = App,
         s.form = "anew" => v.init = Anew,
         s.form = "factory" => v.init = Created,
         s.form = "class" => v.init = Constructed
  PROVE  /\ Teaches(v)'
         /\ s.form # "factory" \/ Value(Factory) = Empty => LearnsApp(v)'
<1>1. FramesOk /\ BirthsOk /\ HoldsOk /\ s \in Statements /\ Extend(s) /\ todo = <<>> /\ RuleState(F) /\ OpenFunctions(F)
      /\ knownFactories' = knownFactories /\ knownClasses' = knownClasses
  BY DEF Writes, ProgramInv, SameKnown
<1>2. s.form \in {"anew", "factory", "class"} /\ ~Drops(s) /\ ~Keeps(s) /\ Declares(s)
  BY DEF MakesLogger, Loggers, Drops, Keeps, Declares
<1>3. s.form # "factory" \/ Value(Factory) # Foreign => LoggerLine'
  <2>1. s.form # "factory" \/ Value(Factory) # Foreign => Birth(s).chain = "logger"
    BY <1>1, <1>2, NoBuildIs
  <2> QED
    BY <2>1, StatementStays
<1>4. Empty # Foreign
  BY DEF Empty, Foreign
<1>5. s.form = "factory" =>
        /\ Depth(Factory) \in DOMAIN frames /\ Value(Factory) = frames[Depth(Factory)].holds[Factory]
        /\ Value(Factory) = Empty => Factory \in knownFactories
  <2> HAVE s.form = "factory"
  <2>1. Depth(Factory) > 0
    BY <1>1 DEF Extend, Allowed
  <2>2. Depth(Factory) \in DOMAIN frames /\ Value(Factory) = frames[Depth(Factory)].holds[Factory]
    BY <1>1, <2>1, DepthIs
  <2> QED
    BY <1>1, <2>2, NothingLeft
<1>6. s.form = "class" => <<"otel", "BaseLogger">> \in knownClasses
  <2> HAVE s.form = "class"
  <2>1. Depth(Package) > 0
    BY <1>1 DEF Extend, Allowed
  <2>2. Depth(Package) \in DOMAIN frames /\ frames[Depth(Package)].holds[Package] # Undeclared
    BY <1>1, <2>1, DepthIs
  <2>3. frames[Depth(Package)].holds[Package] = Empty
    BY <1>1, <2>2, HeldNames
  <2> QED
    BY <1>1, <2>2, <2>3, NothingLeft
<1>7. s.form = "factory" /\ FactoryIsOurs' => Value(Factory) # Foreign
  <2> HAVE s.form = "factory" /\ FactoryIsOurs'
  <2> DEFINE D == Depth(Factory)
             w == IF s.form = "factory" THEN Value(Factory) ELSE Empty
  <2>1. D \in DOMAIN frames /\ Value(Factory) = frames[D].holds[Factory]
    BY <1>5
  <2>2. Puts(Len(frames), App, w)
    BY <1>1, <1>2, AfterDeclares
  <2>3. Factory \in Places /\ Factory # App
    BY PlacesAssumption DEF App, Factory
  <2> HIDE DEF w, D
  <2>4. D \in DOMAIN frames' /\ frames'[D].holds[Factory] = frames[D].holds[Factory]
    BY <1>1, <2>1, <2>2, <2>3, PutFacts
  <2> QED
    BY <2>1, <2>4 DEF FactoryIsOurs
<1>8. Teaches(v)'
  BY <1>2, <1>3, <1>7 DEF Teaches
<1>9. s.form # "factory" \/ Value(Factory) = Empty => LearnsApp(v)'
  BY <1>1, <1>2, <1>3, <1>4, <1>5, <1>6 DEF LearnsApp
<1> QED
  BY <1>8, <1>9

\* And what is imported.
ImportOf(s) ==
  IF s.form = "default" THEN ImportsApp
  ELSE IF s.form = "named" THEN ImportsFactory
  ELSE IF s.form = "foreign" THEN Import(Theirs, Named)[1] ELSE ImportsPackage

LEMMA ImportTaught ==
  ASSUME NEW s, NEW F, Writes(s, F), Imports(s), NEW T, T = Nodes(s, Written + 1)
  PROVE  /\ T = <<ImportOf(s)>>
         /\ s.form = "foreign" => Passive(ImportOf(s))
         /\ s.form # "foreign" => Teaches(ImportOf(s))'
         /\ s.form = "default" => LoggerLine'
         /\ s.form = "named" => FactoryIsOurs'
<1>1. FramesOk /\ BirthsOk /\ HoldsOk /\ s \in Statements /\ Extend(s)
  BY DEF Writes, ProgramInv
<1>2. s.op # "close" /\ s.form \in {"default", "named", "foreign", "namespace"} /\ ~Drops(s) /\ ~Keeps(s) /\ Declares(s)
  BY DEF Imports, Drops, Keeps, Declares
<1>3. T = <<ImportOf(s)>>
  BY <1>2, NodesOfImport DEF ImportOf
<1>4. s.form = "foreign" => Passive(ImportOf(s))
  BY DEF Passive, ImportOf
<1>5. s.form = "default" => LoggerLine'
  <2>1. s.form = "default" => Birth(s).chain = "logger"
    BY <1>1, <1>2, NoBuildIs
  <2> QED
    BY <2>1, StatementStays
<1>6. s.form = "named" => FactoryIsOurs'
  <2> HAVE s.form = "named"
  <2>1. s.place = Factory
    BY DEF Imports
  <2> DEFINE w == IF s.form = "foreign" THEN Foreign ELSE Empty
  <2>2. Len(frames) = 1 /\ Puts(Len(frames), Factory, w) /\ w = Empty
    BY <1>1, <1>2, <2>1, AfterDeclares
  <2>3. Factory \in Places
    BY PlacesAssumption
  <2> HIDE DEF w
  <2>4. DOMAIN frames = 1 .. 1 /\ 1 \in DOMAIN frames
    BY <1>1, <2>2, FramesFacts
  <2>5. DOMAIN frames' = DOMAIN frames /\ frames'[1].holds[Factory] = Empty
    BY <1>1, <2>2, <2>3, <2>4, PutFacts
  <2>6. \A d \in DOMAIN frames' : frames'[d].holds[Factory] # Foreign
    BY <2>4, <2>5 DEF Empty, Foreign
  <2> QED
    BY <2>5, <2>6 DEF FactoryIsOurs
<1>7. s.form # "foreign" => Teaches(ImportOf(s))'
  <2>1. CASE s.form = "default"
    BY <1>5, <2>1 DEF Teaches, ImportOf
  <2>2. CASE s.form = "named"
    BY <1>6, <2>2 DEF Teaches, ImportOf
  <2>3. CASE s.form = "namespace"
    BY <2>3 DEF Teaches, ImportOf
  <2> QED
    BY <1>2, <2>1, <2>2, <2>3
<1> QED
  BY <1>3, <1>4, <1>5, <1>6, <1>7

LEMMA LearntWrites ==
  ASSUME NEW s, NEW F, Writes(s, F), NEW T, T = Nodes(s, Written + 1), todo' = T
  PROVE  LearntOk'
<1>1. FramesOk /\ BirthsOk /\ HoldsOk /\ s \in Statements /\ Extend(s) /\ todo = <<>> /\ RuleState(F) /\ OpenFunctions(F)
      /\ knownLoggers' = knownLoggers /\ knownFactories' = knownFactories /\ knownClasses' = knownClasses
  BY DEF Writes, ProgramInv, SameKnown
<1>2. SUFFICES ASSUME NEW d \in DOMAIN frames'
      PROVE  /\ frames'[d].holds[App] = Empty => App \in knownLoggers \/ \E i \in DOMAIN T : LearnsApp(T[i])'
             /\ frames'[d].holds[Factory] = Empty =>
                  Factory \in knownFactories \/ (FactoryIsOurs' /\ \E i \in DOMAIN T : T[i] = ImportsFactory)
             /\ frames'[d].holds[Package] = Empty =>
                  <<"otel", "BaseLogger">> \in knownClasses \/ \E i \in DOMAIN T : T[i] = ImportsPackage
  <2>1. \A d \in DOMAIN frames' :
          /\ frames'[d].holds[App] = Empty => App \in knownLoggers \/ \E i \in DOMAIN T : LearnsApp(T[i])'
          /\ frames'[d].holds[Factory] = Empty =>
               Factory \in knownFactories \/ (FactoryIsOurs' /\ \E i \in DOMAIN T : T[i] = ImportsFactory)
          /\ frames'[d].holds[Package] = Empty =>
               <<"otel", "BaseLogger">> \in knownClasses \/ \E i \in DOMAIN T : T[i] = ImportsPackage
    BY <1>2
  <2> QED
    BY <1>1, <2>1 DEF LearntOk
<1>3. Undeclared # Empty /\ Foreign # Empty /\ App # Factory /\ App # Package /\ Factory # Package
  BY DEF Undeclared, Empty, Foreign, App, Factory, Package
<1>4. \A b \in DOMAIN frames :
        /\ frames[b].holds[App] = Empty => App \in knownLoggers
        /\ frames[b].holds[Factory] = Empty => Factory \in knownFactories
        /\ frames[b].holds[Package] = Empty => <<"otel", "BaseLogger">> \in knownClasses
  BY <1>1, NothingLeft
<1>5. ASSUME Imports(s) PROVE T = <<ImportOf(s)>> /\ DOMAIN T = 1 .. 1 /\ T[1] = ImportOf(s)
  BY <1>5, ImportTaught, ListedOne
<1>6. ASSUME NEW q \in {App, Factory, Package}, frames'[d].holds[q] = Empty
      PROVE  \/ d \in DOMAIN frames /\ frames[d].holds[q] = Empty
             \/ q = s.place /\ Imports(s) /\ s.form # "foreign"
             \/ q = s.place /\ MakesLogger(s) /\ (s.form # "factory" \/ Value(Factory) = Empty)
  BY <1>3, <1>6, NamesHeld
<1>7. ASSUME frames'[d].holds[App] = Empty PROVE App \in knownLoggers \/ \E i \in DOMAIN T : LearnsApp(T[i])'
  <2>1. CASE d \in DOMAIN frames /\ frames[d].holds[App] = Empty
    BY <1>4, <2>1
  <2>2. CASE App = s.place /\ Imports(s) /\ s.form # "foreign"
    <3>1. s.form = "default"
      BY <1>3, <2>2 DEF Imports
    <3>2. LearnsApp(ImportOf(s))'
      BY <2>2, <3>1, ImportTaught DEF LearnsApp, ImportOf
    <3> QED
      BY <1>5, <2>2, <3>2
  <2>3. CASE App = s.place /\ MakesLogger(s) /\ (s.form # "factory" \/ Value(Factory) = Empty)
    <3>1. KnownOk
      BY <1>1 DEF RuleState
    <3>2. PICK v : /\ Led(T, v) /\ v.visit = "VariableDeclarator" /\ v.id = App
                   /\ s.form = "anew" => v.init = Anew
                   /\ s.form = "factory" => v.init = Created
                   /\ s.form = "class" => v.init = Constructed
      BY <2>3, <3>1, BindNodes
    <3>3. LearnsApp(v)'
      BY <2>3, <3>2, LoggerTaught
    <3>4. 1 \in DOMAIN T /\ T[1] = v
      BY <3>2, ListedFacts DEF Led, Listed
    <3> QED
      BY <3>3, <3>4
  <2> QED
    BY <1>6, <1>7, <2>1, <2>2, <2>3
<1>8. ASSUME frames'[d].holds[Factory] = Empty
      PROVE  Factory \in knownFactories \/ (FactoryIsOurs' /\ \E i \in DOMAIN T : T[i] = ImportsFactory)
  <2>1. CASE d \in DOMAIN frames /\ frames[d].holds[Factory] = Empty
    BY <1>4, <2>1
  <2>2. CASE Factory = s.place /\ Imports(s) /\ s.form # "foreign"
    <3>1. s.form = "named"
      BY <1>3, <2>2 DEF Imports
    <3>2. FactoryIsOurs' /\ ImportOf(s) = ImportsFactory
      BY <2>2, <3>1, ImportTaught DEF ImportOf
    <3> QED
      BY <1>5, <2>2, <3>2
  <2>3. ~(Factory = s.place /\ MakesLogger(s))
    BY <1>3 DEF MakesLogger
  <2> QED
    BY <1>6, <1>8, <2>1, <2>2, <2>3
<1>9. ASSUME frames'[d].holds[Package] = Empty
      PROVE  <<"otel", "BaseLogger">> \in knownClasses \/ \E i \in DOMAIN T : T[i] = ImportsPackage
  <2>1. CASE d \in DOMAIN frames /\ frames[d].holds[Package] = Empty
    BY <1>4, <2>1
  <2>2. CASE Package = s.place /\ Imports(s) /\ s.form # "foreign"
    <3>1. s.form = "namespace"
      BY <1>3, <2>2 DEF Imports
    <3>2. ImportOf(s) = ImportsPackage
      BY <3>1 DEF ImportOf
    <3> QED
      BY <1>5, <2>2, <3>2
  <2>3. ~(Package = s.place /\ MakesLogger(s))
    BY <1>3 DEF MakesLogger
  <2> QED
    BY <1>6, <1>9, <2>1, <2>2, <2>3
<1> QED
  BY <1>7, <1>8, <1>9

-----------------------------------------------------------------------------
(* The functions that are open after a statement. *)

OpenAfter(s, F) ==
  IF s.form = "function" THEN Append(F, Written + 1)
  ELSE IF (Ends(s) \/ Shuts(s)) /\ frames[Len(frames)].fun THEN SubSeq(F, 1, Len(F) - 1) ELSE F

LEMMA OpenWrites ==
  ASSUME NEW s, NEW CONSTANT F, Writes(s, F), NEW CONSTANT G, G = OpenAfter(s, F)
  PROVE  OpenFunctions(G)' /\ Opened(G, F)
<1>1. FramesOk /\ BirthsOk /\ HoldsOk /\ s \in Statements /\ Extend(s) /\ OpenFunctions(F)
  BY DEF Writes, ProgramInv
<1>2. births'[Written + 1] = Birth(s)
  BY WritesFacts
<1>3. Drops(s) \/ ~Keeps(s) => births'[Written + 1].place = <<>>
  BY <1>1, <1>2, BuildIs, NoBuildIs DEF Drops
<1>4. Opened(G, F)
  BY DEF Opened, OpenAfter
<1>5. CASE Shuts(s) \/ Ends(s)
  <2>1. Removes /\ (Ends(s) => frames[Len(frames)].fun)
    BY <1>1, <1>5, AfterEnds
  <2>2. s.form # "function"
    BY <1>5 DEF Shuts, Ends
  <2>3. G = IF frames[Len(frames)].fun THEN SubSeq(F, 1, Len(F) - 1) ELSE F
    BY <1>5, <2>2 DEF OpenAfter
  <2>4. Drops(s) \/ ~Keeps(s)
    BY <1>5 DEF Shuts, Ends, Keeps, Binding
  <2> QED
    BY <1>1, <1>3, <1>4, <2>1, <2>3, <2>4, OpenEnds
<1>6. CASE Begins(s)
  <2>1. ~Keeps(s) /\ ~Ends(s) /\ ~Shuts(s)
    BY <1>6 DEF Begins, Keeps, Ends, Shuts
  <2>2. Adds(s)
    BY <1>1, <1>6, AfterBegins
  <2>3. G = IF s.form = "function" THEN Append(F, Written + 1) ELSE F
    BY <2>1 DEF OpenAfter
  <2> QED
    BY <1>1, <1>3, <1>4, <2>1, <2>2, <2>3, OpenBegins
<1>7. CASE ~Shuts(s) /\ ~Ends(s) /\ ~Begins(s)
  <2>1. s.form # "function"
    <3>1. s.form = "function" => ~Drops(s) /\ ~Keeps(s) /\ ~Imports(s) /\ ~DeclaresIt(s) /\ ~MakesLogger(s) /\ ~Sends(s)
      BY DEF Drops, Keeps, Imports, DeclaresIt, MakesLogger, Sends, Binding, Loggers
    <3> QED
      BY <1>1, <1>7, <3>1, StatementIs
  <2>2. G = F
    BY <1>7, <2>1 DEF OpenAfter
  <2>3. (\E d, p, v : Puts(d, p, v)) \/ frames' = frames
    <3>1. CASE Drops(s) \/ Sends(s)
      BY <1>1, <1>7, <3>1, AfterOthers
    <3>2. CASE Keeps(s)
      BY <1>1, <3>2, AfterKeeps
    <3>3. CASE Imports(s) \/ DeclaresIt(s) \/ MakesLogger(s)
      <4>1. Declares(s)
        BY <3>3 DEF Imports, DeclaresIt, MakesLogger, Declares
      <4> QED
        BY <1>1, <3>3, <4>1, AfterDeclares
    <3> QED
      BY <1>1, <1>7, <3>1, <3>2, <3>3, StatementIs
  <2>4. OpenFunctions(F)'
    BY <1>1, <2>3, OpenPuts, OpenSame
  <2> QED
    BY <1>4, <2>2, <2>4
<1> QED
  BY <1>5, <1>6, <1>7

\* What is left to visit, by the kinds of nodes, when it is T.
LEMMA NodesLeft ==
  ASSUME NEW CONSTANT T, NEW CONSTANT G, todo' = T, Listed(T),
         \/ Len(ruleScopes') = Len(G) /\ \A i \in 1 .. Len(T) : Mere(T[i])'
         \/ /\ Len(ruleScopes') = Len(G) /\ Len(G) > 0 /\ births'[Written'].fun = G[Len(G)]
            /\ \E r \in 1 .. Len(T) : Records(T[r], Written)' /\ \A i \in 1 .. Len(T) : i # r => Passive(T[i])
         \/ Len(ruleScopes') = Len(G) /\ Len(T) > 0 /\ Teaches(T[1])' /\ \A i \in 2 .. Len(T) : Passive(T[i])
         \/ /\ Len(ruleScopes') = Len(G) + 1 /\ Len(T) > 0 /\ T[Len(T)] = Exit
            /\ \A i \in 1 .. Len(T) - 1 : Mere(T[i])'
         \/ /\ Len(ruleScopes') = Len(G) /\ Len(T) > 1 /\ T[Len(T)] = Exit
            /\ (\E x \in EventPlaces : UsesInside(T[Len(T) - 1], x)')
            /\ \A i \in 1 .. Len(T) - 2 : Passive(T[i])
         \/ Len(ruleScopes') + 1 = Len(G) /\ Len(T) = 1 /\ T[1] = [visit |-> "FunctionEnter"]
  PROVE  NodesOk(todo, G, Len(ruleScopes))'
BY DEF NodesOk

LEMMA WritesLevels ==
  ASSUME NEW s, NEW CONSTANT F, Writes(s, F), NEW CONSTANT G, G = OpenAfter(s, F)
  PROVE  /\ s \in Statements /\ Len(ruleScopes') = Len(F) /\ Len(F) \in Nat \ {0}
         /\ ~Ends(s) /\ ~Shuts(s) /\ s.form # "function" => G = F
         /\ Ends(s) => Len(G) = Len(F) - 1
         /\ Shuts(s) => Len(G) = IF frames[Len(frames)].fun THEN Len(F) - 1 ELSE Len(F)
         /\ s.form = "function" => Len(G) = Len(F) + 1
<1>1. /\ FramesOk /\ BirthsOk /\ HoldsOk /\ s \in Statements /\ Extend(s) /\ OpenFunctions(F)
      /\ RuleState(F) /\ todo = <<>> /\ ruleScopes' = ruleScopes
  BY DEF Writes, ProgramInv
<1>2. Len(ruleScopes) = Len(F)
  BY <1>1, NothingLeft
<1>3. F \in Seq(Nat) /\ Len(F) \in Nat \ {0}
  BY <1>1, InnermostOpen DEF OpenFunctions
<1>4. Len(SubSeq(F, 1, Len(F) - 1)) = Len(F) - 1 /\ Len(Append(F, Written + 1)) = Len(F) + 1
  <2>1. Written + 1 \in Nat
    BY <1>1, BirthsFacts
  <2> QED
    BY ONLY <1>3, <2>1
<1>5. Ends(s) => frames[Len(frames)].fun /\ s.form # "function" /\ ~Shuts(s)
  <2>1. Ends(s) => s.form # "function" /\ ~Shuts(s)
    BY DEF Ends, Shuts
  <2>2. Ends(s) => frames[Len(frames)].fun
    BY <1>1, AfterEnds
  <2> QED
    BY <2>1, <2>2
<1>6. Shuts(s) => s.form # "function"
  BY DEF Shuts
<1> QED
  BY <1>1, <1>2, <1>3, <1>4, <1>5, <1>6 DEF OpenAfter

\* A statement that binds an event or drops one.
LEMMA NodesBuilt ==
  ASSUME NEW s, NEW CONSTANT F, Writes(s, F), NEW CONSTANT G, G = OpenAfter(s, F),
         NEW CONSTANT T, T = Nodes(s, Written + 1), todo' = T,
         Keeps(s) \/ (Drops(s) /\ s.form = "stmt")
  PROVE  NodesOk(todo, G, Len(ruleScopes))'
<1>1. PICK l : l = Written + 1
  OBVIOUS
<1>2. /\ FramesOk /\ BirthsOk /\ HoldsOk /\ s \in Statements /\ Extend(s) /\ OpenFunctions(F)
  BY DEF Writes, ProgramInv
<1>3. ~Ends(s) /\ ~Shuts(s) /\ s.form # "function"
  BY DEF Keeps, Drops, Ends, Shuts, Binding
<1>4. G = F /\ Len(ruleScopes') = Len(F) /\ Len(F) \in Nat \ {0}
  BY <1>3, WritesLevels
<1>5. births'[Written'].fun = G[Len(G)]
  <2>1. births'[Written + 1] = Birth(s) /\ Written' = Written + 1
    BY WritesFacts
  <2>2. Birth(s).fun = FunctionAt(Len(frames))
    BY <1>2, BuildIs
  <2> QED
    BY <1>2, <1>4, <2>1, <2>2, InnermostOpen
<1>6. /\ Listed(T)
      /\ \E r \in 1 .. Len(T) : Records(T[r], Written)' /\ \A i \in 1 .. Len(T) : i # r => Passive(T[i])
  <2>1. CASE Keeps(s)
    <3>1. PICK r \in 1 .. Len(T) : /\ Binds(T[r], s.place, s.chain, l)
                                   /\ \A i \in 1 .. Len(T) : i # r => Passive(T[i])
      BY <1>1, <2>1, KeepNodes
    <3>2. Records(T[r], Written)'
      BY <1>1, <2>1, <3>1, NewRecords
    <3>3. Listed(T)
      BY <2>1, KeepNodes
    <3> QED
      BY <3>1, <3>2, <3>3
  <2>2. CASE Drops(s) /\ s.form = "stmt"
    <3> DEFINE v == [visit |-> "ExpressionStatement", expression |-> ChainExpr(s.chain), line |-> l]
    <3>1. Led(T, v)
      BY <1>1, <2>2, DropNodes
    <3>2. Records(v, Written)'
      BY <1>1, <2>2, NewRecords
    <3> HIDE DEF v
    <3>3. Listed(T) /\ Len(T) > 0 /\ T[1] = v /\ \A i \in 2 .. Len(T) : Passive(T[i])
      BY <3>1 DEF Led
    <3>4. Len(T) \in Nat
      BY <3>3 DEF Listed
    <3>5. 1 \in 1 .. Len(T) /\ \A i \in 1 .. Len(T) : i # 1 => Passive(T[i])
      BY ONLY <3>3, <3>4
    <3>6. Records(T[1], Written)'
      BY <3>2, <3>3
    <3> QED
      BY <3>3, <3>5, <3>6
  <2> QED
    BY <2>1, <2>2
<1>7. Len(ruleScopes') = Len(G) /\ Len(G) > 0
  BY <1>4
<1> QED
  BY <1>5, <1>6, <1>7, NodesLeft

LEMMA UseMere ==
  ASSUME NEW s, NEW F, Writes(s, F), Sends(s)
  PROVE  /\ s.place \in EventPlaces /\ Used(s.place)'
         /\ \A v : UseNode(v, s.place) => Mere(v)'
<1>1. s.place \in EventPlaces /\ Uses(s)
  BY DEF Sends, Uses
<1>2. PICK e : e = Value(s.place)
  OBVIOUS
<1>3. e \in Lines' /\ births'[e].place = s.place /\ uses'[e] # {}
  BY <1>1, <1>2, WritesFacts
<1>4. Used(s.place)'
  BY <1>3 DEF Used
<1>5. \A v : UseNode(v, s.place) => UsesName(v, s.place)'
  BY <1>1, <1>4 DEF UseNode, UsesName, UseOf
<1>6. \A v : UseNode(v, s.place) => Mere(v)'
  BY <1>1, <1>5 DEF Mere
<1> QED
  BY <1>1, <1>4, <1>6

LEMMA PassiveMere ==
  ASSUME NEW v, Passive(v) PROVE Mere(v)'
BY DEF Mere

\* A statement that ends a function with a return.
LEMMA NodesReturn ==
  ASSUME NEW s, NEW CONSTANT F, Writes(s, F), NEW CONSTANT G, G = OpenAfter(s, F),
         NEW CONSTANT T, todo' = T, Ends(s), NEW v, Finishes(T, v), Mere(v)'
  PROVE  NodesOk(todo, G, Len(ruleScopes))'
<1>1. Len(ruleScopes') = Len(F) /\ Len(F) \in Nat \ {0} /\ Len(G) = Len(F) - 1
  BY WritesLevels
<1>2. Len(ruleScopes') = Len(G) + 1
  BY <1>1
<1>3. /\ Listed(T) /\ Len(T) > 1 /\ T[1] = v /\ T[Len(T)] = Exit
      /\ \A i \in 2 .. Len(T) - 1 : Passive(T[i])
  BY DEF Finishes
<1>4. Len(T) \in Nat
  BY <1>3 DEF Listed
<1>5. \A i \in 1 .. Len(T) - 1 : Mere(T[i])'
  <2> TAKE i \in 1 .. Len(T) - 1
  <2>1. CASE i = 1
    BY <1>3, <2>1
  <2>2. CASE i # 1
    <3>1. i \in 2 .. Len(T) - 1
      BY <1>4, <2>2
    <3> QED
      BY <1>3, <3>1, PassiveMere
  <2> QED
    BY <2>1, <2>2
<1>6. Len(T) > 0
  BY <1>3, <1>4
<1> QED
  BY <1>2, <1>3, <1>5, <1>6, NodesLeft

\* One that leaves the rule as it is, or teaches it something first.
LEMMA NodesSame ==
  ASSUME NEW s, NEW CONSTANT F, Writes(s, F), NEW CONSTANT G, G = OpenAfter(s, F),
         NEW CONSTANT T, todo' = T, Listed(T), ~Ends(s), ~Shuts(s), s.form # "function",
         \/ \A i \in 1 .. Len(T) : Mere(T[i])'
         \/ Len(T) > 0 /\ Teaches(T[1])' /\ \A i \in 2 .. Len(T) : Passive(T[i])
  PROVE  NodesOk(todo, G, Len(ruleScopes))'
<1>1. Len(ruleScopes') = Len(G)
  BY WritesLevels
<1> QED
  BY <1>1, NodesLeft

LEMMA NodesDropped ==
  ASSUME NEW s, NEW CONSTANT F, Writes(s, F), NEW CONSTANT G, G = OpenAfter(s, F),
         NEW CONSTANT T, T = Nodes(s, Written + 1), todo' = T, Drops(s), s.form # "stmt"
  PROVE  NodesOk(todo, G, Len(ruleScopes))'
<1>1. PICK l : l = Written + 1
  OBVIOUS
<1>2. CASE s.form = "arg"
  <2>1. ~Ends(s) /\ ~Shuts(s) /\ s.form # "function"
    BY <1>2 DEF Ends, Shuts
  <2>2. Listed(T) /\ \A i \in 1 .. Len(T) : Passive(T[i])
    BY <1>1, <1>2, DropNodes
  <2>3. \A i \in 1 .. Len(T) : Mere(T[i])'
    BY <2>2, PassiveMere
  <2> QED
    BY <2>1, <2>2, <2>3, NodesSame
<1>3. CASE s.form \in {"return", "tail"}
  <2>1. Ends(s)
    BY <1>3 DEF Ends
  <2>2. PICK v : Passive(v) /\ Finishes(T, v)
    BY <1>1, <1>3, DropNodes
  <2> QED
    BY <2>1, <2>2, NodesReturn, PassiveMere
<1> QED
  BY <1>2, <1>3 DEF Drops

LEMMA NodesSent ==
  ASSUME NEW s, NEW CONSTANT F, Writes(s, F), NEW CONSTANT G, G = OpenAfter(s, F),
         NEW CONSTANT T, T = Nodes(s, Written + 1), todo' = T, Sends(s)
  PROVE  NodesOk(todo, G, Len(ruleScopes))'
<1>1. PICK l : l = Written + 1
  OBVIOUS
<1>2. CASE s.form \in {"call", "give", "piped", "argument"}
  <2>1. ~Ends(s) /\ ~Shuts(s) /\ s.form # "function"
    BY <1>2 DEF Ends, Shuts
  <2>2. Listed(T) /\ \A i \in 1 .. Len(T) : UseNode(T[i], s.place)
    BY <1>1, <1>2, UseNodes
  <2>3. \A i \in 1 .. Len(T) : Mere(T[i])'
    BY <2>2, UseMere
  <2> QED
    BY <2>1, <2>2, <2>3, NodesSame
<1>3. CASE s.form \in {"return of", "tail of"}
  <2>1. Ends(s)
    BY <1>3 DEF Ends
  <2>2. PICK v : UseNode(v, s.place) /\ Finishes(T, v)
    BY <1>1, <1>3, UseNodes
  <2>3. Mere(v)'
    BY <2>2, UseMere
  <2> QED
    BY <2>1, <2>2, <2>3, NodesReturn
<1>4. CASE s.form = "arrow"
  <2>1. ~Ends(s) /\ ~Shuts(s) /\ s.form # "function"
    BY <1>4 DEF Ends, Shuts
  <2>2. /\ Listed(T) /\ Len(T) > 1 /\ T[Len(T)] = Exit
        /\ T[Len(T) - 1] = [visit |-> "ArrowEnter", body |-> Name(s.place)]
        /\ \A i \in 1 .. Len(T) - 2 : Passive(T[i])
    BY <1>1, <1>4, UseNodes
  <2>3. UsesInside(T[Len(T) - 1], s.place)' /\ s.place \in EventPlaces
    <3>1. s.place \in EventPlaces /\ Used(s.place)'
      BY UseMere
    <3> QED
      BY <2>2, <3>1 DEF UsesInside
  <2>4. \E x \in EventPlaces : UsesInside(T[Len(T) - 1], x)'
    BY <2>3
  <2>5. Len(ruleScopes') = Len(G)
    BY <2>1, WritesLevels
  <2> QED
    BY <2>2, <2>4, <2>5, NodesLeft
<1> QED
  BY <1>2, <1>3, <1>4 DEF Sends

LEMMA NodesMade ==
  ASSUME NEW s, NEW CONSTANT F, Writes(s, F), NEW CONSTANT G, G = OpenAfter(s, F),
         NEW CONSTANT T, T = Nodes(s, Written + 1), todo' = T, DeclaresIt(s) \/ MakesLogger(s)
  PROVE  NodesOk(todo, G, Len(ruleScopes))'
<1>1. PICK l : l = Written + 1
  OBVIOUS
<1>2. ~Ends(s) /\ ~Shuts(s) /\ s.form # "function"
  BY DEF DeclaresIt, MakesLogger, Ends, Shuts, Loggers
<1>3. KnownOk
  BY DEF Writes, RuleState
<1>4. PICK v : /\ Led(T, v) /\ v.visit = "VariableDeclarator" /\ v.id = s.place
               /\ DeclaresIt(s) => v.init = Nowhere
               /\ s.form = "anew" => v.init = Anew
               /\ s.form = "factory" => v.init = Created
               /\ s.form = "class" => v.init = Constructed
  BY <1>1, <1>3, BindNodes
<1>5. Listed(T) /\ Len(T) > 0 /\ T[1] = v /\ \A i \in 2 .. Len(T) : Passive(T[i])
  BY <1>4 DEF Led
<1>6. CASE DeclaresIt(s)
  <2>1. Passive(v)
    BY <1>4, <1>6 DEF Passive, DeclaresIt
  <2>2. \A i \in 1 .. Len(T) : Passive(T[i])
    <3>1. Len(T) \in Nat
      BY <1>5 DEF Listed
    <3>2. \A i \in 1 .. Len(T) : i = 1 \/ i \in 2 .. Len(T)
      BY <3>1
    <3> QED
      BY <1>5, <2>1, <3>2
  <2> QED
    BY <1>2, <1>5, <2>2, PassiveMere, NodesSame
<1>7. CASE MakesLogger(s)
  <2>1. v.id = App
    BY <1>4, <1>7 DEF MakesLogger
  <2>2. Teaches(v)'
    BY <1>4, <1>7, <2>1, LoggerTaught
  <2> QED
    BY <1>2, <1>5, <2>2, NodesSame
<1> QED
  BY <1>6, <1>7

LEMMA NodesImported ==
  ASSUME NEW s, NEW CONSTANT F, Writes(s, F), NEW CONSTANT G, G = OpenAfter(s, F),
         NEW CONSTANT T, T = Nodes(s, Written + 1), todo' = T, Imports(s)
  PROVE  NodesOk(todo, G, Len(ruleScopes))'
<1>1. ~Ends(s) /\ ~Shuts(s) /\ s.form # "function"
  BY DEF Imports, Ends, Shuts
<1>2. /\ T = <<ImportOf(s)>>
      /\ s.form = "foreign" => Passive(ImportOf(s))
      /\ s.form # "foreign" => Teaches(ImportOf(s))'
  BY ImportTaught
<1>3. Listed(T) /\ Len(T) = 1 /\ T[1] = ImportOf(s)
  BY <1>2, ListedOne
<1>4. CASE s.form = "foreign"
  <2>1. \A i \in 1 .. Len(T) : Mere(T[i])'
    BY <1>2, <1>3, <1>4, PassiveMere
  <2> QED
    BY <1>1, <1>3, <2>1, NodesSame
<1>5. CASE s.form # "foreign"
  <2>1. Teaches(T[1])'
    <3>1. PICK v : v = ImportOf(s)
      OBVIOUS
    <3>2. Teaches(v)'
      BY <1>2, <1>5, <3>1
    <3> QED
      BY <1>3, <3>1, <3>2
  <2>2. \A i \in 2 .. Len(T) : Passive(T[i])
    BY <1>3
  <2> QED
    BY <1>1, <1>3, <2>1, <2>2, NodesSame
<1> QED
  BY <1>4, <1>5

LEMMA NodesOfBlocks ==
  ASSUME NEW s, NEW CONSTANT F, Writes(s, F), NEW CONSTANT G, G = OpenAfter(s, F),
         NEW CONSTANT T, T = Nodes(s, Written + 1), todo' = T, Begins(s) \/ Shuts(s)
  PROVE  NodesOk(todo, G, Len(ruleScopes))'
<1>1. s \in Statements /\ Len(ruleScopes') = Len(F) /\ Len(F) \in Nat \ {0}
  BY WritesLevels
<1>2. T = <<>> => Listed(T) /\ \A i \in 1 .. Len(T) : Mere(T[i])'
  BY DEF Listed
<1>3. CASE Begins(s) /\ s.form = "block"
  <2>1. ~Ends(s) /\ ~Shuts(s) /\ s.form # "function"
    BY <1>3 DEF Begins, Ends, Shuts
  <2>2. T = <<>>
    BY <1>3, NodesOfBlock DEF Begins
  <2> QED
    BY <1>2, <2>1, <2>2, NodesSame
<1>4. CASE Begins(s) /\ s.form = "function"
  <2>1. T = <<[visit |-> "FunctionEnter"]>>
    BY <1>4, NodesOfBlock DEF Begins
  <2>2. Listed(T) /\ Len(T) = 1 /\ T[1] = [visit |-> "FunctionEnter"]
    BY <2>1, ListedOne
  <2>3. Len(G) = Len(F) + 1
    BY <1>4, WritesLevels
  <2>4. Len(ruleScopes') + 1 = Len(G)
    BY <1>1, <2>3
  <2> QED
    BY <2>2, <2>4, NodesLeft
<1>5. CASE Shuts(s) /\ frames[Len(frames)].fun
  <2>1. T = <<Exit>>
    BY <1>5, NodesOfBlock DEF Shuts
  <2>2. Listed(T) /\ Len(T) = 1 /\ T[1] = Exit
    BY <2>1, ListedOne
  <2>3. Len(G) = Len(F) - 1
    BY <1>5, WritesLevels
  <2>4. Len(ruleScopes') = Len(G) + 1 /\ Len(T) > 0 /\ T[Len(T)] = Exit
    BY <1>1, <2>2, <2>3
  <2>5. \A i \in 1 .. Len(T) - 1 : FALSE
    <3>1. Len(T) = 1
      BY <2>2
    <3> QED
      BY ONLY <3>1
  <2> QED
    BY <2>2, <2>4, <2>5, NodesLeft
<1>6. CASE Shuts(s) /\ ~frames[Len(frames)].fun
  <2>1. T = <<>>
    BY <1>6, NodesOfBlock DEF Shuts
  <2>2. Len(G) = Len(F)
    BY <1>6, WritesLevels
  <2>3. Len(ruleScopes') = Len(G)
    BY <1>1, <2>2
  <2> QED
    BY <1>2, <2>1, <2>3, NodesLeft
<1> QED
  BY <1>3, <1>4, <1>5, <1>6 DEF Begins

LEMMA NodesWrite ==
  ASSUME NEW s, NEW CONSTANT F, Writes(s, F), NEW CONSTANT G, G = OpenAfter(s, F),
         NEW CONSTANT T, T = Nodes(s, Written + 1), todo' = T
  PROVE  NodesOk(todo, G, Len(ruleScopes))'
<1>1. s \in Statements
  BY DEF Writes
<1>2. CASE Drops(s) \/ Keeps(s)
  BY <1>2, NodesBuilt, NodesDropped
<1>3. CASE Imports(s)
  BY <1>3, NodesImported
<1>4. CASE DeclaresIt(s) \/ MakesLogger(s)
  BY <1>4, NodesMade
<1>5. CASE Sends(s)
  BY <1>5, NodesSent
<1>6. CASE Begins(s) \/ Shuts(s)
  BY <1>6, NodesOfBlocks
<1> QED
  BY <1>1, <1>2, <1>3, <1>4, <1>5, <1>6, StatementIs

\* A statement keeps what the rule knows.
LEMMA WriteKeeps ==
  ASSUME NEW s, NEW CONSTANT F, Writes(s, F), todo' = Nodes(s, Written + 1)
  PROVE  ProgramInv' /\ \E G : OpenFunctions(G)' /\ RuleState(G)'
<1>1. PICK T : T = Nodes(s, Written + 1)
  OBVIOUS
<1>2. PICK G : G = OpenAfter(s, F)
  OBVIOUS
<1>3. OpenFunctions(G)' /\ Opened(G, F)
  BY <1>2, OpenWrites
<1>4. NodesOk(todo, G, Len(ruleScopes))'
  BY <1>1, <1>2, NodesWrite
<1>5. KnownOk' /\ RecordsOk' /\ AccusedOk'
  BY KnownStays, RecordsStay
<1>6. LearntOk' /\ UsedOk(ruleScopes, todo)' /\ HeardOk(ruleScopes, todo)'
  BY <1>1, LearntWrites, UsedStays, HeardWrites
<1>7. PendingOk(ruleScopes, G)' /\ EndedOk(G)'
  BY <1>3, PendingStays, EndedStays
<1>8. RuleState(G)'
  BY <1>4, <1>5, <1>6, <1>7 DEF RuleState
<1>9. ProgramInv'
  BY ProgramStays DEF Writes
<1> QED
  BY <1>3, <1>8, <1>9

-----------------------------------------------------------------------------
(* The end of the file ends the outermost function. *)

LEMMA EndKeeps ==
  ASSUME NEW CONSTANT F, OpenFunctions(F), RuleState(F), ProgramInv, Clean(ruleScopes, ruleReported), EndProgram
  PROVE  RuleState(<<>>)' /\ ProgramInv' /\ Ended'
<1>1. /\ todo = <<>> /\ todo' = <<Exit>> /\ Len(frames) = 1
      /\ UNCHANGED <<births, uses, frames>> /\ previous' = Simple("end")
      /\ UNCHANGED <<nodeLine, ruleReported, ruleScopes, knownLoggers, knownFactories, knownClasses>>
  BY DEF EndProgram, Idle, SameKnown, SameReports
<1>2. FramesOk /\ BirthsOk /\ HoldsOk
  BY DEF ProgramInv
<1>3. ProgramInv'
  <2>1. FramesOk' /\ BirthsOk'
    BY <1>1, <1>2 DEF FramesOk, BirthsOk, Lines, Written, IsKept
  <2>2. HoldsOk'
    BY <1>1, <1>2 DEF HoldsOk, Lines
  <2>3. LaterOnes'
    BY <1>1 DEF ProgramInv, LaterOnes, Lines, IsKept
  <2>4. KeptOpen'
    BY <1>1 DEF ProgramInv, KeptOpen, Lines, IsKept
  <2> QED
    BY <2>1, <2>2, <2>3, <2>4 DEF ProgramInv
<1>4. Ended'
  BY <1>1 DEF Ended, Simple, Statement
<1>5. KnownOk' /\ RecordsOk' /\ AccusedOk' /\ EndedOk(<<>>)'
  <2>1. KnownOk'
    BY <1>1, PrimeKnown DEF RuleState
  <2>2. RecordsOk' /\ AccusedOk'
    BY <1>1, PrimeReports DEF RuleState
  <2>3. EndedOk(<<>>)'
    BY DEF EndedOk
  <2> QED
    BY <2>1, <2>2, <2>3
<1>6. /\ Len(ruleScopes) = Len(F)
      /\ \A k \in DOMAIN ruleScopes, x \in Names : ruleScopes[k][x] # Nothing =>
           uses[nodeLine[ruleScopes[k][x]]] = {} \/ Excused(nodeLine[ruleScopes[k][x]])
      /\ \A e \in Events : births[e].chain \in Heard /\ ~Handed(e) => Remembered(ruleScopes, e)
      /\ \A d \in DOMAIN frames :
           /\ frames[d].holds[App] = Empty => App \in knownLoggers
           /\ frames[d].holds[Factory] = Empty => Factory \in knownFactories
           /\ frames[d].holds[Package] = Empty => <<"otel", "BaseLogger">> \in knownClasses
  BY <1>1, <1>2, NothingLeft
<1>7. LearntOk'
  <2>1. \A d \in DOMAIN frames' :
           /\ frames'[d].holds[App] = Empty => App \in knownLoggers'
           /\ frames'[d].holds[Factory] = Empty => Factory \in knownFactories'
           /\ frames'[d].holds[Package] = Empty => <<"otel", "BaseLogger">> \in knownClasses'
    BY <1>1, <1>6
  <2> QED
    BY <2>1 DEF LearntOk
<1>8. UsedOk(ruleScopes, todo)'
  <2>1. UsedOk(ruleScopes', todo')
    BY <1>1, <1>6 DEF UsedOk
  <2> QED
    BY <1>1, <2>1, PrimeUsed
<1>9. HeardOk(ruleScopes, todo)'
  <2>1. HeardOk(ruleScopes', todo')
    BY <1>1, <1>6 DEF HeardOk
  <2> QED
    BY <1>1, <2>1, PrimeHeard
<1>10. Len(F) = 1
  <2>1. /\ Len(F) \in Nat \ {0} /\ DOMAIN F = 1 .. Len(F) /\ \A k \in DOMAIN F : F[k] \in Nat
    BY <1>2, InnermostOpen
  <2>2. \A k \in DOMAIN F : F[k] = frames[1].id
    <3>1. \A d \in DOMAIN frames : d = 1
      BY <1>1, <1>2, FramesFacts
    <3> QED
      BY <3>1 DEF OpenFunctions
  <2>3. \A j, k \in DOMAIN F : j < k => F[j] < F[k]
    BY DEF OpenFunctions
  <2>4. CASE Len(F) > 1
    <3>1. 1 \in DOMAIN F /\ 2 \in DOMAIN F /\ 1 < 2
      BY <2>1, <2>4
    <3>2. F[1] < F[2] /\ F[1] = F[2] /\ F[1] \in Nat
      BY <2>1, <2>2, <2>3, <3>1
    <3> QED
      BY <3>2
  <2> QED
    BY <2>1, <2>4
<1>11. PendingOk(ruleScopes, <<>>)'
  <2>1. PendingOk(ruleScopes, F)
    BY DEF RuleState
  <2>2. \A k \in DOMAIN ruleScopes : ~(k <= 0) /\ ~(k < 0)
    <3>1. ruleScopes \in Seq([Names -> Nat])
      BY DEF Clean, Stacks
    <3> QED
      BY <3>1
  <2>3. Len(<<>>) = 0 /\ DOMAIN <<>> = {}
    OBVIOUS
  <2>4. PendingOk(ruleScopes, <<>>)
    BY <2>1, <2>2, <2>3 DEF PendingOk
  <2>5. PendingOk(ruleScopes', <<>>)
    BY <1>1, <2>4
  <2> QED
    BY <1>1, <2>5, PrimePending
<1>12. NodesOk(todo, <<>>, Len(ruleScopes))'
  <2>1. Listed(<<Exit>>) /\ Len(<<Exit>>) = 1 /\ <<Exit>>[1] = Exit
    BY ListedOne
  <2>2. Len(ruleScopes') = Len(<<>>) + 1
    BY <1>1, <1>6, <1>10
  <2>3. NodesOk(<<Exit>>, <<>>, Len(<<>>) + 1)
    BY <2>1, OneExit
  <2>4. NodesOk(todo', <<>>, Len(ruleScopes'))
    BY <1>1, <2>2, <2>3
  <2> QED
    BY <1>1, <2>4, PrimeNodes
<1> QED
  BY <1>3, <1>4, <1>5, <1>7, <1>8, <1>9, <1>11, <1>12 DEF RuleState

-----------------------------------------------------------------------------
(***************************************************************************)
(* The invariant.                                                          *)
(***************************************************************************)
\* The functions that may still end: those that are open, and none once the
\* file has ended.
StillOpen(G) == IF Ended THEN G = <<>> ELSE OpenFunctions(G)

RuleInv ==
  /\ IInv /\ ProgramInv /\ suite \in DOMAIN Suites
  /\ \E G : StillOpen(G) /\ RuleState(G)

LEMMA RuleInvInit == SendInit => RuleInv
<1> SUFFICES ASSUME SendInit PROVE RuleInv
  OBVIOUS
<1>1. /\ frames = <<[fun |-> TRUE, id |-> 0, holds |-> [p \in Places |-> IF p \in Fields THEN Empty ELSE Undeclared]]>>
      /\ births = <<>> /\ uses = <<>> /\ previous = Simple("start")
      /\ todo = <<>> /\ ruleScopes = <<EmptyScope>>
      /\ knownLoggers = {<<"log">>, <<"logger">>, <<"ddlog">>} /\ knownFactories = {} /\ knownClasses = {}
      /\ nodeLine = <<>> /\ ruleReported = <<>>
  BY DEF SendInit, ProgramInit, RuleInit
<1>2. /\ Len(frames) = 1 /\ DOMAIN frames = {1} /\ frames[1].fun = TRUE /\ frames[1].id = 0
      /\ \A p \in Places : frames[1].holds[p] = IF p \in Fields THEN Empty ELSE Undeclared
      /\ Written = 0 /\ Lines = {} /\ DOMAIN nodeLine = {} /\ DOMAIN todo = {}
  BY <1>1 DEF Written, Lines
<1>3. App \notin Fields /\ Factory \notin Fields /\ Package \notin Fields /\ {App, Factory, Package} \subseteq Places
  BY PlacesAssumption DEF Fields, App, Factory, Package
<1>4. ProgramInv
  <2>1. FramesOk
    <3>1. frames \in Seq(FrameRecords)
      BY <1>1 DEF FrameRecords, Empty, Undeclared
    <3> QED
      BY <1>2, <3>1 DEF FramesOk
  <2>2. BirthsOk
    BY <1>1, <1>2 DEF BirthsOk, Written
  <2>3. HoldsOk
    <3>1. \A p \in Places : frames[1].holds[p] \in {Undeclared, Empty}
      BY <1>2
    <3>2. Undeclared # Foreign /\ Empty # Foreign /\ ~(Undeclared > Empty) /\ ~(Empty > Empty)
      BY DEF Undeclared, Empty, Foreign
    <3> QED
      BY <1>2, <3>1, <3>2 DEF HoldsOk
  <2>4. LaterOnes /\ KeptOpen
    BY <1>2 DEF LaterOnes, KeptOpen
  <2> QED
    BY <2>1, <2>2, <2>3, <2>4 DEF ProgramInv
<1>5. OpenFunctions(<<0>>)
  BY <1>2 DEF OpenFunctions
<1>6. StillOpen(<<0>>)
  BY <1>1, <1>5 DEF StillOpen, Ended, Simple, Statement
<1>7. RuleState(<<0>>)
  <2>1. KnownOk
    BY <1>1 DEF KnownOk, App, Factory
  <2>2. LearntOk
    BY <1>2, <1>3 DEF LearntOk, Empty, Undeclared
  <2>3. RecordsOk /\ AccusedOk /\ EndedOk(<<0>>)
    <3>1. nodeLine \in Seq(Nat) /\ Len(nodeLine) = Len(ruleReported)
      BY <1>1
    <3> QED
      BY <1>2, <3>1 DEF RecordsOk, AccusedOk, EndedOk
  <2>4. \A k \in DOMAIN ruleScopes, x \in Names : ruleScopes[k][x] = Nothing
    BY <1>1 DEF EmptyScope
  <2>5. UsedOk(ruleScopes, todo) /\ PendingOk(ruleScopes, <<0>>)
    BY <2>4 DEF UsedOk, PendingOk
  <2>6. HeardOk(ruleScopes, todo)
    BY <1>2 DEF HeardOk, Events
  <2>7. NodesOk(todo, <<0>>, Len(ruleScopes))
    <3>1. Len(ruleScopes) = Len(<<0>>) /\ Len(<<0>>) \in Nat
      BY <1>1
    <3> QED
      BY <1>1, <3>1, NoNodes
  <2> QED
    BY <2>1, <2>2, <2>3, <2>5, <2>6, <2>7 DEF RuleState
<1>8. suite \in DOMAIN Suites
  BY DEF SendInit
<1>9. IInv
  BY InitClean
<1> QED
  BY <1>4, <1>6, <1>7, <1>8, <1>9 DEF RuleInv

LEMMA SameState ==
  ASSUME UNCHANGED <<programVars, ruleVars>>, NEW CONSTANT G, RuleState(G)
  PROVE  RuleState(G)'
<1>1. /\ UNCHANGED <<births, uses, frames, todo, ruleScopes, nodeLine, ruleReported>>
      /\ UNCHANGED <<knownLoggers, knownFactories, knownClasses>>
  BY DEF programVars, ruleVars
<1>2. KnownOk' /\ RecordsOk' /\ AccusedOk' /\ EndedOk(G)'
  BY <1>1, PrimeKnown, PrimeReports DEF RuleState
<1>3. LearntOk'
  BY <1>1 DEF RuleState, LearntOk, LearnsApp, LoggerLine, FactoryIsOurs, Lines
<1>4. UsedOk(ruleScopes, todo)' /\ HeardOk(ruleScopes, todo)' /\ PendingOk(ruleScopes, G)'
  BY <1>1, PrimeUsed, PrimeHeard, PrimePending DEF RuleState
<1>5. NodesOk(todo, G, Len(ruleScopes))'
  BY <1>1, PrimeNodes DEF RuleState
<1> QED
  BY <1>2, <1>3, <1>4, <1>5 DEF RuleState

LEMMA SameProgram ==
  ASSUME ProgramInv, UNCHANGED programVars
  PROVE  ProgramInv' /\ \A G : StillOpen(G) => StillOpen(G)'
<1>1. UNCHANGED <<births, uses, frames, previous>>
  BY DEF programVars
<1>2. FramesOk' /\ BirthsOk'
  BY <1>1 DEF ProgramInv, FramesOk, BirthsOk, Lines, Written, IsKept
<1>3. HoldsOk'
  BY <1>1 DEF ProgramInv, HoldsOk, Lines
<1>4. LaterOnes' /\ KeptOpen'
  BY <1>1 DEF ProgramInv, LaterOnes, KeptOpen, Lines, IsKept
<1>5. \A G : StillOpen(G) => StillOpen(G)'
  BY <1>1 DEF StillOpen, Ended, OpenFunctions
<1> QED
  BY <1>2, <1>3, <1>4, <1>5 DEF ProgramInv

LEMMA RuleInvNext == RuleInv /\ [SendNext]_sendVars => RuleInv'
<1> SUFFICES ASSUME RuleInv, [SendNext]_sendVars PROVE RuleInv'
  OBVIOUS
<1>1. IInv /\ ProgramInv /\ suite \in DOMAIN Suites /\ Clean(ruleScopes, ruleReported)
  BY DEF RuleInv, IInv
<1>2. PICK G : StillOpen(G) /\ RuleState(G)
  BY DEF RuleInv
<1>3. IInv'
  BY <1>1, NextClean
<1>4. CASE WriteStatement
  <2>1. PICK s \in Suites[suite].statements :
          /\ Extend(s) /\ todo = <<>> /\ ~Ended /\ todo' = Nodes(s, Written + 1)
          /\ SameKnown /\ SameReports /\ suite' = suite /\ ruleScopes' = ruleScopes
    BY <1>4 DEF WriteStatement, Idle
  <2>2. s \in Statements
    BY <1>1, SuitesAssumption
  <2>3. OpenFunctions(G)
    BY <1>2, <2>1 DEF StillOpen
  <2>4. Writes(s, G)
    BY <1>1, <1>2, <2>1, <2>2, <2>3 DEF Writes
  <2>5. ProgramInv' /\ \E H : OpenFunctions(H)' /\ RuleState(H)'
    BY <2>1, <2>4, WriteKeeps
  <2>6. ~Ended'
    <3>1. s.op # "end"
      BY <2>2, StatementIs DEF Drops, Keeps, Imports, DeclaresIt, MakesLogger, Sends, Begins, Shuts
    <3>2. previous' = s
      BY <2>1 DEF Extend
    <3> QED
      BY <3>1, <3>2 DEF Ended
  <2>7. \E H : StillOpen(H)' /\ RuleState(H)'
    BY <2>5, <2>6 DEF StillOpen
  <2> QED
    BY <1>1, <1>3, <2>1, <2>5, <2>7 DEF RuleInv
<1>5. CASE EndProgram
  <2>1. ~Ended /\ suite' = suite
    BY <1>5 DEF EndProgram, Idle
  <2>2. OpenFunctions(G)
    BY <1>2, <2>1 DEF StillOpen
  <2>3. RuleState(<<>>)' /\ ProgramInv' /\ Ended'
    BY <1>1, <1>2, <1>5, <2>2, EndKeeps
  <2>4. StillOpen(<<>>)'
    BY <2>3 DEF StillOpen
  <2> QED
    BY <1>1, <1>3, <2>1, <2>3, <2>4 DEF RuleInv
<1>6. CASE VisitorStep
  <2>1. UNCHANGED programVars /\ RuleStep /\ suite' = suite
    BY <1>6 DEF VisitorStep
  <2>2. Len(G) \in Nat
    <3>1. Ended => G = <<>>
      BY <1>2 DEF StillOpen
    <3>2. ~Ended => Len(G) \in Nat
      BY <1>1, <1>2, InnermostOpen DEF StillOpen, ProgramInv
    <3> QED
      BY <3>1, <3>2
  <2>3. RuleState(G)'
    BY <1>1, <1>2, <2>1, <2>2, VisitKeeps
  <2>4. ProgramInv' /\ StillOpen(G)'
    BY <1>1, <1>2, <2>1, SameProgram
  <2> QED
    BY <1>1, <1>3, <2>1, <2>3, <2>4 DEF RuleInv
<1>7. CASE ScannerStep \/ ScannerEnd \/ UNCHANGED sendVars
  <2>1. UNCHANGED <<programVars, ruleVars>> /\ suite' = suite
    BY <1>7 DEF ScannerStep, ScannerEnd, sendVars
  <2>2. RuleState(G)'
    BY <1>2, <2>1, SameState
  <2>3. ProgramInv' /\ StillOpen(G)'
    BY <1>1, <1>2, <2>1, SameProgram
  <2> QED
    BY <1>1, <1>3, <2>1, <2>2, <2>3 DEF RuleInv
<1> QED
  BY <1>4, <1>5, <1>6, <1>7 DEF SendNext

-----------------------------------------------------------------------------
(* What the invariant says of the findings. *)

LEMMA NoneUnlost == RuleInv => RuleAlarms
<1> SUFFICES ASSUME RuleInv, NEW l \in Lines, RuleSays(l)
             PROVE  \/ l \in Events /\ Lost(l)
                    \/ births[l].chain = "emit" /\ ~Handed(l)
                    \/ births[l].chain = "foreign" /\ \E k \in Lines : births[k].chain = "logger"
                    \/ uses[l] # {} /\ (births[l].keep[2] # births[l].fun \/ RuleHides(l))
  BY DEF RuleAlarms
<1>1. RecordsOk /\ AccusedOk
  BY DEF RuleInv, RuleState
<1>2. ruleReported \in Reports /\ Len(nodeLine) = Len(ruleReported)
  BY <1>1 DEF RuleInv, IInv, Clean, RecordsOk
<1>3. PICK m \in DOMAIN nodeLine : nodeLine[m] = l /\ ruleReported[m] > 0
  BY DEF RuleSays
<1>4. ruleReported[m] # 0
  BY <1>3
<1>5. /\ births[l].chain \in Heard \cup {"foreign"} /\ births[l].form \in {"stmt"} \cup Binding
      /\ births[l].chain = "foreign" => LoggerLine
  BY <1>1, <1>3 DEF RecordsOk
<1>6. uses[l] = {} \/ Excused(l)
  BY <1>1, <1>3, <1>4 DEF AccusedOk
<1>7. ~Handed(l)
  BY <1>5 DEF Handed, Binding
<1>8. CASE births[l].chain = "foreign"
  BY <1>5, <1>8 DEF LoggerLine
<1>9. CASE births[l].chain = "emit"
  BY <1>7, <1>9
<1>10. CASE births[l].chain \in {"plain", "comma", "derived", "alias"} /\ uses[l] = {}
  <2>1. l \in Events
    BY <1>10 DEF Events, Chains
  <2>2. births[l].chain \notin SelfSending
    BY <1>10 DEF SelfSending
  <2> QED
    BY <1>7, <1>10, <2>1, <2>2 DEF Lost
<1>11. CASE uses[l] # {}
  BY <1>6, <1>11 DEF Excused
<1> QED
  BY <1>5, <1>8, <1>9, <1>10, <1>11 DEF Heard

LEMMA NoneMissed == RuleInv => RuleMisses
<1> SUFFICES ASSUME RuleInv, Done, NEW e \in Events, Lost(e), births[e].chain # "member", ~RuleMixesUp(e)
             PROVE  RuleSays(e)
  BY DEF RuleMisses
<1>1. PICK G : StillOpen(G) /\ RuleState(G)
  BY DEF RuleInv
<1>2. G = <<>> /\ todo = <<>>
  BY <1>1 DEF Done, StillOpen
<1>3. ruleScopes \in Seq([Names -> Nat]) /\ ruleReported \in Seq({0, 1})
  BY DEF RuleInv, IInv, Clean, Stacks, Reports
<1>4. DOMAIN ruleScopes = {}
  <2>1. Len(<<>>) = 0
    OBVIOUS
  <2>2. NodesOk(<<>>, <<>>, Len(ruleScopes))
    BY <1>1, <1>2 DEF RuleState
  <2>3. Len(ruleScopes) = 0
    BY <2>1, <2>2 DEF NodesOk
  <2> QED
    BY <1>3, <2>3
<1>5. Remembered(ruleScopes, e)
  <2>1. births[e].chain \in Heard
    BY DEF Events, Lost, SelfSending, Chains, Heard
  <2>2. ~Handed(e)
    BY DEF Lost
  <2>3. DOMAIN todo = {}
    BY <1>2
  <2>4. HeardOk(ruleScopes, todo)
    BY <1>1 DEF RuleState
  <2> QED
    BY <2>1, <2>2, <2>3, <2>4 DEF HeardOk
<1>6. PICK m \in DOMAIN nodeLine : nodeLine[m] = e /\ ruleReported[m] # 0
  BY <1>4, <1>5 DEF Remembered, Lost
<1>7. ruleReported[m] > 0
  <2>1. nodeLine \in Seq(Nat) /\ Len(nodeLine) = Len(ruleReported)
    BY <1>1 DEF RuleState, RecordsOk
  <2>2. m \in DOMAIN ruleReported
    BY <1>3, <1>6, <2>1
  <2>3. ruleReported[m] \in {0, 1}
    BY <1>3, <2>2
  <2> QED
    BY <1>6, <2>3
<1> QED
  BY <1>6, <1>7 DEF RuleSays

\* In every file that is written, whatever its statements, their number and
\* their nesting: the ESLint rule accuses no event that is sent, passed on or
\* handed over, and passes over none that is lost, but for the cases that
\* RuleAlarms and RuleMisses name (requireSendRule).
THEOREM RuleFindingsHolds == SendSpec => []RuleFindings
<1>1. RuleInv => RuleFindings
  BY NoneUnlost, NoneMissed DEF RuleFindings
<1> QED
  BY <1>1, RuleInvInit, RuleInvNext, PTL DEF SendSpec
=============================================================================
