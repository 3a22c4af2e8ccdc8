---------------------------- MODULE LintedProgram ----------------------------
(***************************************************************************)
(* What the lint reads: a file that builds logging events and binds,       *)
(* sends, passes on or loses them, one statement to a line, and what       *)
(* becomes of each event when the file runs from top to bottom, every      *)
(* block and function body once where it is written.  The program is not   *)
(* part of the repository; it is the reference against which the findings  *)
(* of the two halves of the lint are judged.                               *)
(***************************************************************************)
EXTENDS Integers, Sequences, FiniteSets

CONSTANTS
  Places,   \* where an event may be kept: <<"x">> a variable, <<"self", "x">> a field
  MaxDepth  \* bound on the nesting of blocks and functions

VARIABLES
  dialect,   \* "rust", "dart" or "gleam"; the same file is read as JavaScript too
  frames,    \* blocks and functions that are open: [fun, id, holds]
  births,    \* by line: how the event was built there, or that none was
  uses,      \* by line: what was done with the event built there
  previous   \* the statement before

programVars == <<dialect, frames, births, uses, previous>>

Undeclared == -1
Empty == 0
Foreign == -2  \* no logger of ours, for all its name says
Fields == {p \in Places : Len(p) > 1}
App == <<"app">>
Factory == <<"createLogger">>
Package == <<"otel">>

(* Statements: [op, chain, place, form].  The forms of an operation:
     import  default (app), named (createLogger), foreign (createLogger of another
             package), namespace (otel)
     build   stmt, let, typed (let x: Event = ...), assign, arg (run(...)), return, tail
     bind    declare (let x;), and loggers bound to app: anew (log.anew()),
             factory (createLogger()), class (new otel.BaseLogger())
     send    call (x.send()), give (send(x)), piped (x |> log.send())
     pass    argument (run(x)), arrow (run(() => x)), return of, tail of
     open    block, function
     close
   Chains, by how they are written:
     plain    log.info("m")                    undelivered
     comma    log.info("m", c,)                undelivered, a comma at the end
     derived  log.with("k").info("m")          undelivered
     member   self.log.info("m")               undelivered
     alias    app.info("m")                    undelivered
     sent     log.info("m").send()             delivered
     emit     log.log("l", "m", c)             delivered by the call itself        *)
Chains == {"plain", "comma", "derived", "member", "alias", "sent", "emit"}
SelfSending == {"sent", "emit"}
Loggers == {"anew", "factory", "class"}

Statement(op, chain, place, form) == [op |-> op, chain |-> chain, place |-> place, form |-> form]
NoChain == ""
Simple(op) == Statement(op, NoChain, <<>>, op)

\* Where the events are kept; the other places hold loggers and what makes them.
EventPlaces == Places \ {App, Factory, Package}

\* The statements there are.
Statements ==
  LET all(op, chains, forms, places) == [op : {op}, chain : chains, place : places, form : forms]
      simple(op, forms, places) == all(op, {NoChain}, forms, places)
  IN  simple("import", {"default"}, {App}) \cup simple("import", {"named", "foreign"}, {Factory})
        \cup simple("import", {"namespace"}, {Package})
        \cup all("build", Chains, {"stmt", "arg", "return", "tail"}, {<<>>})
        \cup all("build", Chains, {"let", "typed", "assign"}, EventPlaces)
        \cup simple("bind", {"declare"}, EventPlaces) \cup simple("bind", Loggers, {App})
        \cup simple("send", {"call", "give", "piped"}, EventPlaces)
        \cup simple("pass", {"argument", "arrow", "return of", "tail of"}, EventPlaces)
        \cup simple("open", {"block", "function"}, {<<>>}) \cup {Simple("close")}

\* An event is not kept under log or in it, nor under c, the other names of the file.
ASSUME PlacesAssumption ==
  /\ {App, Factory, Package} \subseteq Places
  /\ \A p \in EventPlaces : p \in Seq(STRING) \ {<<>>, <<"c">>} /\ p[1] # "log"

Depth(place) ==
  LET ks == {k \in DOMAIN frames : frames[k].holds[place] # Undeclared}
  IN  IF ks = {} THEN 0 ELSE CHOOSE k \in ks : \A j \in ks : j <= k

Value(place) == IF Depth(place) = 0 THEN Empty ELSE frames[Depth(place)].holds[place]

\* The innermost function at depth d, by the line that opened it.
FunctionAt(d) == LET ks == {k \in 1 .. d : frames[k].fun}
                 IN  frames[CHOOSE k \in ks : \A j \in ks : j <= k].id

Written == Len(births)

\* return x; or return log.info("m"); or, in Rust and Gleam, the same as the
\* last expression of a function: the statement ends the function.
Ends(s) == s.form \in {"return", "tail", "return of", "tail of"}
Declares(s) == s.form \in {"let", "typed", "declare"} \cup Loggers \/ s.op = "import"
Uses(s) == s.op \in {"send", "pass"}

\* Statements the language has: Gleam neither assigns nor has fields, methods
\* or return, and only it has pipes; only Rust and Gleam have tail expressions.
InDialect(s) ==
  LET gleam == dialect = "gleam" IN
  /\ s.form \in {"assign", "call", "return", "return of", "declare"} => ~gleam
  /\ s.chain = "member" => ~gleam
  /\ s.form = "piped" => gleam
  /\ s.form \in {"tail", "tail of"} => dialect # "dart"
  /\ s.chain \in {"emit", "comma"} => ~gleam

\* Statements that make sense where they stand.  In Gleam, which has no
\* semicolons, a chain in front of a brace is a tail expression.
Allowed(s) ==
  LET top == frames[Len(frames)] IN
  /\ InDialect(s)
  /\ s.chain = "alias" => Depth(App) > 0
  /\ s.form = "factory" => Depth(Factory) > 0
  /\ s.form = "class" => Depth(Package) > 0
  /\ s.op = "import" => Len(frames) = 1
  /\ Declares(s) => s.place \notin Fields /\ top.holds[s.place] = Undeclared
  /\ s.form = "assign" => Depth(s.place) > 0
  /\ Uses(s) => Value(s.place) > Empty
  /\ Ends(s) => Len(frames) > 1 /\ top.fun
  /\ s.op = "close" => Len(frames) > 1 /\ ~(dialect = "gleam" /\ previous.form = "stmt")
  /\ s.op = "open" => Len(frames) < MaxDepth

\* The frames after s.
FramesAfter(s) ==
  LET d == IF s.form = "assign" THEN Depth(s.place) ELSE Len(frames)
      value == CASE s.op = "build" -> Written + 1
                 [] s.form = "foreign" -> Foreign
                 [] s.form = "factory" -> Value(Factory)
                 [] OTHER -> Empty
      opened == [fun |-> s.form = "function", id |-> Written + 1,
                 holds |-> [p \in Places |-> Undeclared]]
  IN  CASE s.op = "open" -> Append(frames, opened)
        [] s.op = "close" \/ Ends(s) -> SubSeq(frames, 1, Len(frames) - 1)
        [] Declares(s) \/ s.form = "assign" -> [frames EXCEPT ![d].holds[s.place] = value]
        [] OTHER -> frames

\* A line that builds nothing: "none", or one that makes app a "logger" of ours.
NoEvent(what) ==
  [chain |-> what, place |-> <<>>, form |-> "none", block |-> 0, fun |-> 0, keep |-> <<0, 0>>]

\* How an event is born, in which block and function, and in which of each the
\* variable that keeps it was declared.  The chain of another package's logger
\* is "foreign".
Birth(s) ==
  LET here == Len(frames)
      d == IF s.form = "assign" THEN Depth(s.place) ELSE here
      foreign == \/ s.chain = "alias" /\ Value(App) = Foreign
                 \/ s.form = "factory" /\ Value(Factory) = Foreign
  IN  IF s.op = "build"
      THEN [chain |-> IF foreign THEN "foreign" ELSE s.chain, place |-> s.place, form |-> s.form,
            block |-> frames[here].id, fun |-> FunctionAt(here),
            keep |-> <<frames[d].id, FunctionAt(d)>>]
      ELSE NoEvent(IF s.form \in Loggers \cup {"default"} /\ ~foreign THEN "logger" ELSE "none")

Extend(s) ==
  LET used == IF Uses(s) THEN Value(s.place) ELSE Empty IN
  /\ Allowed(s)
  /\ frames' = FramesAfter(s)
  /\ births' = Append(births, Birth(s))
  /\ uses' = [e \in 1 .. Written + 1 |->
                (IF e <= Written THEN uses[e] ELSE {}) \cup (IF e = used THEN {s.form} ELSE {})]
  /\ previous' = s
  /\ UNCHANGED dialect

ProgramInit(d) ==
  /\ dialect = d
  /\ frames = <<[fun |-> TRUE, id |-> 0,
                 holds |-> [p \in Places |-> IF p \in Fields THEN Empty ELSE Undeclared]]>>
  /\ births = <<>> /\ uses = <<>> /\ previous = Simple("start")
=============================================================================
