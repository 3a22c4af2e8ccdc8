--------------------------- MODULE MCSendContract ---------------------------
EXTENDS SendContract

X == <<"x">>
SelfX == <<"self", "x">>

MCModuleNames == {<<"@oresoftware", "next-loggers">>}
MCPlaces == {X, SelfX, App, Factory, Package}
MCNames == {X, SelfX, <<"Event">>}

Build(chains, forms, places) ==
  {Statement("build", c, p, f) : c \in chains, p \in places, f \in forms}
Op(op, forms, places) == {Statement(op, NoChain, p, f) : p \in places, f \in forms}

Bare == {<<>>}
Scopes == Op("open", {"block", "function"}, Bare) \cup {Simple("close")}
Quiet == {[file |-> FALSE, lines |-> {}, next |-> {}]}
Commented == {[file |-> FALSE, lines |-> {}, next |-> {1}],
              [file |-> FALSE, lines |-> {2}, next |-> {}],
              [file |-> TRUE, lines |-> {}, next |-> {}]}

Suite(statements, limit, dialects, comments) ==
  [statements |-> statements, limit |-> limit, dialects |-> dialects, comments |-> comments]

MCSuites ==
  [name \in {"chains", "loggers", "uses", "scopes", "fields", "comments"} |->
     CASE name = "chains" ->  \* every chain, wherever it may stand
            Suite(Build(Chains \ {"alias"}, {"stmt", "arg", "return", "tail"}, Bare)
                    \cup Build(Chains \ {"alias"}, {"let"}, {X})
                    \cup Op("open", {"function"}, Bare) \cup {Simple("close")},
                  3, Languages, Quiet)
       [] name = "loggers" ->  \* loggers that the file imports or makes
            Suite(Op("import", {"default"}, {App}) \cup Op("import", {"named", "foreign"}, {Factory})
                    \cup Op("import", {"namespace"}, {Package})
                    \cup Op("bind", Loggers, {App}) \cup Build({"alias"}, {"stmt"}, Bare)
                    \cup Op("open", {"function"}, Bare) \cup {Simple("close")},
                  5, {"rust", "gleam"}, Quiet)
       [] name = "uses" ->  \* everything that may be done with an event
            Suite(Build({"plain"}, {"let", "typed"}, {X})
                    \cup Op("send", {"call", "give", "piped"}, {X})
                    \cup Op("pass", {"argument", "arrow", "return of", "tail of"}, {X})
                    \cup Op("open", {"function"}, Bare) \cup {Simple("close")},
                  4, Languages, Quiet)
       [] name = "scopes" ->  \* one name in nested blocks and functions
            Suite(Build({"plain"}, {"let", "assign"}, {X}) \cup Op("bind", {"declare"}, {X})
                    \cup Op("send", {"call"}, {X}) \cup Op("pass", {"arrow", "return of"}, {X}) \cup Scopes,
                  6, {"rust"}, Quiet)
       [] name = "fields" ->  \* fields in nested blocks
            Suite(Build({"plain"}, {"let", "assign"}, {X}) \cup Build({"plain"}, {"assign"}, {SelfX})
                    \cup Op("send", {"call", "give"}, {X, SelfX}) \cup Op("open", {"block"}, Bare)
                    \cup {Simple("close")},
                  5, {"rust", "dart"}, Quiet)
       [] name = "comments" ->  \* findings that comments silence
            Suite(Build({"plain"}, {"stmt"}, Bare) \cup Build({"plain"}, {"let", "assign"}, {X})
                    \cup Op("send", {"call"}, {X}) \cup Op("open", {"block"}, Bare) \cup {Simple("close")},
                  4, {"dart"}, Commented)]
=============================================================================
