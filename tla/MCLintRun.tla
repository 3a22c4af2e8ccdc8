------------------------------ MODULE MCLintRun ------------------------------
EXTENDS LintRun, TLC

File(dirs, name, ext) == [dirs |-> dirs, name |-> name, ext |-> ext, test |-> dirs = <<"tests">>]
A == File(<<"src">>, "a", "js")
B == File(<<"src">>, "b", "js")
Gen == File(<<"gen">>, "g", "js")
AppGen == File(<<"apps", "gen">>, "g", "js")
Built == File(<<"apps", "build">>, "b", "js")
T == File(<<"src">>, "t", "ts")
U == File(<<"apps">>, "u", "ts")
SubJs == File(<<"sub">>, "n", "js")
SubRs == File(<<"sub", "src">>, "m", "rs")
R == File(<<"src">>, "r", "rs")
S == File(<<"src">>, "s", "rs")
Test == File(<<"tests">>, "q", "rs")
Deps == File(<<"deps">>, "d", "rs")

Outcome(messages) == [there |-> TRUE, unparsable |-> FALSE, messages |-> messages]
Sends == Outcome(<<"ores/require-send">>)
Plenty == {Outcome(<<>>), Sends, Outcome(<<"semi", "ores/require-send", "semi">>),
           Outcome(<<"ores/require-send", "ores/require-send", "ores/require-send">>),
           [there |-> FALSE, unparsable |-> FALSE, messages |-> <<"semi">>],
           [there |-> TRUE, unparsable |-> TRUE, messages |-> <<>>]}

Family == {"semi", "no-extra-semi", "semi-style"}
Packages(loader, tooling, parser) ==
  (Loader :> loader) @@ (Tooling :> tooling) @@ (Parser :> parser)
None == Packages("absent", "absent", "absent")
Some == {Packages(l, t[1], t[2]) : l \in {"absent", "throws", "semi", "nothing"},
           t \in {<<"absent", "absent">>, <<"throws", "absent">>, <<"parser", "absent">>,
                  <<"throws", "parse">>, <<"absent", "nothing">>}}
Installs ==
  [extra : {FALSE}, local : Some, global : {None}, shipped : {{}, Family, {"semi"}}]
    \cup [extra : BOOLEAN, local : {None}, global : Some, shipped : {{}, Family}]
Usual == {[extra |-> TRUE, local |-> None, global |-> Packages("semi", "parser", "parse"), shipped |-> Family]}

Line(kind, rooted, segments, dir) ==
  [kind |-> kind, rooted |-> rooted, segments |-> segments, dir |-> dir]
Legacies ==
  {<<>>, <<Line("comment", FALSE, <<"gen">>, FALSE)>>,
   <<Line("path", FALSE, <<"gen">>, FALSE)>>, <<Line("path", FALSE, <<"gen">>, TRUE)>>,
   <<Line("path", TRUE, <<"gen">>, FALSE)>>, <<Line("path", TRUE, <<"gen">>, TRUE)>>,
   <<Line("path", FALSE, <<"apps", "gen">>, FALSE)>>,
   <<Line("path", FALSE, <<"g">>, FALSE), Line("negated", FALSE, <<"gen", "g">>, FALSE)>>}

Repos(listed, legacies, blocks, configs) ==
  [listed : listed, legacy : legacies, ownBlock : blocks, tsconfig : configs]
PlainRepo == Repos({{}}, {<<>>}, {FALSE}, {FALSE})
Envs(caps, strict, skips, tests) ==
  [max : caps, strict : strict, skipScan : skips, includeTests : tests]
PlainEnv == Envs({<<5>>}, {TRUE}, {FALSE}, {FALSE})

WorldsOf(files, holds, installs, repos, envs) ==
  [files : files, holds : holds, install : installs, repo : repos, env : envs]

MCWorlds ==
  \* what is ignored
  WorldsOf({{A, Gen, AppGen, Built, SubJs, SubRs}}, {{Sends}}, Usual,
           Repos({{}, {<<"sub">>}}, Legacies, {FALSE}, {FALSE}), PlainEnv)
  \* which parser and which semicolon rule there is
  \cup WorldsOf({{A, U}, {A, T}}, {{Outcome(<<"semi">>)}}, Installs,
                Repos({{}}, {<<>>}, BOOLEAN, BOOLEAN), PlainEnv)
  \* what is counted, shown and announced
  \cup WorldsOf({{A, B, R}, {A, R, S}, {}}, {Plenty}, Usual, PlainRepo,
                Envs({<<>>, <<0>>, <<1>>, <<2>>}, BOOLEAN, BOOLEAN, {FALSE}))
  \* tests and vendored sources
  \cup WorldsOf({{R, Test, Deps}}, {{Sends}}, Usual, PlainRepo,
                Envs({<<5>>}, {TRUE}, {FALSE}, BOOLEAN))
=============================================================================
