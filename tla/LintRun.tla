------------------------------- MODULE LintRun -------------------------------
(***************************************************************************)
(* A run of the lint over a repository (.ores-lint/lint.sh and js.sh       *)
(* around eslint/base.mjs, eslint/formatter.mjs and require-send.mjs):     *)
(* ESLint examines the files its config takes, the formatter goes through  *)
(* their messages one by one, the scanner reads the files it takes, and    *)
(* lint.sh looks for findings in what both have written.                   *)
(*                                                                         *)
(* world = [files, holds, install, repo, env].  What the rules have to say *)
(* of a file is its outcome, one of world.holds: [there, unparsable,       *)
(* messages], the messages being names of rules, where "semi" stands for   *)
(* the semicolon rule that is configured.                                  *)
(***************************************************************************)
EXTENDS LintConfig

CONSTANT
  Worlds  \* the repositories, installations and environments looked at

VARIABLES
  world, outcome,
  stage,       \* "note", "eslint", "format", "scan", "verdict" or "end"
  left,        \* files the current half still has to read
  jsResults,   \* ESLint's results: [file, messages], "" for a parse error
  fmt,         \* the formatter's counters
  scanResults, \* the scanner's: [files, all], how many there are and their findings
  written, exit

runVars == <<world, outcome, stage, left, jsResults, fmt, scanResults, written, exit>>

Env == world.env
JsFiles == {f \in world.files : EslintTakes(world.install, world.repo, f)}
ScanFiles == {f \in world.files : ScannerTakes(world.repo, Env.includeTests, f)}

Rules == {"semi", "ores/semi", "ores/require-send", "eqeqeq"}

\* Math.max(1, Number(ORES_LINT_MAX_EXAMPLES)): <<n>>, or <<>> for not a number.
MAX == IF Env.max = <<>> THEN <<>> ELSE <<IF Env.max[1] > 1 THEN Env.max[1] ELSE 1>>

Above(count) == MAX # <<>> /\ count > MAX[1]
ShownOf(count) == IF MAX = <<>> THEN 0 ELSE IF Above(count) THEN MAX[1] ELSE count
MoreOf(count) == IF Above(count) THEN count - MAX[1] ELSE 0

\* A repository has finitely many files, rules have names, a line of
\* .eslintignore has a first segment, and the cap is a number if it is one.
ASSUME WorldsAssumption ==
  \A w \in Worlds :
    /\ IsFiniteSet(w.files)
    /\ \A f \in w.files : f.dirs \in Seq(STRING) /\ f.name \in STRING
    /\ \A o \in w.holds : o.messages \in Seq(Rules)
    /\ w.env.max # <<>> => w.env.max[1] \in Int
    /\ w.repo.listed \subseteq Seq(STRING)
    /\ w.repo.legacy \in Seq([kind : {"comment", "negated", "path"}, rooted : BOOLEAN,
                               segments : Seq(STRING) \ {<<>>}, dir : BOOLEAN])

-----------------------------------------------------------------------------
NoFmt == [files |-> 0, errors |-> 0, warnings |-> 0, parse |-> 0,
          count |-> [r \in Rules |-> 0], examples |-> [r \in Rules |-> 0], message |-> 1]

RunInit ==
  /\ world \in Worlds
  /\ outcome \in [world.files -> world.holds]
  /\ stage = "note" /\ left = {}
  /\ jsResults = <<>> /\ scanResults = [files |-> 0, all |-> 0] /\ fmt = NoFmt
  /\ written = {} /\ exit = 0

HasSourceTs == \E f \in world.files : f.dirs = <<"src">> /\ f.ext = "ts"

\* Variant: told when either package is missing.
Note_EitherMissing ==
  /\ stage = "note"
  /\ written' = IF /\ world.repo.tsconfig \/ HasSourceTs
               /\ \E id \in {Tooling, Parser} : TryResolve(world.install, id) = "absent"
            THEN written \cup {[half |-> "note"]} ELSE written
  /\ stage' = "eslint" /\ left' = JsFiles
  /\ UNCHANGED <<world, outcome, jsResults, fmt, scanResults, exit>>

\* js.sh looks for a TypeScript parser by name only, and only in a repository
\* that has a tsconfig.json or TypeScript in src/.
Note ==
  /\ stage = "note"
  /\ written' = IF /\ world.repo.tsconfig \/ HasSourceTs
               /\ \A id \in {Tooling, Parser} : TryResolve(world.install, id) = "absent"
            THEN written \cup {[half |-> "note"]} ELSE written
  /\ stage' = "eslint" /\ left' = JsFiles
  /\ UNCHANGED <<world, outcome, jsResults, fmt, scanResults, exit>>

\* A rule the installed ESLint does not ship makes it refuse the config of the
\* first file it comes to.
Refused ==
  /\ JsFiles # {}
  /\ ~(SemiRules(world.install) \ {"ores/semi"} \subseteq world.install.shipped)

EslintRefuses ==
  /\ stage = "eslint" /\ Refused
  /\ stage' = "scan" /\ left' = ScanFiles
  /\ UNCHANGED <<world, outcome, jsResults, fmt, scanResults, written, exit>>

SemiRule == IF CoreSemiAvailable(world.install) THEN "semi" ELSE "ores/semi"

\* TypeScript that is handed to the JavaScript parser is a parse error.
MessagesFor(f) ==
  LET o == outcome[f]
      readable == f.ext \in TS_FILES => ParserFor(world.install, world.repo, f) = "typescript"
  IN  IF o.unparsable \/ ~readable THEN <<"">>
      ELSE [k \in DOMAIN o.messages |-> IF o.messages[k] = "semi" THEN SemiRule ELSE o.messages[k]]

Examine(f) ==
  /\ stage = "eslint" /\ ~Refused /\ f \in left
  /\ jsResults' = IF outcome[f].there
                  THEN Append(jsResults, [file |-> f, messages |-> MessagesFor(f)])
                  ELSE jsResults
  /\ left' = left \ {f}
  /\ UNCHANGED <<world, outcome, stage, fmt, scanResults, written, exit>>

Examined ==
  /\ stage = "eslint" /\ ~Refused /\ left = {}
  /\ stage' = "format"
  /\ UNCHANGED <<world, outcome, left, jsResults, fmt, scanResults, written, exit>>

-----------------------------------------------------------------------------
(* oresFormatter. *)

Formatted == fmt.files = Len(jsResults)  \* every result has been gone through

\* The messages of the next result; fmt.message is the one to look at.
NextMessages == jsResults[fmt.files + 1].messages

\* Variant: what is not shown is not counted.
CountRule_Shown(f, r) ==
  IF MAX # <<>> /\ f.examples[r] < MAX[1]
  THEN [f EXCEPT !.warnings = @ + 1, !.count[r] = @ + 1, !.examples[r] = @ + 1]
  ELSE [f EXCEPT !.warnings = @ + 1]

CountRule(f, r) ==
  [f EXCEPT !.warnings = @ + 1, !.count[r] = @ + 1,
            !.examples[r] = IF MAX # <<>> /\ @ < MAX[1] THEN @ + 1 ELSE @]

FormatMessage ==
  /\ stage = "format" /\ ~Formatted /\ fmt.message <= Len(NextMessages)
  /\ LET r == NextMessages[fmt.message]
         seen == [fmt EXCEPT !.message = @ + 1]
     IN  fmt' = IF r = "" THEN [seen EXCEPT !.errors = @ + 1, !.parse = @ + 1]
                ELSE CountRule(seen, r)
  /\ UNCHANGED <<world, outcome, stage, left, jsResults, scanResults, written, exit>>

FormatResult ==
  /\ stage = "format" /\ ~Formatted /\ fmt.message > Len(NextMessages)
  /\ fmt' = [fmt EXCEPT !.files = @ + 1, !.message = 1]
  /\ UNCHANGED <<world, outcome, stage, left, jsResults, scanResults, written, exit>>

\* Nothing examined is not the same as nothing found.
Says(total, examined) ==
  IF total > 0 THEN "findings" ELSE IF examined = 0 THEN "nothing" ELSE "clean"

Report(half, total, examined, counts, shown) ==
  [half |-> half, says |-> Says(total, examined), total |-> total,
   shown |-> shown, more |-> [r \in DOMAIN counts |-> MoreOf(counts[r])]]

FormatEnd ==
  /\ stage = "format" /\ Formatted
  /\ LET counts == [r \in Rules \cup {""} |-> IF r = "" THEN fmt.parse ELSE fmt.count[r]]
         shown == [r \in Rules \cup {""} |-> IF r = "" THEN ShownOf(fmt.parse) ELSE fmt.examples[r]]
     IN  written' = written \cup {Report("js", fmt.errors + fmt.warnings, Len(jsResults), counts, shown)}
  /\ stage' = "scan" /\ left' = ScanFiles
  /\ UNCHANGED <<world, outcome, jsResults, fmt, scanResults, exit>>

-----------------------------------------------------------------------------
(* The scanner's main, after the files it has been given. *)

Count(messages, r) == Cardinality({k \in DOMAIN messages : messages[k] = r})

\* A file that has gone since git listed it is passed over.
ScanFile(f) ==
  /\ stage = "scan" /\ f \in left /\ ~Env.skipScan
  /\ scanResults' = IF outcome[f].there
                    THEN [files |-> scanResults.files + 1,
                          all |-> scanResults.all + Count(outcome[f].messages, "ores/require-send")]
                    ELSE scanResults
  /\ left' = left \ {f}
  /\ UNCHANGED <<world, outcome, stage, jsResults, fmt, written, exit>>

FormatReport ==
  /\ stage = "scan" /\ (left = {} \/ Env.skipScan)
  /\ LET all == scanResults.all
         counts == [r \in {"ores/require-send"} |-> all]
     IN  written' = IF Env.skipScan THEN written
                ELSE written \cup {Report("scan", all, scanResults.files, counts, [r \in DOMAIN counts |-> ShownOf(all)])}
  /\ stage' = "verdict"
  /\ UNCHANGED <<world, outcome, left, jsResults, fmt, scanResults, exit>>

\* lint.sh: a strict run fails when any half has written of findings.
Verdict ==
  /\ stage = "verdict"
  /\ exit' = IF Env.strict /\ \E r \in written : r.half # "note" /\ r.says = "findings" THEN 1 ELSE 0
  /\ stage' = "end"
  /\ UNCHANGED <<world, outcome, left, jsResults, fmt, scanResults, written>>

RunNext ==
  \/ Note \/ EslintRefuses \/ Examined \/ FormatMessage \/ FormatResult \/ FormatEnd
  \/ FormatReport \/ Verdict
  \/ \E f \in left : Examine(f) \/ ScanFile(f)

RunSpec == RunInit /\ [][RunNext]_runVars

-----------------------------------------------------------------------------
(* What .eslintignore means to git: the last line that matches decides, and *)
(* what is in an ignored directory is ignored.                              *)

GitHits(l, path, isFile) ==
  /\ l.kind # "comment" /\ (l.dir => ~isFile)
  /\ IF l.rooted \/ Len(l.segments) > 1 THEN path = l.segments
     ELSE path[Len(path)] = l.segments[1]

GitDrops(lines, path, isFile) ==
  LET hits == {k \in DOMAIN lines : GitHits(lines[k], path, isFile)}
  IN  \E k \in hits : lines[k].kind = "path" /\ \A j \in hits : j <= k

GitIgnored(lines, f) ==
  LET path == FileSegments(f)
  IN  \E j \in DOMAIN path : GitDrops(lines, SubSeq(path, 1, j), j = Len(path))

-----------------------------------------------------------------------------
\* Every file is read by the half and the parser that are meant for it: no
\* TypeScript by the JavaScript parser, whatever blocks the repository adds; no
\* file of a nested repository by either half; and of JavaScript, what
\* .eslintignore leaves in.  Two lines of it are not carried over: one that
\* only ends in a slash holds at the root alone, and a negated one is dropped
\* (oresConfig, nestedRepoIgnores, legacyIgnoreFile, trackedFiles).
ExaminedRight ==
  \A f \in world.files :
    LET lines == world.repo.legacy
        nested == \E d \in world.repo.listed : Under(d, f.dirs)
        plain == f.ext \in JS_FILES /\ ~nested /\ ~InDirectory(f, IGNORED_DIRS)
    IN  /\ f \in JsFiles /\ f.ext \in TS_FILES =>
             ParserFor(world.install, world.repo, f) = "typescript"
        /\ nested => f \notin JsFiles \cup ScanFiles
        /\ plain /\ f \in JsFiles /\ GitIgnored(lines, f) =>
             \E k \in DOMAIN lines : lines[k].dir /\ ~lines[k].rooted
                                       /\ InDirectory(f, {lines[k].segments[1]})
        /\ plain /\ f \notin JsFiles /\ ~GitIgnored(lines, f) =>
             \E k \in DOMAIN lines : lines[k].kind = "negated"

Told == [half |-> "note"] \in written

\* When the note says that TypeScript is being skipped, no result is of a
\* TypeScript file, whatever blocks the repository adds: js.sh, which looks for
\* the packages by name, never says so of files that base.mjs, which imports
\* them, has ESLint read (js.sh; loadTsSupport, oresConfig).
NoteIsTrue ==
  Told => \A i \in DOMAIN jsResults : jsResults[i].file.ext \notin TS_FILES

\* What base.mjs says of the note: TypeScript that is ignored for want of a
\* parser is told of, so that the repository does not look like a clean one.
GapIsVisible ==
  \A f \in world.files :
    stage # "note" /\ ~Ignores(world.repo, f) /\ IgnoredTs(world.install, f) => Told

There(files) == {f \in files : outcome[f].there}
ReadBy(half) == There(IF half = "js" THEN JsFiles ELSE ScanFiles)
MessagesOf(half, f) == IF half = "js" THEN MessagesFor(f) ELSE outcome[f].messages
Found(half, rules) ==
  UNION {{f} \X {k \in DOMAIN MessagesOf(half, f) : MessagesOf(half, f)[k] \in rules} : f \in ReadBy(half)}

\* A report counts every message once: what it shows of a rule and the rest it
\* announces make up the messages of the rule in all files, and its total those
\* of all rules; it says clean only when it has read something.  When
\* ORES_LINT_MAX_EXAMPLES is no number the rest is not announced (oresFormatter,
\* formatReport).
CappedReport ==
  \A r \in written : r.half # "note" =>
    LET rules == DOMAIN r.shown
    IN  /\ r.total = Cardinality(Found(r.half, rules))
        /\ MAX # <<>> =>
             \A m \in rules : r.shown[m] + r.more[m] = Cardinality(Found(r.half, {m}))
        /\ r.says = "clean" => ReadBy(r.half) # {} /\ Found(r.half, rules) = {}
        /\ r.says = "nothing" <=> ReadBy(r.half) = {}

\* The loader that base.mjs inspects is that of the ESLint which runs, and that
\* ESLint ships the three semicolon rules or none.
Inspected ==
  LET shipped == world.install.shipped
  IN  /\ shipped \in {{}, {"semi", "no-extra-semi", "semi-style"}}
      /\ TryResolve(world.install, Loader) = IF shipped = {} THEN "nothing" ELSE "semi"

\* A strict run fails if there is something to find in a file that either half
\* takes (a file that cannot be parsed counts as well), and only then.  A run
\* whose ESLint refuses the config passes; the config is never refused when
\* base.mjs could look at the ESLint that runs (coreSemiAvailable, lint.sh).
StrictVerdict ==
  stage = "end" =>
    LET js == \E f \in ReadBy("js") : MessagesFor(f) # <<>>
        scan == ~Env.skipScan /\ Found("scan", {"ores/require-send"}) # {}
    IN  /\ exit = 1 => Env.strict /\ (js \/ scan)
        /\ Env.strict /\ (scan \/ (js /\ Inspected)) => exit = 1
=============================================================================
