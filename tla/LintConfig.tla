------------------------------ MODULE LintConfig ------------------------------
(***************************************************************************)
(* Which files the lint reads, and with what: the flat ESLint config that  *)
(* .ores-lint/eslint/base.mjs makes, and trackedFiles of require-send.mjs. *)
(* A file is [dirs, name, ext, test]: the directories it is in, its name   *)
(* and extension, and whether TEST_RE takes it for a test.                 *)
(***************************************************************************)
EXTENDS Integers, Sequences, FiniteSets

Loader == "eslint/use-at-your-own-risk"
Tooling == "typescript-eslint"
Parser == "@typescript-eslint/parser"

FileSegments(f) == Append(f.dirs, f.name)
InDirectory(f, names) == \E k \in DOMAIN f.dirs : f.dirs[k] \in names
Under(d, path) == Len(d) <= Len(path) /\ SubSeq(path, 1, Len(d)) = d

-----------------------------------------------------------------------------
(* Optional packages.  install = [extra, local, global]: whether EXTRA_PATHS  *)
(* has a path, and by package what its module exports: "absent", "throws",   *)
(* "parser" (an object with one), "parse", "semi" or "nothing".              *)

TryResolve(install, id) ==
  IF install.local[id] # "absent" THEN install.local[id]
  ELSE IF install.extra THEN install.global[id] ELSE "absent"

\* Variant: the core rules are there whatever the loader shows.
CoreSemiAvailable_Assumed(install) == TRUE

\* What cannot be inspected is assumed to have its core rules.
CoreSemiAvailable(install) == TryResolve(install, Loader) \in {"absent", "throws", "semi"}

LoadTsSupport(install) ==
  \/ TryResolve(install, Tooling) \in {"parser", "parse"}
  \/ TryResolve(install, Parser) = "parse"

-----------------------------------------------------------------------------
(* Ignored paths.  A line of .eslintignore is [kind, rooted, segments, dir]: *)
(* kind "comment", "negated" or "path"; a slash in front; a slash behind.    *)

\* legacyIgnoreFile: [anywhere, segments, inside], for **/a/b/**.  A line with
\* any slash in it is taken for a path from the root.
LegacyGlob(l) ==
  [anywhere |-> ~l.rooted /\ ~l.dir /\ Len(l.segments) = 1,
   segments |-> l.segments, inside |-> l.dir]

LegacyIgnoreFile(lines) ==
  {LegacyGlob(lines[k]) : k \in {i \in DOMAIN lines : lines[i].kind = "path"}}

NestedRepoIgnores(listed) ==
  {[anywhere |-> FALSE, segments |-> d, inside |-> TRUE] : d \in listed}

IGNORED_DIRS == {"node_modules", "dist", "build", "out", "target", "coverage",
                 ".next", "vendor", ".ores-lint"}

\* How ESLint reads a glob: as a file, or a directory with all that is in it.
Matches(glob, f) ==
  LET path == FileSegments(f)
      n == Len(glob.segments)
      at(k) == /\ k + n - 1 <= Len(path) - (IF glob.inside THEN 1 ELSE 0)
               /\ SubSeq(path, k, k + n - 1) = glob.segments
  IN  \E k \in 1 .. (IF glob.anywhere THEN Len(path) ELSE 1) : at(k)

-----------------------------------------------------------------------------
(* oresConfig.  repo = [listed, legacy, ownBlock, tsconfig]: what could be   *)
(* read of nested-repos.json, the lines of .eslintignore, whether the        *)
(* repository's own config adds a block for TypeScript, and its tsconfig.    *)

JS_FILES == {"js", "mjs", "cjs", "jsx"}
TS_FILES == {"ts", "mts", "cts", "tsx"}

Ignores(repo, f) ==
  \/ InDirectory(f, IGNORED_DIRS)
  \/ \E g \in NestedRepoIgnores(repo.listed) \cup LegacyIgnoreFile(repo.legacy) : Matches(g, f)

\* Variant: it is merely not matched by a block of this config.
IgnoredTs_Unmatched(install, f) == FALSE

\* Without a parser TypeScript is ignored outright.
IgnoredTs(install, f) == f.ext \in TS_FILES /\ ~LoadTsSupport(install)

\* The blocks that match a file: the parser they set, "" for none.
Blocks(install, repo, f) ==
  (IF f.ext \in JS_FILES THEN {"espree"} ELSE {})
    \cup (IF f.ext \in TS_FILES /\ LoadTsSupport(install) THEN {"typescript"} ELSE {})
    \cup (IF f.ext \in TS_FILES /\ repo.ownBlock THEN {""} ELSE {})

EslintTakes(install, repo, f) ==
  /\ ~Ignores(repo, f) /\ ~IgnoredTs(install, f)
  /\ Blocks(install, repo, f) # {}

ParserFor(install, repo, f) ==
  IF "typescript" \in Blocks(install, repo, f) THEN "typescript" ELSE "espree"

\* The rule that looks for semicolons, and the core rules that come with it.
SemiRules(install) ==
  IF CoreSemiAvailable(install) THEN {"semi", "no-extra-semi", "semi-style"} ELSE {"ores/semi"}

-----------------------------------------------------------------------------
(* trackedFiles of the scanner. *)

SCANNED == {"rs", "dart", "gleam"}
SKIP_DIR == {"node_modules", "target", "dist", "build", "out", "vendor", "coverage",
             ".git", ".worktrees", "_to_delete", ".next", ".ores-lint", ".vendor",
             "deps", "third_party", "thirdparty", "external", "submodules", ".r2g"}

InNestedRepo(listed, f) == \E d \in listed : Under(d, FileSegments(f))

ScannerTakes(repo, includeTests, f) ==
  /\ f.ext \in SCANNED
  /\ ~InDirectory(f, SKIP_DIR) /\ f.name \notin SKIP_DIR
  /\ ~InNestedRepo(repo.listed, f)
  /\ includeTests \/ ~f.test
=============================================================================
