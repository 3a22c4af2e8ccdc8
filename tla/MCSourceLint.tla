----------------------------- MODULE MCSourceLint -----------------------------
(***************************************************************************)
(* The three parts of the source lint that share no state, side by side:   *)
(* what the two halves make of a file, how the scanner cuts a text into    *)
(* tokens, and a run over a repository.  Each behaviour is one of a part.  *)
(***************************************************************************)
EXTENDS MCSendContract, MCLintRun, ScanTokens

VARIABLE part

MCChars == {"/", "*", "double", "single", "template", "backslash",
            "newline", "letter", "{", "=", ">", "|"}

\* Another part is looked at.
NoFile == SendInit /\ suite = "loggers" /\ dialect = "rust"
NoRun ==
  /\ RunInit
  /\ world \in WorldsOf({{}}, {Plenty}, Usual, PlainRepo, Envs({<<1>>}, {TRUE}, {FALSE}, {FALSE}))

LintInit ==
  \/ part = "file" /\ SendInit /\ TokenInit /\ NoRun
  \/ part = "text" /\ TokenInit /\ NoFile /\ NoRun
  \/ part = "run" /\ RunInit /\ NoFile /\ TokenInit

LintNext ==
  \/ part = "file" /\ SendNext /\ UNCHANGED <<part, source, runVars>>
  \/ part = "text" /\ TypeChar /\ UNCHANGED <<part, sendVars, runVars>>
  \/ part = "run" /\ RunNext /\ UNCHANGED <<part, source, sendVars>>

LintSpec == LintInit /\ [][LintNext]_<<part, source, sendVars, runVars>>
=============================================================================
