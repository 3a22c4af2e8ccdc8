--------------------------- MODULE SourceLintProofs ---------------------------
(***************************************************************************)
(* What holds of the source lint for any names, suites of statements and   *)
(* texts (the send rule) and for any repository, installation and          *)
(* environment (the lint run).                                             *)
(*                                                                         *)
(* The send rule: what the operations on a stack of scopes preserve.       *)
(* Clean says that every pending event is known and has no report yet, and *)
(* is pending in one place only; without it a scope that is flushed could  *)
(* report what another one still holds.  Both halves of the rule keep a    *)
(* stack and the reports in step, and both keep them Clean, which is more  *)
(* than ReportedOnce and inductive.                                        *)
(*                                                                         *)
(* The tokeniser: the recursive function that Tokenize chooses exists, and *)
(* every turn of its loop counts the newlines it goes past.  What it makes *)
(* of a text does not depend on where the text stands, nor, up to a        *)
(* newline that closes it, on what follows.                                *)
(*                                                                         *)
(* The lint run: RunInv ties the counters of both halves to the files they *)
(* have read so far; the reports and the verdict follow from it.           *)
(***************************************************************************)
EXTENDS LintRun, SendContract, ScanTokens, FiniteSetTheorems, TLAPS

Stacks == Seq([Names -> Nat])
Reports == Seq({0, 1})

Known(stack, reports) ==
  \A k \in DOMAIN stack, n \in Names :
    stack[k][n] # Nothing => stack[k][n] \in DOMAIN reports /\ reports[stack[k][n]] = 0

Apart(stack) ==
  \A j, k \in DOMAIN stack, m, n \in Names :
    stack[k][n] # Nothing /\ stack[j][m] = stack[k][n] => j = k /\ m = n

Clean(stack, reports) ==
  /\ stack \in Stacks
  /\ reports \in Reports
  /\ Known(stack, reports)
  /\ Apart(stack)

\* The same stack, but for events that are forgotten.
Thinner(new, old) ==
  /\ new \in Stacks /\ Len(new) = Len(old)
  /\ \A k \in DOMAIN old, n \in Names : new[k][n] \in {Nothing, old[k][n]}

-----------------------------------------------------------------------------
\* clear, clearPending: forgetting an event leaves the others as they are.
LEMMA ThinningKeepsClean ==
  ASSUME NEW new, NEW old, NEW reports, Clean(old, reports), Thinner(new, old)
  PROVE  Clean(new, reports)
<1>1. old \in Stacks /\ new \in Stacks /\ reports \in Reports /\ DOMAIN new = DOMAIN old
  BY DEF Clean, Thinner, Stacks
<1>2. Known(new, reports)
  BY <1>1 DEF Clean, Thinner, Known
<1>3. Apart(new)
  BY <1>1 DEF Clean, Thinner, Apart
<1> QED
  BY <1>1, <1>2, <1>3 DEF Clean

LEMMA ScopeByScope ==
  ASSUME NEW stack \in Stacks, NEW new, new = [k \in DOMAIN stack |-> new[k]],
         \A k \in DOMAIN stack :
           /\ new[k] \in [Names -> Nat]
           /\ \A n \in Names : new[k][n] \in {Nothing, stack[k][n]}
  PROVE  Thinner(new, stack)
<1>1. Len(stack) \in Nat /\ DOMAIN stack = 1 .. Len(stack)
  BY DEF Stacks
<1>2. new \in [1 .. Len(stack) -> [Names -> Nat]]
  BY <1>1
<1>3. new \in Stacks /\ Len(new) = Len(stack)
  BY <1>1, <1>2 DEF Stacks
<1> QED
  BY <1>3 DEF Thinner

LEMMA ThinnerThanItself ==
  ASSUME NEW stack \in Stacks PROVE Thinner(stack, stack)
BY DEF Thinner

LEMMA ThinnerChains ==
  ASSUME NEW a, NEW b, NEW c, a \in Stacks, Thinner(b, a), Thinner(c, b)
  PROVE  Thinner(c, a)
<1>1. DOMAIN a = DOMAIN b
  BY DEF Thinner, Stacks
<1> QED
  BY <1>1 DEF Thinner

LEMMA ClearingThins ==
  ASSUME NEW stack \in Stacks, NEW name
  PROVE  Thinner(Clear(stack, name), stack)
<1>1. CASE Holding(stack, name) = {}
  BY <1>1, ThinnerThanItself DEF Clear
<1>2. CASE Holding(stack, name) # {}
  <2> DEFINE place == Innermost(Holding(stack, name))
             new == [stack EXCEPT ![place] = [@ EXCEPT ![name] = Nothing]]
  <2>1. Clear(stack, name) = new
    BY <1>2 DEF Clear
  <2> HIDE DEF place
  <2>2. /\ Len(stack) \in Nat /\ DOMAIN stack = 1 .. Len(stack)
        /\ \A k \in DOMAIN stack : stack[k] \in [Names -> Nat]
    BY DEF Stacks
  <2>3. \A k \in DOMAIN stack :
          new[k] = IF k = place THEN [stack[k] EXCEPT ![name] = Nothing] ELSE stack[k]
    BY <2>2
  <2>4. \A k \in DOMAIN stack :
          /\ new[k] \in [Names -> Nat]
          /\ \A n \in Names : new[k][n] \in {Nothing, stack[k][n]}
    <3> TAKE k \in DOMAIN stack
    <3>1. stack[k] \in [Names -> Nat] /\ Nothing \in Nat
      BY <2>2 DEF Nothing
    <3>2. /\ [stack[k] EXCEPT ![name] = Nothing] \in [Names -> Nat]
          /\ \A n \in Names : [stack[k] EXCEPT ![name] = Nothing][n] \in {Nothing, stack[k][n]}
      BY <3>1
    <3> QED
      BY <2>3, <3>1, <3>2
  <2>5. new = [k \in DOMAIN stack |-> new[k]]
    BY <2>2
  <2>6. Thinner(new, stack)
    BY <2>4, <2>5, ScopeByScope
  <2> QED
    BY <2>1, <2>6
<1> QED
  BY <1>1, <1>2

\* enterScope and the opening brace.
LEMMA EnteringKeepsClean ==
  ASSUME NEW stack, NEW reports, Clean(stack, reports)
  PROVE  Clean(Enter(stack), reports)
<1> DEFINE new == Enter(stack)
<1>1. stack \in Stacks /\ reports \in Reports
  BY DEF Clean
<1>2. EmptyScope \in [Names -> Nat] /\ \A n \in Names : EmptyScope[n] = Nothing
  BY DEF EmptyScope, Nothing
<1>3. /\ new \in Stacks
      /\ DOMAIN new = 1 .. Len(stack) + 1
      /\ DOMAIN stack = 1 .. Len(stack) /\ Len(stack) \in Nat
      /\ \A k \in DOMAIN stack : new[k] = stack[k]
      /\ new[Len(stack) + 1] = EmptyScope
  BY <1>1, <1>2 DEF Enter, Stacks
<1>4. \A k \in DOMAIN new, n \in Names : new[k][n] # Nothing => k \in DOMAIN stack
  BY <1>2, <1>3
<1>5. Known(new, reports)
  BY <1>3, <1>4 DEF Clean, Known
<1>6. Apart(new)
  BY <1>3, <1>4 DEF Clean, Apart
<1> QED
  BY <1>1, <1>3, <1>5, <1>6 DEF Clean

\* The scope of the file, before anything is read.
LEMMA StartingClean ==
  Clean(<<EmptyScope>>, <<>>)
<1>1. EmptyScope \in [Names -> Nat] /\ \A n \in Names : EmptyScope[n] = Nothing
  BY DEF EmptyScope, Nothing
<1>2. <<EmptyScope>> \in Stacks /\ <<>> \in Reports
  BY <1>1 DEF Stacks, Reports
<1>3. \A k \in DOMAIN <<EmptyScope>>, n \in Names : <<EmptyScope>>[k][n] = Nothing
  BY <1>1
<1> QED
  BY <1>2, <1>3 DEF Clean, Known, Apart

\* An event is left in a scope at most once, and only when it has no report.
LEMMA TimesOnce ==
  ASSUME NEW stack, NEW reports, Clean(stack, reports),
         NEW k \in DOMAIN stack, NEW e \in DOMAIN reports
  PROVE  /\ Times(stack[k], e) \in {0, 1}
         /\ Times(stack[k], e) = 1 => reports[e] = 0
         /\ (\A n \in Names : stack[k][n] # e) => Times(stack[k], e) = 0
<1> DEFINE S == {n \in Names : stack[k][n] = e}
<1>1. e # Nothing
  BY DEF Clean, Reports, Nothing
<1>0. Times(stack[k], e) = Cardinality(S)
  BY DEF Times
<1>2. CASE S = {}
  <2>1. Times(stack[k], e) = 0
    BY <1>0, <1>2, FS_EmptySet
  <2> QED
    BY <2>1
<1>3. CASE S # {}
  <2>1. PICK n \in Names : stack[k][n] = e
    BY <1>3
  <2>2. S = {n}
    BY <1>1, <2>1 DEF Clean, Apart
  <2>3. Times(stack[k], e) = 1
    <3>1. Cardinality({n}) = 1
      BY FS_Singleton
    <3> QED
      BY <1>0, <2>2, <3>1
  <2>4. reports[e] = 0
    BY <1>1, <2>1 DEF Clean, Known
  <2> QED
    BY <2>1, <2>3, <2>4
<1> QED
  BY <1>2, <1>3

\* exitScope, flushScope: what leaves the stack is reported, and only that.
LEMMA FlushingKeepsClean ==
  ASSUME NEW stack, NEW reports, NEW silenced, Clean(stack, reports), stack # <<>>
  PROVE  Clean(SubSeq(stack, 1, Len(stack) - 1), Flush(reports, stack[Len(stack)], silenced))
<1> DEFINE top == Len(stack)
           new == SubSeq(stack, 1, top - 1)
           after == Flush(reports, stack[top], silenced)
<1>1. stack \in Stacks /\ reports \in Reports
  BY DEF Clean
<1>2. /\ new \in Stacks
      /\ top \in Nat /\ top >= 1 /\ DOMAIN stack = 1 .. top /\ DOMAIN new = 1 .. top - 1
      /\ \A k \in DOMAIN new : new[k] = stack[k]
  BY <1>1 DEF Stacks
<1>3. Len(reports) \in Nat /\ DOMAIN reports = 1 .. Len(reports)
      /\ \A e \in DOMAIN reports : reports[e] \in {0, 1}
  BY <1>1 DEF Reports
<1>4. \A e \in DOMAIN reports :
        /\ after[e] \in {0, 1}
        /\ (\A n \in Names : stack[top][n] # e) => after[e] = reports[e]
  <2> TAKE e \in DOMAIN reports
  <2>1. after[e] = reports[e] + IF e \in silenced THEN 0 ELSE Times(stack[top], e)
    BY DEF Flush
  <2>2. top \in DOMAIN stack
    BY <1>2
  <2> QED
    BY <2>1, <2>2, <1>3, TimesOnce
<1>5. after \in Reports /\ DOMAIN after = DOMAIN reports
  <2>1. DOMAIN after = 1 .. Len(reports)
    BY <1>3 DEF Flush
  <2>2. after \in [1 .. Len(reports) -> {0, 1}]
    BY <1>3, <1>4 DEF Flush
  <2> QED
    BY <1>3, <2>1, <2>2 DEF Reports
<1>6. Known(new, after)
  <2> SUFFICES ASSUME NEW k \in DOMAIN new, NEW n \in Names, new[k][n] # Nothing
               PROVE  new[k][n] \in DOMAIN after /\ after[new[k][n]] = 0
    BY DEF Known
  <2>1. k \in DOMAIN stack /\ k # top /\ top \in DOMAIN stack /\ new[k][n] = stack[k][n]
    BY <1>2
  <2>2. stack[k][n] \in DOMAIN reports /\ reports[stack[k][n]] = 0
    BY <2>1 DEF Clean, Known
  <2>3. \A m \in Names : stack[top][m] # stack[k][n]
    BY <2>1 DEF Clean, Apart
  <2> QED
    BY <1>4, <1>5, <2>1, <2>2, <2>3
<1>7. Apart(new)
  BY <1>2 DEF Clean, Apart
<1> QED
  BY <1>2, <1>5, <1>6, <1>7 DEF Clean

\* report: an event that is not pending anywhere is new to the stack.
LEMMA ReportingKeepsClean ==
  ASSUME NEW stack, NEW reports, NEW times \in {0, 1}, Clean(stack, reports)
  PROVE  Clean(stack, Append(reports, times))
<1>1. reports \in Reports
  BY DEF Clean
<1>2. /\ Append(reports, times) \in Reports
      /\ \A e \in DOMAIN reports : /\ e \in DOMAIN Append(reports, times)
                                   /\ Append(reports, times)[e] = reports[e]
  BY <1>1 DEF Reports
<1> QED
  BY <1>2 DEF Clean, Known

\* mark, markPending: the event is a new one, so it is pending nowhere else.
LEMMA MarkingKeepsClean ==
  ASSUME NEW stack, NEW reports, NEW name, Clean(stack, reports)
  PROVE  Clean(Mark(stack, name, Len(reports) + 1), Append(reports, 0))
<1> DEFINE event == Len(reports) + 1
           new == Mark(stack, name, event)
           after == Append(reports, 0)
<1>1. stack \in Stacks /\ reports \in Reports
  BY DEF Clean
<1>2. /\ Len(stack) \in Nat /\ DOMAIN stack = 1 .. Len(stack)
      /\ \A k \in DOMAIN stack : stack[k] \in [Names -> Nat]
  BY <1>1 DEF Stacks
<1>3. /\ Len(reports) \in Nat /\ DOMAIN reports = 1 .. Len(reports)
      /\ after \in Reports /\ DOMAIN after = 1 .. event
      /\ after[event] = 0
      /\ \A e \in DOMAIN reports : after[e] = reports[e]
  BY <1>1 DEF Reports
<1>4. \A k \in DOMAIN stack :
        new[k] = IF k = Len(stack) THEN [stack[k] EXCEPT ![name] = event] ELSE stack[k]
  BY <1>2 DEF Mark
<1>5. \A k \in DOMAIN stack : new[k] \in [Names -> Nat]
  <2> TAKE k \in DOMAIN stack
  <2>1. event \in Nat /\ stack[k] \in [Names -> Nat]
    BY <1>2, <1>3
  <2>2. [stack[k] EXCEPT ![name] = event] \in [Names -> Nat]
    BY <2>1
  <2> QED
    BY <1>4, <2>1, <2>2
<1>6. new \in Stacks /\ DOMAIN new = DOMAIN stack
  <2>1. DOMAIN new = 1 .. Len(stack)
    BY <1>2 DEF Mark
  <2>2. new \in [1 .. Len(stack) -> [Names -> Nat]]
    BY <1>2, <1>5, <2>1 DEF Mark
  <2> QED
    BY <1>2, <2>1, <2>2 DEF Stacks
<1>7. \A k \in DOMAIN stack, n \in Names :
        new[k][n] = IF k = Len(stack) /\ n = name THEN event ELSE stack[k][n]
  BY <1>2, <1>4
<1>8. \A k \in DOMAIN stack, n \in Names : stack[k][n] # Nothing => stack[k][n] \in 1 .. Len(reports)
  BY <1>3 DEF Clean, Known
<1>9. Known(new, after)
  BY <1>3, <1>6, <1>7, <1>8 DEF Clean, Known
<1>10. Apart(new)
  <2>1. event \notin 1 .. Len(reports) /\ event # Nothing
    BY <1>3 DEF Nothing
  <2> QED
    BY <1>6, <1>7, <1>8, <2>1 DEF Clean, Apart
<1> QED
  BY <1>3, <1>6, <1>9, <1>10 DEF Clean

-----------------------------------------------------------------------------
\* The two halves of the send rule.

IInv ==
  /\ Clean(scopeStack, reported)
  /\ Clean(ruleScopes, ruleReported)

\* What no token and no node of a step changes.
ScannerKept == UNCHANGED <<scopeStack, reported>>
RuleKept == UNCHANGED <<ruleScopes, ruleReported>>

-----------------------------------------------------------------------------
LEMMA InitClean == SendInit => IInv
BY StartingClean DEF SendInit, ScanInit, RuleInit, IInv

\* The scanner, a token or a chain at a time (analyzeSource).
LEMMA ScanStepKeepsClean ==
  ASSUME Clean(scopeStack, reported), ScanStep
  PROVE  Clean(scopeStack', reported')
<1>0. scopeStack \in Stacks
  BY DEF Clean
<1>1. CASE OpenBrace
  BY <1>1, EnteringKeepsClean DEF OpenBrace
<1>2. CASE CloseBrace
  <2>1. CASE Len(scopeStack) > 1
    <3>1. scopeStack # <<>>
      BY <2>1
    <3> QED
      BY <1>2, <2>1, <3>1, FlushingKeepsClean DEF CloseBrace, Popped, FlushedTop
  <2>2. CASE ~(Len(scopeStack) > 1)
    BY <1>2, <2>2 DEF CloseBrace
  <2> QED
    BY <2>1, <2>2
<1>3. CASE TerminalUse
  <2>1. PICK receiver, inner : scopeStack' = Clear(Clear(scopeStack, receiver), inner)
    BY <1>3 DEF TerminalUse
  <2>2. Thinner(Clear(scopeStack, receiver), scopeStack)
    BY <1>0, ClearingThins
  <2>3. Thinner(scopeStack', Clear(scopeStack, receiver))
    BY <2>1, <2>2, ClearingThins DEF Thinner
  <2>4. Thinner(scopeStack', scopeStack) /\ reported' = reported
    BY <1>0, <1>3, <2>2, <2>3, ThinnerChains DEF TerminalUse
  <2> QED
    BY <2>4, ThinningKeepsClean
<1>4. CASE OtherToken
  BY <1>4 DEF OtherToken
<1>5. CASE DeliveredChain
  BY <1>5 DEF DeliveredChain
<1>6. CASE BoundChain
  BY <1>6, MarkingKeepsClean DEF BoundChain
<1>7. CASE HandedOffChain
  BY <1>7 DEF HandedOffChain
<1>8. CASE DroppedChain
  <2>1. PICK times \in {0, 1} : reported' = Append(reported, times)
    BY <1>8 DEF DroppedChain
  <2> QED
    BY <1>8, <2>1, ReportingKeepsClean DEF DroppedChain
<1> QED
  BY <1>1, <1>2, <1>3, <1>4, <1>5, <1>6, <1>7, <1>8 DEF ScanStep

-----------------------------------------------------------------------------
\* The arguments of a call are forgotten, and nothing else happens to the stack.
LEMMA ClearingArgumentsThins ==
  ASSUME NEW stack \in Stacks, NEW e
  PROVE  Thinner(ClearArguments(stack, e), stack)
<1> DEFINE args == Arguments(e)
           given(n) == Cardinality({i \in DOMAIN args : GetQualifiedName(args[i]) = n})
           within(k, n) == Cardinality({j \in Holding(stack, n) : j > k})
           forgets(k, n) == within(k, n) < given(n)
           new == ClearArguments(stack, e)
<1>1. new = [k \in DOMAIN stack |-> [n \in Names |->
               IF forgets(k, n) THEN Nothing ELSE stack[k][n]]]
  BY Zenon DEF ClearArguments
<1> HIDE DEF new, forgets
<1>2. /\ Len(stack) \in Nat /\ DOMAIN stack = 1 .. Len(stack)
      /\ \A k \in DOMAIN stack : stack[k] \in [Names -> Nat]
  BY DEF Stacks
<1>3. \A k \in DOMAIN stack :
        /\ new[k] \in [Names -> Nat]
        /\ \A n \in Names : new[k][n] \in {Nothing, stack[k][n]}
  <2> TAKE k \in DOMAIN stack
  <2>1. new[k] = [n \in Names |-> IF forgets(k, n) THEN Nothing ELSE stack[k][n]]
    BY <1>1
  <2> QED
    BY <1>2, <2>1 DEF Nothing
<1>4. new = [k \in DOMAIN stack |-> new[k]]
  BY <1>1
<1>5. Thinner(new, stack)
  BY <1>3, <1>4, ScopeByScope
<1> QED
  BY <1>5 DEF new

LEMMA ConsumingThins ==
  ASSUME NEW stack \in Stacks, NEW e
  PROVE  Thinner(ConsumeTerminalUse(stack, e), stack)
<1>1. PICK middle : /\ Thinner(middle, stack)
                    /\ ConsumeTerminalUse(stack, e) = ClearArguments(middle, e)
  <2>1. PICK name : \/ ConsumeTerminalUse(stack, e) = ClearArguments(stack, e)
                    \/ ConsumeTerminalUse(stack, e) = ClearArguments(Clear(stack, name), e)
    BY DEF ConsumeTerminalUse
  <2> QED
    BY <2>1, ClearingThins, ThinnerThanItself
<1>2. Thinner(ClearArguments(middle, e), middle)
  BY <1>1, ClearingArgumentsThins DEF Thinner
<1> QED
  BY <1>1, <1>2, ThinnerChains

\* Binding an event to a name, in a declaration or an assignment.
LEMMA MarkNodeKeepsClean ==
  ASSUME NEW name, Clean(ruleScopes, ruleReported), MarkNode(name)
  PROVE  Clean(ruleScopes', ruleReported')
BY MarkingKeepsClean DEF MarkNode

\* Using up what an expression sends or passes on.
LEMMA ConsumeKeepsClean ==
  ASSUME NEW e, Clean(ruleScopes, ruleReported),
         ruleScopes' = ConsumeTerminalUse(ruleScopes, e), ruleReported' = ruleReported
  PROVE  Clean(ruleScopes', ruleReported')
<1>1. Thinner(ruleScopes', ruleScopes)
  BY ConsumingThins DEF Clean
<1> QED
  BY <1>1, ThinningKeepsClean

\* The rule, a node at a time (the visitors that create returns).
LEMMA RuleStepKeepsClean ==
  ASSUME Clean(ruleScopes, ruleReported), RuleStep
  PROVE  Clean(ruleScopes', ruleReported')
<1>0. ruleScopes \in Stacks
  BY DEF Clean
<1>1. CASE FunctionEnter
  BY <1>1, EnteringKeepsClean DEF FunctionEnter, SameReports
<1>2. CASE ArrowEnter
  <2>1. Clean(Enter(ruleScopes), ruleReported)
    BY EnteringKeepsClean
  <2>2. Thinner(ruleScopes', Enter(ruleScopes)) /\ ruleReported' = ruleReported
    BY <1>2, <2>1, ClearingThins DEF ArrowEnter, SameReports, Clean
  <2> QED
    BY <2>1, <2>2, ThinningKeepsClean
<1>3. CASE ScopeExit
  <2>1. CASE ruleScopes = <<>>
    BY <1>3, <2>1 DEF ScopeExit
  <2>2. CASE ruleScopes # <<>>
    BY <1>3, <2>2, FlushingKeepsClean DEF ScopeExit
  <2> QED
    BY <2>1, <2>2
<1>4. CASE ImportDeclaration
  BY <1>4 DEF ImportDeclaration, SameReports
<1>5. CASE VariableDeclarator
  BY <1>5, MarkNodeKeepsClean DEF VariableDeclarator, SameReports
<1>6. CASE AssignmentExpression
  BY <1>6, MarkNodeKeepsClean, ConsumeKeepsClean DEF AssignmentExpression, SameReports
<1>7. CASE ReturnStatement
  <2>1. ruleReported' = ruleReported
    BY <1>7 DEF ReturnStatement, SameReports
  <2>2. PICK name, e : ruleScopes' \in {Clear(ruleScopes, name), ruleScopes,
                                        ConsumeTerminalUse(ruleScopes, e)}
    BY <1>7 DEF ReturnStatement
  <2>3. Thinner(ruleScopes', ruleScopes)
    BY <1>0, <2>2, ClearingThins, ThinnerThanItself, ConsumingThins
  <2> QED
    BY <2>1, <2>3, ThinningKeepsClean
<1>8. CASE CallExpression
  BY <1>8, ConsumeKeepsClean DEF CallExpression, SameReports
<1>9. CASE ExpressionStatement
  BY <1>9, ConsumeKeepsClean, ReportingKeepsClean DEF ExpressionStatement, SameReports
<1> QED
  BY <1>1, <1>2, <1>3, <1>4, <1>5, <1>6, <1>7, <1>8, <1>9 DEF RuleStep

-----------------------------------------------------------------------------
LEMMA NextClean == IInv /\ [SendNext]_sendVars => IInv'
<1> SUFFICES ASSUME IInv, [SendNext]_sendVars PROVE IInv'
  OBVIOUS
<1> USE DEF IInv
<1>1. CASE WriteStatement
  BY <1>1 DEF WriteStatement, NextStatement, SameReports
<1>2. CASE EndProgram
  BY <1>2 DEF EndProgram, SameReports, scanVars
<1>3. CASE ScannerStep
  BY <1>3, ScanStepKeepsClean DEF ScannerStep, ruleVars
<1>4. CASE ScannerEnd
  BY <1>4, FlushingKeepsClean DEF ScannerEnd, EndOfSource, Scanned, FlushedTop, Popped, ruleVars
<1>5. CASE VisitorStep
  BY <1>5, RuleStepKeepsClean DEF VisitorStep, scanVars
<1>6. CASE UNCHANGED sendVars
  BY <1>6 DEF sendVars, scanVars, ruleVars
<1> QED
  BY <1>1, <1>2, <1>3, <1>4, <1>5, <1>6 DEF SendNext

\* A stack and reports that are Clean report nothing twice.
LEMMA CleanIsOnce ==
  ASSUME NEW stack, NEW reports, Clean(stack, reports)
  PROVE  \A e \in DOMAIN reports :
           /\ reports[e] <= 1
           /\ reports[e] = 1 => \A k \in DOMAIN stack : Times(stack[k], e) = 0
<1>1. \A e \in DOMAIN reports : reports[e] \in {0, 1}
  BY DEF Clean, Reports
<1>2. \A k \in DOMAIN stack, e \in DOMAIN reports :
        Times(stack[k], e) \in {0, 1} /\ (Times(stack[k], e) = 1 => reports[e] = 0)
  BY TimesOnce
<1> QED
  BY <1>1, <1>2

LEMMA CleanGivesReportedOnce == IInv => ReportedOnce
BY CleanIsOnce DEF IInv, ReportedOnce, ScanReportedOnce, RuleReportedOnce

\* Neither half reports a chain twice, or one it still holds as pending, in
\* files of any length with any names: report and flushScope of the scanner,
\* exitScope and ExpressionStatement of the rule.
THEOREM ReportedOnceHolds == SendSpec => []ReportedOnce
<1>1. SendSpec => []IInv
  BY InitClean, NextClean, PTL DEF SendSpec
<1> QED
  BY <1>1, CleanGivesReportedOnce, PTL

-----------------------------------------------------------------------------
(***************************************************************************)
(* Induction, by the least number of a set: strict inclusion among finite  *)
(* sets is well-founded.                                                   *)
(***************************************************************************)
LEMMA LeastNumber ==
  ASSUME NEW S \in SUBSET Nat, S # {}
  PROVE  \E m \in S : \A k \in S : m <= k
<1> DEFINE below == {1 .. n : n \in S}
<1>1. \A n \in S : IsFiniteSet(1 .. n) /\ 1 .. n \subseteq Nat
  BY FS_Interval
<1>2. below \subseteq FiniteSubsetsOf(Nat)
  BY <1>1, Zenon DEF FiniteSubsetsOf
<1>3. below # {}
  OBVIOUS
<1> HIDE DEF below
<1>4. PICK b \in below : \A c \in below : <<c, b>> \notin StrictSubsetOrdering(Nat)
  BY <1>2, <1>3, FS_StrictSubsetOrderingWellFounded, WFMin
<1>5. PICK m \in S : b = 1 .. m
  BY DEF below
<1>6. ASSUME NEW k \in S, k < m PROVE FALSE
  <2> DEFINE c == 1 .. k
  <2>1. c \in below
    BY DEF below
  <2>2. c \subseteq b /\ c # b
    <3>1. m \in b /\ m \notin c
      BY <1>5, <1>6
    <3> QED BY <1>5, <1>6, <3>1
  <2>3. c \in SUBSET Nat /\ b \in SUBSET Nat
    BY <1>5
  <2> HIDE DEF c
  <2>4. <<c, b>> \in StrictSubsetOrdering(Nat)
    BY <2>2, <2>3 DEF StrictSubsetOrdering
  <2> QED BY <1>4, <2>1, <2>4
<1> QED BY <1>6

\* A set that holds 0 and with every number below n the next holds all to n.
LEMMA UpTo ==
  ASSUME NEW n \in Nat, NEW S, 0 \in S, \A k \in 1 .. n : k - 1 \in S => k \in S
  PROVE  0 .. n \subseteq S
<1> DEFINE missed == (0 .. n) \ S
<1>1. SUFFICES ASSUME missed # {} PROVE FALSE
  OBVIOUS
<1>2. PICK m \in missed : \A k \in missed : m <= k
  <2>1. missed \in SUBSET Nat
    OBVIOUS
  <2> HIDE DEF missed
  <2> QED BY <1>1, <2>1, LeastNumber
<1>3. m \in 1 .. n
  BY <1>2
<1>4. m - 1 \in 0 .. n /\ m - 1 \notin missed
  BY <1>2, <1>3
<1> QED BY <1>2, <1>3, <1>4


\* A set that holds every number of an interval whose followers it holds.
LEMMA DownTo ==
  ASSUME NEW a \in Nat, NEW n \in Nat, NEW S,
         \A k \in a .. n : (\A j \in k + 1 .. n : j \in S) => k \in S
  PROVE  a .. n \subseteq S
<1> DEFINE missed == {m \in 0 .. n : n - m >= a /\ n - m \notin S}
<1>1. SUFFICES ASSUME NEW k \in a .. n, k \notin S PROVE FALSE
  OBVIOUS
<1>2. missed # {} /\ missed \in SUBSET Nat
  <2>1. n - k \in 0 .. n /\ n - (n - k) = k
    OBVIOUS
  <2>2. n - k \in missed
    BY <1>1, <2>1
  <2>3. \A m \in missed : m \in Nat
    OBVIOUS
  <2> HIDE DEF missed
  <2> QED BY <2>2, <2>3
<1>3. PICK m \in missed : \A l \in missed : m <= l
  <2> HIDE DEF missed
  <2> QED BY <1>2, LeastNumber
<1>4. n - m \in a .. n /\ n - m \notin S
  BY <1>3
<1>5. ASSUME NEW j \in (n - m) + 1 .. n, j \notin S PROVE FALSE
  <2>1. n - j \in 0 .. n /\ n - (n - j) = j /\ j >= a /\ ~(m <= n - j)
    BY <1>3, <1>4, <1>5
  <2>2. n - j \in missed
    BY <1>5, <2>1
  <2> QED BY <1>3, <2>1, <2>2
<1> QED BY <1>4, <1>5

\* Values computed from the end of an interval on, each a final one or made of
\* the value at a later place, exist.
LookAhead(places, final, value, later, step, f) ==
  f = [j \in places |-> IF final[j] THEN value[j] ELSE step[<<j, f[later[j]]>>]]

LEMMA SomeLookAhead ==
  ASSUME NEW a \in Nat, NEW n \in Nat, a <= n, NEW final, NEW value, NEW later, NEW step, NEW V,
         \A j \in a .. n : final[j] => value[j] \in V,
         \A j \in a .. n : ~final[j] => later[j] \in j + 1 .. n,
         \A j \in a .. n : ~final[j] => \A x \in V : step[<<j, x>>] \in V
  PROVE  \E f : LookAhead(a .. n, final, value, later, step, f) /\ \A j \in a .. n : f[j] \in V
<1> DEFINE S == {m \in 0 .. n - a : \E f : LookAhead(n - m .. n, final, value, later, step, f)}
<1>1. 0 \in S
  <2> DEFINE f == [j \in n .. n |-> value[j]]
  <2>1. n - 0 = n /\ 0 \in 0 .. n - a /\ \A j \in n .. n : j \in a .. n /\ j + 1 .. n = {}
    OBVIOUS
  <2>2. \A j \in n .. n : final[j] = TRUE \/ final[j] # TRUE
    OBVIOUS
  <2>3. \A j \in n .. n : final[j]
    BY <2>1
  <2>4. \A j \in n .. n : f[j] = IF final[j] THEN value[j] ELSE step[<<j, f[later[j]]>>]
    BY <2>3
  <2>5. LookAhead(n .. n, final, value, later, step, f)
    BY <2>4 DEF LookAhead
  <2> QED BY <2>1, <2>5
<1>2. ASSUME NEW m \in 1 .. n - a, m - 1 \in S PROVE m \in S
  <2>1. PICK g : LookAhead(n - (m - 1) .. n, final, value, later, step, g)
    BY <1>2
  <2> DEFINE f == [j \in n - m .. n |-> IF final[j] THEN value[j] ELSE step[<<j, g[later[j]]>>]]
  <2>2. ASSUME NEW j \in n - (m - 1) .. n PROVE f[j] = g[j]
    <3>1. j \in n - m .. n
      BY <1>2
    <3> QED BY <2>1, <3>1 DEF LookAhead
  <2>3. ASSUME NEW j \in n - m .. n, ~final[j]
        PROVE  f[later[j]] = g[later[j]]
    <3>1. j \in a .. n /\ j + 1 >= n - (m - 1)
      BY <1>2
    <3>2. later[j] \in j + 1 .. n
      BY <2>3, <3>1
    <3>3. later[j] \in n - (m - 1) .. n
      BY <1>2, <3>1, <3>2
    <3> QED BY <2>2, <3>3
  <2>4. \A j \in n - m .. n : f[j] = IF final[j] THEN value[j] ELSE step[<<j, f[later[j]]>>]
    BY <2>3
  <2>5. f = [j \in n - m .. n |-> f[j]]
    OBVIOUS
  <2> HIDE DEF f
  <2>6. LookAhead(n - m .. n, final, value, later, step, f)
    BY <2>4, <2>5 DEF LookAhead
  <2>7. m \in 0 .. n - a
    BY <1>2
  <2> QED BY <2>6, <2>7
<1> HIDE DEF S
<1>3. n - a \in Nat /\ n - (n - a) = a
  OBVIOUS
<1>4. 0 .. n - a \subseteq S
  BY <1>1, <1>2, <1>3, UpTo
<1>5. n - a \in S
  BY <1>3, <1>4
<1>6. PICK f : LookAhead(a .. n, final, value, later, step, f)
  BY <1>3, <1>5 DEF S
<1>7. a .. n \subseteq {j \in a .. n : f[j] \in V}
  <2> DEFINE T == {j \in a .. n : f[j] \in V}
  <2>1. ASSUME NEW k \in a .. n, \A j \in k + 1 .. n : j \in T PROVE k \in T
    <3>1. f[k] = IF final[k] THEN value[k] ELSE step[<<k, f[later[k]]>>]
      BY <1>6 DEF LookAhead
    <3>2. CASE final[k]
      BY <3>1, <3>2
    <3>3. CASE ~final[k]
      <4>1. f[later[k]] \in V
        BY <2>1, <3>3
      <4> QED BY <3>1, <3>3, <4>1
    <3> QED BY <3>2, <3>3
  <2> HIDE DEF T
  <2>2. a .. n \subseteq T
    BY <2>1, DownTo
  <2> QED BY <2>2 DEF T
<1> QED BY <1>6, <1>7

-----------------------------------------------------------------------------
(***************************************************************************)
(* The tokeniser: where a token ends, and the lines it passes.             *)
(***************************************************************************)
LEMMA NewlinesNat ==
  ASSUME NEW src, NEW a \in Int, NEW c \in Int
  PROVE  Newlines(src, a, c) \in Nat
<1> DEFINE C == {j \in a .. c : Char(src, j) = "newline"}
<1>1. IsFiniteSet(a .. c) /\ C \subseteq a .. c
  BY FS_Interval
<1>2. Newlines(src, a, c) = Cardinality(C)
  BY DEF Newlines
<1> HIDE DEF C
<1> QED BY <1>1, <1>2, FS_Subset, FS_CardinalityType

LEMMA NewlinesAdd ==
  ASSUME NEW src, NEW a \in Nat, NEW b \in Nat, NEW c \in Nat, a <= b, b <= c + 1
  PROVE  /\ Newlines(src, a, c) \in Nat
         /\ Newlines(src, a, c) = Newlines(src, a, b - 1) + Newlines(src, b, c)
<1> DEFINE A == {j \in a .. b - 1 : Char(src, j) = "newline"}
           B == {j \in b .. c : Char(src, j) = "newline"}
           C == {j \in a .. c : Char(src, j) = "newline"}
<1>1. IsFiniteSet(a .. b - 1) /\ IsFiniteSet(b .. c) /\ IsFiniteSet(a .. c)
  BY FS_Interval
<1>2. IsFiniteSet(A) /\ IsFiniteSet(B) /\ IsFiniteSet(C)
  <2>1. A \subseteq a .. b - 1 /\ B \subseteq b .. c /\ C \subseteq a .. c
    OBVIOUS
  <2> HIDE DEF A, B, C
  <2> QED BY <1>1, <2>1, FS_Subset
<1>3. A \cap B = {} /\ A \cup B = C
  OBVIOUS
<1>4. /\ Newlines(src, a, c) = Cardinality(C)
      /\ Newlines(src, a, b - 1) = Cardinality(A)
      /\ Newlines(src, b, c) = Cardinality(B)
  BY DEF Newlines
<1> HIDE DEF A, B, C
<1>5. Cardinality(A \cup B) = Cardinality(A) + Cardinality(B) - Cardinality(A \cap B)
  BY <1>2, FS_Union
<1>6. Cardinality({}) = 0 /\ Cardinality(A) \in Nat /\ Cardinality(B) \in Nat
  BY <1>2, FS_EmptySet, FS_CardinalityType
<1>7. Cardinality(A \cap B) = Cardinality({}) /\ Cardinality(A \cup B) = Cardinality(C)
  BY <1>3, Zenon
<1>8. Cardinality(C) = Cardinality(A) + Cardinality(B)
  BY <1>5, <1>6, <1>7
<1> QED BY <1>4, <1>6, <1>8

LEMMA NoNewlines ==
  ASSUME NEW src, NEW a \in Nat
  PROVE  Newlines(src, a, a - 1) = 0
<1>1. {j \in a .. a - 1 : Char(src, j) = "newline"} = {}
  OBVIOUS
<1> QED BY <1>1, FS_EmptySet DEF Newlines

LEMMA LowestOf ==
  ASSUME NEW S \in SUBSET Nat, S # {}
  PROVE  Lowest(S) \in S /\ \A y \in S : Lowest(S) <= y
BY LeastNumber DEF Lowest

\* The string that opens at i, read from any place behind it: g is where it ends.
StringEnds(src, i, g) ==
  LET n == Len(src)
      q == src[i]
  IN  \A j \in i + 1 .. n + 1 :
        /\ j > n => g[j] = n + 1
        /\ j <= n /\ src[j] = q => g[j] = j + 1
        /\ j <= n /\ src[j] = "backslash" /\ j < n => g[j] = g[j + 2]
        /\ j <= n /\ src[j] = "newline" /\ q # "template" => g[j] = j
        /\ (/\ j <= n /\ src[j] # q /\ ~(src[j] = "backslash" /\ j < n)
            /\ ~(src[j] = "newline" /\ q # "template")) => g[j] = g[j + 1]

LEMMA StringEndIsLoop ==
  ASSUME NEW src \in Seq(Chars), NEW i \in 1 .. Len(src), src[i] \in Quotes
  PROVE  \E g : StringEnds(src, i, g) /\ StringEnd(src, i) = g[i + 1]
<1> DEFINE n == Len(src)
           q == src[i]
           places == i + 1 .. n + 2
           body(h) == [j \in places |->
             IF j > n THEN n + 1
             ELSE CASE src[j] = q -> j + 1
                    [] src[j] = "backslash" /\ j < n -> h[j + 2]
                    [] src[j] = "newline" /\ q # "template" -> j
                    [] OTHER -> h[j + 1]]
           final == [j \in places |-> \/ j > n \/ src[j] = q
                                      \/ src[j] = "newline" /\ q # "template"]
           value == [j \in places |-> IF j > n THEN n + 1
                                      ELSE IF src[j] = q THEN j + 1 ELSE j]
           later == [j \in places |-> IF src[j] = "backslash" /\ j < n THEN j + 2 ELSE j + 1]
           step == [x \in places \X Nat |-> x[2]]
           g == CHOOSE h : h = body(h)
<1>0. n \in Nat /\ i + 1 \in Nat /\ n + 2 \in Nat /\ i + 1 <= n + 2 /\ places \subseteq Nat
  OBVIOUS
<1>1. StringEnd(src, i) = g[i + 1]
  BY DEF StringEnd
<1>2. q # "backslash" /\ q # "newline"
  BY DEF Quotes
<1>3. \A j \in places : final[j] => value[j] \in Nat
  BY <1>0
<1>4. \A j \in places : ~final[j] => later[j] \in j + 1 .. n + 2
  BY <1>0
<1>5. \A j \in places : ~final[j] => \A x \in Nat : step[<<j, x>>] \in Nat
  OBVIOUS
<1>6. \A j \in places, x \in Nat : step[<<j, x>>] = x
  OBVIOUS
<1>7. \A j \in places :
        /\ (j > n => final[j] /\ value[j] = n + 1)
        /\ (j <= n /\ src[j] = q => final[j] /\ value[j] = j + 1)
        /\ (j <= n /\ src[j] = "backslash" /\ j < n => ~final[j] /\ later[j] = j + 2)
        /\ (j <= n /\ src[j] = "newline" /\ q # "template" => final[j] /\ value[j] = j)
        /\ (j <= n /\ src[j] # q /\ ~(src[j] = "backslash" /\ j < n)
            /\ ~(src[j] = "newline" /\ q # "template") => ~final[j] /\ later[j] = j + 1)
  <2> SUFFICES ASSUME NEW j \in places
               PROVE  /\ (j > n => final[j] /\ value[j] = n + 1)
                      /\ (j <= n /\ src[j] = q => final[j] /\ value[j] = j + 1)
                      /\ (j <= n /\ src[j] = "backslash" /\ j < n => ~final[j] /\ later[j] = j + 2)
                      /\ (j <= n /\ src[j] = "newline" /\ q # "template" => final[j] /\ value[j] = j)
                      /\ (j <= n /\ src[j] # q /\ ~(src[j] = "backslash" /\ j < n)
                          /\ ~(src[j] = "newline" /\ q # "template") => ~final[j] /\ later[j] = j + 1)
    OBVIOUS
  <2>1. final[j] <=> (j > n \/ src[j] = q \/ (src[j] = "newline" /\ q # "template"))
    OBVIOUS
  <2>2. value[j] = IF j > n THEN n + 1 ELSE IF src[j] = q THEN j + 1 ELSE j
    OBVIOUS
  <2>3. later[j] = IF src[j] = "backslash" /\ j < n THEN j + 2 ELSE j + 1
    OBVIOUS
  <2>4. j \in Nat
    BY <1>0
  <2> HIDE DEF final, value, later, q, n
  <2>5. n \in Nat
    BY <1>0
  <2>6. src[j] = "newline" => src[j] # q
    BY <1>2
  <2>7. src[j] = "backslash" => src[j] # q
    BY <1>2
  <2>8. j > n => final[j] /\ value[j] = n + 1
    BY <2>1, <2>2
  <2>9. j <= n /\ src[j] = q => final[j] /\ value[j] = j + 1
    <3>1. j <= n => ~(j > n)
      BY <2>4, <2>5
    <3> QED BY <2>1, <2>2, <3>1
  <2>10. j <= n /\ src[j] = "backslash" /\ j < n => ~final[j] /\ later[j] = j + 2
    <3>1. j <= n => ~(j > n)
      BY <2>4, <2>5
    <3>2. src[j] = "backslash" => src[j] # "newline"
      OBVIOUS
    <3> QED BY <2>1, <2>3, <2>7, <3>1, <3>2
  <2>11. j <= n /\ src[j] = "newline" /\ q # "template" => final[j] /\ value[j] = j
    <3>1. j <= n => ~(j > n)
      BY <2>4, <2>5
    <3> QED BY <2>1, <2>2, <2>6, <3>1
  <2>12. (j <= n /\ src[j] # q /\ ~(src[j] = "backslash" /\ j < n)
            /\ ~(src[j] = "newline" /\ q # "template")) => ~final[j] /\ later[j] = j + 1
    <3>1. j <= n => ~(j > n)
      BY <2>4, <2>5
    <3> QED BY <2>1, <2>3, <3>1
  <2> QED BY <2>8, <2>9, <2>10, <2>11, <2>12
<1> HIDE DEF final, value, later, step
<1>8. PICK f : LookAhead(places, final, value, later, step, f) /\ \A j \in places : f[j] \in Nat
  BY <1>0, <1>3, <1>4, <1>5, SomeLookAhead
<1>9. f = body(f)
  <2>1. ASSUME NEW j \in places
        PROVE  f[j] = IF j > n THEN n + 1
                      ELSE CASE src[j] = q -> j + 1
                             [] src[j] = "backslash" /\ j < n -> f[j + 2]
                             [] src[j] = "newline" /\ q # "template" -> j
                             [] OTHER -> f[j + 1]
    <3>1. f[j] = IF final[j] THEN value[j] ELSE step[<<j, f[later[j]]>>]
      BY <1>8 DEF LookAhead
    <3>2. ~final[j] => f[j] = f[later[j]]
      <4>1. ~final[j] => later[j] \in places
        BY <1>0, <1>4
      <4> QED BY <1>6, <1>8, <3>1, <4>1
    <3>3. CASE j > n
      BY <1>7, <3>1, <3>3
    <3>4. CASE j <= n /\ src[j] = q
      BY <1>0, <1>2, <1>7, <3>1, <3>4
    <3>5. CASE j <= n /\ src[j] = "backslash" /\ j < n
      BY <1>0, <1>2, <1>7, <3>1, <3>2, <3>5
    <3>6. CASE j <= n /\ src[j] = "newline" /\ q # "template"
      BY <1>0, <1>2, <1>7, <3>1, <3>6
    <3>7. CASE /\ j <= n /\ src[j] # q /\ ~(src[j] = "backslash" /\ j < n)
               /\ ~(src[j] = "newline" /\ q # "template")
      BY <1>0, <1>7, <3>1, <3>2, <3>7
    <3> QED BY <1>0, <3>3, <3>4, <3>5, <3>6, <3>7
  <2>2. f = [j \in places |-> f[j]]
    BY <1>8 DEF LookAhead
  <2> QED BY <2>1, <2>2
<1> HIDE DEF body
<1>10. g = body(g)
  BY <1>9
<1> HIDE DEF g
<1>11. StringEnds(src, i, g)
  <2>1. ASSUME NEW k \in i + 1 .. n + 1
        PROVE  /\ k > n => g[k] = n + 1
               /\ k <= n /\ src[k] = q => g[k] = k + 1
               /\ k <= n /\ src[k] = "backslash" /\ k < n => g[k] = g[k + 2]
               /\ k <= n /\ src[k] = "newline" /\ q # "template" => g[k] = k
               /\ (/\ k <= n /\ src[k] # q /\ ~(src[k] = "backslash" /\ k < n)
                   /\ ~(src[k] = "newline" /\ q # "template")) => g[k] = g[k + 1]
    <3>1. k \in places /\ k \in Nat
      BY <1>0
    <3>2. g[k] = IF k > n THEN n + 1
                 ELSE CASE src[k] = q -> k + 1
                        [] src[k] = "backslash" /\ k < n -> g[k + 2]
                        [] src[k] = "newline" /\ q # "template" -> k
                        [] OTHER -> g[k + 1]
      BY <1>10, <3>1 DEF body
    <3>3. k > n => g[k] = n + 1
      BY <3>2
    <3>4. k <= n /\ src[k] = q => g[k] = k + 1
      BY <1>0, <1>2, <3>1, <3>2
    <3>5. k <= n /\ src[k] = "backslash" /\ k < n => g[k] = g[k + 2]
      BY <1>0, <1>2, <3>1, <3>2
    <3>6. k <= n /\ src[k] = "newline" /\ q # "template" => g[k] = k
      BY <1>0, <1>2, <3>1, <3>2
    <3>7. (/\ k <= n /\ src[k] # q /\ ~(src[k] = "backslash" /\ k < n)
           /\ ~(src[k] = "newline" /\ q # "template")) => g[k] = g[k + 1]
      BY <1>0, <3>1, <3>2
    <3> QED BY <3>3, <3>4, <3>5, <3>6, <3>7
  <2> QED BY <2>1 DEF StringEnds
<1> QED BY <1>1, <1>11

\* An escape or a quote, or a newline but in a template, ends at most at the end.
LEMMA StringEndRange ==
  ASSUME NEW src \in Seq(Chars), NEW i \in 1 .. Len(src), src[i] \in Quotes
  PROVE  StringEnd(src, i) \in i + 1 .. Len(src) + 1
<1> DEFINE n == Len(src)
           q == src[i]
<1>1. n \in Nat /\ n + 1 \in Nat /\ i \in Nat /\ i + 1 \in Nat /\ i + 1 \in i + 1 .. n + 1
  OBVIOUS
<1>2. PICK g : StringEnds(src, i, g) /\ StringEnd(src, i) = g[i + 1]
  BY StringEndIsLoop
<1> DEFINE S == {j \in i + 1 .. n + 1 : g[j] \in j .. n + 1}
<1>3. ASSUME NEW k \in i + 1 .. n + 1, \A j \in k + 1 .. n + 1 : j \in S
      PROVE  k \in S
  <2>1. CASE k > n
    BY <1>1, <1>2, <2>1 DEF StringEnds
  <2>2. CASE k <= n /\ src[k] = q
    BY <1>1, <1>2, <2>2 DEF StringEnds
  <2>3. CASE k <= n /\ src[k] = "backslash" /\ k < n
    <3>1. k + 2 \in S
      BY <1>1, <1>3, <2>3
    <3>2. g[k] = g[k + 2]
      BY <1>2, <2>3 DEF StringEnds
    <3> QED BY <1>1, <3>1, <3>2
  <2>4. CASE k <= n /\ src[k] = "newline" /\ q # "template"
    BY <1>1, <1>2, <2>4 DEF StringEnds
  <2>5. CASE /\ k <= n /\ src[k] # q /\ ~(src[k] = "backslash" /\ k < n)
             /\ ~(src[k] = "newline" /\ q # "template")
    <3>1. k + 1 \in S
      BY <1>1, <1>3, <2>5
    <3>2. g[k] = g[k + 1]
      BY <1>2, <2>5 DEF StringEnds
    <3> QED BY <1>1, <3>1, <3>2
  <2> QED BY <1>1, <2>1, <2>2, <2>3, <2>4, <2>5
<1> HIDE DEF S
<1>4. i + 1 .. n + 1 \subseteq S
  BY <1>1, <1>3, DownTo
<1>5. i + 1 \in S
  BY <1>1, <1>4
<1> QED BY <1>1, <1>2, <1>5 DEF S

LexemeTypes == {"none", "string", "ident", "pipe", "arrow", "lbrace", "eq"}

\* Every turn of the loop passes a character and none beyond the end, and bumps
\* the lines it passes.
LEMMA TurnAdvances ==
  ASSUME NEW src \in Seq(Chars), NEW i \in 1 .. Len(src)
  PROVE  /\ TokenAt(src, i).next \in i + 1 .. Len(src) + 1
         /\ TokenAt(src, i).lines = Newlines(src, i, TokenAt(src, i).next - 1)
         /\ TokenAt(src, i).type \in LexemeTypes
<1> DEFINE n == Len(src)
           c == Char(src, i)
           d == Char(src, i + 1)
           t == TokenAt(src, i)
<1>0. n \in Nat /\ i \in Nat /\ DOMAIN src = 1 .. n /\ c = src[i]
  BY DEF Char
<1>1. {"none", "string", "ident", "pipe", "arrow", "lbrace", "eq"} \subseteq LexemeTypes
  BY DEF LexemeTypes
<1>2. d = ">" => i + 2 \in i + 1 .. n + 1
  <2>1. d = ">" => i + 1 \in DOMAIN src
    BY DEF Char
  <2> QED BY <1>0, <2>1
<1>3. i + 1 \in i + 1 .. n + 1
  BY <1>0
<1>4. LineComment(src, i) = t /\ c = "/" => t.next \in i + 1 .. n + 1
                                             /\ t = Taken(src, i, "none", t.next)
  <2> DEFINE S == {n + 1} \cup {j \in i .. n : Char(src, j) = "newline"}
  <2>1. S \in SUBSET Nat /\ S # {}
    BY <1>0
  <2>2. LineComment(src, i) = Taken(src, i, "none", Lowest(S))
    BY DEF LineComment, From
  <2>3. c = "/" => \A j \in S : j \in i + 1 .. n + 1
    BY <1>0
  <2> HIDE DEF S
  <2>4. c = "/" => Lowest(S) \in i + 1 .. n + 1
    BY <2>1, <2>3, LowestOf
  <2>5. Taken(src, i, "none", Lowest(S)).next = Lowest(S)
    BY DEF Taken
  <2> QED BY <2>2, <2>4, <2>5
<1>5. BlockComment(src, i) = t => t.next \in i + 1 .. n + 1 /\ t = Taken(src, i, "none", t.next)
  <2> DEFINE S == {n + 1} \cup {j \in i + 2 .. n : Char(src, j) = "*" /\ Char(src, j + 1) = "/"}
             next == IF Lowest(S) > n THEN n + 1 ELSE Lowest(S) + 2
  <2>1. S \in SUBSET Nat /\ S # {}
    BY <1>0
  <2>2. BlockComment(src, i) = Taken(src, i, "none", next)
    BY DEF BlockComment, From
  <2>3. \A j \in S : j > n \/ (j + 1 \in DOMAIN src /\ j >= i + 2)
    BY <1>0 DEF Char
  <2> HIDE DEF S
  <2>4. Lowest(S) \in S /\ Lowest(S) \in Nat
    BY <2>1, LowestOf
  <2>5. Lowest(S) > n \/ (Lowest(S) + 1 \in 1 .. n /\ Lowest(S) >= i + 2)
    BY <1>0, <2>3, <2>4
  <2>6. next \in i + 1 .. n + 1
    BY <1>0, <2>4, <2>5
  <2> HIDE DEF next
  <2>7. Taken(src, i, "none", next).next = next
    BY DEF Taken
  <2> QED BY <2>2, <2>6, <2>7
<1>6. c \in Quotes => StringEnd(src, i) \in i + 1 .. n + 1
  BY <1>0, StringEndRange
<1>7. Identifier(src, i) = t /\ c = "letter" => t.next \in i + 1 .. n + 1
                                                 /\ t = Taken(src, i, "ident", t.next)
  <2> DEFINE S == {n + 1} \cup {j \in i .. n : Char(src, j) # "letter"}
  <2>1. S \in SUBSET Nat /\ S # {}
    BY <1>0
  <2>2. Identifier(src, i) = Taken(src, i, "ident", Lowest(S))
    BY DEF Identifier, From
  <2>3. c = "letter" => \A j \in S : j \in i + 1 .. n + 1
    BY <1>0
  <2> HIDE DEF S
  <2>4. c = "letter" => Lowest(S) \in i + 1 .. n + 1
    BY <2>1, <2>3, LowestOf
  <2>5. Taken(src, i, "ident", Lowest(S)).next = Lowest(S)
    BY DEF Taken
  <2> QED BY <2>2, <2>4, <2>5
<1>8. \A x \in {"{", "="} : Single[x] \in LexemeTypes
  <2>1. Single["{"] = "lbrace" /\ Single["="] = "eq"
    BY DEF Single
  <2> QED BY <1>1, <2>1
<1>9. \/ c = "/" /\ d = "/" /\ t = LineComment(src, i)
      \/ c = "/" /\ d = "*" /\ t = BlockComment(src, i)
      \/ c \in Quotes /\ t = StringToken(src, i)
      \/ d = ">" /\ \E type \in {"pipe", "arrow"} : t = Taken(src, i, type, i + 2)
      \/ c = "letter" /\ t = Identifier(src, i)
      \/ c \in {"{", "="} /\ t = Taken(src, i, Single[c], i + 1)
      \/ t = Taken(src, i, "none", i + 1)
  BY DEF TokenAt, Quotes
<1> HIDE DEF t, c, d, n
<1> DEFINE Goal == \E type \in LexemeTypes, next \in i + 1 .. n + 1 : t = Taken(src, i, type, next)
<1>10. ASSUME c = "/" /\ d = "/" /\ t = LineComment(src, i)
       PROVE  Goal
  BY <1>1, <1>4, <1>10
<1>11. ASSUME c = "/" /\ d = "*" /\ t = BlockComment(src, i)
       PROVE  Goal
  BY <1>1, <1>5, <1>11
<1>12. ASSUME c \in Quotes /\ t = StringToken(src, i)
       PROVE  Goal
  BY <1>1, <1>6, <1>12 DEF StringToken
<1>13. ASSUME d = ">" /\ \E type \in {"pipe", "arrow"} : t = Taken(src, i, type, i + 2)
       PROVE  Goal
  BY <1>1, <1>2, <1>13
<1>14. ASSUME c = "letter" /\ t = Identifier(src, i)
       PROVE  Goal
  BY <1>1, <1>7, <1>14
<1>15. ASSUME c \in {"{", "="} /\ t = Taken(src, i, Single[c], i + 1)
       PROVE  Goal
  BY <1>1, <1>3, <1>8, <1>15
<1>16. ASSUME t = Taken(src, i, "none", i + 1)
       PROVE  Goal
  BY <1>1, <1>3, <1>16
<1>17. PICK type \in LexemeTypes, next \in i + 1 .. n + 1 : t = Taken(src, i, type, next)
  BY <1>9, <1>10, <1>11, <1>12, <1>13, <1>14, <1>15, <1>16
<1>18. t.next = next /\ t.type = type /\ t.lines = Newlines(src, i, next - 1)
  BY <1>17 DEF Taken
<1> QED BY <1>17, <1>18 DEF t, n

Lexemes == [type : LexemeTypes, start : Nat, line : Nat]

LEMMA MovedFacts ==
  ASSUME NEW tokens \in Seq(Lexemes), NEW by \in Nat, NEW lines \in Nat
  PROVE  /\ Moved(tokens, by, lines) \in Seq(Lexemes)
         /\ Len(Moved(tokens, by, lines)) = Len(tokens)
         /\ \A k \in 1 .. Len(tokens) :
              /\ Moved(tokens, by, lines)[k].type = tokens[k].type
              /\ Moved(tokens, by, lines)[k].start = tokens[k].start + by
              /\ Moved(tokens, by, lines)[k].line = tokens[k].line + lines
<1> DEFINE n == Len(tokens)
           new == Moved(tokens, by, lines)
           moved(k) == [type |-> tokens[k].type, start |-> tokens[k].start + by,
                        line |-> tokens[k].line + lines]
<1>1. n \in Nat /\ DOMAIN tokens = 1 .. n /\ \A k \in 1 .. n : tokens[k] \in Lexemes
  OBVIOUS
<1>2. new = [k \in 1 .. n |-> moved(k)]
  BY <1>1 DEF Moved
<1>3. ASSUME NEW k \in 1 .. n
      PROVE  moved(k) \in Lexemes
  <2>1. tokens[k] \in Lexemes
    BY <1>1
  <2> DEFINE t == tokens[k]
  <2> HIDE DEF t
  <2>2. t \in Lexemes
    BY <2>1 DEF t
  <2>3. t.type \in LexemeTypes /\ t.start + by \in Nat /\ t.line + lines \in Nat
    BY <2>2 DEF Lexemes
  <2>4. [type |-> t.type, start |-> t.start + by, line |-> t.line + lines] \in Lexemes
    BY <2>3 DEF Lexemes
  <2> QED BY <2>4 DEF t
<1>4. ASSUME NEW k \in 1 .. n
      PROVE  /\ moved(k).type = tokens[k].type
             /\ moved(k).start = tokens[k].start + by
             /\ moved(k).line = tokens[k].line + lines
  OBVIOUS
<1> HIDE DEF moved, new, n
<1>5. new \in Seq(Lexemes) /\ Len(new) = n /\ \A k \in 1 .. n : new[k] = moved(k)
  BY <1>1, <1>2, <1>3
<1> QED BY <1>4, <1>5 DEF new, n

\* The token that begins at i, if one does.
Beginning(src, i) ==
  IF TokenAt(src, i).type = "none" THEN <<>>
  ELSE <<[type |-> TokenAt(src, i).type, start |-> i, line |-> 1]>>

\* The tokens from every place on.
Tokenizes(src, f) ==
  /\ f[Len(src) + 1] = <<>>
  /\ \A i \in 1 .. Len(src) :
       f[i] = Beginning(src, i) \o Moved(f[TokenAt(src, i).next], 0, TokenAt(src, i).lines)
  /\ \A i \in 1 .. Len(src) + 1 : f[i] \in Seq(Lexemes)

LEMMA TokenizeIsLoop ==
  ASSUME NEW src \in Seq(Chars)
  PROVE  \E f : Tokenizes(src, f) /\ Tokenize(src) = f[1]
<1> DEFINE n == Len(src)
           places == 1 .. n + 1
           body(h) == [i \in places |->
                         IF i > n THEN <<>>
                         ELSE Beginning(src, i) \o Moved(h[TokenAt(src, i).next], 0, TokenAt(src, i).lines)]
           final == [i \in places |-> i > n]
           value == [i \in places |-> <<>>]
           later == [i \in places |-> TokenAt(src, i).next]
           step == [x \in places \X Seq(Lexemes) |->
                      Beginning(src, x[1]) \o Moved(x[2], 0, TokenAt(src, x[1]).lines)]
           g == CHOOSE h : h = body(h)
<1>0. n \in Nat /\ n + 1 \in Nat /\ 1 \in Nat /\ 1 <= n + 1
  OBVIOUS
<1>1. Tokenize(src) = g[1]
  BY DEF Tokenize, Beginning
<1>2. \A i \in places : i > n \/ i \in 1 .. n
  BY <1>0
<1>3. \A i \in 1 .. n : /\ TokenAt(src, i).next \in i + 1 .. n + 1
                        /\ TokenAt(src, i).lines \in Nat
                        /\ TokenAt(src, i).type \in LexemeTypes
  <2> SUFFICES ASSUME NEW i \in 1 .. n
               PROVE  /\ TokenAt(src, i).next \in i + 1 .. n + 1
                      /\ TokenAt(src, i).lines \in Nat
                      /\ TokenAt(src, i).type \in LexemeTypes
    OBVIOUS
  <2> DEFINE t == TokenAt(src, i)
  <2>1. t.next \in i + 1 .. n + 1 /\ t.lines = Newlines(src, i, t.next - 1) /\ t.type \in LexemeTypes
    BY TurnAdvances
  <2> HIDE DEF t
  <2>2. t.next - 1 \in Int /\ i \in Int
    BY <1>0, <2>1
  <2>3. Newlines(src, i, t.next - 1) \in Nat
    BY <2>2, NewlinesNat
  <2> QED BY <2>1, <2>3 DEF t
<1>4. \A i \in 1 .. n : Beginning(src, i) \in Seq(Lexemes)
  <2> SUFFICES ASSUME NEW i \in 1 .. n PROVE Beginning(src, i) \in Seq(Lexemes)
    OBVIOUS
  <2>1. TokenAt(src, i).type \in LexemeTypes /\ i \in Nat /\ 1 \in Nat
    BY <1>0, <1>3
  <2>2. [type |-> TokenAt(src, i).type, start |-> i, line |-> 1] \in Lexemes
    BY <2>1 DEF Lexemes
  <2> QED BY <2>2 DEF Beginning
<1>5. ASSUME NEW i \in 1 .. n, NEW x \in Seq(Lexemes)
      PROVE  Beginning(src, i) \o Moved(x, 0, TokenAt(src, i).lines) \in Seq(Lexemes)
  <2>1. Moved(x, 0, TokenAt(src, i).lines) \in Seq(Lexemes)
    BY <1>3, MovedFacts
  <2> QED BY <1>4, <2>1
<1>6. \A i \in places : final[i] => value[i] \in Seq(Lexemes)
  OBVIOUS
<1>7. \A i \in places : (final[i] <=> i > n) /\ value[i] = <<>> /\ later[i] = TokenAt(src, i).next
  OBVIOUS
<1>8. \A i \in places : ~final[i] => later[i] \in i + 1 .. n + 1
  BY <1>2, <1>3
<1>9. \A i \in places, x \in Seq(Lexemes) :
        step[<<i, x>>] = Beginning(src, i) \o Moved(x, 0, TokenAt(src, i).lines)
  OBVIOUS
<1>10. \A i \in places : ~final[i] => \A x \in Seq(Lexemes) : step[<<i, x>>] \in Seq(Lexemes)
  BY <1>2, <1>5, <1>7, <1>9
<1> HIDE DEF final, value, later, step
<1>11. PICK f : LookAhead(places, final, value, later, step, f) /\ \A i \in places : f[i] \in Seq(Lexemes)
  BY <1>0, <1>6, <1>8, <1>10, SomeLookAhead
<1>12. f = body(f)
  <2>1. ASSUME NEW i \in places
        PROVE  f[i] = IF i > n THEN <<>>
                      ELSE Beginning(src, i) \o Moved(f[TokenAt(src, i).next], 0, TokenAt(src, i).lines)
    <3>1. f[i] = IF final[i] THEN value[i] ELSE step[<<i, f[later[i]]>>]
      BY <1>11 DEF LookAhead
    <3>2. CASE i > n
      BY <1>7, <3>1, <3>2
    <3>3. CASE i \in 1 .. n
      <4>1. ~(i > n) /\ TokenAt(src, i).next \in places
        BY <1>0, <1>3, <3>3
      <4>2. f[TokenAt(src, i).next] \in Seq(Lexemes)
        BY <1>11, <4>1
      <4>3. f[i] = step[<<i, f[TokenAt(src, i).next]>>]
        BY <1>7, <3>1, <4>1
      <4> QED BY <1>9, <4>1, <4>2, <4>3
    <3> QED BY <1>2, <3>2, <3>3
  <2>2. f = [i \in places |-> f[i]]
    BY <1>11 DEF LookAhead
  <2> QED BY <2>1, <2>2
<1> HIDE DEF body
<1>13. g = body(g)
  BY <1>12
<1> HIDE DEF g
<1>14. g[n + 1] = <<>>
  BY <1>0, <1>13 DEF body
<1>15. ASSUME NEW i \in 1 .. n
       PROVE  g[i] = Beginning(src, i) \o Moved(g[TokenAt(src, i).next], 0, TokenAt(src, i).lines)
  <2>1. i \in places /\ ~(i > n)
    BY <1>0
  <2>2. body(g)[i] = IF i > n THEN <<>>
                     ELSE Beginning(src, i) \o Moved(g[TokenAt(src, i).next], 0, TokenAt(src, i).lines)
    BY <2>1 DEF body
  <2> QED BY <1>13, <2>1, <2>2
<1>16. 1 .. n + 1 \subseteq {i \in 1 .. n + 1 : g[i] \in Seq(Lexemes)}
  <2> DEFINE S == {i \in 1 .. n + 1 : g[i] \in Seq(Lexemes)}
  <2>1. ASSUME NEW i \in 1 .. n + 1, \A j \in i + 1 .. n + 1 : j \in S PROVE i \in S
    <3>1. CASE i = n + 1
      <4>1. g[i] \in Seq(Lexemes)
        <5>1. <<>> \in Seq(Lexemes) /\ g[i] = <<>>
          BY <1>14, <3>1
        <5> QED BY <5>1
      <4> QED BY <4>1
    <3>2. CASE i \in 1 .. n
      <4>1. g[TokenAt(src, i).next] \in Seq(Lexemes)
        BY <1>3, <2>1, <3>2
      <4>2. Beginning(src, i) \o Moved(g[TokenAt(src, i).next], 0, TokenAt(src, i).lines) \in Seq(Lexemes)
        BY <1>5, <3>2, <4>1
      <4>3. g[i] \in Seq(Lexemes)
        BY <1>15, <3>2, <4>2
      <4> QED BY <4>3
    <3> QED BY <1>0, <3>1, <3>2
  <2> HIDE DEF S
  <2>2. 1 .. n + 1 \subseteq S
    BY <1>0, <2>1, DownTo
  <2> QED BY <2>2 DEF S
<1>17. Tokenizes(src, g)
  BY <1>14, <1>15, <1>16 DEF Tokenizes
<1> QED BY <1>1, <1>17

LEMMA LineOfTokens ==
  ASSUME NEW src \in Seq(Chars), NEW f, Tokenizes(src, f)
  PROVE  \A i \in 1 .. Len(src) + 1 : \A k \in 1 .. Len(f[i]) :
           /\ f[i][k].start \in i .. Len(src)
           /\ f[i][k].line = 1 + Newlines(src, i, f[i][k].start - 1)
<1> DEFINE n == Len(src)
           Right(i) == \A k \in 1 .. Len(f[i]) :
                         /\ f[i][k].start \in i .. n
                         /\ f[i][k].line = 1 + Newlines(src, i, f[i][k].start - 1)
           S == {i \in 1 .. n + 1 : Right(i)}
<1>0. n \in Nat /\ n + 1 \in Nat /\ 1 \in Nat
  OBVIOUS
<1>1. ASSUME NEW i \in 1 .. n + 1, \A j \in i + 1 .. n + 1 : j \in S PROVE i \in S
  <2>1. CASE i = n + 1
    <3>1. f[i] = <<>> /\ 1 .. Len(<<>>) = {}
      BY <2>1 DEF Tokenizes
    <3> QED BY <3>1
  <2>2. CASE i \in 1 .. n
    <3> DEFINE t == TokenAt(src, i)
               r == f[t.next]
               moved == Moved(r, 0, t.lines)
    <3>1. /\ t.next \in i + 1 .. n + 1
          /\ t.lines = Newlines(src, i, t.next - 1)
      BY <2>2, TurnAdvances
    <3>2. f[i] = Beginning(src, i) \o moved
      BY <2>2 DEF Tokenizes
    <3>3. t.next \in 1 .. n + 1 /\ r \in Seq(Lexemes)
      <4>1. t.next \in 1 .. n + 1
        BY <1>0, <2>2, <3>1
      <4> QED BY <4>1 DEF Tokenizes
    <3>4. \A k \in 1 .. Len(r) : /\ r[k].start \in t.next .. n
                                 /\ r[k].line = 1 + Newlines(src, t.next, r[k].start - 1)
      BY <1>1, <3>1
    <3> HIDE DEF t, r
    <3>5. t.lines \in Nat
      <4>1. t.next - 1 \in Int /\ i \in Int
        BY <1>0, <2>2, <3>1
      <4> QED BY <3>1, <4>1, NewlinesNat
    <3>6. /\ moved \in Seq(Lexemes) /\ Len(moved) = Len(r) /\ Len(r) \in Nat
          /\ \A k \in 1 .. Len(r) : /\ moved[k].start = r[k].start + 0
                                    /\ moved[k].line = r[k].line + t.lines
      <4>1. Len(r) \in Nat /\ 0 \in Nat
        BY <3>3
      <4>2. /\ moved \in Seq(Lexemes) /\ Len(moved) = Len(r)
            /\ \A k \in 1 .. Len(r) : /\ moved[k].start = r[k].start + 0
                                      /\ moved[k].line = r[k].line + t.lines
        BY <3>3, <3>5, <4>1, MovedFacts
      <4> QED BY <4>1, <4>2
    <3> HIDE DEF moved
    <3>7. \A k \in 1 .. Len(r) : /\ moved[k].start \in i .. n
                                 /\ moved[k].line = 1 + Newlines(src, i, moved[k].start - 1)
      <4> SUFFICES ASSUME NEW k \in 1 .. Len(r)
                   PROVE  /\ moved[k].start \in i .. n
                          /\ moved[k].line = 1 + Newlines(src, i, moved[k].start - 1)
        OBVIOUS
      <4> DEFINE s == r[k].start
      <4>1. s \in t.next .. n /\ r[k].line = 1 + Newlines(src, t.next, s - 1)
        BY <3>4
      <4>2. moved[k].start = s + 0 /\ moved[k].line = r[k].line + t.lines
        BY <3>6
      <4> HIDE DEF s
      <4>3. /\ t.next \in Nat /\ s - 1 \in Nat /\ i \in Nat /\ i <= t.next /\ t.next <= (s - 1) + 1
            /\ s + 0 = s /\ s \in i .. n
        BY <1>0, <2>2, <3>1, <4>1
      <4>4. Newlines(src, i, s - 1) = Newlines(src, i, t.next - 1) + Newlines(src, t.next, s - 1)
        BY <4>3, NewlinesAdd
      <4>5. Newlines(src, t.next, s - 1) \in Nat
        <5>1. t.next \in Int /\ s - 1 \in Int
          BY <4>3
        <5> QED BY <5>1, NewlinesNat
      <4>6. moved[k].start = s
        BY <4>2, <4>3
      <4>7. moved[k].line = 1 + Newlines(src, i, s - 1)
        BY <3>1, <3>5, <4>1, <4>2, <4>4, <4>5
      <4> QED BY <4>3, <4>6, <4>7
    <3>8. CASE t.type = "none"
      <4>1. f[i] = moved
        <5>1. Beginning(src, i) = <<>>
          BY <3>8 DEF Beginning, t
        <5> QED BY <3>2, <3>6, <5>1
      <4> QED BY <3>6, <3>7, <4>1
    <3>9. CASE t.type # "none"
      <4> DEFINE here == [type |-> t.type, start |-> i, line |-> 1]
      <4>1. f[i] = <<here>> \o moved
        BY <3>2, <3>9 DEF Beginning, t
      <4>2. here.start = i /\ here.line = 1
        OBVIOUS
      <4> HIDE DEF here
      <4>3. Len(f[i]) = Len(r) + 1 /\ f[i][1] = here /\ \A k \in 2 .. Len(r) + 1 : f[i][k] = moved[k - 1]
        BY <3>6, <4>1
      <4>4. i \in i .. n /\ Newlines(src, i, i - 1) = 0
        BY <1>0, <2>2, NoNewlines
      <4>5. \A k \in 1 .. Len(f[i]) : k = 1 \/ (k \in 2 .. Len(r) + 1 /\ k - 1 \in 1 .. Len(r))
        BY <3>6, <4>3
      <4>6. Right(i)
        <5> SUFFICES ASSUME NEW k \in 1 .. Len(f[i])
                     PROVE  /\ f[i][k].start \in i .. n
                            /\ f[i][k].line = 1 + Newlines(src, i, f[i][k].start - 1)
          OBVIOUS
        <5>1. CASE k = 1
          <6>1. f[i][k].start = i /\ f[i][k].line = 1
            BY <4>2, <4>3, <5>1
          <6> QED BY <4>4, <6>1
        <5>2. CASE k \in 2 .. Len(r) + 1 /\ k - 1 \in 1 .. Len(r)
          <6>1. f[i][k] = moved[k - 1]
            BY <4>3, <5>2
          <6> QED BY <3>7, <5>2, <6>1
        <5> QED BY <4>5, <5>1, <5>2
      <4> QED BY <4>6
    <3> QED BY <3>8, <3>9
  <2> QED BY <1>0, <2>1, <2>2
<1> HIDE DEF S
<1>2. 1 .. n + 1 \subseteq S
  BY <1>0, <1>1, DownTo
<1> QED BY <1>2 DEF S

\* The tokeniser and collectSuppressions number the lines of a text alike,
\* whatever comments, strings and escapes are in it and however long it is.
THEOREM LinesAgreeHolds == TokenInit /\ [][TypeChar]_source => []LinesAgree
<1>1. TokenInit => source \in Seq(Chars)
  BY DEF TokenInit
<1>2. source \in Seq(Chars) /\ [TypeChar]_source => (source \in Seq(Chars))'
  BY DEF TypeChar
<1>3. source \in Seq(Chars) => LinesAgree
  <2> SUFFICES ASSUME source \in Seq(Chars) PROVE LinesAgree
    OBVIOUS
  <2>1. PICK f : Tokenizes(source, f) /\ Tokenize(source) = f[1]
    BY TokenizeIsLoop
  <2>2. 1 \in 1 .. Len(source) + 1
    OBVIOUS
  <2>3. f[1] \in Seq(Lexemes) /\ DOMAIN f[1] = 1 .. Len(f[1])
    BY <2>1, <2>2 DEF Tokenizes
  <2>4. \A k \in 1 .. Len(f[1]) : f[1][k].line = 1 + Newlines(source, 1, f[1][k].start - 1)
    BY <2>1, <2>2, LineOfTokens
  <2> QED BY <2>1, <2>3, <2>4 DEF LinesAgree, RawLine
<1> QED BY <1>1, <1>2, <1>3, PTL

-----------------------------------------------------------------------------
(***************************************************************************)
(* What the tokeniser makes of a text does not depend on where it stands,  *)
(* nor, up to a newline that closes it, on what follows.                   *)
(***************************************************************************)

\* y is x from the character after the first d on.
Behind(x, y, d) == Len(x) = Len(y) + d /\ \A j \in 1 .. Len(y) : x[j + d] = y[j]

\* y is the beginning of x.
Ahead(x, y) == Len(y) <= Len(x) /\ \A j \in 1 .. Len(y) : y[j] = x[j]

LEMMA BehindChars ==
  ASSUME NEW x \in Seq(Chars), NEW y \in Seq(Chars), NEW d \in Nat, Behind(x, y, d), NEW j \in Nat \ {0}
  PROVE  Char(x, j + d) = Char(y, j)
<1>1. /\ Len(x) \in Nat /\ Len(y) \in Nat /\ DOMAIN x = 1 .. Len(x) /\ DOMAIN y = 1 .. Len(y)
      /\ Len(x) = Len(y) + d
  BY DEF Behind
<1>2. j + d \in 1 .. Len(x) <=> j \in 1 .. Len(y)
  BY <1>1
<1> QED BY <1>1, <1>2 DEF Char, Behind

LEMMA AheadChars ==
  ASSUME NEW x \in Seq(Chars), NEW y \in Seq(Chars), Ahead(x, y), NEW j \in 1 .. Len(y)
  PROVE  Char(x, j) = y[j] /\ Char(y, j) = y[j]
<1>1. /\ Len(x) \in Nat /\ Len(y) \in Nat /\ DOMAIN x = 1 .. Len(x) /\ DOMAIN y = 1 .. Len(y)
      /\ Len(y) <= Len(x)
  BY DEF Ahead
<1>2. j \in 1 .. Len(x)
  BY <1>1
<1> QED BY <1>1, <1>2 DEF Char, Ahead

LEMMA NewlinesBehind ==
  ASSUME NEW x \in Seq(Chars), NEW y \in Seq(Chars), NEW d \in Nat, Behind(x, y, d),
         NEW a \in Nat \ {0}, NEW b \in Nat
  PROVE  Newlines(x, a + d, b + d) = Newlines(y, a, b)
<1> DEFINE A == {j \in a .. b : Char(y, j) = "newline"}
           B == {j \in a + d .. b + d : Char(x, j) = "newline"}
           f == [j \in A |-> j + d]
<1>1. IsFiniteSet(A)
  <2>1. IsFiniteSet(a .. b) /\ A \subseteq a .. b
    BY FS_Interval
  <2> HIDE DEF A
  <2> QED BY <2>1, FS_Subset
<1>2. \A j \in A : j \in Nat \ {0} /\ j + d \in B
  BY BehindChars
<1>3. \A l \in B : l - d \in A /\ (l - d) + d = l
  <2> SUFFICES ASSUME NEW l \in B PROVE l - d \in A /\ (l - d) + d = l
    OBVIOUS
  <2>1. l - d \in a .. b /\ l - d \in Nat \ {0} /\ (l - d) + d = l
    OBVIOUS
  <2>2. Char(x, l) = "newline" /\ Char(x, (l - d) + d) = Char(y, l - d)
    BY <2>1, BehindChars
  <2> QED BY <2>1, <2>2
<1>4. f \in Bijection(A, B)
  <2> HIDE DEF A, B
  <2>1. f \in [A -> B]
    BY <1>2
  <2>2. \A j, k \in A : f[j] = f[k] => j = k
    BY <1>2
  <2>3. \A l \in B : \E j \in A : f[j] = l
    BY <1>3
  <2> HIDE DEF f
  <2> QED BY <2>1, <2>2, <2>3 DEF Bijection, Injection, Surjection, IsInjective
<1> HIDE DEF A, B, f
<1>5. Cardinality(B) = Cardinality(A)
  BY <1>1, <1>4, FS_Bijection DEF ExistsBijection
<1> QED BY <1>5 DEF A, B, Newlines

LEMMA NewlinesAhead ==
  ASSUME NEW x \in Seq(Chars), NEW y \in Seq(Chars), Ahead(x, y), NEW a \in Nat \ {0}, NEW b \in Nat,
         b <= Len(y)
  PROVE  Newlines(x, a, b) = Newlines(y, a, b)
<1>1. \A j \in a .. b : j \in 1 .. Len(y)
  OBVIOUS
<1>2. \A j \in a .. b : Char(x, j) = Char(y, j)
  BY <1>1, AheadChars
<1>3. {j \in a .. b : Char(x, j) = "newline"} = {j \in a .. b : Char(y, j) = "newline"}
  BY <1>2
<1> QED BY <1>3 DEF Newlines

LEMMA LowestBehind ==
  ASSUME NEW S \in SUBSET Nat, S # {}, NEW d \in Nat, NEW T,
         T \subseteq Nat, \A s \in S : s + d \in T, \A t \in T : t - d \in S
  PROVE  Lowest(T) = Lowest(S) + d
<1>1. T \in SUBSET Nat /\ T # {}
  OBVIOUS
<1>2. /\ Lowest(S) \in S /\ \A y \in S : Lowest(S) <= y
      /\ Lowest(T) \in T /\ \A y \in T : Lowest(T) <= y
  BY <1>1, LowestOf
<1>3. Lowest(T) <= Lowest(S) + d /\ Lowest(S) <= Lowest(T) - d
  BY <1>2
<1>4. Lowest(S) \in Nat /\ Lowest(T) \in Nat
  BY <1>1, <1>2
<1> QED BY <1>3, <1>4

LEMMA LowestAhead ==
  ASSUME NEW S \in SUBSET Nat, NEW T \in SUBSET Nat, NEW k \in Nat,
         k \in S, \A j \in 0 .. k : j \in S <=> j \in T
  PROVE  Lowest(S) = Lowest(T)
<1>1. S # {} /\ T # {} /\ k \in T
  OBVIOUS
<1>2. /\ Lowest(S) \in S /\ \A y \in S : Lowest(S) <= y
      /\ Lowest(T) \in T /\ \A y \in T : Lowest(T) <= y
  BY <1>1, LowestOf
<1>3. Lowest(S) \in 0 .. k /\ Lowest(T) \in 0 .. k
  <2>1. Lowest(S) \in Nat /\ Lowest(T) \in Nat /\ Lowest(S) <= k /\ Lowest(T) <= k
    BY <1>1, <1>2
  <2> QED BY <2>1
<1>4. Lowest(S) <= Lowest(T) /\ Lowest(T) <= Lowest(S)
  BY <1>2, <1>3
<1> QED BY <1>3, <1>4

\* A string ends where it does, wherever the text begins.
LEMMA StringBehind ==
  ASSUME NEW x \in Seq(Chars), NEW y \in Seq(Chars), NEW d \in Nat, Behind(x, y, d),
         NEW i \in 1 .. Len(y), y[i] \in Quotes
  PROVE  StringEnd(x, i + d) = StringEnd(y, i) + d
<1> DEFINE n == Len(y)
           q == y[i]
<1>0. /\ n \in Nat /\ Len(x) = n + d /\ i + d \in 1 .. Len(x) /\ x[i + d] = q
      /\ \A j \in 1 .. n : x[j + d] = y[j]
  BY DEF Behind
<1>1. PICK h : StringEnds(y, i, h) /\ StringEnd(y, i) = h[i + 1]
  BY StringEndIsLoop
<1>2. PICK g : StringEnds(x, i + d, g) /\ StringEnd(x, i + d) = g[i + d + 1]
  BY <1>0, StringEndIsLoop
<1> DEFINE S == {j \in i + 1 .. n + 1 : g[j + d] = h[j] + d}
<1>3. ASSUME NEW j \in i + 1 .. n + 1, \A l \in j + 1 .. n + 1 : l \in S PROVE j \in S
  <2>1. /\ j > n => h[j] = n + 1
        /\ j <= n /\ y[j] = q => h[j] = j + 1
        /\ j <= n /\ y[j] = "backslash" /\ j < n => h[j] = h[j + 2]
        /\ j <= n /\ y[j] = "newline" /\ q # "template" => h[j] = j
        /\ (/\ j <= n /\ y[j] # q /\ ~(y[j] = "backslash" /\ j < n)
            /\ ~(y[j] = "newline" /\ q # "template")) => h[j] = h[j + 1]
    BY <1>1 DEF StringEnds
  <2>2. LET l == j + d IN
        /\ l > Len(x) => g[l] = Len(x) + 1
        /\ l <= Len(x) /\ x[l] = q => g[l] = l + 1
        /\ l <= Len(x) /\ x[l] = "backslash" /\ l < Len(x) => g[l] = g[l + 2]
        /\ l <= Len(x) /\ x[l] = "newline" /\ q # "template" => g[l] = l
        /\ (/\ l <= Len(x) /\ x[l] # q /\ ~(x[l] = "backslash" /\ l < Len(x))
            /\ ~(x[l] = "newline" /\ q # "template")) => g[l] = g[l + 1]
    <3>1. j + d \in (i + d) + 1 .. Len(x) + 1
      BY <1>0
    <3> QED BY <1>0, <1>2, <3>1 DEF StringEnds
  <2>3. /\ j \in Nat \ {0} /\ j <= n + 1 /\ (j > n <=> j + d > Len(x)) /\ (j < n <=> j + d < Len(x))
        /\ (j + d) + 2 = (j + 2) + d /\ (j + d) + 1 = (j + 1) + d
    BY <1>0
  <2>4. j <= n => x[j + d] = y[j] /\ j + d <= Len(x)
    BY <1>0, <2>3
  <2>5. CASE j > n
    BY <1>0, <2>1, <2>2, <2>3, <2>5
  <2>6. CASE j <= n /\ y[j] = q
    BY <1>0, <2>1, <2>2, <2>3, <2>4, <2>6
  <2>7. CASE j <= n /\ y[j] = "backslash" /\ j < n
    <3>1. j + 2 \in S
      BY <1>0, <1>3, <2>7
    <3>2. h[j] = h[j + 2] /\ g[j + d] = g[(j + 2) + d]
      BY <2>1, <2>2, <2>3, <2>4, <2>7
    <3> QED BY <3>1, <3>2
  <2>8. CASE j <= n /\ y[j] = "newline" /\ q # "template"
    BY <1>0, <2>1, <2>2, <2>3, <2>4, <2>8
  <2>9. CASE /\ j <= n /\ y[j] # q /\ ~(y[j] = "backslash" /\ j < n)
             /\ ~(y[j] = "newline" /\ q # "template")
    <3>1. j + 1 \in S
      BY <1>0, <1>3, <2>9
    <3>2. h[j] = h[j + 1] /\ g[j + d] = g[(j + 1) + d]
      BY <2>1, <2>2, <2>3, <2>4, <2>9
    <3> QED BY <3>1, <3>2
  <2>10. j > n \/ j <= n
    BY <1>0, <2>3
  <2> QED BY <2>5, <2>6, <2>7, <2>8, <2>9, <2>10
<1> HIDE DEF S
<1>4. i + 1 .. n + 1 \subseteq S
  <2>1. i + 1 \in Nat /\ n + 1 \in Nat
    BY <1>0
  <2> HIDE DEF n
  <2> QED BY <1>3, <2>1, DownTo
<1>5. i + 1 \in S /\ (i + 1) + d = i + d + 1
  <2>1. i + 1 \in i + 1 .. n + 1
    BY <1>0
  <2>2. (i + 1) + d = i + d + 1
    BY <1>0
  <2> QED BY <1>4, <2>1, <2>2
<1> QED BY <1>1, <1>2, <1>5 DEF S

\* A text that a newline ends, with no string or comment that goes on.
LEMMA ClosedFacts ==
  ASSUME NEW y \in Seq(Chars), NEW k \in Nat \ {0}, Len(y) = k, Closed(y)
  PROVE  /\ y[k] = "newline" /\ Char(y, k) = "newline"
         /\ k - 1 \in 1 .. k => y[k - 1] # "backslash"
         /\ \A j \in 1 .. k : y[j] # "template" /\ ~(y[j] = "/" /\ Char(y, j + 1) = "*")
<1>1. DOMAIN y = 1 .. k
  OBVIOUS
<1>2. y[k] = "newline" /\ Char(y, k - 1) # "backslash"
  BY DEF Closed
<1>3. \A j \in 1 .. k : y[j] # "template" /\ ~(y[j] = "/" /\ Char(y, j + 1) = "*")
  BY <1>1 DEF Closed
<1>4. k \in DOMAIN y /\ (k - 1 \in 1 .. k => k - 1 \in DOMAIN y)
  BY <1>1
<1>5. Char(y, k) = y[k] /\ (k - 1 \in 1 .. k => Char(y, k - 1) = y[k - 1])
  BY <1>4 DEF Char
<1> QED BY <1>2, <1>3, <1>5

LEMMA StringAhead ==
  ASSUME NEW x \in Seq(Chars), NEW y \in Seq(Chars), Ahead(x, y), y # <<>>, Closed(y),
         NEW i \in 1 .. Len(y), y[i] \in Quotes
  PROVE  StringEnd(x, i) = StringEnd(y, i)
<1> DEFINE k == Len(y)
           n == Len(x)
           q == y[i]
<1>0. /\ k \in Nat \ {0} /\ n \in Nat /\ k <= n /\ i \in 1 .. n /\ x[i] = q
      /\ \A j \in 1 .. k : x[j] = y[j]
  BY DEF Ahead
<1>1. PICK h : StringEnds(y, i, h) /\ StringEnd(y, i) = h[i + 1]
  BY StringEndIsLoop
<1>2. PICK g : StringEnds(x, i, g) /\ StringEnd(x, i) = g[i + 1]
  BY <1>0, StringEndIsLoop
<1>3. /\ y[k] = "newline"
      /\ k - 1 \in 1 .. k => y[k - 1] # "backslash"
      /\ q # "template" /\ q # "newline" /\ q # "backslash"
  BY <1>0, ClosedFacts DEF Quotes
<1> DEFINE S == {j \in i + 1 .. k : g[j] = h[j]}
<1>4. ASSUME NEW j \in i + 1 .. k, \A l \in j + 1 .. k : l \in S PROVE j \in S
  <2>0. j \in Nat \ {0} /\ j \in 1 .. k /\ j <= k /\ j <= n /\ x[j] = y[j]
    BY <1>0
  <2>1. /\ y[j] = q => h[j] = j + 1
        /\ y[j] = "backslash" /\ j < k => h[j] = h[j + 2]
        /\ y[j] = "newline" => h[j] = j
        /\ y[j] # q /\ ~(y[j] = "backslash" /\ j < k) /\ y[j] # "newline" => h[j] = h[j + 1]
    <3>1. j \in i + 1 .. k + 1
      BY <1>0
    <3> QED BY <1>1, <1>3, <2>0, <3>1 DEF StringEnds
  <2>2. /\ y[j] = q => g[j] = j + 1
        /\ y[j] = "backslash" /\ j < n => g[j] = g[j + 2]
        /\ y[j] = "newline" => g[j] = j
        /\ y[j] # q /\ ~(y[j] = "backslash" /\ j < n) /\ y[j] # "newline" => g[j] = g[j + 1]
    <3>1. j \in i + 1 .. n + 1
      BY <1>0
    <3> QED BY <1>0, <1>2, <1>3, <2>0, <3>1 DEF StringEnds
  <2>3. CASE y[j] = q
    BY <2>1, <2>2, <2>3
  <2>4. CASE y[j] = "newline"
    BY <2>1, <2>2, <2>4
  <2>5. CASE y[j] = "backslash"
    <3>1. j # k /\ j # k - 1
      BY <1>3, <2>0, <2>5
    <3>2. j + 2 \in j + 1 .. k /\ j < k /\ j < n
      BY <1>0, <2>0, <3>1
    <3>3. j + 2 \in S
      BY <1>4, <3>2
    <3> QED BY <2>1, <2>2, <2>5, <3>2, <3>3
  <2>6. CASE y[j] # q /\ y[j] # "newline" /\ y[j] # "backslash"
    <3>1. j # k
      BY <1>3, <2>6
    <3>2. j + 1 \in j + 1 .. k
      BY <1>0, <2>0, <3>1
    <3>3. j + 1 \in S
      BY <1>4, <3>2
    <3> QED BY <2>1, <2>2, <2>6, <3>3
  <2> QED BY <2>3, <2>4, <2>5, <2>6
<1> HIDE DEF S
<1>5. i + 1 .. k \subseteq S
  <2>1. i + 1 \in Nat /\ k \in Nat
    BY <1>0
  <2> HIDE DEF k
  <2> QED BY <1>4, <2>1, DownTo
<1>6. i # k
  BY <1>3
<1>7. i + 1 \in S
  <2>1. i + 1 \in i + 1 .. k
    BY <1>0, <1>6
  <2> QED BY <1>5, <2>1
<1> QED BY <1>1, <1>2, <1>7 DEF S

\* The branches of a turn.
LEMMA Branches ==
  ASSUME NEW src, NEW i
  PROVE  LET c == Char(src, i)
             e == Char(src, i + 1)
             t == TokenAt(src, i)
         IN  /\ c = "/" /\ e = "/" => t = LineComment(src, i)
             /\ c = "/" /\ e = "*" => t = BlockComment(src, i)
             /\ c \in Quotes => t = StringToken(src, i)
             /\ c = "|" /\ e = ">" => t = Taken(src, i, "pipe", i + 2)
             /\ c = "=" /\ e = ">" => t = Taken(src, i, "arrow", i + 2)
             /\ c = "letter" => t = Identifier(src, i)
             /\ c = "{" \/ (c = "=" /\ e # ">") => t = Taken(src, i, Single[c], i + 1)
             /\ (/\ ~(c = "/" /\ (e = "/" \/ e = "*")) /\ c \notin Quotes
                 /\ ~(c = "|" /\ e = ">") /\ c # "=" /\ c # "letter" /\ c # "{")
                  => t = Taken(src, i, "none", i + 1)
BY DEF TokenAt, Quotes

\* The same turn in a text that begins d characters earlier.
SameTurn(t, u, d) == t.type = u.type /\ t.next = u.next + d /\ t.lines = u.lines

LEMMA TakenBehind ==
  ASSUME NEW x \in Seq(Chars), NEW y \in Seq(Chars), NEW d \in Nat, Behind(x, y, d),
         NEW i \in Nat \ {0}, NEW type, NEW next \in Nat \ {0}, NEW later, later = next + d
  PROVE  SameTurn(Taken(x, i + d, type, later), Taken(y, i, type, next), d)
<1>1. next - 1 \in Nat /\ later - 1 = (next - 1) + d
  OBVIOUS
<1>2. Newlines(x, i + d, later - 1) = Newlines(y, i, next - 1)
  BY <1>1, NewlinesBehind
<1> QED BY <1>2 DEF Taken, SameTurn

LEMMA TurnBehind ==
  ASSUME NEW x \in Seq(Chars), NEW y \in Seq(Chars), NEW d \in Nat, Behind(x, y, d),
         NEW i \in 1 .. Len(y)
  PROVE  SameTurn(TokenAt(x, i + d), TokenAt(y, i), d)
<1> DEFINE n == Len(y)
           c == Char(y, i)
           e == Char(y, i + 1)
           Goal == SameTurn(TokenAt(x, i + d), TokenAt(y, i), d)
<1>0. /\ n \in Nat /\ Len(x) = n + d /\ i \in Nat \ {0} /\ i <= n
      /\ (i + 1) + d = (i + d) + 1 /\ (i + 2) + d = (i + d) + 2
      /\ i + 1 \in Nat \ {0} /\ i + 2 \in Nat \ {0}
  BY DEF Behind
<1>1. Char(x, i + d) = c /\ Char(x, (i + d) + 1) = e /\ c = y[i]
  <2>1. Char(x, i + d) = c /\ Char(x, (i + 1) + d) = e
    BY <1>0, BehindChars
  <2>2. DOMAIN y = 1 .. n
    OBVIOUS
  <2> QED BY <1>0, <2>1, <2>2 DEF Char
<1>2. \A j \in Nat \ {0} : Char(x, j + d) = Char(y, j) /\ Char(x, (j + d) + 1) = Char(y, j + 1)
  <2> SUFFICES ASSUME NEW j \in Nat \ {0}
               PROVE  Char(x, j + d) = Char(y, j) /\ Char(x, (j + d) + 1) = Char(y, j + 1)
    OBVIOUS
  <2>1. (j + 1) + d = (j + d) + 1 /\ j + 1 \in Nat \ {0}
    OBVIOUS
  <2>2. Char(x, j + d) = Char(y, j) /\ Char(x, (j + 1) + d) = Char(y, j + 1)
    BY <2>1, BehindChars
  <2> QED BY <2>1, <2>2
<1> HIDE DEF c, e, n
<1>3. CASE c = "/" /\ e = "/"
  <2> DEFINE S == {n + 1} \cup {j \in i .. n : Char(y, j) = "newline"}
             T == {Len(x) + 1} \cup {j \in i + d .. Len(x) : Char(x, j) = "newline"}
  <2>1. LineComment(y, i) = Taken(y, i, "none", Lowest(S)) /\ LineComment(x, i + d) = Taken(x, i + d, "none", Lowest(T))
    BY DEF LineComment, From, n
  <2>2. S \in SUBSET Nat /\ S # {} /\ 0 \notin S /\ T \subseteq Nat
    BY <1>0
  <2>3. \A s \in S : s + d \in T
    BY <1>0, <1>2
  <2>4. ASSUME NEW t \in T PROVE t - d \in S
    <3>1. CASE t = Len(x) + 1
      BY <1>0, <3>1
    <3>2. CASE t \in i + d .. Len(x) /\ Char(x, t) = "newline"
      <4>1. t - d \in i .. n /\ t - d \in Nat \ {0} /\ (t - d) + d = t
        BY <1>0, <3>2
      <4>2. Char(y, t - d) = "newline"
        BY <1>2, <3>2, <4>1
      <4> QED BY <4>1, <4>2
    <3> QED BY <3>1, <3>2
  <2> HIDE DEF S, T
  <2>5. Lowest(T) = Lowest(S) + d /\ Lowest(S) \in Nat \ {0}
    BY <2>2, <2>3, <2>4, LowestBehind, LowestOf
  <2>6. SameTurn(LineComment(x, i + d), LineComment(y, i), d)
    BY <1>0, <2>1, <2>5, TakenBehind
  <2>7. TokenAt(x, i + d) = LineComment(x, i + d) /\ TokenAt(y, i) = LineComment(y, i)
    BY <1>1, <1>3, Branches DEF c, e
  <2> QED BY <2>6, <2>7
<1>4. CASE c = "/" /\ e = "*"
  <2> DEFINE S == {n + 1} \cup {j \in i + 2 .. n : Char(y, j) = "*" /\ Char(y, j + 1) = "/"}
             T == {Len(x) + 1} \cup {j \in (i + d) + 2 .. Len(x) : Char(x, j) = "*" /\ Char(x, j + 1) = "/"}
             next == IF Lowest(S) > n THEN n + 1 ELSE Lowest(S) + 2
             later == IF Lowest(T) > Len(x) THEN Len(x) + 1 ELSE Lowest(T) + 2
  <2>1. BlockComment(y, i) = Taken(y, i, "none", next) /\ BlockComment(x, i + d) = Taken(x, i + d, "none", later)
    BY DEF BlockComment, From, n
  <2>2. S \in SUBSET Nat /\ S # {} /\ T \subseteq Nat
    BY <1>0
  <2>3. \A s \in S : s + d \in T
    BY <1>0, <1>2
  <2>4. ASSUME NEW t \in T PROVE t - d \in S
    <3>1. CASE t = Len(x) + 1
      BY <1>0, <3>1
    <3>2. CASE t \in (i + d) + 2 .. Len(x) /\ Char(x, t) = "*" /\ Char(x, t + 1) = "/"
      <4>1. t - d \in i + 2 .. n /\ t - d \in Nat \ {0} /\ (t - d) + d = t
        BY <1>0, <3>2
      <4>2. Char(y, t - d) = "*" /\ Char(y, (t - d) + 1) = "/"
        BY <1>2, <3>2, <4>1
      <4> QED BY <4>1, <4>2
    <3> QED BY <3>1, <3>2
  <2> HIDE DEF S, T
  <2>5. Lowest(T) = Lowest(S) + d /\ Lowest(S) \in Nat
    BY <2>2, <2>3, <2>4, LowestBehind, LowestOf
  <2>6. later = next + d /\ next \in Nat \ {0}
    BY <1>0, <2>5
  <2> HIDE DEF next, later
  <2>7. SameTurn(BlockComment(x, i + d), BlockComment(y, i), d)
    BY <1>0, <2>1, <2>6, TakenBehind
  <2>8. TokenAt(x, i + d) = BlockComment(x, i + d) /\ TokenAt(y, i) = BlockComment(y, i)
    BY <1>1, <1>4, Branches DEF c, e
  <2> QED BY <2>7, <2>8
<1>5. CASE c \in Quotes
  <2>1. StringEnd(x, i + d) = StringEnd(y, i) + d
    BY <1>0, <1>1, <1>5, StringBehind DEF n
  <2>2. StringEnd(y, i) \in Nat \ {0}
    BY <1>0, <1>1, <1>5, StringEndRange DEF n
  <2>3. SameTurn(StringToken(x, i + d), StringToken(y, i), d)
    BY <1>0, <2>1, <2>2, TakenBehind DEF StringToken
  <2>4. TokenAt(x, i + d) = StringToken(x, i + d) /\ TokenAt(y, i) = StringToken(y, i)
    BY <1>1, <1>5, Branches DEF c, e
  <2> QED BY <2>3, <2>4
<1>6. CASE c = "letter"
  <2> DEFINE S == {n + 1} \cup {j \in i .. n : Char(y, j) # "letter"}
             T == {Len(x) + 1} \cup {j \in i + d .. Len(x) : Char(x, j) # "letter"}
  <2>1. Identifier(y, i) = Taken(y, i, "ident", Lowest(S)) /\ Identifier(x, i + d) = Taken(x, i + d, "ident", Lowest(T))
    BY DEF Identifier, From, n
  <2>2. S \in SUBSET Nat /\ S # {} /\ 0 \notin S /\ T \subseteq Nat
    BY <1>0
  <2>3. \A s \in S : s + d \in T
    BY <1>0, <1>2
  <2>4. ASSUME NEW t \in T PROVE t - d \in S
    <3>1. CASE t = Len(x) + 1
      BY <1>0, <3>1
    <3>2. CASE t \in i + d .. Len(x) /\ Char(x, t) # "letter"
      <4>1. t - d \in i .. n /\ t - d \in Nat \ {0} /\ (t - d) + d = t
        BY <1>0, <3>2
      <4>2. Char(y, t - d) # "letter"
        BY <1>2, <3>2, <4>1
      <4> QED BY <4>1, <4>2
    <3> QED BY <3>1, <3>2
  <2> HIDE DEF S, T
  <2>5. Lowest(T) = Lowest(S) + d /\ Lowest(S) \in Nat \ {0}
    BY <2>2, <2>3, <2>4, LowestBehind, LowestOf
  <2>6. SameTurn(Identifier(x, i + d), Identifier(y, i), d)
    BY <1>0, <2>1, <2>5, TakenBehind
  <2>7. TokenAt(x, i + d) = Identifier(x, i + d) /\ TokenAt(y, i) = Identifier(y, i)
    BY <1>1, <1>6, Branches DEF c, e
  <2> QED BY <2>6, <2>7
<1>7. CASE c = "|" /\ e = ">"
  <2>1. TokenAt(x, i + d) = Taken(x, i + d, "pipe", (i + d) + 2) /\ TokenAt(y, i) = Taken(y, i, "pipe", i + 2)
    BY <1>1, <1>7, Branches DEF c, e
  <2> QED BY <1>0, <2>1, TakenBehind
<1>8. CASE c = "=" /\ e = ">"
  <2>1. TokenAt(x, i + d) = Taken(x, i + d, "arrow", (i + d) + 2) /\ TokenAt(y, i) = Taken(y, i, "arrow", i + 2)
    BY <1>1, <1>8, Branches DEF c, e
  <2> QED BY <1>0, <2>1, TakenBehind
<1>9. CASE c = "{" \/ (c = "=" /\ e # ">")
  <2>1. TokenAt(x, i + d) = Taken(x, i + d, Single[c], (i + d) + 1) /\ TokenAt(y, i) = Taken(y, i, Single[c], i + 1)
    BY <1>1, <1>9, Branches DEF c, e
  <2> QED BY <1>0, <2>1, TakenBehind
<1>10. CASE /\ ~(c = "/" /\ (e = "/" \/ e = "*")) /\ c \notin Quotes
            /\ ~(c = "|" /\ e = ">") /\ c # "=" /\ c # "letter" /\ c # "{"
  <2>1. TokenAt(x, i + d) = Taken(x, i + d, "none", (i + d) + 1) /\ TokenAt(y, i) = Taken(y, i, "none", i + 1)
    BY <1>1, <1>10, Branches DEF c, e
  <2> QED BY <1>0, <2>1, TakenBehind
<1> QED BY <1>3, <1>4, <1>5, <1>6, <1>7, <1>8, <1>9, <1>10

LEMMA TurnAhead ==
  ASSUME NEW x \in Seq(Chars), NEW y \in Seq(Chars), Ahead(x, y), y # <<>>, Closed(y),
         NEW i \in 1 .. Len(y)
  PROVE  TokenAt(x, i) = TokenAt(y, i)
<1> DEFINE k == Len(y)
           n == Len(x)
           c == Char(y, i)
           e == Char(y, i + 1)
           Goal == TokenAt(x, i) = TokenAt(y, i)
<1>0. /\ k \in Nat \ {0} /\ n \in Nat /\ k <= n /\ i \in Nat \ {0} /\ i <= k
      /\ \A j \in 1 .. k : Char(x, j) = y[j] /\ Char(y, j) = y[j]
  BY AheadChars DEF Ahead
<1>1. /\ y[k] = "newline" /\ Char(y, k) = "newline"
      /\ \A j \in 1 .. k : y[j] # "template" /\ ~(y[j] = "/" /\ Char(y, j + 1) = "*")
  BY <1>0, ClosedFacts
<1>2. Char(x, i) = c /\ c = y[i] /\ (i = k => c = "newline") /\ (i # k => Char(x, i + 1) = e /\ i + 1 \in 1 .. k)
  <2>1. Char(x, i) = c /\ c = y[i] /\ (i = k => c = "newline")
    BY <1>0, <1>1
  <2>2. i # k => i + 1 \in 1 .. k
    BY <1>0
  <2> QED BY <1>0, <2>1, <2>2
\* What a turn takes ends within y, so its newlines are the same.
<1>3. ASSUME NEW type, NEW next \in Nat \ {0}, next <= k + 1
      PROVE  Taken(x, i, type, next) = Taken(y, i, type, next)
  <2>1. next - 1 \in Nat /\ next - 1 <= k
    BY <1>0, <1>3
  <2>2. Newlines(x, i, next - 1) = Newlines(y, i, next - 1)
    BY <1>0, <2>1, NewlinesAhead
  <2> QED BY <2>2 DEF Taken
<1> HIDE DEF c, e, n, k
<1>4. CASE i = k
  <2>1. c = "newline" /\ c \notin Quotes
    BY <1>2, <1>4 DEF Quotes
  <2>2. TokenAt(x, i) = Taken(x, i, "none", i + 1) /\ TokenAt(y, i) = Taken(y, i, "none", i + 1)
    BY <1>2, <2>1, Branches DEF c
  <2>3. i + 1 \in Nat \ {0} /\ i + 1 <= k + 1
    BY <1>0
  <2> QED BY <1>3, <2>2, <2>3
<1>5. CASE i # k
  <2>1. Char(x, i) = c /\ Char(x, i + 1) = e /\ Char(y, i) = c /\ Char(y, i + 1) = e
    BY <1>2, <1>5 DEF c, e
  <2>2. i + 1 \in Nat \ {0} /\ i + 1 <= k + 1 /\ i + 2 \in Nat \ {0} /\ i + 2 <= k + 1
    BY <1>0, <1>5
  <2>3. CASE c = "/" /\ e = "/"
    <3> DEFINE S == {k + 1} \cup {j \in i .. k : Char(y, j) = "newline"}
               T == {n + 1} \cup {j \in i .. n : Char(x, j) = "newline"}
    <3>1. LineComment(y, i) = Taken(y, i, "none", Lowest(S)) /\ LineComment(x, i) = Taken(x, i, "none", Lowest(T))
      BY DEF LineComment, From, n, k
    <3>2. S \in SUBSET Nat /\ T \in SUBSET Nat
      BY <1>0
    <3>3. k \in S /\ \A j \in 0 .. k : j \in S <=> j \in T
      BY <1>0, <1>1
    <3>4. S # {} /\ \A j \in S : j # 0
      BY <1>0
    <3> HIDE DEF S, T
    <3>5. Lowest(S) = Lowest(T)
      BY <1>0, <3>2, <3>3, LowestAhead
    <3>6. Lowest(S) \in Nat \ {0} /\ Lowest(S) <= k + 1
      <4>1. Lowest(S) \in S /\ Lowest(S) <= k
        BY <3>2, <3>3, <3>4, LowestOf
      <4>2. Lowest(S) \in Nat /\ Lowest(S) # 0
        BY <3>2, <3>4, <4>1
      <4>3. k \in Nat
        BY <1>0
      <4> QED BY <4>1, <4>2, <4>3
    <3>7. LineComment(x, i) = LineComment(y, i)
      BY <1>3, <3>1, <3>5, <3>6
    <3>8. TokenAt(x, i) = LineComment(x, i) /\ TokenAt(y, i) = LineComment(y, i)
      BY <2>1, <2>3, Branches
    <3> QED BY <3>7, <3>8
  <2>4. CASE c = "/" /\ e = "*"
    BY <1>0, <1>1, <1>2, <2>4 DEF e
  <2>5. CASE c \in Quotes
    <3>1. StringEnd(x, i) = StringEnd(y, i)
      BY <1>2, <2>5, StringAhead
    <3>2. StringEnd(y, i) \in Nat \ {0} /\ StringEnd(y, i) <= k + 1
      <4>1. StringEnd(y, i) \in i + 1 .. Len(y) + 1
        BY <1>2, <2>5, StringEndRange
      <4> QED BY <1>0, <4>1 DEF k
    <3>3. StringToken(x, i) = StringToken(y, i)
      BY <1>3, <3>1, <3>2 DEF StringToken
    <3>4. TokenAt(x, i) = StringToken(x, i) /\ TokenAt(y, i) = StringToken(y, i)
      BY <2>1, <2>5, Branches
    <3> QED BY <3>3, <3>4
  <2>6. CASE c = "letter"
    <3> DEFINE S == {k + 1} \cup {j \in i .. k : Char(y, j) # "letter"}
               T == {n + 1} \cup {j \in i .. n : Char(x, j) # "letter"}
    <3>1. Identifier(y, i) = Taken(y, i, "ident", Lowest(S)) /\ Identifier(x, i) = Taken(x, i, "ident", Lowest(T))
      BY DEF Identifier, From, n, k
    <3>2. S \in SUBSET Nat /\ T \in SUBSET Nat
      BY <1>0
    <3>3. k \in S /\ \A j \in 0 .. k : j \in S <=> j \in T
      BY <1>0, <1>1
    <3>4. S # {} /\ \A j \in S : j # 0
      BY <1>0
    <3> HIDE DEF S, T
    <3>5. Lowest(S) = Lowest(T)
      BY <1>0, <3>2, <3>3, LowestAhead
    <3>6. Lowest(S) \in Nat \ {0} /\ Lowest(S) <= k + 1
      <4>1. Lowest(S) \in S /\ Lowest(S) <= k
        BY <3>2, <3>3, <3>4, LowestOf
      <4>2. Lowest(S) \in Nat /\ Lowest(S) # 0
        BY <3>2, <3>4, <4>1
      <4>3. k \in Nat
        BY <1>0
      <4> QED BY <4>1, <4>2, <4>3
    <3>7. Identifier(x, i) = Identifier(y, i)
      BY <1>3, <3>1, <3>5, <3>6
    <3>8. TokenAt(x, i) = Identifier(x, i) /\ TokenAt(y, i) = Identifier(y, i)
      BY <2>1, <2>6, Branches
    <3> QED BY <3>7, <3>8
  <2>7. CASE c = "|" /\ e = ">"
    <3>1. TokenAt(x, i) = Taken(x, i, "pipe", i + 2) /\ TokenAt(y, i) = Taken(y, i, "pipe", i + 2)
      BY <2>1, <2>7, Branches
    <3> QED BY <1>3, <2>2, <3>1
  <2>8. CASE c = "=" /\ e = ">"
    <3>1. TokenAt(x, i) = Taken(x, i, "arrow", i + 2) /\ TokenAt(y, i) = Taken(y, i, "arrow", i + 2)
      BY <2>1, <2>8, Branches
    <3> QED BY <1>3, <2>2, <3>1
  <2>9. CASE c = "{" \/ (c = "=" /\ e # ">")
    <3>1. TokenAt(x, i) = Taken(x, i, Single[c], i + 1) /\ TokenAt(y, i) = Taken(y, i, Single[c], i + 1)
      BY <2>1, <2>9, Branches
    <3> QED BY <1>3, <2>2, <3>1
  <2>10. CASE /\ ~(c = "/" /\ (e = "/" \/ e = "*")) /\ c \notin Quotes
              /\ ~(c = "|" /\ e = ">") /\ c # "=" /\ c # "letter" /\ c # "{"
    <3>1. TokenAt(x, i) = Taken(x, i, "none", i + 1) /\ TokenAt(y, i) = Taken(y, i, "none", i + 1)
      BY <2>1, <2>10, Branches
    <3> QED BY <1>3, <2>2, <3>1
  <2> QED BY <2>3, <2>4, <2>5, <2>6, <2>7, <2>8, <2>9, <2>10
<1> QED BY <1>4, <1>5

LEMMA MovedConcat ==
  ASSUME NEW s \in Seq(Lexemes), NEW t \in Seq(Lexemes), NEW by \in Nat, NEW lines \in Nat
  PROVE  Moved(s \o t, by, lines) = Moved(s, by, lines) \o Moved(t, by, lines)
<1> DEFINE r == s \o t
           a == Moved(s, by, lines)
           b == Moved(t, by, lines)
           new(l) == [type |-> l.type, start |-> l.start + by, line |-> l.line + lines]
<1>1. /\ Len(s) \in Nat /\ Len(t) \in Nat /\ r \in Seq(Lexemes) /\ Len(r) = Len(s) + Len(t)
      /\ DOMAIN s = 1 .. Len(s) /\ DOMAIN t = 1 .. Len(t) /\ DOMAIN r = 1 .. Len(r)
      /\ \A k \in 1 .. Len(s) : r[k] = s[k]
      /\ \A k \in Len(s) + 1 .. Len(r) : r[k] = t[k - Len(s)]
  OBVIOUS
<1>2. /\ a = [k \in 1 .. Len(s) |-> new(s[k])] /\ b = [k \in 1 .. Len(t) |-> new(t[k])]
      /\ Moved(r, by, lines) = [k \in 1 .. Len(r) |-> new(r[k])]
  BY <1>1 DEF Moved
<1>3. a \in Seq(Lexemes) /\ b \in Seq(Lexemes) /\ Len(a) = Len(s) /\ Len(b) = Len(t)
  BY MovedFacts
<1> HIDE DEF new, a, b, r
<1> DEFINE w == a \o b
<1>4. /\ w = [k \in 1 .. Len(r) |-> w[k]]
      /\ \A k \in 1 .. Len(r) : w[k] = IF k <= Len(a) THEN a[k] ELSE b[k - Len(a)]
  <2>1. w \in Seq(Lexemes) /\ Len(w) = Len(a) + Len(b)
    BY <1>3
  <2>2. \A k \in 1 .. Len(a) + Len(b) : w[k] = IF k <= Len(a) THEN a[k] ELSE b[k - Len(a)]
    BY <1>3
  <2> HIDE DEF w
  <2>3. Len(a) + Len(b) = Len(r) /\ w = [k \in 1 .. Len(w) |-> w[k]]
    BY <1>1, <1>3, <2>1
  <2> QED BY <2>1, <2>2, <2>3
<1> HIDE DEF w
<1>5. ASSUME NEW k \in 1 .. Len(r)
      PROVE  new(r[k]) = IF k <= Len(a) THEN a[k] ELSE b[k - Len(a)]
  <2>1. CASE k <= Len(s)
    <3>1. k \in 1 .. Len(s)
      BY <1>1, <2>1
    <3> QED BY <1>1, <1>2, <1>3, <2>1, <3>1
  <2>2. CASE ~(k <= Len(s))
    <3>1. k \in Len(s) + 1 .. Len(r) /\ k - Len(s) \in 1 .. Len(t)
      BY <1>1, <2>2
    <3> QED BY <1>1, <1>2, <1>3, <2>2, <3>1
  <2> QED BY <2>1, <2>2
<1>6. \A k \in 1 .. Len(r) : new(r[k]) = w[k]
  BY <1>4, <1>5
<1>7. Moved(r, by, lines) = w
  BY <1>2, <1>4, <1>6
<1> QED BY <1>7 DEF a, b, r, w

LEMMA MovedMoved ==
  ASSUME NEW s \in Seq(Lexemes), NEW a \in Nat, NEW b \in Nat, NEW c \in Nat, NEW d \in Nat
  PROVE  Moved(Moved(s, a, b), c, d) = Moved(s, a + c, b + d)
<1> DEFINE r == Moved(s, a, b)
           n == Len(s)
           new(l, by, lines) == [type |-> l.type, start |-> l.start + by, line |-> l.line + lines]
<1>1. n \in Nat /\ DOMAIN s = 1 .. n
  OBVIOUS
<1>2. r = [k \in 1 .. n |-> new(s[k], a, b)] /\ Moved(s, a + c, b + d) = [k \in 1 .. n |-> new(s[k], a + c, b + d)]
  BY <1>1 DEF Moved
<1>3. DOMAIN r = 1 .. n
  BY <1>2
<1>4. Moved(r, c, d) = [k \in 1 .. n |-> new(r[k], c, d)]
  BY <1>3 DEF Moved
<1>5. ASSUME NEW k \in 1 .. n PROVE new(r[k], c, d) = new(s[k], a + c, b + d)
  <2> DEFINE l == s[k]
  <2>1. l \in Lexemes /\ r[k] = new(l, a, b)
    BY <1>2
  <2> HIDE DEF l
  <2>2. l.start \in Nat /\ l.line \in Nat
    BY <2>1 DEF Lexemes
  <2>3. (l.start + a) + c = l.start + (a + c) /\ (l.line + b) + d = l.line + (b + d)
    BY <2>2
  <2>4. new(new(l, a, b), c, d) = new(l, a + c, b + d)
    BY <2>3
  <2> QED BY <2>1, <2>4 DEF l
<1> HIDE DEF new, r, n
<1>6. Moved(r, c, d) = Moved(s, a + c, b + d)
  BY <1>2, <1>4, <1>5
<1> QED BY <1>6 DEF r

LEMMA MovedBoth ==
  ASSUME NEW r \in Seq(Lexemes), NEW s \in Seq(Lexemes), NEW k \in Nat, NEW l \in Nat, NEW m \in Nat
  PROVE  Moved(r \o Moved(s, k, l), 0, m) = Moved(r, 0, m) \o Moved(s, k, l + m)
<1> DEFINE v == Moved(s, k, l)
<1>1. v \in Seq(Lexemes)
  BY MovedFacts
<1>2. 0 \in Nat /\ k + 0 = k
  OBVIOUS
<1>3. Moved(v, 0, m) = Moved(s, k + 0, l + m)
  BY ONLY <1>2, s \in Seq(Lexemes), k \in Nat, l \in Nat, m \in Nat, MovedMoved
<1> HIDE DEF v
<1>4. Moved(r \o v, 0, m) = Moved(r, 0, m) \o Moved(v, 0, m)
  BY <1>1, <1>2, MovedConcat
<1> QED BY <1>2, <1>3, <1>4 DEF v

LEMMA MovedAside ==
  ASSUME NEW b \in Seq(Lexemes), NEW r \in Seq(Lexemes), NEW d \in Nat, NEW m \in Nat
  PROVE  Moved(b \o Moved(r, 0, m), d, 0) = Moved(b, d, 0) \o Moved(Moved(r, d, 0), 0, m)
<1> DEFINE v == Moved(r, 0, m)
           w == Moved(r, d, 0)
<1>1. v \in Seq(Lexemes) /\ w \in Seq(Lexemes)
  BY MovedFacts
<1>2. 0 \in Nat /\ d + 0 = d /\ 0 + d = d /\ 0 + m = m /\ m + 0 = m
  OBVIOUS
<1>3. Moved(v, d, 0) = Moved(r, 0 + d, m + 0)
  BY ONLY <1>2, r \in Seq(Lexemes), d \in Nat, m \in Nat, MovedMoved
<1>4. Moved(w, 0, m) = Moved(r, d + 0, 0 + m)
  BY ONLY <1>2, r \in Seq(Lexemes), d \in Nat, m \in Nat, MovedMoved
<1> HIDE DEF v, w
<1>5. Moved(b \o v, d, 0) = Moved(b, d, 0) \o Moved(v, d, 0)
  BY <1>1, <1>2, MovedConcat
<1> QED BY <1>2, <1>3, <1>4, <1>5 DEF v, w

LEMMA MovedEmpty ==
  ASSUME NEW by, NEW lines PROVE Moved(<<>>, by, lines) = <<>>
<1>1. DOMAIN <<>> = {}
  OBVIOUS
<1>2. Moved(<<>>, by, lines) = [k \in {} |-> [type |-> <<>>[k].type, start |-> <<>>[k].start + by,
                                              line |-> <<>>[k].line + lines]]
  BY <1>1 DEF Moved
<1> QED BY <1>2

\* A token that begins later, in the same line.
LEMMA BeginningBehind ==
  ASSUME NEW x, NEW y, NEW i \in Nat, NEW d \in Nat,
         TokenAt(x, i + d).type = TokenAt(y, i).type, TokenAt(y, i).type \in LexemeTypes
  PROVE  Beginning(y, i) \in Seq(Lexemes) /\ Beginning(x, i + d) = Moved(Beginning(y, i), d, 0)
<1> DEFINE type == TokenAt(y, i).type
           here == [type |-> type, start |-> i, line |-> 1]
           there == [type |-> type, start |-> i + d, line |-> 1]
<1>1. CASE type = "none"
  <2>1. Beginning(y, i) = <<>> /\ Beginning(x, i + d) = <<>>
    BY <1>1 DEF Beginning
  <2> QED BY <2>1, MovedEmpty
<1>2. CASE type # "none"
  <2>1. Beginning(y, i) = <<here>> /\ Beginning(x, i + d) = <<there>>
    BY <1>2 DEF Beginning
  <2>2. here \in Lexemes
    BY DEF Lexemes
  <2>3. here.type = type /\ here.start = i /\ here.line = 1
    OBVIOUS
  <2>4. [type |-> here.type, start |-> here.start + d, line |-> here.line + 0] = there
    BY <2>3
  <2> HIDE DEF here, there
  <2>5. DOMAIN <<here>> = 1 .. 1 /\ <<here>>[1] = here
    OBVIOUS
  <2>6. Moved(<<here>>, d, 0) = [k \in 1 .. 1 |-> [type |-> <<here>>[k].type, start |-> <<here>>[k].start + d,
                                                   line |-> <<here>>[k].line + 0]]
    BY <2>5 DEF Moved
  <2>7. \A k \in 1 .. 1 : <<here>>[k] = here
    BY <2>5
  <2>8. Moved(<<here>>, d, 0) = [k \in 1 .. 1 |-> there]
    BY <2>4, <2>6, <2>7
  <2>9. [k \in 1 .. 1 |-> there] = <<there>>
    OBVIOUS
  <2> QED BY <2>1, <2>2, <2>8, <2>9
<1> QED BY <1>1, <1>2

\* The tokens of what follows are those of it alone, further on.
LEMMA TokensBehind ==
  ASSUME NEW x \in Seq(Chars), NEW y \in Seq(Chars), NEW d \in Nat, Behind(x, y, d),
         NEW f, NEW g, Tokenizes(x, f), Tokenizes(y, g)
  PROVE  \A i \in 1 .. Len(y) + 1 : f[i + d] = Moved(g[i], d, 0)
<1> DEFINE n == Len(y)
           S == {i \in 1 .. n + 1 : f[i + d] = Moved(g[i], d, 0)}
<1>0. n \in Nat /\ Len(x) = n + d /\ n + 1 \in Nat /\ 1 \in Nat
  BY DEF Behind
<1>1. ASSUME NEW i \in 1 .. n + 1, \A j \in i + 1 .. n + 1 : j \in S PROVE i \in S
  <2>1. CASE i = n + 1
    <3>1. i + d = Len(x) + 1
      BY <1>0, <2>1
    <3>2. f[i + d] = <<>> /\ g[i] = <<>>
      BY <2>1, <3>1 DEF Tokenizes
    <3> QED BY <3>2, MovedEmpty
  <2>2. CASE i \in 1 .. n
    <3> DEFINE t == TokenAt(x, i + d)
               u == TokenAt(y, i)
               r == g[u.next]
    <3>1. t.type = u.type /\ t.next = u.next + d /\ t.lines = u.lines
      BY <2>2, TurnBehind DEF SameTurn
    <3>2. u.next \in i + 1 .. n + 1 /\ u.lines = Newlines(y, i, u.next - 1) /\ u.type \in LexemeTypes
      BY <2>2, TurnAdvances
    <3>3. i + d \in 1 .. Len(x)
      BY <1>0, <2>2
    <3>4. f[i + d] = Beginning(x, i + d) \o Moved(f[t.next], 0, t.lines)
      BY <3>3 DEF Tokenizes
    <3>5. g[i] = Beginning(y, i) \o Moved(r, 0, u.lines)
      BY <2>2 DEF Tokenizes
    <3>6. u.next \in S
      BY <1>1, <3>2
    <3>7. u.next \in 1 .. n + 1 /\ r \in Seq(Lexemes)
      <4>1. u.next \in 1 .. n + 1
        BY <1>0, <2>2, <3>2
      <4> QED BY <4>1 DEF Tokenizes
    <3>8. u.lines \in Nat /\ i \in Nat
      <4>1. u.next - 1 \in Int /\ i \in Int /\ i \in Nat
        BY <1>0, <2>2, <3>2
      <4> QED BY <3>2, <4>1, NewlinesNat
    <3>9. Beginning(y, i) \in Seq(Lexemes) /\ Beginning(x, i + d) = Moved(Beginning(y, i), d, 0)
      BY <3>1, <3>2, <3>8, BeginningBehind
    <3>10. f[t.next] = Moved(r, d, 0)
      BY <3>1, <3>6
    <3>11. Moved(Beginning(y, i) \o Moved(r, 0, u.lines), d, 0)
             = Moved(Beginning(y, i), d, 0) \o Moved(Moved(r, d, 0), 0, u.lines)
      <4> HIDE DEF u, r
      <4> QED BY <3>7, <3>8, <3>9, MovedAside
    <3>12. f[i + d] = Moved(g[i], d, 0)
      <4> HIDE DEF t, u, r
      <4> QED BY <3>1, <3>4, <3>5, <3>9, <3>10, <3>11
    <3> QED BY <3>12
  <2> QED BY <1>0, <2>1, <2>2
<1> HIDE DEF S
<1>2. 1 .. n + 1 \subseteq S
  BY <1>0, <1>1, DownTo
<1> QED BY <1>2 DEF S

\* The tokens of a text are those of its first k characters and those of the rest.
ReadInParts(x, k, f, g, h) == f[1] = g[1] \o Moved(h[1], k, Newlines(x, 1, k))

LEMMA TokensAhead ==
  ASSUME NEW x \in Seq(Chars), NEW y \in Seq(Chars), NEW z \in Seq(Chars),
         Ahead(x, y), y # <<>>, Closed(y), Behind(x, z, Len(y)),
         NEW f, NEW g, NEW h, Tokenizes(x, f), Tokenizes(y, g), Tokenizes(z, h)
  PROVE  ReadInParts(x, Len(y), f, g, h)
<1> DEFINE k == Len(y)
           rest == h[1]
           S == {i \in 1 .. k + 1 : f[i] = g[i] \o Moved(rest, k, Newlines(x, i, k))}
<1>0. k \in Nat \ {0} /\ k <= Len(x) /\ Len(x) \in Nat /\ k + 1 \in Nat /\ 1 \in Nat /\ Len(z) \in Nat
  BY DEF Ahead
<1>1. rest \in Seq(Lexemes) /\ f[k + 1] = Moved(rest, k, 0)
  <2>1. 1 \in 1 .. Len(z) + 1 /\ 1 + k = k + 1
    BY <1>0
  <2>2. f[1 + k] = Moved(h[1], k, 0)
    BY <1>0, <2>1, TokensBehind
  <2> QED BY <2>1, <2>2 DEF Tokenizes
<1> HIDE DEF rest
<1>2. ASSUME NEW i \in 1 .. k + 1, \A j \in i + 1 .. k + 1 : j \in S PROVE i \in S
  <2>1. CASE i = k + 1
    <3>1. g[i] = <<>>
      BY <2>1 DEF Tokenizes
    <3>2. Newlines(x, i, k) = 0
      <4>1. i \in Nat /\ i - 1 = k
        BY <1>0, <2>1
      <4> QED BY <4>1, NoNewlines
    <3>3. Moved(rest, k, 0) \in Seq(Lexemes)
      BY <1>0, <1>1, MovedFacts
    <3>4. <<>> \o Moved(rest, k, 0) = Moved(rest, k, 0)
      BY <3>3
    <3> QED BY <1>1, <2>1, <3>1, <3>2, <3>4
  <2>2. CASE i \in 1 .. k
    <3> DEFINE t == TokenAt(x, i)
               r == g[t.next]
               l == Newlines(x, t.next, k)
    <3>1. TokenAt(y, i) = t
      BY <2>2, TurnAhead
    <3>2. t.next \in i + 1 .. k + 1 /\ t.type \in LexemeTypes
      BY <2>2, <3>1, TurnAdvances
    <3>3. i \in 1 .. Len(x) /\ t.next \in 1 .. k + 1 /\ i \in Nat \ {0} /\ t.next \in Nat \ {0}
      BY <1>0, <2>2, <3>2
    <3>4. t.lines = Newlines(x, i, t.next - 1)
      BY <3>3, TurnAdvances
    <3>5. f[i] = Beginning(x, i) \o Moved(f[t.next], 0, t.lines)
      BY <3>3 DEF Tokenizes
    <3>6. g[i] = Beginning(x, i) \o Moved(r, 0, t.lines)
      BY <2>2, <3>1 DEF Tokenizes, Beginning
    <3>7. r \in Seq(Lexemes)
      BY <3>3 DEF Tokenizes
    <3>8. Beginning(x, i) \in Seq(Lexemes)
      <4>1. i + 0 = i
        BY <3>3
      <4> QED BY <3>2, <3>3, <4>1, BeginningBehind
    <3>9. f[t.next] = r \o Moved(rest, k, l)
      BY <1>2, <3>2
    <3> HIDE DEF t, r
    <3>10. t.lines \in Nat /\ l \in Nat /\ Newlines(x, i, k) = t.lines + l
      <4>1. /\ i <= t.next /\ t.next <= k + 1 /\ t.next - 1 \in Int /\ t.next \in Int /\ k \in Int /\ i \in Int
            /\ i \in Nat /\ t.next \in Nat /\ k \in Nat
        BY <1>0, <3>2, <3>3
      <4>2. Newlines(x, i, k) = Newlines(x, i, t.next - 1) + Newlines(x, t.next, k)
        BY <4>1, NewlinesAdd
      <4> QED BY <3>4, <4>1, <4>2, NewlinesNat
    <3> HIDE DEF l
    <3>11. Moved(rest, k, l) \in Seq(Lexemes) /\ Moved(r, 0, t.lines) \in Seq(Lexemes)
      BY <1>0, <1>1, <3>7, <3>10, MovedFacts
    <3>12. Moved(r \o Moved(rest, k, l), 0, t.lines) = Moved(r, 0, t.lines) \o Moved(rest, k, l + t.lines)
      <4> DEFINE m == t.lines
      <4>1. k \in Nat /\ l \in Nat /\ m \in Nat /\ r \in Seq(Lexemes) /\ rest \in Seq(Lexemes)
        BY <1>0, <1>1, <3>7, <3>10
      <4> HIDE DEF k, m
      <4>2. Moved(r \o Moved(rest, k, l), 0, m) = Moved(r, 0, m) \o Moved(rest, k, l + m)
        BY ONLY <4>1, MovedBoth, Zenon
      <4> QED BY <4>2 DEF m
    <3>13. l + t.lines = Newlines(x, i, k)
      BY <3>10
    <3>14. Moved(rest, k, Newlines(x, i, k)) \in Seq(Lexemes)
      <4>1. Newlines(x, i, k) \in Nat /\ k \in Nat
        BY <1>0, <3>10
      <4> QED BY <1>1, <4>1, MovedFacts
    <3>15. \A p, q, s \in Seq(Lexemes) : p \o (q \o s) = (p \o q) \o s
      OBVIOUS
    <3>16. f[i] = Beginning(x, i) \o (Moved(r, 0, t.lines) \o Moved(rest, k, Newlines(x, i, k)))
      BY ONLY <3>5, <3>9, <3>12, <3>13
    <3>17. f[i] = g[i] \o Moved(rest, k, Newlines(x, i, k))
      BY ONLY <3>6, <3>8, <3>11, <3>14, <3>15, <3>16
    <3> QED BY <3>17
  <2> QED BY <1>0, <2>1, <2>2
<1> HIDE DEF S
<1>3. 1 .. k + 1 \subseteq S
  <2>1. k + 1 \in Nat /\ 1 \in Nat
    BY <1>0
  <2> HIDE DEF k
  <2> QED BY <1>2, <2>1, DownTo
<1>4. 1 \in S
  <2>1. 1 \in 1 .. k + 1
    BY <1>0
  <2> QED BY <1>3, <2>1
<1> QED BY <1>4 DEF S, rest, ReadInParts

\* Behind a newline that nothing carries on, reading starts afresh.
LEMMA ReadsAfresh ==
  ASSUME NEW x \in Seq(Chars), NEW k \in DOMAIN x, Closed(SubSeq(x, 1, k))
  PROVE  Tokenize(x) = Tokenize(SubSeq(x, 1, k))
                         \o Moved(Tokenize(SubSeq(x, k + 1, Len(x))), k, RawLine(x, k + 1) - 1)
<1> DEFINE n == Len(x)
           y == SubSeq(x, 1, k)
           z == SubSeq(x, k + 1, n)
<1>1. n \in Nat /\ DOMAIN x = 1 .. n /\ k \in 1 .. n /\ k \in Nat \ {0}
  OBVIOUS
<1>2. y \in Seq(Chars) /\ Len(y) = k /\ (\A j \in 1 .. k : y[j] = x[j]) /\ y # <<>>
  BY <1>1
<1>3. z \in Seq(Chars) /\ Len(z) = n - k /\ \A j \in 1 .. n - k : z[j] = x[j + k]
  BY <1>1
<1> HIDE DEF y, z, n
<1>4. Ahead(x, y) /\ Behind(x, z, Len(y))
  BY <1>1, <1>2, <1>3 DEF Ahead, Behind, n
<1>5. PICK f : Tokenizes(x, f) /\ Tokenize(x) = f[1]
  BY TokenizeIsLoop
<1>6. PICK g : Tokenizes(y, g) /\ Tokenize(y) = g[1]
  BY <1>2, TokenizeIsLoop
<1>7. PICK h : Tokenizes(z, h) /\ Tokenize(z) = h[1]
  BY <1>3, TokenizeIsLoop
<1>8. ReadInParts(x, Len(y), f, g, h)
  <2>1. Closed(y)
    BY DEF y
  <2>2. y # <<>> /\ y \in Seq(Chars) /\ z \in Seq(Chars)
    BY <1>2, <1>3
  <2> QED BY <1>4, <1>5, <1>6, <1>7, <2>1, <2>2, TokensAhead
<1>9. RawLine(x, k + 1) - 1 = Newlines(x, 1, k)
  <2>1. (k + 1) - 1 = k /\ Newlines(x, 1, k) \in Nat
    BY <1>1, NewlinesNat
  <2> QED BY <2>1 DEF RawLine
<1>10. Tokenize(x) = Tokenize(y) \o Moved(Tokenize(z), k, RawLine(x, k + 1) - 1)
  BY <1>2, <1>5, <1>6, <1>7, <1>8, <1>9 DEF ReadInParts
<1> QED BY <1>10 DEF y, z, n

\* A quote without its partner spoils at most the rest of its line, in a text of
\* any length: behind a newline that nothing carries on, the tokens are those of
\* the text that follows (tokenize).
THEOREM RecoversAtNewlineHolds == TokenInit /\ [][TypeChar]_source => []RecoversAtNewline
<1>1. TokenInit => source \in Seq(Chars)
  BY DEF TokenInit
<1>2. source \in Seq(Chars) /\ [TypeChar]_source => (source \in Seq(Chars))'
  BY DEF TypeChar
<1>3. source \in Seq(Chars) => RecoversAtNewline
  BY ReadsAfresh DEF RecoversAtNewline
<1> QED BY <1>1, <1>2, <1>3, PTL

-----------------------------------------------------------------------------
(* The lint run: what is in a report and what the verdict goes by. *)

\* The rules a half reports on, "" for what it cannot parse.
RulesOf(half) == IF half = "js" THEN Rules \cup {""} ELSE {"ores/require-send"}

\* The repository is one of those looked at, from the start to the end.
Chosen ==
  /\ world \in Worlds
  /\ outcome \in [world.files -> world.holds]
  /\ stage \in {"note", "eslint", "format", "scan", "verdict", "end"}

\* The results so far are those of the files ESLint has examined, each once.
ResultFiles == {jsResults[i].file : i \in DOMAIN jsResults}

Results == [file : world.files, messages : Seq(Rules \cup {""})]

Collected ==
  /\ jsResults \in Seq(Results)
  /\ \A i \in DOMAIN jsResults : jsResults[i].messages = MessagesFor(jsResults[i].file)
  /\ \A i, j \in DOMAIN jsResults : jsResults[i].file = jsResults[j].file => i = j
  /\ stage = "note" => jsResults = <<>>
  /\ stage = "eslint" => left \subseteq JsFiles /\ ResultFiles = There(JsFiles \ left)
  /\ stage = "format" => ResultFiles = ReadBy("js")

\* The messages of these rules that the formatter has gone through.
Passed(i, k) == i <= fmt.files \/ (i = fmt.files + 1 /\ k < fmt.message)
Counted(i, rules) == {k \in DOMAIN jsResults[i].messages : Passed(i, k) /\ jsResults[i].messages[k] \in rules}
Looked(rules) == UNION {{jsResults[i].file} \X Counted(i, rules) : i \in DOMAIN jsResults}

Counters ==
  [files : Nat, errors : Nat, warnings : Nat, parse : Nat,
   count : [Rules -> Nat], examples : [Rules -> Nat], message : Nat \ {0}]

\* The counters are the numbers of messages gone through, and what is shown of
\* a rule is what its number leaves room for.

Tallied ==
  /\ fmt \in Counters /\ fmt.files <= Len(jsResults)
  /\ stage \in {"note", "eslint"} => fmt = NoFmt
  /\ stage = "format" =>
       /\ IF Formatted THEN fmt.message = 1 ELSE fmt.message <= Len(NextMessages) + 1
       /\ fmt.errors + fmt.warnings = Cardinality(Looked(Rules \cup {""}))
       /\ fmt.parse = Cardinality(Looked({""}))
       /\ \A r \in Rules : /\ fmt.count[r] = Cardinality(Looked({r}))
                           /\ fmt.examples[r] = ShownOf(fmt.count[r])

\* What the scanner has found in the files it has read.
FoundIn(files) ==
  UNION {{f} \X {k \in DOMAIN outcome[f].messages :
                    outcome[f].messages[k] \in {"ores/require-send"}} : f \in files}

ScannerCounts ==
  /\ stage \in {"note", "eslint", "format"} => scanResults = [files |-> 0, all |-> 0]
  /\ stage = "scan" =>
       /\ left \subseteq ScanFiles
       /\ scanResults.files = Cardinality(There(ScanFiles \ left))
       /\ scanResults.all = Cardinality(FoundIn(There(ScanFiles \ left)))

RightReport(r) ==
  /\ r.half \in {"js", "scan"} /\ DOMAIN r.shown = RulesOf(r.half)
  /\ r.total = Cardinality(Found(r.half, RulesOf(r.half)))
  /\ r.says = Says(r.total, Cardinality(ReadBy(r.half)))
  /\ MAX # <<>> =>
       \A m \in RulesOf(r.half) : r.shown[m] + r.more[m] = Cardinality(Found(r.half, {m}))

\* The reports are right, those of the halves that ran are there, and the exit
\* code goes by them.
Judged ==
  /\ \A r \in written : r = [half |-> "note"] \/ RightReport(r)
  /\ \A r \in written : r.half = "scan" => ~Env.skipScan
  /\ stage \in {"scan", "verdict", "end"} => Refused \/ \E r \in written : r.half = "js"
  /\ stage \in {"verdict", "end"} => Env.skipScan \/ \E r \in written : r.half = "scan"
  /\ stage = "end" =>
       (exit = 1 <=> Env.strict /\ \E r \in written : r.half # "note" /\ r.says = "findings")

\* Inductive: a report is right because the counters were, and those because
\* every file is in the results once.
RunInv == Chosen /\ Collected /\ Tallied /\ ScannerCounts /\ Judged

-----------------------------------------------------------------------------
\* What depends on the repository and what the rules have to say of it stays.
LEMMA Steady ==
  ASSUME world' = world, outcome' = outcome
  PROVE  /\ JsFiles' = JsFiles /\ ScanFiles' = ScanFiles /\ Env' = Env /\ MAX' = MAX /\ (Refused <=> Refused')
         /\ \A files : There(files)' = There(files) /\ FoundIn(files)' = FoundIn(files)
         /\ \A f : MessagesFor(f)' = MessagesFor(f)
         /\ \A half : ReadBy(half)' = ReadBy(half)
         /\ \A r : RightReport(r) => RightReport(r)'
<1>1. JsFiles' = JsFiles /\ ScanFiles' = ScanFiles /\ Env' = Env /\ MAX' = MAX /\ (Refused <=> Refused')
  BY DEF JsFiles, ScanFiles, Env, MAX, Refused
<1>2. \A files : There(files)' = There(files) /\ FoundIn(files)' = FoundIn(files)
  BY DEF There, FoundIn
<1>3. \A f : MessagesFor(f)' = MessagesFor(f)
  BY DEF MessagesFor, SemiRule
<1>4. \A half : ReadBy(half)' = ReadBy(half)
  BY <1>1, <1>2 DEF ReadBy
<1>5. \A half, f : MessagesOf(half, f)' = MessagesOf(half, f)
  BY <1>3 DEF MessagesOf
<1>6. \A half, rules : Found(half, rules)' = Found(half, rules)
  BY <1>4, <1>5 DEF Found
<1>7. \A r : RightReport(r) => RightReport(r)'
  BY <1>1, <1>4, <1>6 DEF RightReport
<1> QED BY <1>1, <1>2, <1>3, <1>4, <1>7

\* The messages of a file are names of rules, or "" for a parse error.
LEMMA MessagesAreRules ==
  ASSUME Chosen, NEW f \in world.files
  PROVE  /\ outcome[f].messages \in Seq(Rules)
         /\ MessagesFor(f) \in Seq(Rules \cup {""})
<1>1. outcome[f].messages \in Seq(Rules)
  BY WorldsAssumption DEF Chosen
<1> DEFINE m == outcome[f].messages
<1>2. m \in Seq(Rules)
  BY <1>1
<1> HIDE DEF m
<1>3. "semi" \in Rules /\ SemiRule \in Rules
  BY DEF Rules, SemiRule
<1>4. [k \in DOMAIN m |-> IF m[k] = "semi" THEN SemiRule ELSE m[k]] \in Seq(Rules \cup {""})
  <2> DEFINE new(k) == IF m[k] = "semi" THEN SemiRule ELSE m[k]
  <2> HIDE DEF new
  <2>1. ASSUME NEW k \in 1 .. Len(m) PROVE new(k) \in Rules \cup {""}
    <3>1. m[k] \in Rules
      BY <1>2
    <3> QED BY <1>3, <3>1 DEF new
  <2>2. DOMAIN m = 1 .. Len(m) /\ Len(m) \in Nat
    BY <1>2
  <2> DEFINE n == Len(m)
             X == Rules \cup {""}
  <2> HIDE DEF n, X
  <2>3. n \in Nat /\ \A k \in 1 .. n : new(k) \in X
    BY <2>1, <2>2 DEF n, X
  <2>4. [k \in 1 .. n |-> new(k)] \in Seq(X)
    BY <2>3
  <2> QED BY <2>2, <2>4 DEF new, n, X
<1>5. <<"">> \in Seq(Rules \cup {""})
  OBVIOUS
<1>6. MessagesFor(f) = <<"">> \/ MessagesFor(f) = [k \in DOMAIN m |-> IF m[k] = "semi" THEN SemiRule ELSE m[k]]
  BY DEF MessagesFor, m
<1> QED BY <1>1, <1>4, <1>5, <1>6

\* The places of some elements in the sequences of a family.
Among(lists, rules) ==
  UNION {{f} \X {k \in DOMAIN lists[f] : lists[f][k] \in rules} : f \in DOMAIN lists}

LEMMA AmongIsFinite ==
  ASSUME NEW files, IsFiniteSet(files), NEW X, NEW lists \in [files -> Seq(X)], NEW rules
  PROVE  IsFiniteSet(Among(lists, rules))
<1> DEFINE places(f) == {f} \X {k \in DOMAIN lists[f] : lists[f][k] \in rules}
           all == {places(f) : f \in files}
<1>1. ASSUME NEW f \in files PROVE IsFiniteSet(places(f))
  <2>1. lists[f] \in Seq(X)
    OBVIOUS
  <2>2. DOMAIN lists[f] = 1 .. Len(lists[f]) /\ Len(lists[f]) \in Nat
    BY <2>1
  <2> DEFINE K == {k \in DOMAIN lists[f] : lists[f][k] \in rules}
  <2>3. K \subseteq 1 .. Len(lists[f])
    BY <2>2
  <2>4. IsFiniteSet(1 .. Len(lists[f]))
    BY <2>2, FS_Interval
  <2> HIDE DEF K
  <2>5. IsFiniteSet(K)
    BY <2>3, <2>4, FS_Subset
  <2>6. IsFiniteSet({f} \X K)
    BY <2>5, FS_Singleton, FS_Product
  <2> QED BY <2>6 DEF K
<1>2. Among(lists, rules) = UNION all
  BY DEF Among
<1> HIDE DEF places
<1>3. IsFiniteSet(all)
  <2> DEFINE g == [f \in files |-> places(f)]
  <2>1. g \in Surjection(files, all)
    BY DEF Surjection
  <2> QED BY <2>1, FS_Surjection
<1>4. \A T \in all : IsFiniteSet(T)
  BY <1>1
<1> HIDE DEF all
<1> QED BY <1>2, <1>3, <1>4, FS_UNION

\* The sets of files and findings are finite.
LEMMA FoundIsFinite ==
  ASSUME Chosen, NEW half, NEW rules
  PROVE  /\ IsFiniteSet(JsFiles) /\ IsFiniteSet(ScanFiles) /\ IsFiniteSet(ReadBy(half))
         /\ IsFiniteSet(Found(half, rules))
<1>1. IsFiniteSet(world.files)
  BY WorldsAssumption DEF Chosen
<1>2. JsFiles \subseteq world.files /\ ScanFiles \subseteq world.files /\ ReadBy(half) \subseteq world.files
  BY DEF JsFiles, ScanFiles, ReadBy, There
<1>3. IsFiniteSet(JsFiles) /\ IsFiniteSet(ScanFiles) /\ IsFiniteSet(ReadBy(half))
  BY <1>1, <1>2, FS_Subset
<1> DEFINE X == Rules \cup {""}
           files == ReadBy(half)
           lists == [f \in files |-> MessagesOf(half, f)]
<1>4. ASSUME NEW f \in files PROVE MessagesOf(half, f) \in Seq(X)
  <2>1. outcome[f].messages \in Seq(Rules) /\ MessagesFor(f) \in Seq(X)
    BY <1>2, MessagesAreRules
  <2>2. outcome[f].messages \in Seq(X)
    <3> DEFINE m == outcome[f].messages
    <3> HIDE DEF m, X
    <3>1. m \in Seq(Rules) /\ Rules \subseteq X
      BY <2>1 DEF m, X
    <3>2. m \in Seq(X)
      BY <3>1
    <3> QED BY <3>2 DEF m
  <2> QED BY <2>1, <2>2 DEF MessagesOf
<1>5. Found(half, rules) = Among(lists, rules)
  BY DEF Found, Among
<1> HIDE DEF X, files
<1>6. lists \in [files -> Seq(X)]
  BY <1>4
<1> HIDE DEF lists
<1>7. IsFiniteSet(Among(lists, rules))
  BY <1>3, <1>6, AmongIsFinite DEF files
<1> QED BY <1>3, <1>5, <1>7

LEMMA MaxFacts ==
  ASSUME Chosen, NEW n \in Nat
  PROVE  /\ ShownOf(0) = 0
         /\ ShownOf(n) \in Nat
         /\ MAX # <<>> => ShownOf(n) + MoreOf(n) = n
         /\ ShownOf(n + 1) = IF MAX # <<>> /\ ShownOf(n) < MAX[1] THEN ShownOf(n) + 1 ELSE ShownOf(n)
<1>1. MAX # <<>> => MAX[1] \in Nat /\ MAX[1] >= 1
  BY WorldsAssumption DEF Chosen, MAX, Env
<1> QED BY <1>1 DEF ShownOf, MoreOf, Above

LEMMA CountRuleFacts ==
  ASSUME NEW f \in Counters, NEW r \in Rules
  PROVE  LET g == CountRule(f, r) IN
         /\ g \in Counters
         /\ g.files = f.files /\ g.message = f.message /\ g.errors = f.errors /\ g.parse = f.parse
         /\ g.warnings = f.warnings + 1
         /\ \A q \in Rules : q # r => g.count[q] = f.count[q] /\ g.examples[q] = f.examples[q]
         /\ g.count[r] = f.count[r] + 1
         /\ g.examples[r] = IF MAX # <<>> /\ f.examples[r] < MAX[1] THEN f.examples[r] + 1 ELSE f.examples[r]
<1> DEFINE g == CountRule(f, r)
           h == [f EXCEPT !.warnings = @ + 1]
           k == [h EXCEPT !.count[r] = f.count[r] + 1]
           more == IF MAX # <<>> /\ f.examples[r] < MAX[1] THEN f.examples[r] + 1 ELSE f.examples[r]
<1>1. g = [k EXCEPT !.examples[r] = more]
  BY Zenon DEF CountRule
<1>2. /\ h \in Counters
      /\ h.files = f.files /\ h.message = f.message /\ h.errors = f.errors /\ h.parse = f.parse
      /\ h.warnings = f.warnings + 1 /\ h.count = f.count /\ h.examples = f.examples
  BY DEF Counters
<1> HIDE DEF h
<1>3. /\ k \in Counters
      /\ k.files = h.files /\ k.message = h.message /\ k.errors = h.errors /\ k.parse = h.parse
      /\ k.warnings = h.warnings /\ k.examples = h.examples
      /\ k.count = [h.count EXCEPT ![r] = f.count[r] + 1]
  <2>1. f.count[r] + 1 \in Nat
    BY DEF Counters
  <2> QED BY <1>2, <2>1 DEF Counters
<1> HIDE DEF k
<1>4. more \in Nat
  <2>1. f.examples[r] \in Nat
    BY DEF Counters
  <2> QED BY <2>1
<1> HIDE DEF more, g
<1>5. /\ g \in Counters
      /\ g.files = k.files /\ g.message = k.message /\ g.errors = k.errors /\ g.parse = k.parse
      /\ g.warnings = k.warnings /\ g.count = k.count
      /\ g.examples = [k.examples EXCEPT ![r] = more]
  BY <1>1, <1>3, <1>4 DEF Counters
<1>6. f.count \in [Rules -> Nat] /\ f.examples \in [Rules -> Nat]
  BY DEF Counters
<1>7. g.count = [f.count EXCEPT ![r] = f.count[r] + 1] /\ g.examples = [f.examples EXCEPT ![r] = more]
  BY <1>2, <1>3, <1>5
<1>8. /\ \A q \in Rules : q # r => g.count[q] = f.count[q] /\ g.examples[q] = f.examples[q]
      /\ g.count[r] = f.count[r] + 1 /\ g.examples[r] = more
  BY <1>6, <1>7
<1>9. /\ g \in Counters
      /\ g.files = f.files /\ g.message = f.message /\ g.errors = f.errors /\ g.parse = f.parse
      /\ g.warnings = f.warnings + 1
  BY <1>2, <1>3, <1>5
<1> QED BY <1>8, <1>9 DEF g, more

LEMMA ResultFacts ==
  ASSUME Collected
  PROVE  /\ Len(jsResults) \in Nat /\ DOMAIN jsResults = 1 .. Len(jsResults)
         /\ \A i \in DOMAIN jsResults :
              LET list == jsResults[i].messages IN
              /\ list \in Seq(Rules \cup {""}) /\ Len(list) \in Nat
              /\ DOMAIN list = 1 .. Len(list) /\ \A k \in 1 .. Len(list) : list[k] \in Rules \cup {""}
<1>1. jsResults \in Seq(Results)
  BY DEF Collected
<1>2. Len(jsResults) \in Nat /\ DOMAIN jsResults = 1 .. Len(jsResults)
  BY <1>1
<1>3. ASSUME NEW i \in DOMAIN jsResults
      PROVE  LET list == jsResults[i].messages IN
             /\ list \in Seq(Rules \cup {""}) /\ Len(list) \in Nat
             /\ DOMAIN list = 1 .. Len(list) /\ \A k \in 1 .. Len(list) : list[k] \in Rules \cup {""}
  <2> DEFINE list == jsResults[i].messages
             X == Rules \cup {""}
  <2>1. jsResults[i] \in Results
    BY <1>1
  <2>2. list \in Seq(X)
    BY <2>1 DEF Results
  <2> HIDE DEF list, X
  <2>3. Len(list) \in Nat /\ DOMAIN list = 1 .. Len(list) /\ \A k \in 1 .. Len(list) : list[k] \in X
    BY <2>2
  <2> QED BY <2>2, <2>3 DEF list, X
<1> QED BY <1>2, <1>3

\* Where the formatter stands: looking at one more message adds its place.
LEMMA OneLook ==
  ASSUME Chosen, Collected, Tallied, FormatMessage, NEW rules
  PROVE  LET r == NextMessages[fmt.message] IN
         /\ r \in Rules \cup {""}
         /\ Cardinality(Looked(rules)) \in Nat
         /\ fmt'.files = fmt.files /\ fmt'.message = fmt.message + 1 =>
              Cardinality(Looked(rules))' = Cardinality(Looked(rules)) + (IF r \in rules THEN 1 ELSE 0)
<1>0. PICK i : i = fmt.files + 1
  OBVIOUS
<1> DEFINE k == fmt.message
           list == jsResults[i].messages
           r == list[k]
           p == <<jsResults[i].file, k>>
<1>1. jsResults' = jsResults /\ stage = "format" /\ fmt.files # Len(jsResults) /\ k <= Len(list)
  BY <1>0 DEF FormatMessage, Formatted, NextMessages
<1>2. /\ fmt.files \in Nat /\ k \in Nat \ {0} /\ fmt.files <= Len(jsResults)
  BY DEF Tallied, Counters
<1>3. i \in DOMAIN jsResults /\ k \in DOMAIN list /\ r \in Rules \cup {""}
  <2>1. Len(jsResults) \in Nat /\ DOMAIN jsResults = 1 .. Len(jsResults)
    BY ResultFacts
  <2>2. i \in DOMAIN jsResults
    BY <1>0, <1>1, <1>2, <2>1
  <2>3. DOMAIN list = 1 .. Len(list) /\ \A q \in 1 .. Len(list) : list[q] \in Rules \cup {""}
    BY <2>2, ResultFacts
  <2>4. k \in 1 .. Len(list)
    <3>1. Len(list) \in Nat
      BY <2>2, ResultFacts
    <3> HIDE DEF list
    <3> QED BY <1>1, <1>2, <3>1
  <2> HIDE DEF list, k
  <2> QED BY <2>2, <2>3, <2>4 DEF r
<1>4. IsFiniteSet(Looked(rules))
  <2>1. ResultFiles = ReadBy("js")
    BY <1>1 DEF Collected
  <2>2. Looked(rules) \subseteq Found("js", rules)
    <3>1. \A j \in DOMAIN jsResults :
            /\ jsResults[j].file \in ReadBy("js")
            /\ Counted(j, rules) \subseteq
                 {q \in DOMAIN MessagesOf("js", jsResults[j].file) : MessagesOf("js", jsResults[j].file)[q] \in rules}
      BY <2>1 DEF ResultFiles, Collected, Counted, MessagesOf
    <3> QED BY <3>1 DEF Looked, Found
  <2> QED BY <2>2, FoundIsFinite, FS_Subset
<1>5. p \notin Looked(rules)
  <2>1. ASSUME NEW j \in DOMAIN jsResults, p \in {jsResults[j].file} \X Counted(j, rules)
        PROVE  FALSE
    <3>1. jsResults[j].file = jsResults[i].file /\ k \in Counted(j, rules)
      BY <2>1
    <3>2. j = i
      BY <1>3, <3>1 DEF Collected
    <3>3. Passed(i, k)
      BY <3>1, <3>2 DEF Counted
    <3>4. ~(i <= fmt.files) /\ ~(k < fmt.message)
      BY <1>0, <1>2
    <3> QED BY <1>0, <3>3, <3>4 DEF Passed
  <2> QED BY <2>1 DEF Looked
<1>6. ASSUME fmt'.files = fmt.files, fmt'.message = fmt.message + 1
      PROVE  Looked(rules)' = IF r \in rules THEN Looked(rules) \cup {p} ELSE Looked(rules)
  <2>1. ASSUME NEW j \in DOMAIN jsResults, NEW q \in DOMAIN jsResults[j].messages
        PROVE  Passed(j, q)' <=> Passed(j, q) \/ (j = i /\ q = k)
    <3>1. j \in Nat /\ q \in Nat
      <4>1. DOMAIN jsResults = 1 .. Len(jsResults) /\ Len(jsResults) \in Nat
        BY ResultFacts
      <4> DEFINE m == jsResults[j].messages
      <4>2. DOMAIN m = 1 .. Len(m) /\ Len(m) \in Nat /\ q \in DOMAIN m
        BY ResultFacts
      <4> HIDE DEF m
      <4> QED BY <4>1, <4>2
    <3> QED BY <1>0, <1>2, <1>6, <3>1 DEF Passed
  <2>2. \A j \in DOMAIN jsResults :
          Counted(j, rules)' = IF j = i /\ r \in rules THEN Counted(j, rules) \cup {k} ELSE Counted(j, rules)
    BY <1>1, <1>3, <2>1 DEF Counted
  <2>3. Looked(rules)' = UNION {{jsResults[j].file} \X Counted(j, rules)' : j \in DOMAIN jsResults}
    BY <1>1 DEF Looked
  <2>4. CASE r \notin rules
    BY <2>2, <2>3, <2>4 DEF Looked
  <2>5. CASE r \in rules
    <3> DEFINE cells(j) == {jsResults[j].file} \X Counted(j, rules)
               new(j) == {jsResults[j].file} \X Counted(j, rules)'
    <3>1. new(i) = cells(i) \cup {p}
      <4> DEFINE C == Counted(i, rules)
      <4>1. Counted(i, rules)' = C \cup {k}
        BY <1>3, <2>2, <2>5
      <4> HIDE DEF C, k
      <4>2. {jsResults[i].file} \X (C \cup {k}) = ({jsResults[i].file} \X C) \cup {<<jsResults[i].file, k>>}
        OBVIOUS
      <4> QED BY <4>1, <4>2 DEF C
    <3>2. \A j \in DOMAIN jsResults : j # i => new(j) = cells(j)
      BY <2>2
    <3>3. Looked(rules)' = UNION {new(j) : j \in DOMAIN jsResults}
      BY <2>3
    <3>4. Looked(rules) = UNION {cells(j) : j \in DOMAIN jsResults}
      BY DEF Looked
    <3> HIDE DEF new, cells, p
    <3>5. UNION {new(j) : j \in DOMAIN jsResults} = (UNION {cells(j) : j \in DOMAIN jsResults}) \cup {p}
      <4>1. i \in DOMAIN jsResults
        BY <1>3
      <4> QED BY <3>1, <3>2, <4>1
    <3> QED BY <2>5, <3>3, <3>4, <3>5
  <2> QED BY <2>4, <2>5
<1> DEFINE L == Looked(rules)
<1> HIDE DEF L, p, r
<1>7. Cardinality(L) \in Nat /\ Cardinality(L \cup {p}) = Cardinality(L) + 1
  BY <1>4, <1>5, FS_AddElement, FS_CardinalityType DEF L
<1>8. ASSUME fmt'.files = fmt.files, fmt'.message = fmt.message + 1
      PROVE  Cardinality(L)' = Cardinality(L) + (IF r \in rules THEN 1 ELSE 0)
  <2>1. L' = IF r \in rules THEN L \cup {p} ELSE L
    BY <1>6, <1>8 DEF L
  <2> QED BY <1>7, <2>1
<1> QED BY <1>0, <1>3, <1>7, <1>8 DEF L, r, NextMessages

-----------------------------------------------------------------------------
\* What a step leaves of the invariant when it leaves its variables.
LEMMA ChosenStays ==
  ASSUME Chosen, world' = world, outcome' = outcome,
         stage' \in {"note", "eslint", "format", "scan", "verdict", "end"}
  PROVE  Chosen'
BY DEF Chosen

LEMMA CollectedStays ==
  ASSUME Collected, world' = world, outcome' = outcome, jsResults' = jsResults,
         stage' \notin {"note", "eslint"}, stage' = "format" => ResultFiles = ReadBy("js")
  PROVE  Collected'
<1>1. Results' = Results /\ ResultFiles' = ResultFiles
  BY DEF Results, ResultFiles
<1> QED BY <1>1, Steady DEF Collected

LEMMA TalliedStays ==
  ASSUME Tallied, world' = world, outcome' = outcome, jsResults' = jsResults, fmt' = fmt,
         stage' \notin {"note", "eslint", "format"} \/ stage' = stage
  PROVE  Tallied'
<1>1. \A rules : Looked(rules)' = Looked(rules)
  <2>1. \A i, rules : Counted(i, rules)' = Counted(i, rules)
    BY DEF Counted, Passed
  <2> QED BY <2>1 DEF Looked
<1>2. Counters' = Counters /\ (Formatted' <=> Formatted) /\ NextMessages' = NextMessages
  BY DEF Counters, Formatted, NextMessages
<1>3. \A n : ShownOf(n)' = ShownOf(n)
  BY Steady DEF ShownOf, Above
<1>4. \A rules : Cardinality(Looked(rules))' = Cardinality(Looked(rules))
  BY <1>1
<1>5. (fmt \in Counters /\ fmt.files <= Len(jsResults))'
  BY <1>2 DEF Tallied
<1>6. CASE stage' \notin {"note", "eslint", "format"}
  BY <1>5, <1>6 DEF Tallied
<1>7. CASE stage' = stage
  <2>1. (stage \in {"note", "eslint"} => fmt = NoFmt)'
    BY <1>7 DEF Tallied, NoFmt
  <2>2. ASSUME stage = "format"
        PROVE  /\ (IF Formatted THEN fmt.message = 1 ELSE fmt.message <= Len(NextMessages) + 1)'
               /\ (fmt.errors + fmt.warnings = Cardinality(Looked(Rules \cup {""})))'
               /\ (fmt.parse = Cardinality(Looked({""})))'
    BY <1>2, <1>4, <2>2 DEF Tallied, Rules
  <2>3. ASSUME stage = "format", NEW r \in Rules
        PROVE  (fmt.count[r] = Cardinality(Looked({r})) /\ fmt.examples[r] = ShownOf(fmt.count[r]))'
    <3>1. fmt.count[r] = Cardinality(Looked({r})) /\ fmt.examples[r] = ShownOf(fmt.count[r])
      BY <2>3 DEF Tallied
    <3>2. Cardinality(Looked({r}))' = Cardinality(Looked({r})) /\ ShownOf(fmt.count[r])' = ShownOf(fmt.count[r])
      BY <1>3, <1>4
    <3> QED BY <3>1, <3>2
  <2> QED BY <1>5, <1>7, <2>1, <2>2, <2>3 DEF Tallied, Rules
<1> QED BY <1>6, <1>7

LEMMA ScannedStays ==
  ASSUME ScannerCounts, world' = world, outcome' = outcome, scanResults' = scanResults,
         stage' \in {"note", "eslint", "format"} => stage \in {"note", "eslint", "format"},
         stage' = "scan" => stage = "scan" /\ left' = left
  PROVE  ScannerCounts'
BY Steady DEF ScannerCounts

LEMMA JudgedStays ==
  ASSUME Judged, world' = world, outcome' = outcome, written' = written, exit' = exit,
         stage' \in {"scan", "verdict", "end"} => stage \in {"scan", "verdict", "end"},
         stage' \in {"verdict", "end"} => stage \in {"verdict", "end"},
         stage' = "end" => stage = "end"
  PROVE  Judged'
<1>1. /\ \A r \in written : r = [half |-> "note"] \/ RightReport(r)
      /\ \A r \in written : r.half = "scan" => ~Env.skipScan
  BY DEF Judged
<1>2. (\A r \in written : r = [half |-> "note"] \/ RightReport(r))'
  BY <1>1, Steady
<1>3. (\A r \in written : r.half = "scan" => ~Env.skipScan)'
  BY <1>1, Steady
<1>4. /\ (stage \in {"scan", "verdict", "end"} => Refused \/ \E r \in written : r.half = "js")'
      /\ (stage \in {"verdict", "end"} => Env.skipScan \/ \E r \in written : r.half = "scan")'
      /\ (stage = "end" =>
           (exit = 1 <=> Env.strict /\ \E r \in written : r.half # "note" /\ r.says = "findings"))'
  BY Steady DEF Judged
<1> QED BY <1>2, <1>3, <1>4 DEF Judged

-----------------------------------------------------------------------------
\* The start, and each step.
LEMMA RunInitInv == RunInit => RunInv
<1> SUFFICES ASSUME RunInit PROVE RunInv
  OBVIOUS
<1>1. Chosen
  BY DEF RunInit, Chosen
<1>2. Collected
  <2>1. <<>> \in Seq(Results)
    OBVIOUS
  <2> QED BY <2>1 DEF RunInit, Collected
<1>3. Tallied
  <2>1. NoFmt \in Counters
    BY DEF NoFmt, Counters
  <2>2. NoFmt.files = 0 /\ Len(<<>>) = 0
    BY DEF NoFmt
  <2> QED BY <2>1, <2>2 DEF RunInit, Tallied
<1>4. ScannerCounts /\ Judged
  BY DEF RunInit, ScannerCounts, Judged
<1> QED BY <1>1, <1>2, <1>3, <1>4 DEF RunInv

LEMMA NoteKeeps == RunInv /\ Note => RunInv'
<1> SUFFICES ASSUME RunInv, Note PROVE RunInv'
  OBVIOUS
<1>0. /\ stage = "note" /\ stage' = "eslint" /\ left' = JsFiles
      /\ world' = world /\ outcome' = outcome /\ jsResults' = jsResults /\ fmt' = fmt
      /\ scanResults' = scanResults /\ exit' = exit
      /\ written' \subseteq written \cup {[half |-> "note"]}
  BY DEF Note
<1>1. Chosen'
  BY <1>0, ChosenStays DEF RunInv
<1>2. Collected'
  <2>1. jsResults = <<>> /\ DOMAIN <<>> = {}
    BY <1>0 DEF RunInv, Collected
  <2>2. jsResults' \in Seq(Results)'
    BY <1>0, <2>1
  <2>3. ResultFiles' = {}
    BY <1>0, <2>1 DEF ResultFiles
  <2>4. There(JsFiles \ left)' = {}
    BY <1>0, Steady DEF There
  <2>5. JsFiles' = left'
    BY <1>0, Steady
  <2> QED BY <1>0, <2>1, <2>2, <2>3, <2>4, <2>5 DEF Collected
<1>3. Tallied'
  <2>1. fmt = NoFmt /\ fmt \in Counters /\ fmt.files <= Len(jsResults)
    BY <1>0 DEF RunInv, Tallied
  <2> QED BY <1>0, <2>1 DEF Tallied, NoFmt, Counters
<1>4. ScannerCounts'
  BY <1>0, ScannedStays DEF RunInv
<1>5. Judged'
  <2>1. (\A r \in written : r = [half |-> "note"] \/ RightReport(r))'
    BY <1>0, Steady DEF RunInv, Judged
  <2>2. (\A r \in written : r.half = "scan" => ~Env.skipScan)'
    <3>1. \A r \in written' : r \in written \/ r.half = "note"
      BY <1>0
    <3> QED BY <1>0, <3>1, Steady DEF RunInv, Judged
  <2> QED BY <1>0, <2>1, <2>2 DEF Judged
<1> QED BY <1>1, <1>2, <1>3, <1>4, <1>5 DEF RunInv

LEMMA EslintRefusesKeeps == RunInv /\ EslintRefuses => RunInv'
<1> SUFFICES ASSUME RunInv, EslintRefuses PROVE RunInv'
  OBVIOUS
<1>0. /\ stage = "eslint" /\ stage' = "scan" /\ left' = ScanFiles /\ Refused
      /\ world' = world /\ outcome' = outcome /\ jsResults' = jsResults /\ fmt' = fmt
      /\ scanResults' = scanResults /\ exit' = exit /\ written' = written
  BY DEF EslintRefuses
<1>1. Chosen' /\ Collected' /\ Tallied'
  BY <1>0, ChosenStays, CollectedStays, TalliedStays DEF RunInv
<1>2. ScannerCounts'
  <2>1. There(ScanFiles \ left)' = {} /\ FoundIn({})' = {} /\ left' = ScanFiles'
    BY <1>0, Steady DEF There, FoundIn
  <2>2. scanResults = [files |-> 0, all |-> 0]
    BY <1>0 DEF RunInv, ScannerCounts
  <2>3. FoundIn(There(ScanFiles \ left))' = {}
    BY <2>1 DEF FoundIn
  <2>4. Cardinality({}) = 0
    BY FS_EmptySet
  <2> QED BY <1>0, <2>1, <2>2, <2>3, <2>4 DEF ScannerCounts
<1>3. Judged'
  BY <1>0, Steady DEF RunInv, Judged
<1> QED BY <1>1, <1>2, <1>3 DEF RunInv

LEMMA ExamineKeeps == ASSUME RunInv, NEW f \in left, Examine(f) PROVE RunInv'
<1>0. /\ stage = "eslint" /\ stage' = "eslint" /\ left' = left \ {f} /\ f \in left
      /\ world' = world /\ outcome' = outcome /\ fmt' = fmt
      /\ scanResults' = scanResults /\ exit' = exit /\ written' = written
  BY DEF Examine
<1>1. Chosen' /\ ScannerCounts' /\ Judged'
  BY <1>0, ChosenStays, ScannedStays, JudgedStays DEF RunInv
<1>2. /\ jsResults \in Seq(Results) /\ f \in JsFiles /\ left \subseteq JsFiles
      /\ ResultFiles = There(JsFiles \ left)
      /\ Len(jsResults) \in Nat /\ DOMAIN jsResults = 1 .. Len(jsResults)
  BY <1>0, ResultFacts DEF RunInv, Collected
<1>3. fmt = NoFmt /\ fmt \in Counters /\ fmt.files = 0
  BY <1>0 DEF RunInv, Tallied, NoFmt
<1>4. CASE ~outcome[f].there
  <2>1. jsResults' = jsResults
    BY <1>4 DEF Examine
  <2>2. There(JsFiles \ left)' = There(JsFiles \ left)
    BY <1>0, <1>4, Steady DEF There
  <2>3. Results' = Results /\ ResultFiles' = ResultFiles /\ JsFiles' = JsFiles
    BY <1>0, <2>1, Steady DEF Results, ResultFiles
  <2>4. (\A i \in DOMAIN jsResults : jsResults[i].messages = MessagesFor(jsResults[i].file))'
    BY <1>0, <2>1, Steady DEF RunInv, Collected
  <2>5. Collected'
    BY <1>0, <1>2, <2>1, <2>2, <2>3, <2>4 DEF RunInv, Collected
  <2>6. Tallied'
    BY <1>0, <2>1, TalliedStays DEF RunInv
  <2> QED BY <1>1, <2>5, <2>6 DEF RunInv
<1>5. CASE outcome[f].there
  <2> DEFINE r == [file |-> f, messages |-> MessagesFor(f)]
             n == Len(jsResults)
  <2>1. jsResults' = Append(jsResults, r)
    BY <1>5 DEF Examine
  <2>2. r \in Results /\ r.file = f /\ r.messages = MessagesFor(f)
    <3>1. f \in world.files
      BY <1>2 DEF JsFiles
    <3> QED BY <3>1, MessagesAreRules DEF RunInv, Results
  <2> HIDE DEF r
  <2>3. /\ jsResults' \in Seq(Results) /\ Len(jsResults') = n + 1 /\ DOMAIN jsResults' = 1 .. n + 1
        /\ jsResults'[n + 1] = r /\ \A i \in 1 .. n : jsResults'[i] = jsResults[i]
    BY <1>2, <2>1, <2>2
  <2> HIDE DEF n
  <2>4. n \in Nat /\ DOMAIN jsResults = 1 .. n /\ \A i \in 1 .. n + 1 : i \in 1 .. n \/ i = n + 1
    BY <1>2 DEF n
  <2>5. Results' = Results /\ JsFiles' = JsFiles
    BY <1>0, Steady DEF Results
  <2>6. ResultFiles' = ResultFiles \cup {f}
    <3>1. \A i \in DOMAIN jsResults' : jsResults'[i].file = f \/ jsResults'[i].file \in ResultFiles
      BY <2>2, <2>3, <2>4 DEF ResultFiles
    <3>2. \A i \in DOMAIN jsResults : i \in DOMAIN jsResults' /\ jsResults'[i].file = jsResults[i].file
      BY <2>3, <2>4
    <3>3. n + 1 \in DOMAIN jsResults' /\ jsResults'[n + 1].file = f
      BY <2>2, <2>3, <2>4
    <3> QED BY <3>1, <3>2, <3>3 DEF ResultFiles
  <2>7. There(JsFiles \ left)' = There(JsFiles \ left) \cup {f} /\ f \notin There(JsFiles \ left)
    <3>1. There(JsFiles \ left)' = {g \in JsFiles \ (left \ {f}) : outcome[g].there}
      BY <1>0, <2>5 DEF There
    <3>2. There(JsFiles \ left) = {g \in JsFiles \ left : outcome[g].there}
      BY DEF There
    <3> QED BY <1>0, <1>2, <1>5, <3>1, <3>2
  <2>8. \A i \in DOMAIN jsResults' : jsResults'[i].messages = MessagesFor(jsResults'[i].file)
    <3>1. \A i \in 1 .. n : jsResults[i].messages = MessagesFor(jsResults[i].file)
      BY <2>4 DEF RunInv, Collected
    <3> QED BY <2>2, <2>3, <2>4, <3>1
  <2>9. \A i, j \in DOMAIN jsResults' : jsResults'[i].file = jsResults'[j].file => i = j
    <3>1. \A i \in 1 .. n : jsResults[i].file # f
      BY <1>2, <2>4, <2>7 DEF ResultFiles
    <3>2. \A i, j \in 1 .. n : jsResults[i].file = jsResults[j].file => i = j
      BY <2>4 DEF RunInv, Collected
    <3> QED BY <2>2, <2>3, <2>4, <3>1, <3>2
  <2>10. Collected'
    <3>1. (\A i \in DOMAIN jsResults : jsResults[i].messages = MessagesFor(jsResults[i].file))'
      BY <1>0, <2>8, Steady
    <3>2. (left \subseteq JsFiles /\ ResultFiles = There(JsFiles \ left))'
      BY <1>0, <1>2, <2>5, <2>6, <2>7
    <3> QED BY <1>0, <2>3, <2>5, <2>9, <3>1, <3>2 DEF Collected
  <2>11. Tallied'
    <3>1. fmt' \in Counters' /\ fmt' = NoFmt' /\ fmt'.files <= Len(jsResults')
      BY <1>0, <1>3, <2>3, <2>4 DEF Counters, NoFmt
    <3> QED BY <1>0, <3>1 DEF Tallied
  <2> QED BY <1>1, <2>10, <2>11 DEF RunInv
<1> QED BY <1>4, <1>5

LEMMA ExaminedKeeps == RunInv /\ Examined => RunInv'
<1> SUFFICES ASSUME RunInv, Examined PROVE RunInv'
  OBVIOUS
<1>0. /\ stage = "eslint" /\ stage' = "format" /\ left = {} /\ left' = left
      /\ world' = world /\ outcome' = outcome /\ jsResults' = jsResults /\ fmt' = fmt
      /\ scanResults' = scanResults /\ exit' = exit /\ written' = written
  BY DEF Examined
<1>1. Chosen' /\ ScannerCounts' /\ Judged'
  BY <1>0, ChosenStays, ScannedStays, JudgedStays DEF RunInv
<1>2. Collected'
  <2>1. ResultFiles = There(JsFiles \ {}) /\ JsFiles \ {} = JsFiles
    BY <1>0 DEF RunInv, Collected
  <2>2. ResultFiles = ReadBy("js")
    BY <2>1 DEF ReadBy
  <2> QED BY <1>0, <2>2, CollectedStays DEF RunInv
<1>3. Tallied'
  <2>1. fmt = NoFmt /\ fmt \in Counters /\ fmt.files <= Len(jsResults)
    BY <1>0 DEF RunInv, Tallied
  <2>2. /\ fmt.files = 0 /\ fmt.message = 1 /\ fmt.errors = 0 /\ fmt.warnings = 0 /\ fmt.parse = 0
        /\ \A r \in Rules : fmt.count[r] = 0 /\ fmt.examples[r] = 0
    BY <2>1 DEF NoFmt
  <2>3. \A rules : Looked(rules) = {}
    <3>1. ASSUME NEW rules, NEW i \in DOMAIN jsResults PROVE Counted(i, rules) = {}
      <4> DEFINE list == jsResults[i].messages
      <4>1. i \in 1 .. Len(jsResults) /\ Len(jsResults) \in Nat
        BY ResultFacts DEF RunInv
      <4>2. DOMAIN list = 1 .. Len(list) /\ Len(list) \in Nat
        BY ResultFacts DEF RunInv
      <4> HIDE DEF list
      <4>3. \A k \in DOMAIN list : ~(i <= 0) /\ ~(k < 1)
        BY <4>1, <4>2
      <4> QED BY <2>2, <4>3 DEF Counted, Passed, list
    <3> QED BY <3>1 DEF Looked
  <2>4. \A rules : Looked(rules)' = {}
    <3>1. \A i, rules : Counted(i, rules)' = Counted(i, rules)
      BY <1>0 DEF Counted, Passed
    <3> QED BY <1>0, <2>3, <3>1 DEF Looked
  <2>5. Cardinality({}) = 0
    BY FS_EmptySet
  <2>6. ShownOf(0)' = 0
    BY <1>0, MaxFacts, Steady DEF RunInv, ShownOf, Above
  <2>7. (IF Formatted THEN fmt.message = 1 ELSE fmt.message <= Len(NextMessages) + 1)'
    <3>1. CASE Formatted'
      BY <1>0, <2>2, <3>1
    <3>2. CASE ~Formatted'
      <4>1. Len(jsResults) \in Nat /\ DOMAIN jsResults = 1 .. Len(jsResults)
        BY ResultFacts DEF RunInv
      <4>5. Len(jsResults) # 0
        BY <1>0, <2>2, <3>2 DEF Formatted
      <4>2. 1 \in DOMAIN jsResults
        BY <4>1, <4>5
      <4>3. Len(jsResults[1].messages) \in Nat
        BY <4>2, ResultFacts DEF RunInv
      <4>4. NextMessages' = jsResults[1].messages
        BY <1>0, <2>2 DEF NextMessages
      <4> QED BY <1>0, <2>2, <3>2, <4>3, <4>4
    <3> QED BY <3>1, <3>2
  <2>8. (/\ fmt.errors + fmt.warnings = Cardinality(Looked(Rules \cup {""}))
         /\ fmt.parse = Cardinality(Looked({""})))'
    <3>1. Cardinality(Looked(Rules \cup {""}))' = 0 /\ Cardinality(Looked({""}))' = 0
      BY <2>4, <2>5
    <3>2. fmt'.errors + fmt'.warnings = 0 /\ fmt'.parse = 0
      BY <1>0, <2>2
    <3> QED BY <3>1, <3>2
  <2>9. (\A r \in Rules : fmt.count[r] = Cardinality(Looked({r})) /\ fmt.examples[r] = ShownOf(fmt.count[r]))'
    <3> SUFFICES ASSUME NEW r \in Rules
                 PROVE  (fmt.count[r] = Cardinality(Looked({r})) /\ fmt.examples[r] = ShownOf(fmt.count[r]))'
      BY DEF Rules
    <3>1. Looked({r})' = {} /\ fmt'.count[r] = 0 /\ fmt'.examples[r] = 0
      BY <1>0, <2>2, <2>4
    <3> QED BY <2>5, <2>6, <3>1
  <2> QED BY <1>0, <2>1, <2>7, <2>8, <2>9 DEF Tallied, Counters, Rules
<1> QED BY <1>1, <1>2, <1>3 DEF RunInv

LEMMA FormatMessageKeeps == RunInv /\ FormatMessage => RunInv'
<1> SUFFICES ASSUME RunInv, FormatMessage PROVE RunInv'
  OBVIOUS
<1>0. /\ stage = "format" /\ stage' = "format" /\ left' = left
      /\ world' = world /\ outcome' = outcome /\ jsResults' = jsResults
      /\ scanResults' = scanResults /\ exit' = exit /\ written' = written
      /\ ~Formatted /\ fmt.message <= Len(NextMessages)
  BY DEF FormatMessage
<1>1. Chosen' /\ Collected' /\ ScannerCounts' /\ Judged'
  <2>1. ResultFiles = ReadBy("js")
    BY <1>0 DEF RunInv, Collected
  <2> QED BY <1>0, <2>1, ChosenStays, CollectedStays, ScannedStays, JudgedStays DEF RunInv
<1> DEFINE r == NextMessages[fmt.message]
           seen == [fmt EXCEPT !.message = @ + 1]
           said == IF r = "" THEN 1 ELSE 0
<1>2. fmt \in Counters /\ fmt.message \in Nat \ {0} /\ fmt.files \in Nat
  BY DEF RunInv, Tallied, Counters
<1>3. /\ seen \in Counters /\ seen.message = fmt.message + 1 /\ seen.files = fmt.files
      /\ seen.errors = fmt.errors /\ seen.warnings = fmt.warnings /\ seen.parse = fmt.parse
      /\ seen.count = fmt.count /\ seen.examples = fmt.examples
  BY <1>2 DEF Counters
<1>4. fmt' = IF r = "" THEN [seen EXCEPT !.errors = @ + 1, !.parse = @ + 1] ELSE CountRule(seen, r)
  BY DEF FormatMessage
<1>5. r \in Rules \cup {""}
  BY <1>0, OneLook DEF RunInv
<1> HIDE DEF seen
<1>6. /\ fmt' \in Counters /\ fmt'.message = fmt.message + 1 /\ fmt'.files = fmt.files
      /\ fmt'.errors + fmt'.warnings = fmt.errors + fmt.warnings + 1
      /\ fmt'.parse = fmt.parse + (IF r = "" THEN 1 ELSE 0)
      /\ \A q \in Rules : q # r => fmt'.count[q] = fmt.count[q] /\ fmt'.examples[q] = fmt.examples[q]
      /\ r \in Rules =>
           /\ fmt'.count[r] = fmt.count[r] + 1
           /\ fmt'.examples[r] = IF MAX # <<>> /\ fmt.examples[r] < MAX[1] THEN fmt.examples[r] + 1
                                 ELSE fmt.examples[r]
  <2>0. fmt.errors \in Nat /\ fmt.warnings \in Nat /\ fmt.parse \in Nat
    BY <1>2 DEF Counters
  <2>9. "" \notin Rules
    BY DEF Rules
  <2>1. CASE r = ""
    <3> DEFINE h == [seen EXCEPT !.errors = @ + 1]
    <3>1. fmt' = [h EXCEPT !.parse = seen.parse + 1]
      BY <1>4, <2>1, Zenon
    <3>2. /\ h \in Counters /\ h.errors = seen.errors + 1 /\ h.files = seen.files /\ h.message = seen.message
          /\ h.warnings = seen.warnings /\ h.parse = seen.parse /\ h.count = seen.count /\ h.examples = seen.examples
      BY <1>3 DEF Counters
    <3> DEFINE n == seen.parse + 1
    <3>3. n \in Nat /\ n = fmt.parse + 1
      BY <1>3, <2>0
    <3> HIDE DEF h, n
    <3>4. /\ fmt' \in Counters /\ fmt'.errors = h.errors /\ fmt'.files = h.files /\ fmt'.message = h.message
          /\ fmt'.warnings = h.warnings /\ fmt'.parse = n /\ fmt'.count = h.count /\ fmt'.examples = h.examples
      <4>1. fmt' = [h EXCEPT !.parse = n]
        BY <3>1 DEF n
      <4> QED BY <3>2, <3>3, <4>1 DEF Counters
    <3>7. fmt'.errors = fmt.errors + 1 /\ fmt'.warnings = fmt.warnings /\ fmt'.parse = fmt.parse + 1
      BY <1>3, <3>2, <3>3, <3>4
    <3>8. fmt'.errors + fmt'.warnings = fmt.errors + fmt.warnings + 1
      BY <2>0, <3>7
    <3>5. fmt'.errors + fmt'.warnings = fmt.errors + fmt.warnings + 1 /\ fmt'.parse = fmt.parse + (IF r = "" THEN 1 ELSE 0)
      BY <2>1, <3>7, <3>8
    <3>6. fmt'.count = fmt.count /\ fmt'.examples = fmt.examples /\ fmt'.message = fmt.message + 1 /\ fmt'.files = fmt.files
      BY <1>3, <3>2, <3>4
    <3> HIDE DEF r
    <3> QED BY <2>1, <2>9, <3>4, <3>5, <3>6
  <2>2. CASE r \in Rules
    <3>1. fmt' = CountRule(seen, r) /\ r # ""
      BY <1>4, <2>2, <2>9
    <3>2. /\ fmt' \in Counters
          /\ fmt'.files = seen.files /\ fmt'.message = seen.message /\ fmt'.errors = seen.errors
          /\ fmt'.parse = seen.parse /\ fmt'.warnings = seen.warnings + 1
          /\ \A q \in Rules : q # r => fmt'.count[q] = seen.count[q] /\ fmt'.examples[q] = seen.examples[q]
          /\ fmt'.count[r] = seen.count[r] + 1
          /\ fmt'.examples[r] = IF MAX # <<>> /\ seen.examples[r] < MAX[1] THEN seen.examples[r] + 1
                                ELSE seen.examples[r]
      BY <1>3, <2>2, <3>1, CountRuleFacts
    <3> HIDE DEF r
    <3>4. fmt'.errors = fmt.errors /\ fmt'.warnings = fmt.warnings + 1 /\ fmt'.parse = fmt.parse
      BY <1>3, <3>2
    <3>5. fmt'.errors + fmt'.warnings = fmt.errors + fmt.warnings + 1 /\ fmt.parse + 0 = fmt.parse
      BY <2>0, <3>4
    <3>3. fmt'.errors + fmt'.warnings = fmt.errors + fmt.warnings + 1 /\ fmt'.parse = fmt.parse + (IF r = "" THEN 1 ELSE 0)
      BY <3>1, <3>4, <3>5
    <3> QED BY <1>3, <3>2, <3>3
  <2> QED BY <1>5, <2>1, <2>2
<1>7. \A rules : /\ Cardinality(Looked(rules)) \in Nat
                 /\ Cardinality(Looked(rules))' = Cardinality(Looked(rules)) + (IF r \in rules THEN 1 ELSE 0)
  BY <1>6, OneLook DEF RunInv
<1> HIDE DEF r
<1>8. Tallied'
  <2>1. /\ fmt.errors + fmt.warnings = Cardinality(Looked(Rules \cup {""}))
        /\ fmt.parse = Cardinality(Looked({""}))
        /\ fmt.files <= Len(jsResults)
    BY <1>0 DEF RunInv, Tallied
  <2>2. (/\ fmt.errors + fmt.warnings = Cardinality(Looked(Rules \cup {""}))
         /\ fmt.parse = Cardinality(Looked({""})))'
    <3>1. /\ Cardinality(Looked(Rules \cup {""}))' = Cardinality(Looked(Rules \cup {""})) + 1
          /\ Cardinality(Looked({""}))' = Cardinality(Looked({""})) + (IF r = "" THEN 1 ELSE 0)
      BY <1>5, <1>7
    <3> QED BY <1>6, <2>1, <3>1 DEF Rules
  <2>3. (IF Formatted THEN fmt.message = 1 ELSE fmt.message <= Len(NextMessages) + 1)'
    <3>1. (Formatted' <=> Formatted) /\ NextMessages' = NextMessages
      BY <1>0, <1>6 DEF Formatted, NextMessages
    <3>2. Len(NextMessages) \in Nat
      <4>2. Len(jsResults) \in Nat /\ DOMAIN jsResults = 1 .. Len(jsResults)
        BY ResultFacts DEF RunInv
      <4>3. fmt.files # Len(jsResults)
        BY <1>0 DEF Formatted
      <4>4. fmt.files \in Nat /\ fmt.files <= Len(jsResults)
        BY <1>2, <2>1
      <4>1. fmt.files + 1 \in DOMAIN jsResults
        BY <4>2, <4>3, <4>4
      <4> QED BY <4>1, ResultFacts DEF RunInv, NextMessages
    <3>3. fmt'.message = fmt.message + 1 /\ fmt.message \in Nat /\ fmt.message <= Len(NextMessages)
      BY <1>0, <1>2, <1>6
    <3>4. fmt'.message <= Len(NextMessages) + 1
      BY <3>2, <3>3
    <3> QED BY <1>0, <3>1, <3>4
  <2>4. ASSUME NEW q \in Rules
        PROVE  fmt'.count[q] = Cardinality(Looked({q}))' /\ fmt'.examples[q] = ShownOf(fmt'.count[q])
    <3>1. fmt.count[q] = Cardinality(Looked({q})) /\ fmt.examples[q] = ShownOf(fmt.count[q])
      BY <1>0 DEF RunInv, Tallied
    <3>2. Cardinality(Looked({q}))' = Cardinality(Looked({q})) + (IF r = q THEN 1 ELSE 0)
      BY <1>7
    <3>3. fmt.count[q] \in Nat
      BY <1>2 DEF Counters
    <3>4. CASE r = q
      <4>1. ShownOf(fmt.count[q] + 1)
              = IF MAX # <<>> /\ ShownOf(fmt.count[q]) < MAX[1] THEN ShownOf(fmt.count[q]) + 1 ELSE ShownOf(fmt.count[q])
        BY <3>3, MaxFacts DEF RunInv
      <4>2. fmt'.count[q] = fmt.count[q] + 1
            /\ fmt'.examples[q] = IF MAX # <<>> /\ fmt.examples[q] < MAX[1] THEN fmt.examples[q] + 1 ELSE fmt.examples[q]
        BY <1>6, <3>4
      <4> QED BY <3>1, <3>2, <3>4, <4>1, <4>2
    <3>5. CASE r # q
      <4>1. Cardinality(Looked({q}))' = Cardinality(Looked({q}))
        <5>1. Cardinality(Looked({q}))' = Cardinality(Looked({q})) + 0 /\ Cardinality(Looked({q})) \in Nat
          BY <1>7, <3>2, <3>5
        <5> QED BY <5>1
      <4>2. fmt'.count[q] = fmt.count[q] /\ fmt'.examples[q] = fmt.examples[q]
        BY <1>6, <3>5
      <4> QED BY <3>1, <4>1, <4>2
    <3> QED BY <3>4, <3>5
  <2>5. \A n : ShownOf(n)' = ShownOf(n)
    BY <1>0, Steady DEF ShownOf, Above
  <2>6. (\A q \in Rules : fmt.count[q] = Cardinality(Looked({q})) /\ fmt.examples[q] = ShownOf(fmt.count[q]))'
    <3> SUFFICES ASSUME NEW q \in Rules
                 PROVE  (fmt.count[q] = Cardinality(Looked({q})) /\ fmt.examples[q] = ShownOf(fmt.count[q]))'
      BY DEF Rules
    <3>1. ShownOf(fmt.count[q])' = ShownOf(fmt'.count[q])
      BY <1>0, Steady DEF ShownOf, Above
    <3> QED BY <2>4, <3>1
  <2> QED BY <1>0, <1>6, <2>1, <2>2, <2>3, <2>6 DEF Tallied, Counters, Rules
<1> QED BY <1>1, <1>8 DEF RunInv

LEMMA FormatResultKeeps == RunInv /\ FormatResult => RunInv'
<1> SUFFICES ASSUME RunInv, FormatResult PROVE RunInv'
  OBVIOUS
<1>0. /\ stage = "format" /\ stage' = "format" /\ left' = left
      /\ world' = world /\ outcome' = outcome /\ jsResults' = jsResults
      /\ scanResults' = scanResults /\ exit' = exit /\ written' = written
      /\ ~Formatted /\ fmt.message > Len(NextMessages)
      /\ fmt' = [fmt EXCEPT !.files = @ + 1, !.message = 1]
  BY DEF FormatResult
<1>1. Chosen' /\ Collected' /\ ScannerCounts' /\ Judged'
  <2>1. ResultFiles = ReadBy("js")
    BY <1>0 DEF RunInv, Collected
  <2> QED BY <1>0, <2>1, ChosenStays, CollectedStays, ScannedStays, JudgedStays DEF RunInv
<1>2. fmt \in Counters /\ fmt.files <= Len(jsResults)
  BY DEF RunInv, Tallied
<1>3. fmt.files \in Nat
  BY <1>2 DEF Counters
<1>4. Len(jsResults) \in Nat /\ DOMAIN jsResults = 1 .. Len(jsResults)
  BY ResultFacts DEF RunInv
<1>5. fmt.files # Len(jsResults)
  BY <1>0 DEF Formatted
<1> DEFINE n == fmt.files + 1
<1>6. n \in Nat /\ n \in DOMAIN jsResults /\ n <= Len(jsResults)
  BY <1>2, <1>3, <1>4, <1>5
<1>7. /\ fmt' \in Counters /\ fmt'.files = n /\ fmt'.message = 1
      /\ fmt'.errors = fmt.errors /\ fmt'.warnings = fmt.warnings /\ fmt'.parse = fmt.parse
      /\ fmt'.count = fmt.count /\ fmt'.examples = fmt.examples
  <2> DEFINE h == [fmt EXCEPT !.files = n]
  <2>1. fmt' = [h EXCEPT !.message = 1]
    BY <1>0, Zenon
  <2> HIDE DEF n
  <2>2. /\ h \in Counters /\ h.files = n /\ h.errors = fmt.errors /\ h.warnings = fmt.warnings
        /\ h.parse = fmt.parse /\ h.count = fmt.count /\ h.examples = fmt.examples
    BY <1>2, <1>6 DEF Counters
  <2> HIDE DEF h
  <2>3. /\ fmt' \in Counters /\ fmt'.files = h.files /\ fmt'.message = 1
        /\ fmt'.errors = h.errors /\ fmt'.warnings = h.warnings /\ fmt'.parse = h.parse
        /\ fmt'.count = h.count /\ fmt'.examples = h.examples
    BY <2>1, <2>2 DEF Counters
  <2> QED BY <2>2, <2>3
<1>8. \A rules : Looked(rules)' = Looked(rules)
  <2>1. ASSUME NEW i \in DOMAIN jsResults, NEW k \in DOMAIN jsResults[i].messages
        PROVE  Passed(i, k)' <=> Passed(i, k)
    <3>1. i \in Nat
      BY <1>4
    <3> DEFINE m == jsResults[i].messages
    <3>2. DOMAIN m = 1 .. Len(m) /\ Len(m) \in Nat
      BY ResultFacts DEF RunInv
    <3> HIDE DEF m
    <3>3. k \in Nat /\ k >= 1 /\ k <= Len(m)
      BY <3>2 DEF m
    <3>4. i = n => Len(m) = Len(NextMessages)
      BY DEF m, NextMessages
    <3>5. fmt.message \in Nat /\ fmt.message > Len(NextMessages)
      BY <1>0, <1>2 DEF Counters
    <3>6. i = n => k < fmt.message
      BY <3>2, <3>3, <3>4, <3>5
    <3>7. Passed(i, k)' <=> i <= n \/ (i = n + 1 /\ k < 1)
      BY <1>7 DEF Passed
    <3>8. Passed(i, k) <=> i <= fmt.files \/ (i = n /\ k < fmt.message)
      BY DEF Passed
    <3> QED BY <1>3, <3>1, <3>3, <3>6, <3>7, <3>8
  <2>2. ASSUME NEW i \in DOMAIN jsResults, NEW rules
        PROVE  Counted(i, rules)' = Counted(i, rules)
    BY <1>0, <2>1 DEF Counted
  <2> QED BY <1>0, <2>2 DEF Looked
<1>9. Tallied'
  <2>1. \A rules : Cardinality(Looked(rules))' = Cardinality(Looked(rules))
    BY <1>8
  <2>2. (/\ fmt.errors + fmt.warnings = Cardinality(Looked(Rules \cup {""}))
         /\ fmt.parse = Cardinality(Looked({""})))'
    <3>1. /\ fmt.errors + fmt.warnings = Cardinality(Looked(Rules \cup {""}))
          /\ fmt.parse = Cardinality(Looked({""}))
      BY <1>0 DEF RunInv, Tallied
    <3> QED BY <1>7, <2>1, <3>1 DEF Rules
  <2>3. (IF Formatted THEN fmt.message = 1 ELSE fmt.message <= Len(NextMessages) + 1)'
    <3>1. CASE Formatted'
      BY <1>7, <3>1
    <3>2. CASE ~Formatted'
      <4>1. n # Len(jsResults)
        BY <1>0, <1>7, <3>2 DEF Formatted
      <4>2. n + 1 \in DOMAIN jsResults
        BY <1>4, <1>6, <4>1
      <4>3. Len(jsResults[n + 1].messages) \in Nat
        BY <4>2, ResultFacts DEF RunInv
      <4>4. NextMessages' = jsResults[n + 1].messages
        BY <1>0, <1>7 DEF NextMessages
      <4>5. 1 <= Len(NextMessages') + 1
        BY <4>3, <4>4
      <4> QED BY <1>7, <3>2, <4>5
    <3> QED BY <3>1, <3>2
  <2>4. (\A q \in Rules : fmt.count[q] = Cardinality(Looked({q})) /\ fmt.examples[q] = ShownOf(fmt.count[q]))'
    <3> SUFFICES ASSUME NEW q \in Rules
                 PROVE  (fmt.count[q] = Cardinality(Looked({q})) /\ fmt.examples[q] = ShownOf(fmt.count[q]))'
      BY DEF Rules
    <3>1. fmt.count[q] = Cardinality(Looked({q})) /\ fmt.examples[q] = ShownOf(fmt.count[q])
      BY <1>0 DEF RunInv, Tallied
    <3>2. ShownOf(fmt.count[q])' = ShownOf(fmt.count[q])
      BY <1>0, <1>7, Steady DEF ShownOf, Above
    <3> QED BY <1>7, <2>1, <3>1, <3>2
  <2>5. fmt'.files <= Len(jsResults')
    BY <1>0, <1>6, <1>7
  <2> QED BY <1>0, <1>7, <2>2, <2>3, <2>4, <2>5 DEF Tallied, Counters, Rules
<1> QED BY <1>1, <1>9 DEF RunInv

\* When all results have been gone through, all messages have.
LEMMA AllLooked ==
  ASSUME RunInv, stage = "format", Formatted, NEW rules
  PROVE  Looked(rules) = Found("js", rules)
<1>1. ResultFiles = ReadBy("js")
  BY DEF RunInv, Collected
<1>2. \A i \in DOMAIN jsResults : jsResults[i].messages = MessagesOf("js", jsResults[i].file)
  BY DEF RunInv, Collected, MessagesOf
<1>3. \A i \in DOMAIN jsResults : i <= fmt.files
  <2>1. Len(jsResults) \in Nat /\ DOMAIN jsResults = 1 .. Len(jsResults)
    BY ResultFacts DEF RunInv
  <2>2. fmt.files = Len(jsResults)
    BY DEF Formatted
  <2> QED BY <2>1, <2>2
<1> DEFINE places(f) == {k \in DOMAIN MessagesOf("js", f) : MessagesOf("js", f)[k] \in rules}
<1>4. \A i \in DOMAIN jsResults : Counted(i, rules) = places(jsResults[i].file)
  BY <1>2, <1>3 DEF Counted, Passed
<1>5. Found("js", rules) = UNION {{f} \X places(f) : f \in ReadBy("js")}
  BY DEF Found
<1> HIDE DEF places
<1>6. Looked(rules) = UNION {{jsResults[i].file} \X places(jsResults[i].file) : i \in DOMAIN jsResults}
  BY <1>4 DEF Looked
<1>7. ReadBy("js") = {jsResults[i].file : i \in DOMAIN jsResults}
  BY <1>1 DEF ResultFiles
<1> QED BY <1>5, <1>6, <1>7

LEMMA FormatEndKeeps == RunInv /\ FormatEnd => RunInv'
<1> SUFFICES ASSUME RunInv, FormatEnd PROVE RunInv'
  OBVIOUS
<1> DEFINE counts == [r \in Rules \cup {""} |-> IF r = "" THEN fmt.parse ELSE fmt.count[r]]
           shown == [r \in Rules \cup {""} |-> IF r = "" THEN ShownOf(fmt.parse) ELSE fmt.examples[r]]
           total == fmt.errors + fmt.warnings
           report == Report("js", total, Len(jsResults), counts, shown)
<1>0. /\ stage = "format" /\ stage' = "scan" /\ left' = ScanFiles /\ Formatted
      /\ world' = world /\ outcome' = outcome /\ jsResults' = jsResults /\ fmt' = fmt
      /\ scanResults' = scanResults /\ exit' = exit
      /\ written' = written \cup {report}
  BY DEF FormatEnd
<1>1. Chosen' /\ Collected' /\ Tallied'
  BY <1>0, ChosenStays, CollectedStays, TalliedStays DEF RunInv
<1>2. ScannerCounts'
  <2>1. There(ScanFiles \ left)' = {} /\ left' = ScanFiles'
    BY <1>0, Steady DEF There
  <2>2. scanResults = [files |-> 0, all |-> 0]
    BY <1>0 DEF RunInv, ScannerCounts
  <2>3. FoundIn(There(ScanFiles \ left))' = {}
    BY <2>1 DEF FoundIn
  <2>4. Cardinality({}) = 0
    BY FS_EmptySet
  <2> QED BY <1>0, <2>1, <2>2, <2>3, <2>4 DEF ScannerCounts
<1>3. RightReport(report)
  <2>1. /\ report.half = "js" /\ report.shown = shown /\ report.total = total
        /\ report.says = Says(total, Len(jsResults))
        /\ DOMAIN report.shown = Rules \cup {""}
        /\ \A m \in Rules \cup {""} : report.more[m] = MoreOf(counts[m])
    BY DEF Report
  <2>2. total = Cardinality(Found("js", Rules \cup {""})) /\ fmt.parse = Cardinality(Found("js", {""}))
    BY <1>0, AllLooked DEF RunInv, Tallied
  <2>3. \A m \in Rules : fmt.count[m] = Cardinality(Found("js", {m})) /\ fmt.examples[m] = ShownOf(fmt.count[m])
    BY <1>0, AllLooked DEF RunInv, Tallied
  <2>4. Says(total, Len(jsResults)) = Says(total, Cardinality(ReadBy("js")))
    <3>1. ReadBy("js") = {jsResults[i].file : i \in DOMAIN jsResults}
      BY <1>0 DEF RunInv, Collected, ResultFiles
    <3>2. Len(jsResults) \in Nat /\ DOMAIN jsResults = 1 .. Len(jsResults)
      BY ResultFacts DEF RunInv
    <3>3. Len(jsResults) = 0 <=> ReadBy("js") = {}
      <4>1. ReadBy("js") = {} <=> DOMAIN jsResults = {}
        BY <3>1
      <4>2. Len(jsResults) = 0 <=> DOMAIN jsResults = {}
        BY <3>2
      <4> QED BY <4>1, <4>2
    <3>4. Cardinality(ReadBy("js")) = 0 <=> ReadBy("js") = {}
      BY FoundIsFinite, FS_EmptySet DEF RunInv
    <3> QED BY <3>3, <3>4 DEF Says
  <2>5. ASSUME MAX # <<>>, NEW m \in Rules \cup {""}
        PROVE  report.shown[m] + report.more[m] = Cardinality(Found("js", {m}))
    <3>1. \A n \in Nat : ShownOf(n) + MoreOf(n) = n
      BY <2>5, MaxFacts DEF RunInv
    <3>2. Cardinality(Found("js", {m})) \in Nat
      BY FoundIsFinite, FS_CardinalityType DEF RunInv
    <3>3. counts[m] = Cardinality(Found("js", {m})) /\ shown[m] = ShownOf(counts[m])
      BY <2>2, <2>3
    <3> HIDE DEF counts, shown, report
    <3> QED BY <2>1, <3>1, <3>2, <3>3
  <2> HIDE DEF report, shown, counts, total
  <2> QED BY <2>1, <2>2, <2>4, <2>5 DEF RightReport, RulesOf
<1>4. report.half = "js"
  BY DEF Report
<1> HIDE DEF report
<1>5. Judged'
  <2>1. (\A r \in written : r = [half |-> "note"] \/ RightReport(r))'
    <3>1. \A r \in written \cup {report} : r = [half |-> "note"] \/ RightReport(r)
      BY <1>3 DEF RunInv, Judged
    <3> QED BY <1>0, <3>1, Steady
  <2>2. (\A r \in written : r.half = "scan" => ~Env.skipScan)'
    <3>1. \A r \in written \cup {report} : r.half = "scan" => ~Env.skipScan
      BY <1>4 DEF RunInv, Judged
    <3> QED BY <1>0, <3>1, Steady
  <2>3. \E r \in written' : r.half = "js"
    BY <1>0, <1>4
  <2> QED BY <1>0, <2>1, <2>2, <2>3 DEF Judged
<1> QED BY <1>1, <1>2, <1>5 DEF RunInv

\* A file more adds its findings.
LEMMA OneFileMore ==
  ASSUME Chosen, NEW S, S \subseteq world.files, IsFiniteSet(S), NEW f \in world.files, f \notin S
  PROVE  Cardinality(FoundIn(S \cup {f}))
           = Cardinality(FoundIn(S)) + Count(outcome[f].messages, "ores/require-send")
<1> DEFINE wanted == {"ores/require-send"}
           list == outcome[f].messages
           K == {k \in DOMAIN list : list[k] \in wanted}
           Q == {f} \X K
           A == FoundIn(S)
           B == FoundIn(S \cup {f})
<1>1. Count(list, "ores/require-send") = Cardinality(K)
  BY DEF Count
<1>2. B = A \cup Q
  BY DEF FoundIn
<1>3. A \cap Q = {}
  BY DEF FoundIn
<1>4. IsFiniteSet(A)
  <2> DEFINE lists == [g \in S |-> outcome[g].messages]
  <2>1. A = Among(lists, wanted)
    BY DEF FoundIn, Among
  <2>2. \A g \in S : outcome[g].messages \in Seq(Rules)
    BY MessagesAreRules
  <2>3. lists \in [S -> Seq(Rules)]
    BY <2>2
  <2> HIDE DEF lists, A, wanted
  <2> QED BY <2>1, <2>3, AmongIsFinite
<1>5. list \in Seq(Rules)
  BY MessagesAreRules
<1> HIDE DEF list
<1>6. IsFiniteSet(K) /\ IsFiniteSet(Q) /\ Cardinality(Q) = Cardinality(K)
  <2>1. DOMAIN list = 1 .. Len(list) /\ Len(list) \in Nat
    BY <1>5
  <2>2. K \subseteq 1 .. Len(list)
    BY <2>1
  <2>3. IsFiniteSet(1 .. Len(list))
    BY <2>1, FS_Interval
  <2> HIDE DEF K
  <2>4. IsFiniteSet(K) /\ Cardinality(K) \in Nat
    BY <2>2, <2>3, FS_Subset, FS_CardinalityType
  <2>5. IsFiniteSet({f}) /\ Cardinality({f}) = 1
    BY FS_Singleton
  <2>6. Cardinality(Q) = 1 * Cardinality(K) /\ IsFiniteSet(Q)
    BY <2>4, <2>5, FS_Product
  <2> QED BY <2>4, <2>6
<1> HIDE DEF A, B, Q, K
<1>7. Cardinality(A \cup Q) = Cardinality(A) + Cardinality(Q) - Cardinality(A \cap Q)
  BY <1>4, <1>6, FS_Union
<1>8. Cardinality(A \cap Q) = 0 /\ Cardinality(A \cup Q) = Cardinality(B)
  BY <1>2, <1>3, FS_EmptySet, Zenon
<1>9. Cardinality(A) \in Nat /\ Cardinality(K) \in Nat
  BY <1>4, <1>6, FS_CardinalityType
<1>10. Cardinality(B) = Cardinality(A) + Cardinality(K)
  BY <1>6, <1>7, <1>8, <1>9
<1> QED BY <1>1, <1>10 DEF A, B, list

LEMMA ScanFileKeeps == ASSUME RunInv, NEW f \in left, ScanFile(f) PROVE RunInv'
<1>0. /\ stage = "scan" /\ stage' = "scan" /\ left' = left \ {f} /\ f \in left
      /\ world' = world /\ outcome' = outcome /\ jsResults' = jsResults /\ fmt' = fmt
      /\ exit' = exit /\ written' = written
  BY DEF ScanFile
<1>1. Chosen' /\ Collected' /\ Tallied' /\ Judged'
  BY <1>0, ChosenStays, CollectedStays, TalliedStays, JudgedStays DEF RunInv
<1> DEFINE S == There(ScanFiles \ left)
<1>2. /\ left \subseteq ScanFiles /\ ScanFiles \subseteq world.files /\ f \in world.files
      /\ scanResults.files = Cardinality(S) /\ scanResults.all = Cardinality(FoundIn(S))
  BY <1>0 DEF RunInv, ScannerCounts, ScanFiles
<1>3. There(ScanFiles \ left)' = IF outcome[f].there THEN S \cup {f} ELSE S
  <2>1. There(ScanFiles \ left)' = {g \in ScanFiles \ (left \ {f}) : outcome[g].there}
    BY <1>0, Steady DEF There
  <2>2. S = {g \in ScanFiles \ left : outcome[g].there}
    BY DEF There
  <2> QED BY <1>0, <1>2, <2>1, <2>2
<1>4. S \subseteq world.files /\ f \notin S
  BY <1>0, <1>2 DEF There
<1>5. IsFiniteSet(S)
  <2>1. IsFiniteSet(world.files)
    BY WorldsAssumption DEF RunInv, Chosen
  <2> QED BY <1>4, <2>1, FS_Subset
<1>6. \A files : FoundIn(files)' = FoundIn(files)
  BY <1>0, Steady
<1>7. (left \subseteq ScanFiles)'
  BY <1>0, <1>2, Steady
<1>8. CASE ~outcome[f].there
  <2>1. scanResults' = scanResults
    BY <1>8 DEF ScanFile
  <2>2. There(ScanFiles \ left)' = S
    BY <1>3, <1>8
  <2>3. FoundIn(There(ScanFiles \ left))' = FoundIn(S)
    BY <1>0, <2>2 DEF FoundIn
  <2>4. ScannerCounts'
    BY <1>0, <1>2, <1>7, <2>1, <2>2, <2>3 DEF ScannerCounts
  <2> QED BY <1>1, <2>4 DEF RunInv
<1>9. CASE outcome[f].there
  <2> DEFINE T == S \cup {f}
  <2>1. /\ scanResults'.files = scanResults.files + 1
        /\ scanResults'.all = scanResults.all + Count(outcome[f].messages, "ores/require-send")
    BY <1>9 DEF ScanFile
  <2>2. There(ScanFiles \ left)' = T
    BY <1>3, <1>9
  <2>3. FoundIn(There(ScanFiles \ left))' = FoundIn(T)
    BY <1>0, <2>2 DEF FoundIn
  <2> HIDE DEF S
  <2>7. Cardinality(FoundIn(T)) = Cardinality(FoundIn(S)) + Count(outcome[f].messages, "ores/require-send")
    BY <1>2, <1>4, <1>5, OneFileMore DEF RunInv
  <2>8. Cardinality(T) = Cardinality(S) + 1
    BY <1>4, <1>5, FS_AddElement
  <2> HIDE DEF T
  <2>9. scanResults'.files = Cardinality(T) /\ scanResults'.all = Cardinality(FoundIn(T))
    BY <1>2, <2>1, <2>7, <2>8
  <2>10. ScannerCounts'
    BY <1>0, <1>7, <2>2, <2>3, <2>9 DEF ScannerCounts
  <2> QED BY <1>1, <2>10 DEF RunInv
<1> QED BY <1>8, <1>9

LEMMA FormatReportKeeps == RunInv /\ FormatReport => RunInv'
<1> SUFFICES ASSUME RunInv, FormatReport PROVE RunInv'
  OBVIOUS
<1> DEFINE rule == "ores/require-send"
           all == scanResults.all
           counts == [r \in {rule} |-> all]
           shown == [r \in DOMAIN counts |-> ShownOf(all)]
           report == Report("scan", all, scanResults.files, counts, shown)
<1>0. /\ stage = "scan" /\ stage' = "verdict" /\ left' = left
      /\ (left = {} \/ Env.skipScan)
      /\ world' = world /\ outcome' = outcome /\ jsResults' = jsResults /\ fmt' = fmt
      /\ scanResults' = scanResults /\ exit' = exit
      /\ written' = IF Env.skipScan THEN written ELSE written \cup {report}
  BY DEF FormatReport
<1>1. Chosen' /\ Collected' /\ Tallied' /\ ScannerCounts'
  BY <1>0, ChosenStays, CollectedStays, TalliedStays, ScannedStays DEF RunInv
<1>2. CASE Env.skipScan
  <2>1. written' = written
    BY <1>0, <1>2
  <2>2. (\A r \in written : r = [half |-> "note"] \/ RightReport(r))'
    BY <1>0, <2>1, Steady DEF RunInv, Judged
  <2>3. Judged'
    BY <1>0, <1>2, <2>1, <2>2, Steady DEF RunInv, Judged
  <2> QED BY <1>1, <2>3 DEF RunInv
<1>3. CASE ~Env.skipScan
  <2>1. /\ report.half = "scan" /\ report.shown = shown /\ report.total = all
        /\ report.says = Says(all, scanResults.files)
        /\ DOMAIN report.shown = {rule} /\ shown[rule] = ShownOf(all)
        /\ report.more[rule] = MoreOf(all)
    BY DEF Report
  <2>2. left = {} /\ ScanFiles \ {} = ScanFiles
    BY <1>0, <1>3
  <2>3. scanResults.files = Cardinality(There(ScanFiles)) /\ all = Cardinality(FoundIn(There(ScanFiles)))
    BY <1>0, <2>2 DEF RunInv, ScannerCounts
  <2>4. ReadBy("scan") = There(ScanFiles)
    BY DEF ReadBy
  <2>5. FoundIn(There(ScanFiles)) = Found("scan", {rule})
    BY <2>4 DEF FoundIn, Found, MessagesOf
  <2>6. all \in Nat
    BY <2>3, <2>5, FoundIsFinite, FS_CardinalityType DEF RunInv
  <2> HIDE DEF report, shown, all
  <2>7. MAX # <<>> => ShownOf(all) + MoreOf(all) = all
    BY <2>6, MaxFacts DEF RunInv
  <2>8. RightReport(report)
    <3>1. RulesOf("scan") = {rule}
      BY DEF RulesOf
    <3>2. MAX # <<>> => report.shown[rule] + report.more[rule] = Cardinality(Found("scan", {rule}))
      BY <2>1, <2>3, <2>5, <2>7
    <3> QED BY <2>1, <2>3, <2>4, <2>5, <3>1, <3>2 DEF RightReport
  <2>9. written' = written \cup {report}
    BY <1>0, <1>3
  <2>10. (\A r \in written : r = [half |-> "note"] \/ RightReport(r))'
    <3>1. \A r \in written \cup {report} : r = [half |-> "note"] \/ RightReport(r)
      BY <2>8 DEF RunInv, Judged
    <3> QED BY <1>0, <2>9, <3>1, Steady
  <2>11. (\A r \in written : r.half = "scan" => ~Env.skipScan)'
    BY <1>0, <1>3, Steady
  <2>12. Refused' \/ \E r \in written' : r.half = "js"
    BY <1>0, <2>9, Steady DEF RunInv, Judged
  <2>13. \E r \in written' : r.half = "scan"
    BY <2>1, <2>9
  <2>14. Judged'
    BY <1>0, <2>10, <2>11, <2>12, <2>13 DEF Judged
  <2> QED BY <1>1, <2>14 DEF RunInv
<1> QED BY <1>2, <1>3

LEMMA VerdictKeeps == RunInv /\ Verdict => RunInv'
<1> SUFFICES ASSUME RunInv, Verdict PROVE RunInv'
  OBVIOUS
<1>0. /\ stage = "verdict" /\ stage' = "end" /\ left' = left
      /\ world' = world /\ outcome' = outcome /\ jsResults' = jsResults /\ fmt' = fmt
      /\ scanResults' = scanResults /\ written' = written
      /\ exit' = IF Env.strict /\ \E r \in written : r.half # "note" /\ r.says = "findings" THEN 1 ELSE 0
  BY DEF Verdict
<1>1. Chosen' /\ Collected' /\ Tallied' /\ ScannerCounts'
  BY <1>0, ChosenStays, CollectedStays, TalliedStays, ScannedStays DEF RunInv
<1>2. (\A r \in written : r = [half |-> "note"] \/ RightReport(r))'
  BY <1>0, Steady DEF RunInv, Judged
<1>3. (/\ (\A r \in written : r.half = "scan" => ~Env.skipScan)
       /\ (Refused \/ \E r \in written : r.half = "js")
       /\ (Env.skipScan \/ \E r \in written : r.half = "scan"))'
  BY <1>0, Steady DEF RunInv, Judged
<1>4. (exit = 1 <=> Env.strict /\ \E r \in written : r.half # "note" /\ r.says = "findings")'
  BY <1>0, Steady
<1>5. Judged'
  BY <1>0, <1>2, <1>3, <1>4 DEF Judged
<1> QED BY <1>1, <1>5 DEF RunInv

LEMMA RunNextInv == RunInv /\ [RunNext]_runVars => RunInv'
<1> SUFFICES ASSUME RunInv, [RunNext]_runVars PROVE RunInv'
  OBVIOUS
<1>1. ASSUME NEW f \in left, Examine(f) \/ ScanFile(f) PROVE RunInv'
  BY <1>1, ExamineKeeps, ScanFileKeeps
<1>2. CASE UNCHANGED runVars
  <2>1. /\ world' = world /\ outcome' = outcome /\ stage' = stage /\ left' = left
        /\ jsResults' = jsResults /\ fmt' = fmt /\ scanResults' = scanResults
        /\ written' = written /\ exit' = exit
    BY <1>2 DEF runVars
  <2>2. Chosen' /\ Tallied' /\ ScannerCounts' /\ Judged'
    BY <2>1, ChosenStays, TalliedStays, ScannedStays, JudgedStays DEF RunInv, Chosen
  <2>3. Collected'
    <3>1. ResultFiles' = ResultFiles /\ Results' = Results
      BY <2>1 DEF ResultFiles, Results
    <3>2. JsFiles' = JsFiles /\ There(JsFiles \ left)' = There(JsFiles \ left) /\ ReadBy("js")' = ReadBy("js")
      BY <2>1, Steady DEF There
    <3>3. (\A i \in DOMAIN jsResults : jsResults[i].messages = MessagesFor(jsResults[i].file))'
      BY <2>1, Steady DEF RunInv, Collected
    <3> QED BY <2>1, <3>1, <3>2, <3>3 DEF RunInv, Collected
  <2> QED BY <2>2, <2>3 DEF RunInv
<1> QED BY <1>1, <1>2, NoteKeeps, EslintRefusesKeeps, ExaminedKeeps, FormatMessageKeeps,
           FormatResultKeeps, FormatEndKeeps, FormatReportKeeps, VerdictKeeps DEF RunNext

-----------------------------------------------------------------------------
LEMMA RunInvHolds == RunSpec => []RunInv
<1>1. RunInit => RunInv
  BY RunInitInv
<1>2. RunInv /\ [RunNext]_runVars => RunInv'
  BY RunNextInv
<1> QED BY <1>1, <1>2, PTL DEF RunSpec

\* A report counts every message once, whatever the cap on what it shows, and
\* says clean only when something has been read (oresFormatter, formatReport).
THEOREM CappedReportHolds == RunSpec => []CappedReport
<1>1. RunInv => CappedReport
  <2> SUFFICES ASSUME RunInv, NEW r \in written, r.half # "note"
               PROVE  LET rules == DOMAIN r.shown
                      IN  /\ r.total = Cardinality(Found(r.half, rules))
                          /\ MAX # <<>> =>
                               \A m \in rules : r.shown[m] + r.more[m] = Cardinality(Found(r.half, {m}))
                          /\ r.says = "clean" => ReadBy(r.half) # {} /\ Found(r.half, rules) = {}
                          /\ r.says = "nothing" <=> ReadBy(r.half) = {}
    BY DEF CappedReport
  <2>1. RightReport(r)
    BY DEF RunInv, Judged
  <2> DEFINE rules == RulesOf(r.half)
             F == Found(r.half, rules)
             R == ReadBy(r.half)
  <2>2. /\ DOMAIN r.shown = rules /\ r.total = Cardinality(F) /\ r.says = Says(r.total, Cardinality(R))
        /\ MAX # <<>> => \A m \in rules : r.shown[m] + r.more[m] = Cardinality(Found(r.half, {m}))
    BY <2>1 DEF RightReport
  <2>3. IsFiniteSet(F) /\ IsFiniteSet(R)
    BY FoundIsFinite DEF RunInv
  <2>4. R = {} => F = {}
    BY DEF Found
  <2> HIDE DEF F, R, rules
  <2>5. /\ Cardinality(F) \in Nat /\ (Cardinality(F) = 0 <=> F = {})
        /\ Cardinality(R) \in Nat /\ (Cardinality(R) = 0 <=> R = {})
    BY <2>3, FS_CardinalityType, FS_EmptySet
  <2>6. r.says = "clean" => R # {} /\ F = {}
    BY <2>2, <2>5 DEF Says
  <2>7. r.says = "nothing" <=> R = {}
    BY <2>2, <2>4, <2>5 DEF Says
  <2> QED BY <2>2, <2>6, <2>7 DEF F, R
<1> QED BY <1>1, RunInvHolds, PTL

\* What a half has to say of the files is what its report finds.
LEMMA ReportsFind ==
  ASSUME RunInv, NEW r \in written, r.half # "note"
  PROVE  /\ r.half \in {"js", "scan"}
         /\ r.says = "findings" <=> Found(r.half, RulesOf(r.half)) # {}
<1>1. RightReport(r)
  BY DEF RunInv, Judged
<1> DEFINE F == Found(r.half, RulesOf(r.half))
           R == ReadBy(r.half)
<1>2. r.total = Cardinality(F) /\ r.says = Says(r.total, Cardinality(R)) /\ r.half \in {"js", "scan"}
  BY <1>1 DEF RightReport
<1>3. IsFiniteSet(F)
  BY FoundIsFinite DEF RunInv
<1> HIDE DEF F, R
<1>4. Cardinality(F) \in Nat /\ (Cardinality(F) = 0 <=> F = {})
  BY <1>3, FS_CardinalityType, FS_EmptySet
<1>5. r.says = "findings" <=> F # {}
  BY <1>2, <1>4 DEF Says
<1> QED BY <1>2, <1>5 DEF F

\* ESLint has something to say when a file it has read has a message.
LEMMA JsFinds ==
  ASSUME RunInv
  PROVE  Found("js", RulesOf("js")) # {} <=> \E f \in ReadBy("js") : MessagesFor(f) # <<>>
<1>1. Found("js", RulesOf("js")) # {}
        <=> \E f \in ReadBy("js") : \E k \in DOMAIN MessagesFor(f) : MessagesFor(f)[k] \in Rules \cup {""}
  <2> DEFINE R == ReadBy("js")
             K(f) == {k \in DOMAIN MessagesFor(f) : MessagesFor(f)[k] \in Rules \cup {""}}
  <2>1. Found("js", RulesOf("js")) = UNION {{f} \X K(f) : f \in R}
    BY DEF Found, MessagesOf, RulesOf
  <2>2. \A f : K(f) # {} <=> \E k \in DOMAIN MessagesFor(f) : MessagesFor(f)[k] \in Rules \cup {""}
    OBVIOUS
  <2> HIDE DEF R, K
  <2> DEFINE all == UNION {{f} \X K(f) : f \in R}
  <2>3. ASSUME NEW f \in R, NEW k \in K(f) PROVE <<f, k>> \in all
    OBVIOUS
  <2>4. ASSUME NEW p \in all PROVE \E f \in R : K(f) # {}
    OBVIOUS
  <2>5. all # {} <=> \E f \in R : K(f) # {}
    <3> HIDE DEF all
    <3> QED BY <2>3, <2>4
  <2> QED BY <2>1, <2>2, <2>5 DEF R
<1>2. ASSUME NEW f \in ReadBy("js")
      PROVE  MessagesFor(f) # <<>>
               <=> \E k \in DOMAIN MessagesFor(f) : MessagesFor(f)[k] \in Rules \cup {""}
  <2> DEFINE m == MessagesFor(f)
             X == Rules \cup {""}
  <2>1. f \in world.files
    BY DEF ReadBy, There, JsFiles
  <2>2. m \in Seq(X)
    BY <2>1, MessagesAreRules DEF RunInv
  <2> HIDE DEF m, X
  <2>3. DOMAIN m = 1 .. Len(m) /\ Len(m) \in Nat /\ \A k \in 1 .. Len(m) : m[k] \in X
    BY <2>2
  <2>4. m # <<>> <=> \E k \in DOMAIN m : m[k] \in X
    <3>1. m # <<>> => 1 \in 1 .. Len(m)
      BY <2>2
    <3>2. m = <<>> => DOMAIN m = {}
      OBVIOUS
    <3> QED BY <2>3, <3>1, <3>2
  <2> QED BY <2>4 DEF m, X
<1> QED BY <1>1, <1>2

\* An ESLint that base.mjs could look at is never given a rule it does not ship.
LEMMA NeverRefused == Inspected => ~Refused
<1> SUFFICES ASSUME Inspected PROVE ~Refused
  OBVIOUS
<1>1. CASE world.install.shipped = {}
  BY <1>1 DEF Inspected, Refused, SemiRules, CoreSemiAvailable
<1>2. CASE world.install.shipped # {}
  BY <1>2 DEF Inspected, Refused, SemiRules, CoreSemiAvailable
<1> QED BY <1>1, <1>2

\* A strict run fails if there is something to find in a file that either half
\* takes, and only then; only an ESLint that refuses the config lets its half of
\* it pass (lint.sh, coreSemiAvailable).
THEOREM StrictVerdictHolds == RunSpec => []StrictVerdict
<1>1. RunInv => StrictVerdict
  <2> SUFFICES ASSUME RunInv, stage = "end"
               PROVE  LET js == \E f \in ReadBy("js") : MessagesFor(f) # <<>>
                          scan == ~Env.skipScan /\ Found("scan", {"ores/require-send"}) # {}
                      IN  /\ exit = 1 => Env.strict /\ (js \/ scan)
                          /\ Env.strict /\ (scan \/ (js /\ Inspected)) => exit = 1
    BY DEF StrictVerdict
  <2> DEFINE js == \E f \in ReadBy("js") : MessagesFor(f) # <<>>
             scan == ~Env.skipScan /\ Found("scan", {"ores/require-send"}) # {}
             failing == \E r \in written : r.half # "note" /\ r.says = "findings"
  <2>1. exit = 1 <=> Env.strict /\ failing
    BY DEF RunInv, Judged
  <2>2. \A r \in written : r.half = "scan" => ~Env.skipScan
    BY DEF RunInv, Judged
  <2>3. RulesOf("scan") = {"ores/require-send"}
    BY DEF RulesOf
  <2>4. js <=> Found("js", RulesOf("js")) # {}
    BY JsFinds
  <2> HIDE DEF js
  <2>5. ASSUME failing PROVE js \/ scan
    <3>1. PICK r \in written : r.half # "note" /\ r.says = "findings"
      BY <2>5
    <3>2. r.half \in {"js", "scan"} /\ Found(r.half, RulesOf(r.half)) # {}
      BY <3>1, ReportsFind
    <3>3. CASE r.half = "js"
      BY <2>4, <3>2, <3>3
    <3>4. CASE r.half = "scan"
      BY <2>2, <2>3, <3>2, <3>4
    <3> QED BY <3>2, <3>3, <3>4
  <2>6. ASSUME scan PROVE failing
    <3>1. PICK r \in written : r.half = "scan"
      BY <2>6 DEF RunInv, Judged
    <3> QED BY <2>3, <2>6, <3>1, ReportsFind
  <2>7. ASSUME js, Inspected PROVE failing
    <3>1. PICK r \in written : r.half = "js"
      BY <2>7, NeverRefused DEF RunInv, Judged
    <3> QED BY <2>4, <2>7, <3>1, ReportsFind
  <2> HIDE DEF failing, scan
  <2>8. /\ exit = 1 => Env.strict /\ (js \/ scan)
        /\ Env.strict /\ (scan \/ (js /\ Inspected)) => exit = 1
    BY <2>1, <2>5, <2>6, <2>7
  <2> QED BY <2>8 DEF js, scan
<1> QED BY <1>1, RunInvHolds, PTL

-----------------------------------------------------------------------------
(* The note of js.sh and what ESLint has read. *)

\* Where the note was written no package was found, and where none is found
\* none is imported: the results are of files ESLint takes, and TypeScript is
\* none of them.
NoteInv ==
  /\ Told => \A id \in {Tooling, Parser} : TryResolve(world.install, id) = "absent"
  /\ \A i \in DOMAIN jsResults : jsResults[i].file \in JsFiles

\* Reports of the halves are no note.
LEMMA ReportsAreNoNotes ==
  ASSUME NEW half \in {"js", "scan"}, NEW total, NEW examined, NEW counts, NEW shown
  PROVE  Report(half, total, examined, counts, shown) # [half |-> "note"]
<1>1. Report(half, total, examined, counts, shown).half = half
  BY DEF Report
<1>2. [half |-> "note"].half = "note"
  OBVIOUS
<1> QED BY <1>1, <1>2

\* Only js.sh writes the note, and only where it finds neither package.
LEMMA StepsAndTheNote ==
  ASSUME RunNext
  PROVE  /\ world' = world
         /\ Told' => Told \/ \A id \in {Tooling, Parser} : TryResolve(world.install, id) = "absent"
<1>1. CASE Note
  BY <1>1 DEF Note, Told
<1>2. CASE EslintRefuses \/ Examined \/ FormatMessage \/ FormatResult \/ Verdict
  BY <1>2 DEF EslintRefuses, Examined, FormatMessage, FormatResult, Verdict, Told
<1>3. CASE \E f \in left : Examine(f) \/ ScanFile(f)
  BY <1>3 DEF Examine, ScanFile, Told
<1>4. CASE FormatEnd
  <2>1. PICK counts, shown :
          written' = written \cup {Report("js", fmt.errors + fmt.warnings, Len(jsResults), counts, shown)}
    BY <1>4 DEF FormatEnd
  <2>2. world' = world
    BY <1>4 DEF FormatEnd
  <2> QED BY <2>1, <2>2, ReportsAreNoNotes DEF Told
<1>5. CASE FormatReport
  <2>1. \/ written' = written
        \/ \E counts, shown :
             written' = written \cup {Report("scan", scanResults.all, scanResults.files, counts, shown)}
    BY <1>5 DEF FormatReport
  <2>2. world' = world
    BY <1>5 DEF FormatReport
  <2> QED BY <2>1, <2>2, ReportsAreNoNotes DEF Told
<1> QED BY <1>1, <1>2, <1>3, <1>4, <1>5 DEF RunNext

\* A result that a step adds is of a file that was left, which ESLint takes.
LEMMA StepsAndResults ==
  ASSUME RunInv, RunNext, \A i \in DOMAIN jsResults : jsResults[i].file \in JsFiles
  PROVE  \A i \in DOMAIN jsResults' : jsResults'[i].file \in JsFiles
<1>1. CASE \E f \in left : Examine(f)
  <2>1. PICK f \in left : Examine(f)
    BY <1>1
  <2>2. f \in JsFiles
    BY <2>1 DEF Examine, RunInv, Collected
  <2>3. CASE jsResults' = jsResults
    BY <2>3
  <2>4. CASE jsResults' = Append(jsResults, [file |-> f, messages |-> MessagesFor(f)])
    <3> DEFINE r == [file |-> f, messages |-> MessagesFor(f)]
               n == Len(jsResults)
    <3>1. n \in Nat /\ DOMAIN jsResults = 1 .. n
      BY ResultFacts DEF RunInv
    <3>2. jsResults \in Seq(Results)
      BY DEF RunInv, Collected
    <3>3. r.file \in JsFiles
      BY <2>2
    <3> HIDE DEF r, n
    <3>4. jsResults' = Append(jsResults, r)
      BY <2>4 DEF r
    <3>5. DOMAIN jsResults' = 1 .. n + 1
      BY <3>1, <3>2, <3>4 DEF n
    <3>6. jsResults'[n + 1] = r /\ \A i \in 1 .. n : jsResults'[i] = jsResults[i]
      BY <3>1, <3>2, <3>4 DEF n
    <3>7. \A i \in 1 .. n + 1 : i = n + 1 \/ i \in 1 .. n
      BY <3>1
    <3> QED BY <3>1, <3>3, <3>5, <3>6, <3>7
  <2> QED BY <2>1, <2>3, <2>4 DEF Examine
<1>2. CASE ~ \E f \in left : Examine(f)
  <2>1. jsResults' = jsResults
    BY <1>2 DEF RunNext, Note, EslintRefuses, Examined, FormatMessage, FormatResult, FormatEnd,
                FormatReport, Verdict, ScanFile
  <2> QED BY <2>1
<1> QED BY <1>1, <1>2

\* What js.sh does not find base.mjs does not import, and then TypeScript is
\* ignored: the note is never written of files that ESLint reads, for any
\* repository, installation and environment (js.sh; loadTsSupport, oresConfig).
THEOREM NoteIsTrueHolds == RunSpec => []NoteIsTrue
<1>1. RunInit => NoteInv
  BY DEF RunInit, NoteInv, Told
<1>2. RunInv /\ NoteInv /\ [RunNext]_runVars => NoteInv'
  <2> SUFFICES ASSUME RunInv, NoteInv, [RunNext]_runVars PROVE NoteInv'
    OBVIOUS
  <2>1. CASE RunNext
    <3>1. world' = world /\ JsFiles' = JsFiles
      BY <2>1, StepsAndTheNote DEF JsFiles
    <3>2. \A i \in DOMAIN jsResults' : jsResults'[i].file \in JsFiles
      BY <2>1, StepsAndResults DEF NoteInv
    <3>3. Told' => \A id \in {Tooling, Parser} : TryResolve(world.install, id) = "absent"
      BY <2>1, StepsAndTheNote DEF NoteInv
    <3> QED BY <3>1, <3>2, <3>3 DEF NoteInv
  <2>2. CASE UNCHANGED runVars
    BY <2>2 DEF runVars, NoteInv, Told, JsFiles
  <2> QED BY <2>1, <2>2
<1>3. NoteInv => NoteIsTrue
  <2> SUFFICES ASSUME NoteInv, Told, NEW i \in DOMAIN jsResults, jsResults[i].file.ext \in TS_FILES
               PROVE  FALSE
    BY DEF NoteIsTrue
  <2>1. ~LoadTsSupport(world.install)
    BY DEF NoteInv, LoadTsSupport
  <2>2. jsResults[i].file \in JsFiles
    BY DEF NoteInv
  <2> QED BY <2>1, <2>2 DEF JsFiles, EslintTakes, IgnoredTs
<1> QED BY <1>1, <1>2, <1>3, RunInvHolds, PTL DEF RunSpec

-----------------------------------------------------------------------------
(* Which files are read. *)

\* The path of a file is the directories it is in and its name, and the start
\* of a path is as long as one says.
LEMMA PathFacts ==
  ASSUME NEW X, NEW dirs \in Seq(X), NEW name \in X
  PROVE  LET path == Append(dirs, name) IN
         /\ path \in Seq(X) /\ Len(dirs) \in Nat /\ Len(path) = Len(dirs) + 1
         /\ \A k \in 1 .. Len(dirs) : path[k] = dirs[k]
         /\ \A k \in 0 .. Len(dirs) : SubSeq(path, 1, k) = SubSeq(dirs, 1, k)
         /\ \A k \in 1 .. Len(path) : /\ Len(SubSeq(path, 1, k)) = k
                                      /\ SubSeq(path, 1, k)[k] = path[k]
                                      /\ SubSeq(path, k, k) = <<path[k]>>
<1> DEFINE path == Append(dirs, name)
<1>1. /\ path \in Seq(X) /\ Len(dirs) \in Nat /\ Len(path) = Len(dirs) + 1
      /\ \A k \in 1 .. Len(dirs) : path[k] = dirs[k]
  OBVIOUS
<1> HIDE DEF path
<1>2. ASSUME NEW k \in 0 .. Len(dirs)
      PROVE  SubSeq(path, 1, k) = SubSeq(dirs, 1, k)
  <2>1. SubSeq(path, 1, k) = [i \in 1 .. k |-> path[i]] /\ SubSeq(dirs, 1, k) = [i \in 1 .. k |-> dirs[i]]
    BY <1>1
  <2> QED BY <1>1, <2>1
<1>3. ASSUME NEW k \in 1 .. Len(path)
      PROVE  /\ Len(SubSeq(path, 1, k)) = k
             /\ SubSeq(path, 1, k)[k] = path[k]
             /\ SubSeq(path, k, k) = <<path[k]>>
  <2>1. SubSeq(path, 1, k) = [i \in 1 .. k |-> path[i]]
    BY <1>1
  <2>2. Len(SubSeq(path, 1, k)) = k /\ SubSeq(path, 1, k)[k] = path[k]
    BY <1>1, <2>1
  <2>3. SubSeq(path, k, k) \in Seq(X) /\ Len(SubSeq(path, k, k)) = 1 /\ SubSeq(path, k, k)[1] = path[k]
    BY <1>1
  <2> DEFINE one == SubSeq(path, k, k)
             x == path[k]
  <2> HIDE DEF one, x
  <2>4. one = <<x>>
    <3>1. one \in Seq(X) /\ Len(one) = 1 /\ one[1] = x
      BY <2>3 DEF one, x
    <3> QED BY <3>1
  <2> QED BY <2>2, <2>4 DEF one, x
<1> QED BY <1>1, <1>2, <1>3 DEF path

\* A bounded set of numbers has a greatest.
LEMMA HighestOf ==
  ASSUME NEW n \in Nat, NEW S \in SUBSET (1 .. n), S # {}
  PROVE  \E k \in S : \A j \in S : j <= k
<1> DEFINE above == {k \in Nat : \A j \in S : j <= k}
<1>1. n \in above
  OBVIOUS
<1>2. PICK k \in above : \A m \in above : k <= m
  <2>1. above \in SUBSET Nat /\ above # {}
    BY <1>1
  <2> HIDE DEF above
  <2> QED BY <2>1, LeastNumber
<1>3. k \in Nat /\ \A j \in S : j <= k
  BY <1>2
<1>4. ASSUME k \notin S PROVE FALSE
  <2>1. \A j \in S : j <= k - 1 /\ j >= 1
    BY <1>3, <1>4
  <2>2. k - 1 \in Nat
    <3>1. PICK j \in S : TRUE
      OBVIOUS
    <3>2. j \in Nat /\ j <= k - 1
      BY <2>1, <3>1
    <3> QED BY <1>3, <3>2
  <2>3. k - 1 \in above
    BY <2>1, <2>2
  <2> QED BY <1>2, <1>3, <2>3
<1> QED BY <1>3, <1>4

\* What git does with a path is decided by the last line that matches.
LEMMA LastLineDecides ==
  ASSUME NEW lines, NEW n \in Nat, DOMAIN lines = 1 .. n,
         \A k \in 1 .. n : lines[k].kind \in {"comment", "path"},
         NEW path, NEW isFile, NEW k \in 1 .. n, GitHits(lines[k], path, isFile)
  PROVE  GitDrops(lines, path, isFile)
<1> DEFINE hits == {i \in DOMAIN lines : GitHits(lines[i], path, isFile)}
<1>1. hits \in SUBSET (1 .. n) /\ k \in hits
  OBVIOUS
<1>2. \A i \in hits : lines[i].kind = "path"
  BY DEF GitHits
<1> HIDE DEF hits
<1>3. PICK i \in hits : \A j \in hits : j <= i
  BY <1>1, HighestOf
<1> QED BY <1>2, <1>3 DEF GitDrops, hits

\* A line that names a file or a directory on its path: ESLint's pattern for it
\* matches the file when the line hits the path for git, but for the lines that
\* only end in a slash; and the other way round always.
LEMMA LineAndGlob ==
  ASSUME NEW X, NEW f, f.dirs \in Seq(X), f.name \in X,
         NEW l, l.kind = "path", l.segments \in Seq(X) \ {<<>>}, l.dir \in BOOLEAN, l.rooted \in BOOLEAN
  PROVE  LET path == FileSegments(f) IN
         /\ \A j \in DOMAIN path :
              GitHits(l, SubSeq(path, 1, j), j = Len(path)) =>
                \/ Matches(LegacyGlob(l), f)
                \/ l.dir /\ ~l.rooted /\ InDirectory(f, {l.segments[1]})
         /\ Matches(LegacyGlob(l), f) =>
              \E j \in DOMAIN path : GitHits(l, SubSeq(path, 1, j), j = Len(path))
<1> DEFINE path == FileSegments(f)
           s == l.segments
           n == Len(s)
           g == LegacyGlob(l)
           start(j) == SubSeq(path, 1, j)
<1>1. /\ path \in Seq(X) /\ Len(f.dirs) \in Nat /\ Len(path) = Len(f.dirs) + 1
      /\ \A k \in 1 .. Len(f.dirs) : path[k] = f.dirs[k]
      /\ \A k \in 1 .. Len(path) : /\ Len(start(k)) = k
                                   /\ start(k)[k] = path[k]
                                   /\ SubSeq(path, k, k) = <<path[k]>>
  BY PathFacts DEF FileSegments
<1>2. DOMAIN path = 1 .. Len(path) /\ Len(path) \in Nat /\ DOMAIN f.dirs = 1 .. Len(f.dirs)
  BY <1>1
<1>3. s \in Seq(X) /\ n \in Nat \ {0} /\ (n = 1 => s = <<s[1]>>)
  OBVIOUS
<1>4. /\ g.segments = s /\ g.inside = l.dir
      /\ g.anywhere <=> ~l.rooted /\ ~l.dir /\ n = 1
  BY DEF LegacyGlob
<1>5. Matches(g, f) <=>
        \E k \in 1 .. (IF g.anywhere THEN Len(path) ELSE 1) :
          /\ k + n - 1 <= Len(path) - (IF l.dir THEN 1 ELSE 0)
          /\ SubSeq(path, k, k + n - 1) = s
  BY <1>4 DEF Matches
<1>6. \A j : GitHits(l, start(j), j = Len(path)) <=>
        /\ l.dir => j # Len(path)
        /\ IF l.rooted \/ n > 1 THEN start(j) = s ELSE start(j)[Len(start(j))] = s[1]
  BY DEF GitHits
<1> HIDE DEF path, s, n, g
<1>7. ASSUME NEW j \in 1 .. Len(path), GitHits(l, start(j), j = Len(path))
      PROVE  Matches(g, f) \/ (l.dir /\ ~l.rooted /\ InDirectory(f, {s[1]}))
  <2>1. CASE l.rooted \/ n > 1
    <3>1. start(j) = s
      BY <1>6, <1>7, <2>1
    <3>2. n = j
      BY <1>1, <3>1 DEF n
    <3>3. 1 + n - 1 <= Len(path) - (IF l.dir THEN 1 ELSE 0) /\ SubSeq(path, 1, 1 + n - 1) = s
      BY <1>1, <1>2, <1>6, <1>7, <3>1, <3>2
    <3>4. 1 \in 1 .. (IF g.anywhere THEN Len(path) ELSE 1)
      BY <1>2
    <3> QED BY <1>5, <3>3, <3>4
  <2>2. CASE ~(l.rooted \/ n > 1)
    <3>1. n = 1 /\ path[j] = s[1] /\ s = <<s[1]>>
      <4>1. n = 1
        BY <1>3, <2>2
      <4>2. start(j)[Len(start(j))] = s[1] /\ Len(start(j)) = j /\ start(j)[j] = path[j]
        BY <1>1, <1>6, <1>7, <2>2
      <4> QED BY <1>3, <4>1, <4>2
    <3>2. CASE l.dir
      <4>1. j \in 1 .. Len(f.dirs)
        BY <1>1, <1>2, <1>6, <1>7, <3>2
      <4> QED BY <1>1, <1>2, <2>2, <3>1, <3>2, <4>1 DEF InDirectory
    <3>3. CASE ~l.dir
      <4>1. SubSeq(path, j, j) = s
        BY <1>1, <3>1
      <4>2. j + n - 1 = j
        BY <3>1
      <4> QED BY <1>2, <1>4, <1>5, <2>2, <3>1, <3>3, <4>1, <4>2
    <3> QED BY <3>2, <3>3
  <2> QED BY <2>1, <2>2
<1>8. ASSUME Matches(g, f)
      PROVE  \E j \in 1 .. Len(path) : GitHits(l, start(j), j = Len(path))
  <2>1. PICK k \in 1 .. (IF g.anywhere THEN Len(path) ELSE 1) :
          /\ k + n - 1 <= Len(path) - (IF l.dir THEN 1 ELSE 0)
          /\ SubSeq(path, k, k + n - 1) = s
    BY <1>5, <1>8
  <2>2. CASE g.anywhere
    <3>1. n = 1 /\ ~l.dir /\ ~l.rooted /\ k \in 1 .. Len(path) /\ k + n - 1 = k
      BY <1>2, <1>4, <2>1, <2>2
    <3>2. path[k] = s[1]
      BY <1>1, <2>1, <3>1
    <3>3. Len(start(k)) = k /\ start(k)[k] = path[k]
      BY <1>1, <3>1
    <3>4. GitHits(l, start(k), k = Len(path))
      BY <1>6, <3>1, <3>2, <3>3
    <3> QED BY <3>1, <3>4
  <2>3. CASE ~g.anywhere
    <3>1. k = 1 /\ 1 + n - 1 = n
      BY <1>3, <2>1, <2>3
    <3>2. n \in 1 .. Len(path) /\ (l.dir => n # Len(path)) /\ start(n) = s
      BY <1>2, <1>3, <2>1, <3>1
    <3>3. CASE l.rooted \/ n > 1
      BY <1>6, <3>2, <3>3
    <3>4. CASE ~(l.rooted \/ n > 1)
      <4>1. n = 1
        BY <1>3, <3>4
      <4>2. start(1)[Len(start(1))] = s[1]
        BY <1>1, <3>2, <4>1
      <4> QED BY <1>6, <3>2, <3>4, <4>1, <4>2
    <3> QED BY <3>3, <3>4
  <2> QED BY <2>2, <2>3
<1> QED BY <1>2, <1>7, <1>8 DEF path, s, g

\* The patterns of the config say of a file what git and the list of nested
\* repositories say.
LEMMA WorldIsExaminedRight == Chosen => ExaminedRight
<1> SUFFICES ASSUME Chosen, NEW f \in world.files
             PROVE  LET lines == world.repo.legacy
                        nested == \E d \in world.repo.listed : Under(d, f.dirs)
                        plain == f.ext \in JS_FILES /\ ~nested /\ ~InDirectory(f, IGNORED_DIRS)
                    IN  /\ f \in JsFiles /\ f.ext \in TS_FILES =>
                             ParserFor(world.install, world.repo, f) = "typescript"
                        /\ nested => f \notin JsFiles \cup ScanFiles
                        /\ plain /\ f \in JsFiles /\ GitIgnored(lines, f) =>
                             \E k \in DOMAIN lines : lines[k].dir /\ ~lines[k].rooted
                                                       /\ InDirectory(f, {lines[k].segments[1]})
                        /\ plain /\ f \notin JsFiles /\ ~GitIgnored(lines, f) =>
                             \E k \in DOMAIN lines : lines[k].kind = "negated"
  BY DEF ExaminedRight
<1> DEFINE repo == world.repo
           lines == repo.legacy
           path == FileSegments(f)
           nested == \E d \in repo.listed : Under(d, f.dirs)
           plain == f.ext \in JS_FILES /\ ~nested /\ ~InDirectory(f, IGNORED_DIRS)
           X == STRING
           Listed == [kind : {"comment", "negated", "path"}, rooted : BOOLEAN,
                     segments : Seq(X) \ {<<>>}, dir : BOOLEAN]
<1>1. /\ f.dirs \in Seq(X) /\ f.name \in X /\ repo.listed \subseteq Seq(X)
      /\ lines \in Seq(Listed)
  BY WorldsAssumption DEF Chosen
<1>2. f \in JsFiles <=> EslintTakes(world.install, repo, f)
  BY DEF JsFiles
<1>3. f \in ScanFiles => ~InNestedRepo(repo.listed, f)
  BY DEF ScanFiles, ScannerTakes
<1> HIDE DEF X
<1>4. ASSUME NEW k \in DOMAIN lines PROVE lines[k] \in Listed
  <2> HIDE DEF lines, Listed
  <2> QED BY <1>1
<1>5. PICK n \in Nat : DOMAIN lines = 1 .. n
  <2> HIDE DEF lines, Listed
  <2>1. Len(lines) \in Nat /\ DOMAIN lines = 1 .. Len(lines)
    BY <1>1
  <2> QED BY <2>1
<1>6. /\ Len(f.dirs) \in Nat /\ Len(path) = Len(f.dirs) + 1
      /\ \A k \in 0 .. Len(f.dirs) : SubSeq(path, 1, k) = SubSeq(f.dirs, 1, k)
  BY <1>1, PathFacts DEF FileSegments
\* A nested repository's pattern matches what is under it.
<1>7. ASSUME NEW d \in repo.listed
      PROVE  LET g == [anywhere |-> FALSE, segments |-> d, inside |-> TRUE] IN
             /\ Matches(g, f) <=> Under(d, f.dirs)
             /\ Under(d, f.dirs) => Under(d, path)
  <2> DEFINE g == [anywhere |-> FALSE, segments |-> d, inside |-> TRUE]
             m == Len(d)
  <2>1. m \in Nat
    BY <1>1
  <2>2. Matches(g, f) <=> 1 + m - 1 <= Len(path) - 1 /\ SubSeq(path, 1, 1 + m - 1) = d
    BY DEF Matches
  <2>3. Under(d, f.dirs) <=> m <= Len(f.dirs) /\ SubSeq(f.dirs, 1, m) = d
    BY DEF Under
  <2>4. Under(d, path) <=> m <= Len(path) /\ SubSeq(path, 1, m) = d
    BY DEF Under
  <2> HIDE DEF m, path, g
  <2>5. 1 + m - 1 = m /\ (m <= Len(path) - 1 <=> m <= Len(f.dirs)) /\ (m <= Len(f.dirs) => m <= Len(path))
    BY <1>6, <2>1
  <2>6. m <= Len(f.dirs) => SubSeq(path, 1, m) = SubSeq(f.dirs, 1, m)
    BY <1>6, <2>1
  <2> QED BY <2>2, <2>3, <2>4, <2>5, <2>6 DEF g
<1>8. Ignores(repo, f) <=>
        \/ InDirectory(f, IGNORED_DIRS)
        \/ nested
        \/ \E k \in DOMAIN lines : lines[k].kind = "path" /\ Matches(LegacyGlob(lines[k]), f)
  BY <1>7 DEF Ignores, NestedRepoIgnores, LegacyIgnoreFile
<1>9. GitIgnored(lines, f) <=>
        \E j \in DOMAIN path : GitDrops(lines, SubSeq(path, 1, j), j = Len(path))
  BY DEF GitIgnored
<1>10. f \in JsFiles /\ f.ext \in TS_FILES => ParserFor(world.install, repo, f) = "typescript"
  BY <1>2 DEF EslintTakes, IgnoredTs, ParserFor, Blocks
<1>11. nested => f \notin JsFiles \cup ScanFiles
  <2>1. nested => ~EslintTakes(world.install, repo, f)
    BY <1>8 DEF EslintTakes
  <2>2. nested => InNestedRepo(repo.listed, f)
    BY <1>7 DEF InNestedRepo
  <2> QED BY <1>2, <1>3, <2>1, <2>2
<1>12. ASSUME plain, f \in JsFiles, GitIgnored(lines, f)
       PROVE  \E k \in DOMAIN lines : lines[k].dir /\ ~lines[k].rooted
                                        /\ InDirectory(f, {lines[k].segments[1]})
  <2>1. PICK j \in DOMAIN path : GitDrops(lines, SubSeq(path, 1, j), j = Len(path))
    BY <1>9, <1>12
  <2>2. PICK k \in DOMAIN lines : GitHits(lines[k], SubSeq(path, 1, j), j = Len(path)) /\ lines[k].kind = "path"
    BY <2>1 DEF GitDrops
  <2>3. ~Matches(LegacyGlob(lines[k]), f)
    BY <1>2, <1>8, <1>12, <2>2 DEF EslintTakes
  <2>4. lines[k] \in Listed
    BY <1>4
  <2> DEFINE l == lines[k]
  <2>5. l.kind = "path" /\ l.segments \in Seq(X) \ {<<>>} /\ l.dir \in BOOLEAN /\ l.rooted \in BOOLEAN
    BY <2>2, <2>4
  <2>6. l.dir /\ ~l.rooted /\ InDirectory(f, {l.segments[1]})
    <3> HIDE DEF l
    <3>1. GitHits(l, SubSeq(path, 1, j), j = Len(path)) /\ ~Matches(LegacyGlob(l), f)
      BY <2>2, <2>3 DEF l
    <3> QED BY <1>1, <2>1, <2>5, <3>1, LineAndGlob
  <2> QED BY <2>6
<1>13. ASSUME plain, f \notin JsFiles, ~GitIgnored(lines, f),
              \A k \in DOMAIN lines : lines[k].kind # "negated"
       PROVE  FALSE
  <2>1. Blocks(world.install, repo, f) # {} /\ ~IgnoredTs(world.install, f)
    BY <1>13 DEF Blocks, IgnoredTs, JS_FILES, TS_FILES
  <2>2. Ignores(repo, f)
    BY <1>2, <1>13, <2>1 DEF EslintTakes
  <2>3. PICK k \in DOMAIN lines : lines[k].kind = "path" /\ Matches(LegacyGlob(lines[k]), f)
    BY <1>8, <1>13, <2>2
  <2>4. lines[k] \in Listed
    BY <1>4
  <2> DEFINE l == lines[k]
  <2>5. l.kind = "path" /\ l.segments \in Seq(X) \ {<<>>} /\ l.dir \in BOOLEAN /\ l.rooted \in BOOLEAN
    BY <2>3, <2>4
  <2>6. PICK j \in DOMAIN path : GitHits(l, SubSeq(path, 1, j), j = Len(path))
    <3> HIDE DEF l
    <3>1. Matches(LegacyGlob(l), f)
      BY <2>3 DEF l
    <3> QED BY <1>1, <2>5, <3>1, LineAndGlob
  <2>7. \A i \in 1 .. n : lines[i].kind \in {"comment", "path"}
    <3>1. \A i \in DOMAIN lines : lines[i].kind \in {"comment", "negated", "path"}
      BY <1>4
    <3> QED BY <1>5, <1>13, <3>1
  <2>8. GitDrops(lines, SubSeq(path, 1, j), j = Len(path))
    <3> HIDE DEF lines, path
    <3> QED BY <1>5, <2>3, <2>6, <2>7, LastLineDecides
  <2> QED BY <1>9, <1>13, <2>8
<1> QED BY <1>10, <1>11, <1>12, <1>13

\* Every file is read by the half and the parser that are meant for it: no
\* TypeScript by the JavaScript parser, nothing of a nested repository, and of
\* JavaScript what .eslintignore leaves in, but for two kinds of line (oresConfig,
\* nestedRepoIgnores, legacyIgnoreFile, trackedFiles).
THEOREM ExaminedRightHolds == RunSpec => []ExaminedRight
<1>1. RunInv => ExaminedRight
  BY WorldIsExaminedRight DEF RunInv
<1> QED BY <1>1, RunInvHolds, PTL
=============================================================================
