---------------------------- MODULE PendingScopes ----------------------------
(***************************************************************************)
(* The stack of scopes that both halves of the source lint keep            *)
(* (.ores-lint/require-send.mjs and .ores-lint/eslint/plugin.mjs): a scope *)
(* maps a name to the logging event that was bound to it and has not been  *)
(* delivered since.  An event is a positive number; Nothing stands for a   *)
(* name that is not in the map.                                            *)
(***************************************************************************)
EXTENDS Naturals, Sequences, FiniteSets

CONSTANT Names  \* the names events are bound to: sequences of identifiers

Nothing == 0

EmptyScope == [n \in Names |-> Nothing]

Enter(stack) == Append(stack, EmptyScope)

\* Map.set on the innermost scope: an event that was pending under the same
\* name there is forgotten.
Mark(stack, name, event) ==
  [stack EXCEPT ![Len(stack)] = [@ EXCEPT ![name] = event]]

Holding(stack, name) ==
  {k \in DOMAIN stack : name \in Names /\ stack[k][name] # Nothing}

IsPending(stack, name) == Holding(stack, name) # {}

Innermost(ks) == CHOOSE k \in ks : \A other \in ks : other <= k

\* Forget what is pending under the name in the innermost scope that has it.
Clear(stack, name) ==
  LET ks == Holding(stack, name)
  IN  IF ks = {} THEN stack
      ELSE [stack EXCEPT ![Innermost(ks)] = [@ EXCEPT ![name] = Nothing]]

\* How often the event is pending in a scope.
Times(scope, event) == Cardinality({n \in Names : scope[n] = event})

\* Reports, by event, after every event left in the scope has been reported;
\* but for those in silenced, whose reports a comment in the source suppresses.
Flush(reports, scope, silenced) ==
  [e \in DOMAIN reports |-> reports[e] + IF e \in silenced THEN 0 ELSE Times(scope, e)]
=============================================================================
