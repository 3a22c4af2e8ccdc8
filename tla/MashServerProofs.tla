-------------------------- MODULE MashServerProofs --------------------------
(***************************************************************************)
(* Proofs about MashServer for every number of requests, every MAX_ITEMS   *)
(* and every number of restarts: types, the lock, the ledger of items and  *)
(* events, and that the handlers implement ReservationService.             *)
(***************************************************************************)
EXTENDS MashServer, TLAPS

\* Appending to a sequence adds its element, and nothing else moves.
LEMMA AppendFacts ==
  ASSUME NEW S, NEW seq \in Seq(S), NEW e \in S
  PROVE  /\ Append(seq, e) \in Seq(S)
         /\ Len(Append(seq, e)) = Len(seq) + 1
         /\ \A i \in 1..Len(seq) : Append(seq, e)[i] = seq[i]
         /\ Append(seq, e)[Len(seq) + 1] = e
         /\ Len(seq) \in Nat
OBVIOUS

LEMMA MembersOf ==
  ASSUME NEW S, NEW seq \in Seq(S)
  PROVE  /\ Members(seq) = {seq[i] : i \in 1..Len(seq)}
         /\ Members(seq) \subseteq S
BY DEF Members

LEMMA MembersAppend ==
  ASSUME NEW S, NEW seq \in Seq(S), NEW e \in S
  PROVE  Members(Append(seq, e)) = Members(seq) \cup {e}
<1> DEFINE longer == Append(seq, e)
<1>1. /\ longer \in Seq(S)
      /\ Len(longer) = Len(seq) + 1
      /\ \A i \in 1..Len(seq) : longer[i] = seq[i]
      /\ longer[Len(seq) + 1] = e
      /\ Len(seq) \in Nat
  BY AppendFacts
<1> HIDE DEF longer
<1>2. Members(longer) = {longer[i] : i \in 1..Len(longer)}
  BY <1>1, MembersOf
<1>3. Members(seq) = {seq[i] : i \in 1..Len(seq)}
  BY MembersOf
<1>4. 1..Len(longer) = 1..Len(seq) \cup {Len(seq) + 1}
  BY <1>1
<1>5. Members(longer) = Members(seq) \cup {e}
  BY <1>1, <1>2, <1>3, <1>4
<1> QED BY <1>5 DEF longer
-----------------------------------------------------------------------------
\* Every state variable keeps its type in every reachable state of the handlers.
THEOREM TypeCorrect == Spec => []TypeOK
<1>1. Init => TypeOK
  BY ServerAssumption DEF Init, TypeOK
<1>2. TypeOK /\ [Next]_vars => TypeOK'
  <2> SUFFICES ASSUME TypeOK, [Next]_vars PROVE TypeOK'
    OBVIOUS
  <2>1. ASSUME NEW r \in Requests, Enqueue(r) PROVE TypeOK'
    BY <2>1 DEF Enqueue, Goto, TypeOK
  <2>2. ASSUME NEW r \in Requests, Forbid(r) PROVE TypeOK'
    BY <2>2 DEF Forbid, Answer, Goto, TypeOK
  <2>3. ASSUME NEW r \in Requests, RejectInput(r) PROVE TypeOK'
    BY <2>3 DEF RejectInput, Answer, Goto, TypeOK
  <2>4. ASSUME NEW r \in Requests, Push(r) PROVE TypeOK'
    <3>1. items' \in Seq(Creates \cup Nat)
      BY <2>4, AppendFacts DEF Push, TypeOK
    <3> QED BY <2>4, <3>1 DEF Push, Goto, TypeOK
  <2>5. ASSUME NEW r \in Requests, RejectFull(r) PROVE TypeOK'
    BY <2>5 DEF RejectFull, Answer, Goto, TypeOK
  <2>6. ASSUME NEW r \in Requests, Render(r) PROVE TypeOK'
    BY <2>6 DEF Render, Goto, TypeOK
  <2>7. ASSUME NEW r \in Requests, ReturnRead(r) PROVE TypeOK'
    BY <2>7 DEF ReturnRead, Answer, Goto, TypeOK
  <2>8. ASSUME NEW r \in Requests, DropGuard(r) PROVE TypeOK'
    BY <2>8 DEF DropGuard, Goto, TypeOK
  <2>9. ASSUME NEW r \in Requests, Send(r) PROVE TypeOK'
    <3>1. events' \in Seq(Creates)
      BY <2>9, AppendFacts DEF Send, TypeOK
    <3> QED BY <2>9, <3>1 DEF Send, Answer, Goto, TypeOK
  <2>10. ASSUME NEW r \in Requests, Deliver(r) PROVE TypeOK'
    BY <2>10 DEF Deliver, Goto, TypeOK
  <2>11. ASSUME NEW r \in Requests, Disconnect(r) PROVE TypeOK'
    BY <2>11 DEF Disconnect, TypeOK
  <2>12. CASE Restart
    <3>1. boot' \in 0..MaxRestarts
      BY <2>12, ServerAssumption DEF Restart, TypeOK
    <3>2. items' \in Seq(Creates \cup Nat) /\ events' \in Seq(Creates)
      BY <2>12, <3>1 DEF Restart
    <3>3. demoWrites' \in BOOLEAN
      BY <2>12 DEF Restart
    <3>4. pc' \in [Requests -> {"idle", "waiting", "pushed", "rendered", "unlocked",
                               "answered", "done", "lost"}]
      BY <2>12 DEF Restart, TypeOK
    <3>5. UNCHANGED <<ticket, nextTicket, rendered, status>>
      BY <2>12 DEF Restart
    <3> QED BY <3>1, <3>2, <3>3, <3>4, <3>5 DEF TypeOK
  <2>13. CASE UNCHANGED vars
    BY <2>13 DEF vars, TypeOK
  <2> QED
    BY <2>1, <2>2, <2>3, <2>4, <2>5, <2>6, <2>7, <2>8, <2>9, <2>10, <2>11, <2>12, <2>13
    DEF Next, Advance, ArriveRead, ArriveCreate
<1> QED BY <1>1, <1>2, PTL DEF Spec
-----------------------------------------------------------------------------
(***************************************************************************)
(* The lock.  Tickets order the queue, and whoever is past its await still *)
(* holds the lock: nobody can come in front of it, and those behind it do  *)
(* not pass unless all are readers.                                        *)
(***************************************************************************)
InGuard(r) == pc[r] \in {"pushed", "rendered"}

LockInv ==
  \A r \in Requests :
    /\ pc[r] \in {"pushed", "unlocked"} => r \in Creates
    /\ Queued(r) => ticket[r] < nextTicket
    /\ \A s \in Requests : Queued(r) /\ Queued(s) /\ ticket[r] = ticket[s] => r = s
    /\ InGuard(r) => Holds(r)

\* A step that gives out no ticket and lets only a holder past its await keeps
\* the lock's invariant.
LEMMA QueueShrinks ==
  ASSUME TypeOK, LockInv, UNCHANGED <<ticket, nextTicket>>,
         \A r \in Requests : Queued(r)' => Queued(r),
         \A r \in Requests : InGuard(r)' => Holds(r),
         \A r \in Requests : pc'[r] \in {"pushed", "unlocked"} => r \in Creates
  PROVE  LockInv'
<1> SUFFICES ASSUME NEW r \in Requests
             PROVE  /\ pc'[r] \in {"pushed", "unlocked"} => r \in Creates
                    /\ Queued(r)' => ticket'[r] < nextTicket'
                    /\ \A s \in Requests :
                         Queued(r)' /\ Queued(s)' /\ ticket'[r] = ticket'[s] => r = s
                    /\ InGuard(r)' => Holds(r)'
  BY DEF LockInv
<1>1. Queued(r)' => ticket'[r] < nextTicket'
  BY DEF LockInv
<1>2. \A s \in Requests : Queued(r)' /\ Queued(s)' /\ ticket'[r] = ticket'[s] => r = s
  BY DEF LockInv
<1>3. InGuard(r)' => Holds(r)'
  <2> SUFFICES ASSUME InGuard(r)' PROVE Holds(r)'
    OBVIOUS
  <2>1. Holds(r) /\ Queued(r)'
    BY DEF InGuard, Queued
  <2> QED BY <2>1 DEF Holds
<1> QED BY <1>1, <1>2, <1>3

\* A handler that joins the queue comes behind everybody in it.
LEMMA EnqueueLock ==
  ASSUME TypeOK, LockInv, NEW q \in Requests, Enqueue(q)
  PROVE  LockInv'
<1>1. /\ \A r \in Requests : r # q => pc'[r] = pc[r] /\ ticket'[r] = ticket[r]
      /\ pc[q] = "idle" /\ pc'[q] = "waiting"
      /\ ticket'[q] = nextTicket /\ nextTicket' = nextTicket + 1
  BY DEF Enqueue, Goto, TypeOK
<1>2. /\ nextTicket \in Nat
      /\ \A r \in Requests : ticket[r] \in Nat
  BY DEF TypeOK
<1>3. \A r \in Requests : r # q => (Queued(r)' <=> Queued(r))
  BY <1>1 DEF Queued
<1> SUFFICES ASSUME NEW r \in Requests
             PROVE  /\ pc'[r] \in {"pushed", "unlocked"} => r \in Creates
                    /\ Queued(r)' => ticket'[r] < nextTicket'
                    /\ \A s \in Requests :
                         Queued(r)' /\ Queued(s)' /\ ticket'[r] = ticket'[s] => r = s
                    /\ InGuard(r)' => Holds(r)'
  BY DEF LockInv
<1>4. pc'[r] \in {"pushed", "unlocked"} => r \in Creates
  BY <1>1 DEF LockInv
<1>5. Queued(r)' => ticket'[r] < nextTicket'
  BY <1>1, <1>2, <1>3 DEF LockInv
<1>6. \A s \in Requests : Queued(r)' /\ Queued(s)' /\ ticket'[r] = ticket'[s] => r = s
  BY <1>1, <1>2, <1>3 DEF LockInv
<1>7. InGuard(r)' => Holds(r)'
  <2> SUFFICES ASSUME InGuard(r)', NEW s \in Requests, Queued(s)', ticket'[s] < ticket'[r]
               PROVE  r \in Reads /\ s \in Reads
    BY DEF Holds, InGuard, Queued
  <2>1. r # q /\ InGuard(r) /\ Queued(r)
    BY <1>1 DEF InGuard, Queued
  <2>2. s # q
    BY <1>1, <1>2, <2>1 DEF LockInv
  <2>3. Holds(r) /\ Queued(s) /\ ticket[s] < ticket[r]
    BY <1>1, <1>3, <2>1, <2>2 DEF LockInv
  <2> QED BY <2>3 DEF Holds
<1> QED BY <1>4, <1>5, <1>6, <1>7

\* The lock's invariant holds in every reachable state.
LEMMA LockCorrect == Spec => []LockInv
<1>1. Init => LockInv
  BY DEF Init, LockInv, Queued, InGuard
<1>2. TypeOK /\ LockInv /\ [Next]_vars => LockInv'
  <2> SUFFICES ASSUME TypeOK, LockInv, [Next]_vars PROVE LockInv'
    OBVIOUS
  <2>1. \A r \in Requests : InGuard(r) => Holds(r) /\ Queued(r)
    BY DEF LockInv, InGuard, Queued
  <2>2. ASSUME NEW q \in Requests, Forbid(q) \/ RejectInput(q) PROVE LockInv'
    BY <2>1, <2>2, QueueShrinks
    DEF Forbid, RejectInput, Answer, Goto, LockInv, Queued, InGuard, TypeOK
  <2>3. ASSUME NEW q \in Requests, Push(q) PROVE LockInv'
    BY <2>1, <2>3, QueueShrinks DEF Push, Goto, LockInv, Queued, InGuard, TypeOK
  <2>4. ASSUME NEW q \in Requests, RejectFull(q) PROVE LockInv'
    BY <2>1, <2>4, QueueShrinks
    DEF RejectFull, Answer, Goto, LockInv, Queued, InGuard, TypeOK
  <2>5. ASSUME NEW q \in Requests, Render(q) PROVE LockInv'
    BY <2>1, <2>5, QueueShrinks DEF Render, Goto, LockInv, Queued, InGuard, TypeOK
  <2>6. ASSUME NEW q \in Requests, ReturnRead(q) PROVE LockInv'
    BY <2>1, <2>6, QueueShrinks
    DEF ReturnRead, Answer, Goto, LockInv, Queued, InGuard, TypeOK
  <2>7. ASSUME NEW q \in Requests, DropGuard(q) PROVE LockInv'
    BY <2>1, <2>7, QueueShrinks DEF DropGuard, Goto, LockInv, Queued, InGuard, TypeOK
  <2>8. ASSUME NEW q \in Requests, Send(q) PROVE LockInv'
    BY <2>1, <2>8, QueueShrinks DEF Send, Answer, Goto, LockInv, Queued, InGuard, TypeOK
  <2>9. ASSUME NEW q \in Requests, Deliver(q) PROVE LockInv'
    BY <2>1, <2>9, QueueShrinks DEF Deliver, Goto, LockInv, Queued, InGuard, TypeOK
  <2>10. ASSUME NEW q \in Requests, Disconnect(q) PROVE LockInv'
    BY <2>1, <2>10, QueueShrinks DEF Disconnect, LockInv, Queued, InGuard, TypeOK
  <2>11. CASE Restart
    <3>1. \A r \in Requests : pc'[r] \in {"idle", "done", "lost"}
      BY <2>11 DEF Restart
    <3> QED BY <2>11, <3>1 DEF Restart, LockInv, Queued, InGuard
  <2>12. CASE UNCHANGED vars
    BY <2>1, <2>12, QueueShrinks DEF vars, LockInv, Queued, InGuard
  <2> QED
    BY <2>2, <2>3, <2>4, <2>5, <2>6, <2>7, <2>8, <2>9, <2>10, <2>11, <2>12, EnqueueLock
    DEF Next, Advance, ArriveRead, ArriveCreate
<1> QED BY <1>1, <1>2, TypeCorrect, PTL DEF Spec

\* Two handlers between lock and unlock are readers, for any number of handlers.
THEOREM ExclusionHolds == Spec => []Exclusion
<1>1. TypeOK /\ LockInv => Exclusion
  <2> SUFFICES ASSUME TypeOK, LockInv, NEW r \in Requests, NEW s \in Requests,
                      InGuard(r), InGuard(s), r # s
               PROVE  r \in Reads /\ s \in Reads
    BY DEF Exclusion, InGuard
  <2>1. /\ Queued(r) /\ Queued(s) /\ Holds(r) /\ Holds(s)
        /\ ticket[r] # ticket[s]
    BY DEF LockInv, InGuard, Queued
  <2>2. ticket[r] < ticket[s] \/ ticket[s] < ticket[r]
    BY <2>1 DEF TypeOK
  <2> QED BY <2>1, <2>2 DEF Holds
<1> QED BY <1>1, TypeCorrect, LockCorrect, PTL
-----------------------------------------------------------------------------
(***************************************************************************)
(* The ledger.  Whether an item is in the list and whether its event was   *)
(* sent is a matter of where its handler is.                               *)
(***************************************************************************)
Before == {"idle", "waiting"}
Between == {"pushed", "rendered", "unlocked"}
After == {"answered", "done", "lost"}

NoDuplicates(seq) == \A i, j \in 1..Len(seq) : seq[i] = seq[j] => i = j

LedgerInv ==
  /\ Len(items) <= MaxItems
  /\ NoDuplicates(items)
  /\ NoDuplicates(events)
  /\ \A r \in Creates : r \in Members(items) => pc[r] \notin Before
  /\ \A r \in Creates : pc[r] \in Between => r \in Members(items)
  /\ \A r \in Members(events) : r \in Members(items) /\ pc[r] \in After
  /\ \A r \in Creates : r \in Members(items) => r \in Members(events) \/ pc[r] \in Between

LEMMA AppendNoDuplicates ==
  ASSUME NEW S, NEW seq \in Seq(S), NEW e \in S, e \notin Members(seq), NoDuplicates(seq)
  PROVE  NoDuplicates(Append(seq, e))
<1> DEFINE longer == Append(seq, e)
<1>1. /\ Len(longer) = Len(seq) + 1
      /\ \A i \in 1..Len(seq) : longer[i] = seq[i]
      /\ longer[Len(seq) + 1] = e
      /\ Len(seq) \in Nat
  BY AppendFacts
<1>2. \A i \in 1..Len(seq) : seq[i] # e
  BY MembersOf
<1> HIDE DEF longer
<1>3. ASSUME NEW i \in 1..Len(longer), NEW j \in 1..Len(longer), longer[i] = longer[j]
      PROVE  i = j
  <2>1. /\ i \in 1..Len(seq) \/ i = Len(seq) + 1
        /\ j \in 1..Len(seq) \/ j = Len(seq) + 1
    BY <1>1
  <2> QED BY <1>1, <1>2, <1>3, <2>1 DEF NoDuplicates
<1>4. NoDuplicates(longer)
  BY <1>3 DEF NoDuplicates
<1> QED BY <1>4 DEF longer

\* A step that leaves list and channel alone and moves every create within its
\* part of the handler keeps the ledger.
LEMMA LedgerFrame ==
  ASSUME TypeOK, LedgerInv, UNCHANGED <<items, events>>,
         \A r \in Creates : /\ pc'[r] \in Before => pc[r] \in Before
                            /\ pc[r] \in Between <=> pc'[r] \in Between
                            /\ pc[r] \in After => pc'[r] \in After
  PROVE  LedgerInv'
<1>1. Members(events) \subseteq Creates
  BY MembersOf DEF TypeOK
<1>2. /\ Members(events)' = Members(events)
      /\ Members(items)' = Members(items)
      /\ NoDuplicates(items)' /\ NoDuplicates(events)'
  BY DEF Members, NoDuplicates, LedgerInv
<1> QED BY <1>1, <1>2 DEF LedgerInv

\* The ledger is right in every reachable state.
LEMMA LedgerCorrect == Spec => []LedgerInv
<1>1. Init => LedgerInv
  <2> SUFFICES ASSUME Init PROVE LedgerInv
    OBVIOUS
  <2>1. /\ Members(items) = {0} /\ Members(events) = {}
        /\ NoDuplicates(items) /\ NoDuplicates(events)
        /\ Len(items) = 1
    BY DEF Init, Members, NoDuplicates
  <2>2. 0 \notin Creates
    BY ServerAssumption
  <2>3. \A r \in Creates : pc[r] = "idle"
    BY DEF Init, Requests
  <2> QED BY <2>1, <2>2, <2>3, ServerAssumption DEF LedgerInv, Between, Before
<1>2. TypeOK /\ LockInv /\ LedgerInv /\ [Next]_vars => LedgerInv'
  <2> SUFFICES ASSUME TypeOK, LockInv, LedgerInv, [Next]_vars PROVE LedgerInv'
    OBVIOUS
  <2> USE DEF Before, Between, After
  <2>1. Creates \subseteq Requests
    BY DEF Requests
  <2>2. ASSUME NEW q \in Requests, Enqueue(q) PROVE LedgerInv'
    BY <2>1, <2>2, LedgerFrame DEF Enqueue, Goto, TypeOK
  <2>3. ASSUME NEW q \in Requests, Forbid(q) \/ RejectInput(q) PROVE LedgerInv'
    <3>1. /\ pc[q] = "idle" /\ pc' = [pc EXCEPT ![q] = "answered"]
          /\ UNCHANGED <<items, events>>
      BY <2>3 DEF Forbid, RejectInput, Answer, Goto
    <3> QED BY <2>1, <3>1, LedgerFrame DEF TypeOK
  <2>4. ASSUME NEW q \in Requests, Push(q) PROVE LedgerInv'
    <3>1. /\ q \in Creates /\ pc[q] = "waiting"
          /\ pc' = [pc EXCEPT ![q] = "pushed"]
          /\ Len(items) < MaxItems
          /\ items' = Append(items, q) /\ events' = events
      BY <2>4 DEF Push, Goto
    <3>2. items \in Seq(Creates \cup Nat) /\ q \in Creates \cup Nat
      BY <3>1 DEF TypeOK
    <3>3. q \notin Members(items)
      BY <3>1 DEF LedgerInv
    <3>4. Members(items)' = Members(items) \cup {q} /\ Members(events)' = Members(events)
      BY <3>1, <3>2, MembersAppend DEF Members
    <3>5. NoDuplicates(items)' /\ NoDuplicates(events)'
      BY <3>1, <3>2, <3>3, AppendNoDuplicates DEF LedgerInv, NoDuplicates
    <3>6. Len(items') <= MaxItems
      BY <3>1, <3>2, AppendFacts, ServerAssumption
    <3>7. q \notin Members(events)
      BY <3>1 DEF LedgerInv
    <3>8. /\ \A r \in Creates : r # q => pc'[r] = pc[r]
          /\ pc'[q] = "pushed"
          /\ Members(events) \subseteq Creates
      BY <2>1, <3>1, MembersOf DEF TypeOK
    <3> QED BY <3>1, <3>4, <3>5, <3>6, <3>7, <3>8 DEF LedgerInv
  <2>5. ASSUME NEW q \in Requests, RejectFull(q) PROVE LedgerInv'
    BY <2>1, <2>5, LedgerFrame DEF RejectFull, Answer, Goto, TypeOK
  <2>6. ASSUME NEW q \in Requests, Render(q) PROVE LedgerInv'
    <3>1. q \in Creates => pc[q] = "pushed"
      BY <2>6 DEF Render, Goto
    <3>2. /\ pc' = [pc EXCEPT ![q] = "rendered"]
          /\ UNCHANGED <<items, events>>
      BY <2>6 DEF Render, Goto
    <3> QED BY <2>1, <3>1, <3>2, LedgerFrame DEF TypeOK
  <2>7. ASSUME NEW q \in Requests, ReturnRead(q) PROVE LedgerInv'
    BY <2>1, <2>7, LedgerFrame, ServerAssumption DEF ReturnRead, Answer, Goto, TypeOK
  <2>8. ASSUME NEW q \in Requests, DropGuard(q) PROVE LedgerInv'
    BY <2>1, <2>8, LedgerFrame DEF DropGuard, Goto, TypeOK
  <2>9. ASSUME NEW q \in Requests, Send(q) PROVE LedgerInv'
    <3>1. /\ q \in Creates /\ pc[q] = "unlocked"
          /\ pc' = [pc EXCEPT ![q] = "answered"]
          /\ events' = Append(events, q) /\ items' = items
      BY <2>9 DEF Send, Answer, Goto
    <3>2. q \notin Members(events)
      BY <3>1 DEF LedgerInv
    <3>3. Members(events)' = Members(events) \cup {q} /\ Members(items)' = Members(items)
      <4>1. events \in Seq(Creates)
        BY DEF TypeOK
      <4>2. Members(Append(events, q)) = Members(events) \cup {q}
        BY <3>1, <4>1, MembersAppend
      <4> QED BY <3>1, <4>2 DEF Members
    <3>4. NoDuplicates(items)' /\ NoDuplicates(events)'
      BY <3>1, <3>2, AppendNoDuplicates DEF TypeOK, LedgerInv, NoDuplicates
    <3>5. /\ \A r \in Creates : r # q => pc'[r] = pc[r]
          /\ pc'[q] = "answered"
          /\ Members(events) \subseteq Creates
      BY <2>1, <3>1, MembersOf DEF TypeOK
    <3>6. Len(items)' <= MaxItems
      BY <3>1 DEF LedgerInv
    <3> QED BY <3>1, <3>3, <3>4, <3>5, <3>6 DEF LedgerInv
  <2>10. ASSUME NEW q \in Requests, Deliver(q) PROVE LedgerInv'
    BY <2>1, <2>10, LedgerFrame DEF Deliver, Goto, TypeOK
  <2>11. ASSUME NEW q \in Requests, Disconnect(q) PROVE LedgerInv'
    BY <2>1, <2>11, LedgerFrame DEF Disconnect, TypeOK
  <2>12. CASE Restart
    <3>1. /\ items' = <<boot + 1>> /\ events' = <<>>
          /\ \A r \in Requests : pc'[r] \in {"idle", "done", "lost"}
      BY <2>12 DEF Restart
    <3>2. boot + 1 \in Nat /\ boot + 1 \notin Creates
      BY ServerAssumption DEF TypeOK
    <3>3. /\ Members(items)' = {boot + 1} /\ Members(events)' = {}
          /\ NoDuplicates(items)' /\ NoDuplicates(events)'
          /\ Len(items)' = 1
      BY <3>1 DEF Members, NoDuplicates
    <3> QED BY <2>1, <3>1, <3>2, <3>3, ServerAssumption DEF LedgerInv
  <2>13. CASE UNCHANGED vars
    BY <2>13, LedgerFrame DEF vars
  <2> QED
    BY <2>2, <2>3, <2>4, <2>5, <2>6, <2>7, <2>8, <2>9, <2>10, <2>11, <2>12, <2>13
    DEF Next, Advance, ArriveRead, ArriveCreate
<1> QED BY <1>1, <1>2, TypeCorrect, LockCorrect, PTL DEF Spec

\* The list keeps to MAX_ITEMS and holds no item twice, for every MAX_ITEMS and
\* any number of creates queued together.
THEOREM CapacityHolds == Spec => []Capacity
<1>1. LedgerInv => Capacity
  BY DEF LedgerInv, Capacity, NoDuplicates
<1> QED BY <1>1, LedgerCorrect, PTL

\* An event is sent at most once per item and only after its item is in the list.
THEOREM NotifyAfterCommitHolds == Spec => []NotifyAfterCommit
<1>1. TypeOK /\ LedgerInv => NotifyAfterCommit
  BY MembersOf DEF TypeOK, LedgerInv, NotifyAfterCommit, NoDuplicates, Committed
<1> QED BY <1>1, TypeCorrect, LedgerCorrect, PTL

\* A committed item is announced or its handler is about to announce it,
\* wherever clients disconnect.
THEOREM CommitWillNotifyHolds == Spec => []CommitWillNotify
<1>1. LedgerInv => CommitWillNotify
  BY DEF LedgerInv, CommitWillNotify, Committed, Between
<1> QED BY <1>1, LedgerCorrect, PTL
-----------------------------------------------------------------------------
(***************************************************************************)
(* The history.  A list a handler turned into markup is a prefix of the    *)
(* list of the process that made it, up to and including its own item.     *)
(***************************************************************************)
HasList(r) ==
  \/ pc[r] \in {"rendered", "unlocked"}
  \/ pc[r] \in {"answered", "done"} /\ status[r] = 200

Prefix(short, long) ==
  /\ Len(short) <= Len(long)
  /\ \A i \in 1..Len(short) : short[i] = long[i]

ListOK(r, list, current, b) ==
  /\ Len(list) >= 1
  /\ list[1] \in 0..b
  /\ list[1] = b => Prefix(list, current)
  /\ r \in Creates => list[Len(list)] = r

HistoryInv ==
  /\ Len(items) >= 1
  /\ items[1] = boot
  /\ \A r \in Requests :
       /\ pc[r] = "pushed" => items[Len(items)] = r
       /\ HasList(r) => ListOK(r, rendered[r], items, boot)
       /\ pc[r] \in {"answered", "done"} => status[r] # 0
       /\ pc[r] \in {"answered", "done"} /\ status[r] = 503 /\ boot = 0
            => Len(items) = MaxItems

\* A step that leaves the list alone and gives no handler a list, an answer or
\* a push it did not have keeps the history.
LEMMA HistoryFrame ==
  ASSUME TypeOK, HistoryInv, UNCHANGED <<items, boot>>,
         \A r \in Requests :
           \/ pc'[r] \in {"idle", "waiting", "lost"}
           \/ /\ rendered'[r] = rendered[r] /\ status'[r] = status[r]
              /\ \/ pc'[r] = pc[r]
                 \/ pc[r] = "rendered" /\ pc'[r] = "unlocked"
                 \/ pc[r] = "answered" /\ pc'[r] = "done"
           \/ /\ pc'[r] = "answered"
              /\ \/ status'[r] \in {403, 422}
                 \/ status'[r] = 503 /\ (boot = 0 => Len(items) = MaxItems)
                 \/ pc[r] \in {"rendered", "unlocked"} /\ status'[r] = 200
                    /\ rendered'[r] = rendered[r]
           \/ pc'[r] = "rendered" /\ ListOK(r, rendered'[r], items, boot)
  PROVE  HistoryInv'
<1>1. Len(items') >= 1 /\ items'[1] = boot'
  BY DEF HistoryInv
<1>2. ASSUME NEW r \in Requests
      PROVE  /\ pc'[r] = "pushed" => items'[Len(items')] = r
             /\ HasList(r)' => ListOK(r, rendered'[r], items', boot')
             /\ pc'[r] \in {"answered", "done"} => status'[r] # 0
             /\ pc'[r] \in {"answered", "done"} /\ status'[r] = 503 /\ boot' = 0
                  => Len(items') = MaxItems
  BY <1>2 DEF HistoryInv, HasList
<1> QED BY <1>1, <1>2 DEF HistoryInv

\* The history is right in every reachable state.
LEMMA HistoryCorrect == Spec => []HistoryInv
<1>1. Init => HistoryInv
  BY DEF Init, HistoryInv, HasList
<1>2. TypeOK /\ LockInv /\ LedgerInv /\ HistoryInv /\ [Next]_vars => HistoryInv'
  <2> SUFFICES ASSUME TypeOK, LockInv, LedgerInv, HistoryInv, [Next]_vars PROVE HistoryInv'
    OBVIOUS
  <2>1. ASSUME NEW q \in Requests, Enqueue(q) PROVE HistoryInv'
    BY <2>1, HistoryFrame DEF Enqueue, Goto, TypeOK
  <2>2. ASSUME NEW q \in Requests, Forbid(q) PROVE HistoryInv'
    BY <2>2, HistoryFrame DEF Forbid, Answer, Goto, TypeOK
  <2>3. ASSUME NEW q \in Requests, RejectInput(q) PROVE HistoryInv'
    BY <2>3, HistoryFrame DEF RejectInput, Answer, Goto, TypeOK
  <2>4. ASSUME NEW q \in Requests, Push(q) PROVE HistoryInv'
    <3>1. /\ q \in Creates /\ Holds(q) /\ pc[q] = "waiting"
          /\ pc' = [pc EXCEPT ![q] = "pushed"]
          /\ Len(items) < MaxItems
          /\ items' = Append(items, q)
          /\ UNCHANGED <<boot, rendered, status>>
      BY <2>4 DEF Push, Goto
    <3>2. items \in Seq(Creates \cup Nat) /\ q \in Creates \cup Nat
      BY <3>1 DEF TypeOK
    <3>3. /\ Len(items') = Len(items) + 1
          /\ \A i \in 1..Len(items) : items'[i] = items[i]
          /\ items'[Len(items) + 1] = q
          /\ Len(items) \in Nat
      BY <3>1, <3>2, AppendFacts
    <3>4. Len(items') >= 1 /\ items'[1] = boot'
      BY <3>1, <3>3 DEF HistoryInv
    <3>5. ASSUME NEW r \in Requests, r # q PROVE pc[r] # "pushed"
      <4> SUFFICES ASSUME pc[r] = "pushed" PROVE FALSE
        OBVIOUS
      <4>1. /\ Queued(q) /\ Queued(r) /\ Holds(r) /\ r \in Creates
            /\ ticket[r] # ticket[q]
        BY <3>1, <3>5 DEF LockInv, InGuard, Queued
      <4>2. ticket[r] < ticket[q] \/ ticket[q] < ticket[r]
        BY <4>1 DEF TypeOK
      <4> QED BY <3>1, <4>1, <4>2, ServerAssumption DEF Holds
    <3>6. ASSUME NEW r \in Requests, HasList(r)'
          PROVE  ListOK(r, rendered'[r], items', boot')
      <4>1. r # q /\ HasList(r)
        BY <3>1, <3>6 DEF HasList, TypeOK
      <4>2. ListOK(r, rendered[r], items, boot) /\ rendered[r] \in Seq(Creates \cup Nat)
        BY <4>1 DEF HistoryInv, TypeOK
      <4> QED BY <3>1, <3>3, <4>2 DEF ListOK, Prefix
    <3>7. ASSUME NEW r \in Requests
          PROVE  /\ pc'[r] = "pushed" => items'[Len(items')] = r
                 /\ pc'[r] \in {"answered", "done"} => status'[r] # 0
                 /\ pc'[r] \in {"answered", "done"} /\ status'[r] = 503 /\ boot' = 0
                      => Len(items') = MaxItems
      BY <3>1, <3>3, <3>5, ServerAssumption DEF HistoryInv, TypeOK
    <3> QED BY <3>4, <3>6, <3>7 DEF HistoryInv
  <2>5. ASSUME NEW q \in Requests, RejectFull(q) PROVE HistoryInv'
    <3>1. Len(items) = MaxItems
      BY <2>5, ServerAssumption DEF RejectFull, LedgerInv, TypeOK
    <3> QED BY <2>5, <3>1, HistoryFrame DEF RejectFull, Answer, Goto, TypeOK
  <2>6. ASSUME NEW q \in Requests, Render(q) PROVE HistoryInv'
    <3>1. /\ pc[q] = (IF q \in Creates THEN "pushed" ELSE "waiting")
          /\ pc' = [pc EXCEPT ![q] = "rendered"]
          /\ rendered' = [rendered EXCEPT ![q] = items]
          /\ UNCHANGED <<items, boot, status>>
      BY <2>6 DEF Render, Goto
    <3>2. ListOK(q, items, items, boot)
      BY <3>1 DEF ListOK, Prefix, HistoryInv, TypeOK
    <3> QED BY <3>1, <3>2, HistoryFrame DEF TypeOK
  <2>7. ASSUME NEW q \in Requests, ReturnRead(q) PROVE HistoryInv'
    BY <2>7, HistoryFrame DEF ReturnRead, Answer, Goto, TypeOK
  <2>8. ASSUME NEW q \in Requests, DropGuard(q) PROVE HistoryInv'
    BY <2>8, HistoryFrame DEF DropGuard, Goto, TypeOK
  <2>9. ASSUME NEW q \in Requests, Send(q) PROVE HistoryInv'
    BY <2>9, HistoryFrame DEF Send, Answer, Goto, TypeOK
  <2>10. ASSUME NEW q \in Requests, Deliver(q) PROVE HistoryInv'
    BY <2>10, HistoryFrame DEF Deliver, Goto, TypeOK
  <2>11. ASSUME NEW q \in Requests, Disconnect(q) PROVE HistoryInv'
    BY <2>11, HistoryFrame DEF Disconnect, TypeOK
  <2>12. CASE Restart
    <3>1. /\ items' = <<boot + 1>> /\ boot' = boot + 1 /\ boot \in Nat
          /\ \A r \in Requests : \/ pc'[r] \in {"idle", "lost"}
                                 \/ pc[r] = "done" /\ pc'[r] = "done"
          /\ UNCHANGED <<rendered, status>>
      BY <2>12, ServerAssumption DEF Restart, TypeOK
    <3>2. ASSUME NEW r \in Requests, HasList(r)'
          PROVE  ListOK(r, rendered'[r], items', boot')
      <4>1. HasList(r)
        BY <3>1, <3>2 DEF HasList
      <4>2. ListOK(r, rendered[r], items, boot)
        BY <4>1 DEF HistoryInv
      <4> QED BY <3>1, <4>2 DEF ListOK
    <3> QED BY <3>1, <3>2 DEF HistoryInv
  <2>13. CASE UNCHANGED vars
    BY <2>13, HistoryFrame DEF vars
  <2> QED
    BY <2>1, <2>2, <2>3, <2>4, <2>5, <2>6, <2>7, <2>8, <2>9, <2>10, <2>11, <2>12, <2>13
    DEF Next, Advance, ArriveRead, ArriveCreate
<1> QED BY <1>1, <1>2, TypeCorrect, LockCorrect, LedgerCorrect, PTL DEF Spec

\* What a caller was answered is the list as it was, ending in the caller's own
\* item, and a caller turned away for capacity met a full list.
THEOREM AnswersAreHistoryHolds == Spec => []AnswersAreHistory
<1>1. HistoryInv => AnswersAreHistory
  BY DEF HistoryInv, AnswersAreHistory, HasList, ListOK, Prefix
<1> QED BY <1>1, HistoryCorrect, PTL
-----------------------------------------------------------------------------
(***************************************************************************)
(* The refinement.  A create takes effect when it pushes, a read when it   *)
(* renders; every other step of a handler changes nothing a caller can     *)
(* tell, or is a step of the abstract service itself.                      *)
(***************************************************************************)
answerBar == [r \in Requests |-> Decision(r)]
deliveredBar == {r \in Requests : pc[r] = "done"}

\* What was decided for a request depends on its own handler only; a pushed
\* create is the exception, and nobody else touches the list while it is there.
LEMMA DecisionFrame ==
  ASSUME NEW r \in Requests, pc'[r] = pc[r], rendered'[r] = rendered[r],
         status'[r] = status[r], pc[r] = "pushed" => items' = items
  PROVE  Decision(r)' = Decision(r)
BY DEF Decision

\* A step of one handler changes the decision and the delivery of its request
\* alone.
LEMMA OneDecision ==
  ASSUME TypeOK, LockInv, NEW q \in Requests,
         \A r \in Requests : r # q => /\ pc'[r] = pc[r]
                                      /\ rendered'[r] = rendered[r]
                                      /\ status'[r] = status[r]
                                      /\ pc[r] = "pushed" => items' = items
  PROVE  /\ answerBar' = [answerBar EXCEPT ![q] = Decision(q)']
         /\ Decision(q)' = Decision(q) => answerBar' = answerBar
         /\ (pc[q] = "done" <=> pc'[q] = "done") => deliveredBar' = deliveredBar
         /\ pc'[q] = "done" => deliveredBar' = deliveredBar \cup {q}
<1>1. \A r \in Requests : r # q => Decision(r)' = Decision(r)
  BY DecisionFrame
<1>2. answerBar' = [answerBar EXCEPT ![q] = Decision(q)']
  BY <1>1 DEF answerBar
<1>3. Decision(q)' = Decision(q) => answerBar' = answerBar
  BY <1>1 DEF answerBar
<1> QED BY <1>2, <1>3 DEF deliveredBar

\* The handlers of src/main.rs, at the grain of their awaits, locks and sends,
\* implement the atomic service.
THEOREM ServiceImplemented == Spec => ImplementsService
<1> USE DEF answerBar, deliveredBar
<1>1. Init => Service!Init
  BY DEF Init, Service!Init, Decision, Service!Pending, Requests, Service!Requests
<1>2. TypeOK /\ LockInv /\ LedgerInv /\ HistoryInv /\ [Next]_vars
        => [Service!Next]_(Service!vars)
  <2> SUFFICES ASSUME TypeOK, LockInv, LedgerInv, HistoryInv, [Next]_vars
               PROVE  [Service!Next]_(Service!vars)
    OBVIOUS
  <2> HIDE DEF answerBar, deliveredBar
  <2>0. /\ answerBar = [r \in Requests |-> Decision(r)]
        /\ deliveredBar = {r \in Requests : pc[r] = "done"}
        /\ Service!Requests = Requests
    BY DEF answerBar, deliveredBar, Requests, Service!Requests
  <2>1. \A q \in Requests : answerBar[q] = Decision(q)
    BY <2>0
  <2>2. ASSUME NEW q \in Requests, Enqueue(q) PROVE UNCHANGED Service!vars
    <3>1. /\ pc[q] = "idle" /\ pc' = [pc EXCEPT ![q] = "waiting"]
          /\ UNCHANGED <<items, events, boot, rendered, status>>
      BY <2>2 DEF Enqueue, Goto
    <3>2. Decision(q)' = Decision(q)
      BY <3>1 DEF Decision, TypeOK
    <3>3. UNCHANGED <<answerBar, deliveredBar>>
      BY <3>1, <3>2, OneDecision DEF TypeOK
    <3> QED BY <3>1, <3>3 DEF Service!vars, answerBar, deliveredBar
  <2>3. ASSUME NEW q \in Requests, Forbid(q) \/ RejectInput(q) PROVE Service!Refuse(q)
    <3>1. PICK code \in {403, 422} :
            /\ q \in Creates /\ pc[q] = "idle"
            /\ pc' = [pc EXCEPT ![q] = "answered"]
            /\ status' = [status EXCEPT ![q] = code]
            /\ UNCHANGED <<items, events, boot, rendered>>
      BY <2>3 DEF Forbid, RejectInput, Answer, Goto
    <3>2. /\ Decision(q) = Service!Pending
          /\ Decision(q)' = [status |-> code, body |-> <<>>]
      BY <3>1 DEF Decision, TypeOK, Service!Pending
    <3>3. /\ answerBar' = [answerBar EXCEPT ![q] = Decision(q)']
          /\ deliveredBar' = deliveredBar
      BY <3>1, OneDecision DEF TypeOK
    <3>4. Service!Settle(q, Decision(q)')
      BY <2>1, <3>2, <3>3 DEF Service!Settle, answerBar, deliveredBar
    <3> QED BY <3>1, <3>2, <3>4 DEF Service!Refuse, Service!Refusals
  <2>4. ASSUME NEW q \in Requests, Push(q) PROVE Service!Create(q)
    <3>1. /\ q \in Creates /\ Holds(q) /\ pc[q] = "waiting"
          /\ pc' = [pc EXCEPT ![q] = "pushed"]
          /\ Len(items) < MaxItems
          /\ items' = Append(items, q)
          /\ UNCHANGED <<events, boot, rendered, status>>
      BY <2>4 DEF Push, Goto
    <3>2. ASSUME NEW r \in Requests, r # q PROVE pc[r] # "pushed"
      <4> SUFFICES ASSUME pc[r] = "pushed" PROVE FALSE
        OBVIOUS
      <4>1. /\ Queued(q) /\ Queued(r) /\ Holds(r) /\ r \in Creates
            /\ ticket[r] # ticket[q]
        BY <3>1, <3>2 DEF LockInv, InGuard, Queued
      <4>2. ticket[r] < ticket[q] \/ ticket[q] < ticket[r]
        BY <4>1 DEF TypeOK
      <4> QED BY <3>1, <4>1, <4>2, ServerAssumption DEF Holds
    <3>3. /\ Decision(q) = Service!Pending
          /\ Decision(q)' = Service!Ok(items')
      BY <3>1 DEF Decision, TypeOK, Service!Pending, Service!Ok
    <3>4. /\ answerBar' = [answerBar EXCEPT ![q] = Decision(q)']
          /\ deliveredBar' = deliveredBar
      BY <3>1, <3>2, OneDecision DEF TypeOK
    <3>5. Service!Settle(q, Service!Ok(items'))
      BY <2>1, <3>3, <3>4 DEF Service!Settle, answerBar, deliveredBar
    <3> QED BY <3>1, <3>5 DEF Service!Create
  <2>5. ASSUME NEW q \in Requests, RejectFull(q) PROVE Service!TurnAway(q)
    <3>1. /\ q \in Creates /\ pc[q] = "waiting"
          /\ pc' = [pc EXCEPT ![q] = "answered"]
          /\ status' = [status EXCEPT ![q] = 503]
          /\ Len(items) >= MaxItems
          /\ UNCHANGED <<items, events, boot, rendered>>
      BY <2>5 DEF RejectFull, Answer, Goto
    <3>2. Decision(q) = Service!Pending /\ Decision(q)' = Service!Full
      BY <3>1 DEF Decision, TypeOK, Service!Pending, Service!Full
    <3>3. /\ answerBar' = [answerBar EXCEPT ![q] = Decision(q)']
          /\ deliveredBar' = deliveredBar
      BY <3>1, OneDecision DEF TypeOK
    <3>4. Service!Settle(q, Service!Full)
      BY <2>1, <3>2, <3>3 DEF Service!Settle, answerBar, deliveredBar
    <3> QED BY <3>1, <3>4 DEF Service!TurnAway
  <2>6. ASSUME NEW q \in Requests, Render(q)
        PROVE  Service!Read(q) \/ UNCHANGED Service!vars
    <3>1. /\ pc[q] = (IF q \in Creates THEN "pushed" ELSE "waiting")
          /\ pc' = [pc EXCEPT ![q] = "rendered"]
          /\ rendered' = [rendered EXCEPT ![q] = items]
          /\ UNCHANGED <<items, events, boot, status>>
      BY <2>6 DEF Render, Goto
    <3>2. Decision(q)' = Service!Ok(items)
      BY <3>1 DEF Decision, TypeOK, Service!Ok
    <3>3. /\ answerBar' = [answerBar EXCEPT ![q] = Decision(q)']
          /\ deliveredBar' = deliveredBar
      BY <3>1, OneDecision DEF TypeOK
    <3>4. CASE q \in Creates
      <4>1. Decision(q) = Service!Ok(items)
        BY <3>1, <3>4 DEF Decision, Service!Ok
      <4>2. answerBar' = answerBar
        BY <2>0, <2>1, <3>2, <3>3, <4>1
      <4> QED BY <3>1, <3>3, <4>2 DEF Service!vars, answerBar, deliveredBar
    <3>5. CASE q \notin Creates
      <4>1. Decision(q) = Service!Pending /\ q \in Reads
        BY <3>1, <3>5 DEF Decision, Requests, Service!Pending
      <4>2. Service!Settle(q, Service!Ok(items))
        BY <2>1, <3>2, <3>3, <4>1 DEF Service!Settle, answerBar, deliveredBar
      <4> QED BY <3>1, <4>1, <4>2 DEF Service!Read
    <3> QED BY <3>4, <3>5
  <2>7. ASSUME NEW q \in Requests, ReturnRead(q) \/ DropGuard(q)
        PROVE  UNCHANGED Service!vars
    <3>1. /\ pc[q] = "rendered"
          /\ \/ /\ pc' = [pc EXCEPT ![q] = "answered"]
                /\ status' = [status EXCEPT ![q] = 200]
             \/ /\ pc' = [pc EXCEPT ![q] = "unlocked"]
                /\ status' = status
          /\ UNCHANGED <<items, events, boot, rendered>>
      BY <2>7 DEF ReturnRead, DropGuard, Answer, Goto
    <3>2. Decision(q)' = Decision(q)
      BY <3>1 DEF Decision, TypeOK
    <3>3. /\ \A r \in Requests : r # q => /\ pc'[r] = pc[r]
                                          /\ status'[r] = status[r]
          /\ pc'[q] # "done"
      BY <3>1 DEF TypeOK
    <3>4. UNCHANGED <<answerBar, deliveredBar>>
      BY <3>1, <3>2, <3>3, OneDecision
    <3> QED BY <3>1, <3>4 DEF Service!vars, answerBar, deliveredBar
  <2>8. ASSUME NEW q \in Requests, Send(q) PROVE Service!Publish(q)
    <3>1. /\ q \in Creates /\ pc[q] = "unlocked"
          /\ pc' = [pc EXCEPT ![q] = "answered"]
          /\ status' = [status EXCEPT ![q] = 200]
          /\ events' = Append(events, q)
          /\ UNCHANGED <<items, boot, rendered>>
      BY <2>8 DEF Send, Answer, Goto
    <3>2. Decision(q)' = Decision(q)
      BY <3>1 DEF Decision, TypeOK
    <3>3. UNCHANGED <<answerBar, deliveredBar>>
      BY <3>1, <3>2, OneDecision DEF TypeOK
    <3>4. q \in Service!Members(items) /\ q \notin Service!Members(events)
      <4>1. q \in Members(items) /\ q \notin Members(events)
        BY <3>1 DEF LedgerInv, Between, After
      <4> QED BY <4>1 DEF Members, Service!Members
    <3> QED BY <3>1, <3>3, <3>4 DEF Service!Publish, answerBar, deliveredBar
  <2>9. ASSUME NEW q \in Requests, Deliver(q) PROVE Service!Deliver(q)
    <3>1. /\ pc[q] = "answered" /\ pc' = [pc EXCEPT ![q] = "done"]
          /\ UNCHANGED <<items, events, boot, rendered, status>>
      BY <2>9 DEF Deliver, Goto
    <3>2. Decision(q)' = Decision(q) /\ Decision(q) # Service!Pending
      <4>1. status[q] # 0 /\ Decision(q).status = status[q]
        BY <3>1 DEF HistoryInv, Decision
      <4> QED BY <3>1, <4>1 DEF Decision, TypeOK, Service!Pending
    <3>3. /\ answerBar' = answerBar
          /\ deliveredBar' = deliveredBar \cup {q}
      BY <3>1, <3>2, OneDecision DEF TypeOK
    <3> QED BY <2>1, <3>1, <3>2, <3>3 DEF Service!Deliver, answerBar, deliveredBar
  <2>10. ASSUME NEW q \in Requests, Disconnect(q) PROVE Service!Lose(q)
    <3>1. /\ pc[q] \in {"waiting", "answered"} /\ pc' = [pc EXCEPT ![q] = "lost"]
          /\ UNCHANGED <<items, events, boot, rendered, status>>
      BY <2>10 DEF Disconnect
    <3>2. Decision(q)' = Service!Dropped
      BY <3>1 DEF Decision, TypeOK, Service!Dropped
    <3>3. /\ answerBar' = [answerBar EXCEPT ![q] = Decision(q)']
          /\ deliveredBar' = deliveredBar
      BY <3>1, OneDecision DEF TypeOK
    <3>4. q \notin deliveredBar
      BY <2>0, <3>1
    <3> QED BY <3>1, <3>2, <3>3, <3>4 DEF Service!Lose, answerBar, deliveredBar
  <2>11. CASE Restart
    <3> DEFINE lost == {r \in Requests : pc[r] \notin {"idle", "done"}}
    <3>1. /\ boot < MaxRestarts /\ boot' = boot + 1 /\ items' = <<boot'>> /\ events' = <<>>
          /\ pc' = [r \in Requests |-> IF r \in lost THEN "lost" ELSE pc[r]]
          /\ UNCHANGED <<rendered, status>>
      BY <2>11 DEF Restart
    <3>2. \A r \in Requests :
            Decision(r)' = IF r \in lost THEN Service!Dropped ELSE answerBar[r]
      <4> SUFFICES ASSUME NEW r \in Requests
                   PROVE  Decision(r)' = IF r \in lost THEN Service!Dropped ELSE answerBar[r]
        OBVIOUS
      <4>1. CASE r \in lost
        BY <3>1, <4>1 DEF Decision, Service!Dropped
      <4>2. CASE r \notin lost
        BY <2>1, <3>1, <4>2, DecisionFrame
      <4> QED BY <4>1, <4>2
    <3>3. answerBar' = [r \in Requests |-> IF r \in lost THEN Service!Dropped ELSE answerBar[r]]
      BY <3>2 DEF answerBar
    <3>4. deliveredBar' = deliveredBar /\ lost \in SUBSET (Requests \ deliveredBar)
      BY <3>1 DEF deliveredBar
    <3> HIDE DEF lost
    <3>5. \E l \in SUBSET (Service!Requests \ deliveredBar) :
            answerBar' = [r \in Service!Requests |->
                            IF r \in l THEN Service!Dropped ELSE answerBar[r]]
      BY <2>0, <3>3, <3>4
    <3>6. Service!Restart
      BY <3>1, <3>4, <3>5 DEF Service!Restart, answerBar, deliveredBar
    <3> QED BY <3>6 DEF Service!Next
  <2>12. CASE UNCHANGED vars
    BY <2>12 DEF vars, Service!vars, Decision
  <2> QED
    BY <2>0, <2>2, <2>3, <2>4, <2>5, <2>6, <2>7, <2>8, <2>9, <2>10, <2>11, <2>12
    DEF Next, Advance, ArriveRead, ArriveCreate, Service!Next
<1> QED
  BY <1>1, <1>2, TypeCorrect, LockCorrect, LedgerCorrect, HistoryCorrect, PTL
  DEF Spec, Service!Spec, ImplementsService
=============================================================================
