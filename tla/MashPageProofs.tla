---------------------------- MODULE MashPageProofs ----------------------------
(***************************************************************************)
(* Proofs about MashPage for any number of pages, lists of any length and  *)
(* any number of failures and restarts: that a page shows no order the     *)
(* server did not have, that one refresh never undoes another, and that a  *)
(* page with a working socket is stale only for the reasons that           *)
(* StaleOnlyForAReason names.                                              *)
(***************************************************************************)
EXTENDS MashPage, Integers, SequenceTheorems, TLAPS

-----------------------------------------------------------------------------
(***************************************************************************)
(* The feed below the pages, for every number of sockets and every size of *)
(* ring and network: types, and that no browser sees a gap in its events.  *)
(***************************************************************************)
\* What Append, Head and Tail do to the places of a sequence.
LEMMA QueueFacts ==
  ASSUME NEW q \in Seq(Nat), NEW e \in Nat
  PROVE  /\ Len(q) \in Nat
         /\ Append(q, e) \in Seq(Nat)
         /\ Len(Append(q, e)) = Len(q) + 1
         /\ \A i \in 1..Len(q) : Append(q, e)[i] = q[i]
         /\ Append(q, e)[Len(q) + 1] = e
         /\ q # <<>> => /\ Len(q) >= 1
                        /\ Head(q) = q[1] /\ Head(q) \in Nat
                        /\ Tail(q) \in Seq(Nat)
                        /\ Len(Tail(q)) = Len(q) - 1
                        /\ \A i \in 1..Len(Tail(q)) : Tail(q)[i] = q[i + 1]
OBVIOUS

\* Every state variable has its type before anything is sent.
LEMMA InitTypes == Init => TypeOK
BY FeedAssumption DEF Init, TypeOK, TaskStates, PeerStates

\* The ways in which a browser's end stops being open, and stops being silent.
Breaks(s) == PeerGone(s) \/ Vanish(s) \/ TimesOut(s)

\* Its task, and what the browser has handled, are as before; what is left on the
\* wire is some end of what was there.
LEMMA BreakFacts ==
  ASSUME TypeOK, NEW s \in Sockets, Breaks(s)
  PROVE  \E p \in PeerStates \ {"open"}, q \in Seq(Nat) :
           /\ peer' = [peer EXCEPT ![s] = p]
           /\ wire' = [wire EXCEPT ![s] = q]
           /\ wire[s] = <<>> => q = <<>>
           /\ UNCHANGED <<tail, task, cursor, start, seen>>
<1>1. CASE PeerGone(s) \/ TimesOut(s)
  <2>1. "closed" \in PeerStates \ {"open"} /\ <<>> \in Seq(Nat)
    BY DEF PeerStates
  <2> QED BY <1>1, <2>1 DEF PeerGone, TimesOut, Closed
<1>2. CASE Vanish(s)
  <2>1. wire[s] \in Seq(Nat) /\ Len(wire[s]) \in Nat
    BY DEF TypeOK
  <2>2. PICK n \in 0..Len(wire[s]) :
               wire' = [wire EXCEPT ![s] = SubSeq(wire[s], n + 1, Len(wire[s]))]
    BY <1>2 DEF Vanish
  <2> DEFINE q == SubSeq(wire[s], n + 1, Len(wire[s]))
  <2>3. \A i \in (n + 1)..Len(wire[s]) : wire[s][i] \in Nat
    BY <2>1, <2>2
  <2>4. q \in Seq(Nat)
    BY <2>1, <2>2, <2>3, SubSeqProperties
  <2>5. wire[s] = <<>> => q = <<>>
    <3> SUFFICES ASSUME wire[s] = <<>> PROVE q = <<>>
      OBVIOUS
    <3>1. Len(wire[s]) = 0 /\ n = 0
      BY <2>1, <2>2
    <3> QED BY <3>1, SubSeqEmpty
  <2>6. "vanished" \in PeerStates \ {"open"}
    BY DEF PeerStates
  <2> QED BY <1>2, <2>2, <2>4, <2>5, <2>6 DEF Vanish
<1> QED BY <1>1, <1>2 DEF Breaks

\* No step of channel, tasks or browsers changes the type of a variable.
LEMMA TypeStep == TypeOK /\ [Next]_vars => TypeOK'
<1> SUFFICES ASSUME TypeOK, [Next]_vars PROVE TypeOK'
  OBVIOUS
<1>1. CASE SendEvent
  BY <1>1, FeedAssumption DEF SendEvent, TypeOK
<1>2. ASSUME NEW s \in Sockets, Upgrade(s) PROVE TypeOK'
  BY <1>2 DEF Upgrade, Become, TypeOK, TaskStates
<1>3. ASSUME NEW s \in Sockets, RefuseOrigin(s) PROVE TypeOK'
  BY <1>3 DEF RefuseOrigin, Become, TypeOK, TaskStates
<1>4. ASSUME NEW s \in Sockets, Subscribe(s) PROVE TypeOK'
  BY <1>4 DEF Subscribe, Become, TypeOK, TaskStates
<1>5. ASSUME NEW s \in Sockets, Receive(s) PROVE TypeOK'
  BY <1>5 DEF Receive, Become, TypeOK, TaskStates
<1>6. ASSUME NEW s \in Sockets, Lag(s) PROVE TypeOK'
  BY <1>6 DEF Lag, Become, TypeOK, TaskStates
<1>7. ASSUME NEW s \in Sockets, SendFrame(s) PROVE TypeOK'
  <2>1. wire' \in [Sockets -> Seq(Nat)]
    BY <1>7, QueueFacts DEF SendFrame, TypeOK
  <2> QED BY <1>7, <2>1 DEF SendFrame, Become, TypeOK, TaskStates
<1>8. ASSUME NEW s \in Sockets, SendFails(s) PROVE TypeOK'
  BY <1>8 DEF SendFails, Become, TypeOK, TaskStates
<1>9. ASSUME NEW s \in Sockets, ClientClosed(s) PROVE TypeOK'
  BY <1>9 DEF ClientClosed, Become, TypeOK, TaskStates
<1>10. ASSUME NEW s \in Sockets, Handle(s) PROVE TypeOK'
  <2>1. Head(wire[s]) \in Nat /\ Tail(wire[s]) \in Seq(Nat)
    BY <1>10, QueueFacts DEF Handle, TypeOK
  <2> QED BY <1>10, <2>1 DEF Handle, TypeOK
<1>11. ASSUME NEW s \in Sockets, Breaks(s) PROVE TypeOK'
  <2>1. peer' \in [Sockets -> PeerStates] /\ wire' \in [Sockets -> Seq(Nat)]
    BY <1>11, BreakFacts DEF TypeOK
  <2>2. UNCHANGED <<tail, task, cursor, start, seen>>
    BY <1>11, BreakFacts
  <2> QED BY <2>1, <2>2 DEF TypeOK
<1>12. CASE UNCHANGED vars
  BY <1>12 DEF vars, TypeOK
<1> QED
  BY <1>1, <1>2, <1>3, <1>4, <1>5, <1>6, <1>7, <1>8, <1>9, <1>10, <1>11, <1>12
  DEF Next, TaskStep, Breaks

\* Every state variable keeps its type in every reachable state of channel and
\* websocket tasks.
THEOREM FeedTypeCorrect == Spec => []TypeOK
BY InitTypes, TypeStep, PTL DEF Spec
-----------------------------------------------------------------------------
(***************************************************************************)
(* NoGap is not inductive: that the next frame continues the last one also *)
(* needs that nothing is on the wire before the subscription, and that     *)
(* what is on the wire was taken from the channel even after the task has  *)
(* ended, when its last frames are still handled.                          *)
(***************************************************************************)
Continuous(s) ==
  /\ start[s] <= seen[s] /\ seen[s] <= cursor[s] /\ cursor[s] <= tail
  /\ peer[s] = "open" =>
       /\ seen[s] + Len(wire[s]) <= cursor[s]
       /\ \A i \in 1..Len(wire[s]) : wire[s][i] = seen[s] + i
  /\ task[s] \in {"select", "sending"} /\ peer[s] = "open" => Len(wire[s]) = Sent(s) - seen[s]
  /\ task[s] \in {"none", "refused", "upgraded"} => wire[s] = <<>>

FeedInv == \A s \in Sockets : Continuous(s)

\* A step that touches one socket, or none, disturbs no other.
LEMMA OtherSockets ==
  ASSUME FeedInv, TypeOK, NEW s \in Sockets,
         \A t \in Sockets : t # s =>
           /\ task'[t] = task[t] /\ cursor'[t] = cursor[t] /\ start'[t] = start[t]
           /\ wire'[t] = wire[t] /\ seen'[t] = seen[t] /\ peer'[t] = peer[t],
         tail' = tail, Continuous(s)'
  PROVE  FeedInv'
<1>1. ASSUME NEW t \in Sockets, t # s PROVE Continuous(t)'
  BY <1>1 DEF FeedInv, Continuous, Sent
<1> QED BY <1>1 DEF FeedInv

\* The frames of every socket are continuous before there are any.
LEMMA InitFeed == Init => FeedInv
<1> SUFFICES ASSUME Init, NEW s \in Sockets PROVE Continuous(s)
  BY DEF FeedInv
<1>1. /\ start[s] = 0 /\ seen[s] = 0 /\ cursor[s] = 0 /\ tail = 0
      /\ wire[s] = <<>> /\ Len(wire[s]) = 0 /\ task[s] = "none"
  BY DEF Init
<1> QED BY <1>1 DEF Continuous

\* No step breaks the continuity of any socket's frames.
LEMMA FeedStep == TypeOK /\ FeedInv /\ [Next]_vars => FeedInv'
<1> SUFFICES ASSUME TypeOK, FeedInv, [Next]_vars PROVE FeedInv'
  OBVIOUS
<1>0. ASSUME NEW s \in Sockets
      PROVE  /\ Continuous(s)
             /\ start[s] <= seen[s] /\ seen[s] <= cursor[s] /\ cursor[s] <= tail
             /\ peer[s] = "open" => seen[s] + Len(wire[s]) <= cursor[s]
             /\ tail \in Nat /\ cursor[s] \in Nat /\ start[s] \in Nat /\ seen[s] \in Nat
             /\ wire[s] \in Seq(Nat) /\ Len(wire[s]) \in Nat
  BY <1>0, FeedAssumption DEF FeedInv, Continuous, TypeOK
<1>1. CASE SendEvent
  <2> SUFFICES ASSUME NEW s \in Sockets PROVE Continuous(s)'
    BY DEF FeedInv
  <2>1. /\ tail' = tail + 1
        /\ UNCHANGED <<task, cursor, start, wire, seen, peer>>
    BY <1>1 DEF SendEvent
  <2>2. cursor'[s] <= tail'
    BY <1>0, <2>1 DEF Continuous
  <2> QED BY <1>0, <2>1, <2>2 DEF Continuous, Sent
<1>2. ASSUME NEW s \in Sockets, Upgrade(s) \/ RefuseOrigin(s) PROVE FeedInv'
  <2>1. Continuous(s)'
    BY <1>0, <1>2 DEF Upgrade, RefuseOrigin, Become, Continuous, Sent, TypeOK
  <2> QED BY <1>2, <2>1, OtherSockets DEF Upgrade, RefuseOrigin, Become, TypeOK
<1>3. ASSUME NEW s \in Sockets, Subscribe(s) PROVE FeedInv'
  <2>1. Continuous(s)'
    <3>1. wire'[s] = <<>> /\ Len(wire'[s]) = 0 /\ task'[s] = "select"
      BY <1>0, <1>3 DEF Subscribe, Become, Continuous, TypeOK
    <3>2. cursor'[s] = tail /\ start'[s] = tail /\ seen'[s] = tail /\ tail' = tail
      BY <1>3 DEF Subscribe, TypeOK
    <3> QED BY <1>0, <3>1, <3>2 DEF Continuous, Sent
  <2> QED BY <1>3, <2>1, OtherSockets DEF Subscribe, Become, TypeOK
<1>4. ASSUME NEW s \in Sockets, Receive(s) PROVE FeedInv'
  <2>1. Continuous(s)'
    <3>1. task[s] = "select" /\ task'[s] = "sending" /\ cursor'[s] = cursor[s] + 1
      BY <1>4 DEF Receive, Become, TypeOK
    <3>2. cursor[s] + 1 <= tail
      BY <1>0, <1>4, FeedAssumption DEF Receive, Behind
    <3>3. UNCHANGED <<tail, start, wire, seen, peer>>
      BY <1>4 DEF Receive
    <3>4. /\ start'[s] <= seen'[s] /\ seen'[s] <= cursor'[s] /\ cursor'[s] <= tail'
          /\ peer[s] = "open" => seen'[s] + Len(wire'[s]) <= cursor'[s]
      BY <1>0, <3>1, <3>2, <3>3
    <3>5. peer[s] = "open" => Len(wire[s]) = cursor'[s] - 1 - seen[s]
      BY <1>0, <3>1 DEF Continuous, Sent
    <3>6. peer[s] = "open" => \A i \in 1..Len(wire'[s]) : wire'[s][i] = seen'[s] + i
      BY <1>0, <3>3 DEF Continuous
    <3> QED BY <3>1, <3>3, <3>4, <3>5, <3>6 DEF Continuous, Sent
  <2> QED BY <1>4, <2>1, OtherSockets DEF Receive, Become, TypeOK
<1>5. ASSUME NEW s \in Sockets, Lag(s) \/ SendFails(s) \/ ClientClosed(s) PROVE FeedInv'
  <2>1. /\ task' = [task EXCEPT ![s] = "ended"]
        /\ UNCHANGED <<tail, cursor, start, wire, seen, peer>>
    BY <1>5 DEF Lag, SendFails, ClientClosed, Become
  <2>2. Continuous(s)'
    BY <1>0, <2>1 DEF Continuous, TypeOK
  <2> QED BY <2>1, <2>2, OtherSockets DEF TypeOK
<1>6. ASSUME NEW s \in Sockets, SendFrame(s) PROVE FeedInv'
  <2>1. /\ task[s] = "sending" /\ task'[s] = "select"
        /\ wire'[s] = IF peer[s] = "closed" THEN wire[s] ELSE Append(wire[s], cursor[s])
        /\ UNCHANGED <<tail, cursor, start, seen, peer>>
    BY <1>6 DEF SendFrame, Become, TypeOK
  <2>2. Continuous(s)'
    <3>1. CASE peer[s] = "open"
      <4>1. /\ Len(wire'[s]) = Len(wire[s]) + 1
            /\ \A i \in 1..Len(wire[s]) : wire'[s][i] = wire[s][i]
            /\ wire'[s][Len(wire[s]) + 1] = cursor[s]
        BY <1>0, <2>1, <3>1, QueueFacts
      <4>2. cursor[s] = seen[s] + Len(wire[s]) + 1
        BY <1>0, <2>1, <3>1 DEF Continuous, Sent
      <4>3. \A i \in 1..Len(wire'[s]) : wire'[s][i] = seen'[s] + i
        <5> SUFFICES ASSUME NEW i \in 1..Len(wire'[s]) PROVE wire'[s][i] = seen'[s] + i
          OBVIOUS
        <5>1. CASE i \in 1..Len(wire[s])
          <6>1. wire'[s][i] = wire[s][i]
            BY <4>1, <5>1
          <6>2. wire[s][i] = seen[s] + i
            BY <1>0, <3>1, <5>1 DEF Continuous
          <6> QED BY <2>1, <6>1, <6>2
        <5>2. CASE i = Len(wire[s]) + 1
          <6>1. wire'[s][i] = seen[s] + Len(wire[s]) + 1
            BY <4>1, <4>2, <5>2
          <6>2. seen'[s] = seen[s] /\ seen[s] \in Nat /\ Len(wire[s]) \in Nat
            BY <1>0, <2>1
          <6> QED BY <5>2, <6>1, <6>2
        <5> QED BY <1>0, <4>1, <5>1, <5>2
      <4>4. seen'[s] + Len(wire'[s]) <= cursor'[s] /\ Len(wire'[s]) = cursor'[s] - seen'[s]
        BY <1>0, <2>1, <4>1, <4>2
      <4>5. /\ Sent(s)' = cursor'[s]
            /\ start'[s] <= seen'[s] /\ seen'[s] <= cursor'[s] /\ cursor'[s] <= tail'
        BY <1>0, <2>1 DEF Sent
      <4>6. task'[s] \notin {"none", "refused", "upgraded"}
        BY <2>1
      <4> QED BY <4>3, <4>4, <4>5, <4>6 DEF Continuous
    <3>2. CASE peer[s] # "open"
      BY <1>0, <2>1, <3>2 DEF Continuous
    <3> QED BY <3>1, <3>2
  <2> QED BY <1>6, <2>1, <2>2, OtherSockets DEF SendFrame, Become, TypeOK
<1>7. ASSUME NEW s \in Sockets, Handle(s) PROVE FeedInv'
  <2>1. /\ wire[s] # <<>> /\ peer[s] = "open"
        /\ seen'[s] = Head(wire[s]) /\ wire'[s] = Tail(wire[s])
        /\ UNCHANGED <<tail, task, cursor, start, peer>>
    BY <1>7 DEF Handle, TypeOK
  <2>2. /\ Len(wire[s]) >= 1
        /\ Head(wire[s]) = wire[s][1]
        /\ Len(wire'[s]) = Len(wire[s]) - 1
        /\ \A i \in 1..Len(wire'[s]) : wire'[s][i] = wire[s][i + 1]
    BY <1>0, <2>1, QueueFacts
  <2>3. seen'[s] = seen[s] + 1
    <3>1. wire[s][1] = seen[s] + 1
      BY <1>0, <2>1, <2>2 DEF Continuous
    <3> QED BY <2>1, <2>2, <3>1
  <2>4. Continuous(s)'
    <3>1. \A i \in 1..Len(wire'[s]) : wire'[s][i] = seen'[s] + i
      <4> SUFFICES ASSUME NEW i \in 1..Len(wire'[s]) PROVE wire'[s][i] = seen'[s] + i
        OBVIOUS
      <4>1. i + 1 \in 1..Len(wire[s]) /\ i \in Nat
        BY <1>0, <2>2
      <4>2. wire[s][i + 1] = seen[s] + (i + 1)
        BY <1>0, <2>1, <4>1 DEF Continuous
      <4>3. wire'[s][i] = wire[s][i + 1]
        BY <2>2
      <4>4. seen[s] \in Nat
        BY <1>0
      <4> QED BY <2>3, <4>1, <4>2, <4>3, <4>4
    <3>2. /\ start'[s] <= seen'[s] /\ seen'[s] + Len(wire'[s]) <= cursor'[s]
          /\ seen'[s] <= cursor'[s] /\ cursor'[s] <= tail'
      BY <1>0, <2>1, <2>2, <2>3
    <3>3. task[s] \in {"select", "sending"} => Len(wire'[s]) = Sent(s) - seen'[s]
      <4>1. Sent(s) \in Int
        BY <1>0 DEF Sent
      <4>2. task[s] \in {"select", "sending"} => Len(wire[s]) = Sent(s) - seen[s]
        <5>1. Continuous(s) /\ peer[s] = "open"
          BY <1>0, <2>1
        <5> QED BY <5>1, Zenon DEF Continuous
      <4> DEFINE x == Sent(s)
                 length == Len(wire[s])
      <4>3. length \in Nat /\ seen[s] \in Nat /\ Len(wire'[s]) = length - 1
        BY <1>0, <2>2
      <4>4. x \in Int /\ (task[s] \in {"select", "sending"} => length = x - seen[s])
        BY <4>1, <4>2
      <4> HIDE DEF x, length
      <4>5. task[s] \in {"select", "sending"} => Len(wire'[s]) = x - seen'[s]
        BY <2>3, <4>3, <4>4
      <4> QED BY <4>5 DEF x
    <3>4. task[s] \notin {"none", "refused", "upgraded"}
      BY <1>0, <2>1 DEF Continuous
    <3>5. Sent(s)' = Sent(s) /\ task'[s] = task[s] /\ peer'[s] = peer[s]
      BY <2>1 DEF Sent
    <3> QED BY <3>1, <3>2, <3>3, <3>4, <3>5 DEF Continuous
  <2> QED BY <1>7, <2>1, <2>4, OtherSockets DEF Handle, TypeOK
<1>8. ASSUME NEW s \in Sockets, Breaks(s) PROVE FeedInv'
  <2>1. PICK p \in PeerStates \ {"open"}, q \in Seq(Nat) :
               /\ peer' = [peer EXCEPT ![s] = p]
               /\ wire' = [wire EXCEPT ![s] = q]
               /\ wire[s] = <<>> => q = <<>>
               /\ UNCHANGED <<tail, task, cursor, start, seen>>
    BY <1>8, BreakFacts
  <2>2. peer'[s] # "open" /\ (wire[s] = <<>> => wire'[s] = <<>>)
    BY <2>1 DEF TypeOK
  <2>3. Continuous(s)'
    BY <1>0, <2>1, <2>2 DEF Continuous
  <2> QED BY <2>1, <2>3, OtherSockets DEF TypeOK
<1>9. CASE UNCHANGED vars
  BY <1>9 DEF vars, FeedInv, Continuous, Sent
<1> QED
  BY <1>1, <1>2, <1>3, <1>4, <1>5, <1>6, <1>7, <1>8, <1>9 DEF Next, TaskStep, Breaks

\* The frames of every socket are continuous in every reachable state.
LEMMA FeedCorrect == Spec => []FeedInv
BY InitFeed, FeedStep, FeedTypeCorrect, PTL DEF Spec

\* NoGap is part of it.
LEMMA FeedGivesNoGap == TypeOK /\ FeedInv => NoGap
<1> SUFFICES ASSUME TypeOK, FeedInv, NEW s \in Sockets
             PROVE  /\ start[s] <= seen[s] /\ seen[s] <= cursor[s] /\ cursor[s] <= tail
                    /\ peer[s] = "open" =>
                         \A i \in 1..Len(wire[s]) : wire[s][i] = seen[s] + i
                    /\ task[s] \in {"select", "sending"} /\ peer[s] = "open" =>
                         Len(wire[s]) = Sent(s) - seen[s]
  BY DEF NoGap
<1>1. Continuous(s)
  BY DEF FeedInv
<1> QED BY <1>1 DEF Continuous

\* A browser handles exactly the run of events sent since its task subscribed,
\* whatever the ring holds, however slow its network, and to its very end.
THEOREM NoGapHolds == Spec => []NoGap
BY FeedGivesNoGap, FeedTypeCorrect, FeedCorrect, PTL

-----------------------------------------------------------------------------
(***************************************************************************)
(* The inductive invariant, in parts: what may be shown is a prefix of the *)
(* list (Histories); how far a document has come, so that a request or a   *)
(* socket does not meet a page that has none (Phases); which events stand  *)
(* for which items (Ledger); that a page which was told of an event either *)
(* shows its item or has a refresh under way that will (AllFresh); and     *)
(* that the refresh under way is not behind the one shown (AllOnward).     *)
(***************************************************************************)
Prefix(short, long) ==
  /\ Len(short) <= Len(long)
  /\ \A i \in 1..Len(short) : short[i] = long[i]

Items == ({"seed"} \cup Pages) \X Nat
Lists == Seq(Items)
Requests == [at : {"idle", "sent", "answered"}, body : Lists]

PageTypes ==
  /\ log \in Lists
  /\ announced \in Lists
  /\ unsent \subseteq Items
  /\ boot \in Nat
  /\ req \in [Pages -> [Kinds -> Requests]]
  /\ queued \in [Pages -> BOOLEAN]
  /\ view \in [Pages -> Lists]
  /\ last \in [Pages -> {"nothing", "document", "refresh", "create", "failure"}]
  /\ posts \in [Pages -> Nat]

\* Every list a page shows or is about to show was the list of a process, as it
\* was at some time: of this one, or of one before it.
OneHistory(list) ==
  list # <<>> =>
    /\ \E b \in 0..boot : list[1] = Seed(b)
    /\ list[1] = Seed(boot) => Prefix(list, log)

Histories ==
  /\ log # <<>> /\ log[1] = Seed(boot)
  /\ \A p \in Pages : /\ OneHistory(view[p])
                      /\ \A k \in Kinds : OneHistory(req[p][k].body)

\* How far a document has come.
Phase(p) ==
  /\ \A k \in Kinds : req[p][k].at # "answered" => req[p][k].body = <<>>
  /\ req[p]["refresh"].at = "answered" => req[p]["refresh"].body # <<>>
  /\ req[p]["document"].at = "answered" => req[p]["document"].body # <<>>
  /\ req[p]["document"].at # "idle" => ~Shown(p)
  /\ req[p]["create"].at # "idle" => Shown(p)
  /\ task[p] # "none" => Shown(p)
  /\ Shown(p) => last[p] # "nothing"
  /\ task[p] \in {"none", "refused", "upgraded"} =>
       req[p]["refresh"].at = "idle" /\ last[p] # "refresh"

\* The number of submits of q that were served or lost.
Spent(q) == IF req[q]["create"].at = "sent" THEN posts[q] - 1 ELSE posts[q]

\* Every item of the list but the first is announced or about to be, and once.
Ledger ==
  /\ Len(announced) = tail
  /\ \A i \in 2..Len(log) : log[i] \in unsent \/ \E n \in 1..tail : announced[n] = log[i]
  /\ \A n \in 1..tail : announced[n] \notin unsent
  /\ \A m, n \in 1..tail : announced[m] = announced[n] => m = n
  /\ \A item \in unsent : \E q \in Pages, c \in Nat : item = <<q, c>> /\ c <= Spent(q)
  /\ \A n \in 1..tail : \E q \in Pages, c \in Nat : announced[n] = <<q, c>> /\ c <= Spent(q)

\* A list that lacks an item of the log lacks none whose event p has handled.
UpTo(p, list) ==
  \A i \in 1..Len(log) :
    \/ \E j \in 1..Len(list) : list[j] = log[i]
    \/ log[i] \in unsent
    \/ \E n \in 1..tail : n > seen[p] /\ announced[n] = log[i]

Fresh(p) ==
  LET refresh == req[p]["refresh"]
  IN task[p] \in {"select", "sending"} =>
       /\ refresh.at = "answered" /\ ~queued[p] => UpTo(p, refresh.body)
       /\ refresh.at = "idle" /\ last[p] = "refresh" => UpTo(p, view[p])
       /\ refresh.at = "idle" /\ last[p] = "document" => seen[p] = start[p]

\* The refresh in flight does not fall behind the one that is shown.
Onward(p) ==
  LET refresh == req[p]["refresh"]
  IN refresh.at = "answered" /\ last[p] = "refresh" /\ refresh.body[1] = view[p][1]
       => Prefix(view[p], refresh.body)

Phases == \A p \in Pages : Phase(p)
AllFresh == \A p \in Pages : Fresh(p)
AllOnward == \A p \in Pages : Onward(p)

PageInv == /\ TypeOK /\ FeedInv /\ PageTypes
           /\ Histories /\ Phases /\ Ledger /\ AllFresh /\ AllOnward

-----------------------------------------------------------------------------
(* What the operators of MashPage do to lists, requests and pages. *)

\* A list and one item more.
LEMMA OneLonger ==
  ASSUME NEW list \in Lists, NEW item \in Items
  PROVE  /\ Len(list) \in Nat
         /\ Append(list, item) \in Lists
         /\ Append(list, item) # <<>>
         /\ Len(Append(list, item)) = Len(list) + 1
         /\ \A i \in 1..Len(list) : Append(list, item)[i] = list[i]
         /\ Append(list, item)[Len(list) + 1] = item
BY DEF Lists

\* Being a prefix is transitive.
LEMMA PrefixChains ==
  ASSUME NEW a \in Lists, NEW b \in Lists, NEW c \in Lists, Prefix(a, b), Prefix(b, c)
  PROVE  Prefix(a, c)
<1>1. Len(a) \in Nat /\ Len(b) \in Nat /\ Len(c) \in Nat
  BY DEF Lists
<1> QED BY <1>1 DEF Prefix

\* Move touches one request of one page.
LEMMA MoveFacts ==
  ASSUME PageTypes, NEW p \in Pages, NEW k \in Kinds, NEW from, NEW to \in Requests,
         Move(p, k, from, to)
  PROVE  /\ req[p][k].at = from /\ req'[p][k] = to
         /\ \A j \in Kinds : j # k => req'[p][j] = req[p][j]
         /\ \A q \in Pages : q # p => req'[q] = req[q]
         /\ req' \in [Pages -> [Kinds -> Requests]]
BY DEF PageTypes, Move

\* The states of a request are requests, and only an answered one holds a list.
LEMMA RequestFacts ==
  /\ Idle \in Requests /\ Idle.at = "idle" /\ Idle.body = <<>>
  /\ Sending \in Requests /\ Sending.at = "sent" /\ Sending.body = <<>>
  /\ \A list \in Lists : /\ Answered(list) \in Requests
                         /\ Answered(list).at = "answered" /\ Answered(list).body = list
BY DEF Idle, Sending, Answered, Requests, Lists

\* What a page is, to itself.
SamePage(q) ==
  /\ req'[q] = req[q] /\ queued'[q] = queued[q] /\ view'[q] = view[q] /\ last'[q] = last[q]
  /\ task'[q] = task[q] /\ seen'[q] = seen[q] /\ start'[q] = start[q]

SameLedger == UNCHANGED <<log, unsent, announced, tail, boot>>

Commits(item) ==
  /\ log' = Append(log, item)
  /\ unsent' = unsent \cup {item}
  /\ UNCHANGED <<announced, tail, boot>>

Sends(item) ==
  /\ item \in unsent
  /\ unsent' = unsent \ {item}
  /\ announced' = Append(announced, item)
  /\ tail' = tail + 1
  /\ UNCHANGED <<log, boot>>

LedgerGrows == SameLedger \/ \E item \in Items : Commits(item) \/ Sends(item)

-----------------------------------------------------------------------------
\* The list of a process only grows.
LEMMA LogGrows ==
  ASSUME PageInv, LedgerGrows
  PROVE  /\ log' \in Lists /\ Prefix(log, log') /\ boot' = boot
         /\ log' # <<>> /\ log'[1] = Seed(boot) /\ Prefix(log', log')
<1>1. log \in Lists /\ log # <<>> /\ log[1] = Seed(boot) /\ Len(log) \in Nat /\ Len(log) >= 1
  BY DEF PageInv, PageTypes, Histories, Lists
<1>2. CASE log' = log /\ boot' = boot
  BY <1>1, <1>2 DEF Prefix
<1>3. CASE \E item \in Items : Commits(item)
  <2>1. PICK item \in Items : Commits(item)
    BY <1>3
  <2> QED BY <1>1, <2>1, OneLonger DEF Commits, Prefix
<1> QED BY <1>2, <1>3 DEF LedgerGrows, SameLedger, Sends

\* A list that was one of a process before stays one, and so is the log itself.
LEMMA HistoryKept ==
  ASSUME PageInv, LedgerGrows, NEW list \in Lists, OneHistory(list) \/ list \in {log', <<>>}
  PROVE  OneHistory(list)'
<1>1. /\ log' \in Lists /\ Prefix(log, log') /\ boot' = boot
      /\ log'[1] = Seed(boot) /\ Prefix(log', log')
  BY LogGrows
<1>2. log \in Lists /\ boot \in Nat
  BY DEF PageInv, PageTypes
<1>3. CASE OneHistory(list)
  <2>1. list # <<>> /\ list[1] = Seed(boot) => Prefix(list, log')
    BY <1>1, <1>2, <1>3, PrefixChains DEF OneHistory
  <2> QED BY <1>1, <1>3, <2>1 DEF OneHistory, Seed
<1>4. CASE list = log'
  BY <1>1, <1>2, <1>4 DEF OneHistory
<1>5. CASE list = <<>>
  BY <1>5 DEF OneHistory
<1> QED BY <1>3, <1>4, <1>5

\* The lists at hand when page p takes a step.
AtHand(p) == {<<>>, log', view[p]} \cup {req[p][k].body : k \in Kinds}

\* Pages that show and ask for nothing but lists at hand keep to the history.
LEMMA HistoriesKept ==
  ASSUME PageInv, PageTypes', LedgerGrows,
         \A p \in Pages : SamePage(p) \/ /\ view'[p] \in AtHand(p)
                                         /\ \A k \in Kinds : req'[p][k].body \in AtHand(p)
  PROVE  Histories'
<1>1. log' # <<>> /\ log'[1] = Seed(boot)' /\ log' \in Lists
  BY LogGrows DEF Seed
<1>2. ASSUME NEW p \in Pages, NEW list \in AtHand(p) PROVE OneHistory(list)'
  <2>1. list \in Lists
    <3>1. view[p] \in Lists /\ \A k \in Kinds : req[p][k] \in Requests
      BY <1>2 DEF PageInv, PageTypes
    <3>2. \A k \in Kinds : req[p][k].body \in Lists
      BY <3>1 DEF Requests
    <3>3. <<>> \in Lists
      BY DEF Lists
    <3> QED BY <1>1, <1>2, <3>1, <3>2, <3>3 DEF AtHand
  <2>2. OneHistory(list) \/ list \in {log', <<>>}
    BY <1>2 DEF PageInv, Histories, AtHand
  <2> QED BY <2>1, <2>2, HistoryKept
<1>3. ASSUME NEW p \in Pages, NEW k \in Kinds
      PROVE  view'[p] \in AtHand(p) /\ req'[p][k].body \in AtHand(p)
  BY <1>3 DEF SamePage, AtHand
<1>4. ASSUME NEW p \in Pages, NEW k \in Kinds
      PROVE  OneHistory(view[p])' /\ OneHistory(req[p][k].body)'
  <2>1. PICK a, b : a = view'[p] /\ b = req'[p][k].body
    OBVIOUS
  <2>2. OneHistory(a)' /\ OneHistory(b)'
    BY <1>2, <1>3, <2>1
  <2> QED BY <2>1, <2>2 DEF OneHistory
<1> QED BY <1>1, <1>4 DEF Histories, Kinds

-----------------------------------------------------------------------------
(* What stays true of a page, whatever happens to the ledger. *)

\* A list that has caught up with what its page handled stays so.
LEMMA UpToKept ==
  ASSUME PageInv, LedgerGrows, NEW p \in Pages, NEW list \in Lists, UpTo(p, list),
         seen'[p] = seen[p]
  PROVE  UpTo(p, list)'
<1>1. /\ log \in Lists /\ announced \in Lists /\ tail \in Nat /\ Len(announced) = tail
      /\ seen[p] \in Nat /\ seen[p] <= tail /\ Len(log) \in Nat
  <2>1. /\ log \in Lists /\ announced \in Lists /\ Len(announced) = tail
        /\ seen[p] \in Nat /\ cursor[p] \in Nat
        /\ seen[p] <= cursor[p] /\ cursor[p] <= tail
    BY DEF PageInv, PageTypes, Ledger, TypeOK, FeedInv, Continuous, Pages
  <2> QED BY <2>1 DEF Lists
<1>2. CASE SameLedger
  BY <1>2 DEF SameLedger, UpTo
<1>3. ASSUME NEW item \in Items, Commits(item) PROVE UpTo(p, list)'
  <2>1. /\ Len(log') = Len(log) + 1 /\ log'[Len(log) + 1] = item
        /\ \A i \in 1..Len(log) : log'[i] = log[i]
        /\ unsent' = unsent \cup {item} /\ tail' = tail /\ announced' = announced
    BY <1>1, <1>3, OneLonger DEF Commits
  <2>2. \A i \in 1..Len(log') : i \in 1..Len(log) \/ i = Len(log) + 1
    BY <1>1, <2>1
  <2> QED BY <2>1, <2>2 DEF UpTo
<1>4. ASSUME NEW item \in Items, Sends(item) PROVE UpTo(p, list)'
  <2>1. /\ announced'[tail + 1] = item /\ tail' = tail + 1
        /\ \A n \in 1..tail : announced'[n] = announced[n]
        /\ unsent' = unsent \ {item} /\ log' = log
    BY <1>1, <1>4, OneLonger DEF Sends
  <2>2. tail + 1 \in 1..tail' /\ tail + 1 > seen[p] /\ \A n \in 1..tail : n \in 1..tail'
    BY <1>1, <2>1
  <2> SUFFICES ASSUME NEW i \in 1..Len(log')
               PROVE  \/ \E j \in 1..Len(list) : list[j] = log'[i]
                      \/ log'[i] \in unsent'
                      \/ \E n \in 1..tail' : n > seen'[p] /\ announced'[n] = log'[i]
    BY DEF UpTo
  <2>3. \/ \E j \in 1..Len(list) : list[j] = log[i]
        \/ log[i] \in unsent
        \/ \E n \in 1..tail : n > seen[p] /\ announced[n] = log[i]
    BY <2>1 DEF UpTo
  <2>4. CASE log[i] = item
    BY <2>1, <2>2, <2>4
  <2> QED BY <2>1, <2>2, <2>3, <2>4
<1> QED BY <1>2, <1>3, <1>4 DEF LedgerGrows

\* A list that holds the whole log has caught up.
LEMMA WholeLog ==
  ASSUME NEW p \in Pages
  PROVE  UpTo(p, log)
BY DEF UpTo

\* A step that is not of page p leaves p in order.
LEMMA SamePageKept ==
  ASSUME PageInv, LedgerGrows, NEW p \in Pages, SamePage(p)
  PROVE  Phase(p)' /\ Onward(p)' /\ Fresh(p)'
<1>1. Phase(p) /\ Onward(p) /\ Fresh(p)
  BY DEF PageInv, Phases, AllOnward, AllFresh
<1>2. Phase(p)'
  BY <1>1 DEF Phase, SamePage, Shown
<1>3. Onward(p)'
  BY <1>1 DEF Onward, SamePage
<1>4. Fresh(p)'
  <2>1. PICK shown, body : shown = view[p] /\ body = req[p]["refresh"].body
    OBVIOUS
  <2>2. shown \in Lists /\ body \in Lists
    <3>1. view[p] \in Lists /\ req[p]["refresh"] \in Requests
      BY DEF PageInv, PageTypes, Kinds
    <3> QED BY <2>1, <3>1 DEF Requests
  <2>3. UpTo(p, shown) => UpTo(p, shown)'
    BY <2>2, UpToKept DEF SamePage
  <2>4. UpTo(p, body) => UpTo(p, body)'
    BY <2>2, UpToKept DEF SamePage
  <2>5. (UpTo(p, view[p])' <=> UpTo(p, shown)') /\ (UpTo(p, view[p]) <=> UpTo(p, shown))
    BY <2>1 DEF UpTo, SamePage
  <2>6. /\ UpTo(p, req[p]["refresh"].body)' <=> UpTo(p, body)'
        /\ UpTo(p, req[p]["refresh"].body) <=> UpTo(p, body)
    BY <2>1 DEF UpTo, SamePage
  <2> QED BY <1>1, <2>3, <2>4, <2>5, <2>6 DEF Fresh, SamePage
<1> QED BY <1>2, <1>3, <1>4

\* A step of page p alone.
LEMMA OnePageKept ==
  ASSUME PageInv, LedgerGrows, NEW p \in Pages,
         \A q \in Pages : q # p => SamePage(q),
         Phase(p)', Onward(p)', Fresh(p)'
  PROVE  Phases' /\ AllOnward' /\ AllFresh'
<1>1. ASSUME NEW q \in Pages PROVE Phase(q)' /\ Onward(q)' /\ Fresh(q)'
  <2>1. CASE q = p
    BY <2>1 DEF Phase, Onward, Fresh, UpTo, Shown
  <2>2. CASE q # p
    BY <2>2, SamePageKept
  <2> QED BY <2>1, <2>2
<1> QED BY <1>1 DEF Phases, AllOnward, AllFresh

\* An item of a submit that was not served before, and is served now.
New(item) ==
  \E q \in Pages, c \in Nat : item = <<q, c>> /\ Spent(q) < c /\ c <= Spent(q)'

\* The ledger, when no submit is counted back.
LEMMA LedgerKept ==
  ASSUME PageInv, PageTypes', \A q \in Pages : Spent(q) <= Spent(q)',
         \/ SameLedger
         \/ \E item \in Items : Sends(item)
         \/ \E item \in Items : Commits(item) /\ New(item)
  PROVE  Ledger'
<1>1. /\ log \in Lists /\ announced \in Lists /\ unsent \subseteq Items
      /\ tail \in Nat /\ Len(announced) = tail /\ Len(log) \in Nat /\ Len(log) >= 1
      /\ Ledger
  <2>1. /\ log \in Seq(Items) /\ log # <<>> /\ announced \in Lists /\ unsent \subseteq Items
        /\ tail \in Nat /\ Ledger
    BY DEF PageInv, PageTypes, TypeOK, Histories, Lists
  <2>2. Len(log) \in Nat /\ Len(log) >= 1
    BY <2>1
  <2> QED BY <2>1, <2>2 DEF Ledger, Lists
<1>2. \A q \in Pages : Spent(q) \in Int /\ Spent(q)' \in Int
  BY DEF PageInv, PageTypes, Spent
<1>3. \A q \in Pages, c \in Nat : c <= Spent(q) => c <= Spent(q)'
  BY <1>2
<1>4. CASE SameLedger
  BY <1>1, <1>3, <1>4 DEF Ledger, SameLedger
<1>5. ASSUME NEW item \in Items, Sends(item) PROVE Ledger'
  <2>1. /\ announced'[tail + 1] = item /\ tail' = tail + 1 /\ Len(announced') = tail + 1
        /\ \A n \in 1..tail : announced'[n] = announced[n]
        /\ item \in unsent /\ unsent' = unsent \ {item} /\ log' = log
    BY <1>1, <1>5, OneLonger DEF Sends
  <2>2. \A n \in 1..tail' : n \in 1..tail \/ n = tail + 1
    BY <1>1, <2>1
  <2>3. tail + 1 \in 1..tail' /\ \A n \in 1..tail : n \in 1..tail'
    BY <1>1, <2>1
  <2>4. \A i \in 2..Len(log') : log'[i] \in unsent' \/ \E n \in 1..tail' : announced'[n] = log'[i]
    BY <1>1, <2>1, <2>3 DEF Ledger
  <2>5. \A n \in 1..tail' : announced'[n] \notin unsent'
    BY <1>1, <2>1, <2>2 DEF Ledger
  <2>6. \A m, n \in 1..tail' : announced'[m] = announced'[n] => m = n
    <3>1. \A n \in 1..tail : announced'[n] # item
      BY <1>1, <2>1 DEF Ledger
    <3> QED BY <1>1, <2>1, <2>2, <3>1 DEF Ledger
  <2>7. \A other \in unsent' : \E q \in Pages, c \in Nat : other = <<q, c>> /\ c <= Spent(q)'
    BY <1>1, <1>3, <2>1 DEF Ledger
  <2>8. \A n \in 1..tail' :
          \E q \in Pages, c \in Nat : announced'[n] = <<q, c>> /\ c <= Spent(q)'
    BY <1>1, <1>3, <2>1, <2>2 DEF Ledger
  <2> QED BY <2>1, <2>4, <2>5, <2>6, <2>7, <2>8 DEF Ledger
<1>6. ASSUME NEW item \in Items, Commits(item), New(item) PROVE Ledger'
  <2>1. PICK q \in Pages, c \in Nat : item = <<q, c>> /\ Spent(q) < c /\ c <= Spent(q)'
    BY <1>6 DEF New
  <2>2. /\ Len(log') = Len(log) + 1 /\ log'[Len(log) + 1] = item
        /\ \A i \in 1..Len(log) : log'[i] = log[i]
        /\ unsent' = unsent \cup {item} /\ tail' = tail /\ announced' = announced
    BY <1>1, <1>6, OneLonger DEF Commits
  <2>3. \A i \in 2..Len(log') : i \in 2..Len(log) \/ i = Len(log) + 1
    BY <1>1, <2>2
  <2>4. \A i \in 2..Len(log') : log'[i] \in unsent' \/ \E n \in 1..tail' : announced'[n] = log'[i]
    BY <1>1, <2>2, <2>3 DEF Ledger
  <2>5. \A n \in 1..tail : announced[n] # item
    <3> SUFFICES ASSUME NEW n \in 1..tail, announced[n] = item PROVE FALSE
      OBVIOUS
    <3>1. PICK r \in Pages, d \in Nat : announced[n] = <<r, d>> /\ d <= Spent(r)
      BY <1>1 DEF Ledger
    <3>2. r = q /\ d = c
      BY <2>1, <3>1
    <3> QED BY <1>2, <2>1, <3>1, <3>2
  <2>6. \A other \in unsent' : \E r \in Pages, d \in Nat : other = <<r, d>> /\ d <= Spent(r)'
    BY <1>1, <1>3, <2>1, <2>2 DEF Ledger
  <2>7. \A n \in 1..tail' :
          \E r \in Pages, d \in Nat : announced'[n] = <<r, d>> /\ d <= Spent(r)'
    BY <1>1, <1>3, <2>2 DEF Ledger
  <2> QED BY <1>1, <2>2, <2>4, <2>5, <2>6, <2>7 DEF Ledger
<1> QED BY <1>4, <1>5, <1>6

-----------------------------------------------------------------------------
(* The channel and the tasks, restarts included. *)

\* Every step but a restart is one of EventFeed, or none.
LEMMA FeedMoves ==
  ASSUME [PageNext]_allVars, ~Restart
  PROVE  [Next]_vars
<1>1. CASE UNCHANGED allVars
  BY <1>1 DEF allVars
<1>2. CASE \E item \in unsent : Announce(item)
  BY <1>2 DEF Announce, Next
<1>3. ASSUME NEW p \in Pages,
             \/ Progress(p) \/ Navigate(p) \/ ShowDocument(p) \/ Submit(p)
             \/ \E k \in Kinds, from \in {"sent", "answered"} : Fail(p, k, from)
      PROVE  UNCHANGED vars
  BY <1>3 DEF Progress, ServeRead, ServeCreate, SwapCreate, SwapRefresh, Navigate, ShowDocument,
              Submit, Fail
<1>4. ASSUME NEW p \in Pages, OpenSocket(p) \/ SocketStep(p) \/ BreakSocket(p)
                             \/ SocketTimesOut(p) \/ OnMessage(p)
      PROVE  Next
  BY <1>4 DEF OpenSocket, SocketStep, BreakSocket, SocketTimesOut, OnMessage, Next, Pages
<1> QED BY <1>1, <1>2, <1>3, <1>4 DEF PageNext

\* The types and the continuity of the channel survive every step, restarts too.
LEMMA FeedKept ==
  ASSUME TypeOK, FeedInv, [PageNext]_allVars
  PROVE  TypeOK' /\ FeedInv'
<1>1. CASE ~Restart
  BY <1>1, FeedMoves, TypeStep, FeedStep
<1>2. CASE Restart
  <2>1. /\ task' = [p \in Pages |-> IF task[p] = "none" THEN "none" ELSE "ended"]
        /\ wire' = [p \in Pages |-> <<>>]
        /\ UNCHANGED <<tail, cursor, start, seen, peer>>
    BY <1>2 DEF Restart
  <2>2. TypeOK'
    <3>1. <<>> \in Seq(Nat)
      OBVIOUS
    <3> QED BY <2>1, <3>1 DEF TypeOK, TaskStates, Pages
  <2>3. ASSUME NEW s \in Sockets PROVE Continuous(s)'
    <3>1. /\ wire'[s] = <<>> /\ Len(wire'[s]) = 0
          /\ task'[s] \in {"none", "ended"}
      BY <2>1 DEF Pages
    <3>2. start[s] <= seen[s] /\ seen[s] <= cursor[s] /\ cursor[s] <= tail
      BY FeedGivesNoGap DEF NoGap
    <3>3. seen[s] \in Nat /\ cursor[s] \in Nat
      BY DEF TypeOK
    <3> QED BY <2>1, <3>1, <3>2, <3>3 DEF Continuous
  <2> QED BY <2>2, <2>3 DEF FeedInv
<1> QED BY <1>1, <1>2

\* The tasks and places of the other sockets are not touched by one socket's step.
LEMMA SocketAlone ==
  ASSUME TypeOK, NEW p \in Pages,
         Upgrade(p) \/ RefuseOrigin(p) \/ TaskStep(p) \/ Handle(p) \/ Breaks(p)
  PROVE  /\ tail' = tail
         /\ \A q \in Pages : q # p =>
              task'[q] = task[q] /\ seen'[q] = seen[q] /\ start'[q] = start[q]
<1>1. CASE Upgrade(p) \/ RefuseOrigin(p)
  BY <1>1 DEF TypeOK, Upgrade, RefuseOrigin, Become, Pages
<1>2. CASE Subscribe(p)
  BY <1>2 DEF TypeOK, Subscribe, Become, Pages
<1>3. CASE Receive(p) \/ Lag(p) \/ SendFrame(p) \/ SendFails(p) \/ ClientClosed(p)
  BY <1>3 DEF TypeOK, Receive, Lag, SendFrame, SendFails, ClientClosed, Become, Pages
<1>4. CASE Handle(p)
  BY <1>4 DEF TypeOK, Handle, Pages
<1>5. CASE Breaks(p)
  BY <1>5, BreakFacts DEF Pages
<1> QED BY <1>1, <1>2, <1>3, <1>4, <1>5 DEF TaskStep
-----------------------------------------------------------------------------
(* One lemma for every step of a page. *)

PageKept == PageTypes' /\ Histories' /\ Phases' /\ Ledger' /\ AllFresh' /\ AllOnward'

\* An event is sent: its item is no longer unsent, and no page has handled it.
LEMMA AnnounceKept ==
  ASSUME PageInv, NEW item \in unsent, Announce(item)
  PROVE  PageKept
<1>1. /\ Sends(item) /\ item \in Items /\ UNCHANGED <<task, seen, start>>
      /\ UNCHANGED <<boot, req, queued, view, last, posts>>
  BY DEF Announce, SendEvent, Sends, PageInv, PageTypes
<1>2. LedgerGrows /\ \A q \in Pages : SamePage(q)
  BY <1>1 DEF LedgerGrows, SamePage
<1>3. PageTypes'
  <2>1. announced' \in Lists
    BY <1>1, OneLonger DEF Sends, PageInv, PageTypes
  <2> QED BY <1>1, <2>1 DEF Sends, PageInv, PageTypes
<1>4. Histories'
  BY <1>2, <1>3, HistoriesKept
<1>5. Phases' /\ AllFresh' /\ AllOnward'
  BY <1>2, SamePageKept DEF Phases, AllFresh, AllOnward
<1>6. \A q \in Pages : Spent(q) <= Spent(q)'
  BY <1>1 DEF Spent, PageInv, PageTypes
<1>7. Ledger'
  BY <1>1, <1>3, <1>6, LedgerKept
<1> QED BY <1>3, <1>4, <1>5, <1>7 DEF PageKept

\* A read is answered with the whole list, which no page is ahead of.
LEMMA ServeReadKept ==
  ASSUME PageInv, NEW p \in Pages, NEW k \in Kinds, ServeRead(p, k)
  PROVE  PageKept
<1>0. PageTypes /\ TypeOK /\ Phase(p) /\ Histories /\ log \in Lists /\ log # <<>>
  BY DEF PageInv, PageTypes, Phases, Histories
<1>1. /\ k \in {"document", "refresh"} /\ Move(p, k, "sent", Answered(log))
      /\ UNCHANGED <<tail, task, seen, start>>
      /\ UNCHANGED <<log, unsent, announced, boot, queued, view, last, posts>>
  BY DEF ServeRead, vars
<1>2. /\ req[p][k].at = "sent" /\ req'[p][k].at = "answered" /\ req'[p][k].body = log
      /\ \A j \in Kinds : j # k => req'[p][j] = req[p][j]
      /\ \A q \in Pages : q # p => req'[q] = req[q]
      /\ req' \in [Pages -> [Kinds -> Requests]]
  BY <1>0, <1>1, MoveFacts, RequestFacts
<1>3. LedgerGrows /\ \A q \in Pages : q # p => SamePage(q)
  BY <1>1, <1>2 DEF LedgerGrows, SamePage, SameLedger
<1>4. PageTypes'
  BY <1>0, <1>1, <1>2 DEF PageTypes
<1>5. Histories'
  <2>1. view'[p] \in AtHand(p) /\ \A j \in Kinds : req'[p][j].body \in AtHand(p)
    BY <1>1, <1>2 DEF AtHand
  <2> QED BY <1>3, <1>4, <2>1, HistoriesKept DEF PageInv
<1>6. Phase(p)'
  BY <1>0, <1>1, <1>2 DEF Phase, Shown, Kinds
<1>7. Onward(p)'
  <2>1. CASE k = "refresh"
    <3>1. view[p] # <<>> /\ view[p][1] = log[1] => Prefix(view[p], log)
      BY <1>0 DEF Histories, OneHistory
    <3>2. view[p] = <<>> => Prefix(view[p], log)
      BY <1>0 DEF Prefix, Lists
    <3> QED BY <1>1, <1>2, <2>1, <3>1, <3>2 DEF Onward
  <2>2. CASE k = "document"
    BY <1>1, <1>2, <2>2 DEF Onward, PageInv, AllOnward, Kinds
  <2> QED BY <1>1, <2>1, <2>2
<1>8. Fresh(p)'
  <2>1. CASE k = "refresh"
    <3>1. UpTo(p, req[p]["refresh"].body)'
      BY <1>1, <1>2, <2>1 DEF UpTo
    <3> QED BY <1>1, <1>2, <2>1, <3>1 DEF Fresh
  <2>2. CASE k = "document"
    BY <1>1, <1>2, <2>2 DEF Fresh, UpTo, PageInv, AllFresh, Kinds
  <2> QED BY <1>1, <2>1, <2>2
<1>9. \A q \in Pages : Spent(q) <= Spent(q)'
  <2>1. \A q \in Pages : req'[q]["create"] = req[q]["create"]
    BY <1>1, <1>2 DEF Kinds
  <2> QED BY <1>0, <1>1, <2>1 DEF Spent, PageTypes
<1>10. Ledger'
  BY <1>1, <1>4, <1>9, LedgerKept DEF SameLedger
<1> QED BY <1>3, <1>4, <1>5, <1>6, <1>7, <1>8, <1>10, OnePageKept DEF PageKept

\* A create is answered with the list it made longer, by an item that is new.
LEMMA ServeCreateKept ==
  ASSUME PageInv, NEW p \in Pages, ServeCreate(p)
  PROVE  PageKept
<1> DEFINE item == <<p, posts[p]>>
           longer == Append(log, item)
<1>0. /\ PageTypes /\ TypeOK /\ Phase(p) /\ Onward(p) /\ Fresh(p)
      /\ log \in Lists /\ unsent \subseteq Items /\ item \in Items
  BY DEF PageInv, PageTypes, Phases, AllOnward, AllFresh, Items
<1>1. PICK body \in Lists :
         /\ Move(p, "create", "sent", Answered(body))
         /\ \/ body = longer /\ log' = longer /\ unsent' = unsent \cup {item}
            \/ body = <<>> /\ log' = log /\ unsent' = unsent
  <2>1. longer \in Lists /\ <<>> \in Lists
    BY <1>0, OneLonger DEF Lists
  <2> QED BY <2>1 DEF ServeCreate
<1>2. /\ UNCHANGED <<tail, task, seen, start>>
      /\ UNCHANGED <<announced, boot, queued, view, last, posts>>
  BY DEF ServeCreate, vars
<1>3. /\ req[p]["create"].at = "sent"
      /\ req'[p]["create"].at = "answered" /\ req'[p]["create"].body = body
      /\ \A j \in Kinds : j # "create" => req'[p][j] = req[p][j]
      /\ \A q \in Pages : q # p => req'[q] = req[q]
      /\ req' \in [Pages -> [Kinds -> Requests]]
  BY <1>0, <1>1, MoveFacts, RequestFacts DEF Kinds
<1>4. SameLedger \/ (Commits(item) /\ body = log')
  BY <1>1, <1>2 DEF SameLedger, Commits
<1>5. LedgerGrows /\ \A q \in Pages : q # p => SamePage(q)
  BY <1>0, <1>2, <1>3, <1>4 DEF LedgerGrows, SamePage
<1>6. PageTypes'
  <2>1. log' \in Lists /\ unsent' \subseteq Items
    BY <1>0, <1>1
  <2> QED BY <1>0, <1>2, <1>3, <2>1 DEF PageTypes
<1>7. Histories'
  <2>1. view'[p] \in AtHand(p) /\ \A j \in Kinds : req'[p][j].body \in AtHand(p)
    BY <1>1, <1>2, <1>3 DEF AtHand
  <2> QED BY <1>5, <1>6, <2>1, HistoriesKept
<1>8. \A j \in {"document", "refresh"} : req'[p][j] = req[p][j]
  BY <1>3 DEF Kinds
<1>9. Phase(p)'
  BY <1>0, <1>2, <1>3, <1>8 DEF Phase, Shown, Kinds
<1>10. Onward(p)'
  BY <1>0, <1>2, <1>8 DEF Onward
<1>11. Fresh(p)'
  <2>1. PICK shown, old : shown = view[p] /\ old = req[p]["refresh"].body
    OBVIOUS
  <2>2. shown \in Lists /\ old \in Lists
    <3>1. view[p] \in Lists /\ req[p]["refresh"] \in Requests
      BY <1>0 DEF PageTypes, Kinds
    <3> QED BY <2>1, <3>1 DEF Requests
  <2>3. (UpTo(p, shown) => UpTo(p, shown)') /\ (UpTo(p, old) => UpTo(p, old)')
    BY <1>2, <1>5, <2>2, UpToKept
  <2>4. /\ UpTo(p, view[p])' <=> UpTo(p, shown)'
        /\ UpTo(p, req[p]["refresh"].body)' <=> UpTo(p, old)'
    BY <1>2, <1>8, <2>1 DEF UpTo
  <2> QED BY <1>0, <1>2, <1>8, <2>1, <2>3, <2>4 DEF Fresh
<1>12. \A q \in Pages : Spent(q) <= Spent(q)' /\ Spent(p) < posts[p] /\ posts[p] <= Spent(p)'
  <2>1. \A q \in Pages : q # p => req'[q]["create"] = req[q]["create"]
    BY <1>3
  <2>2. \A q \in Pages : posts[q] \in Nat
    BY <1>0 DEF PageTypes
  <2> QED BY <1>2, <1>3, <2>1, <2>2 DEF Spent
<1>13. Ledger'
  <2>1. New(item)
    BY <1>0, <1>12 DEF New, PageTypes
  <2> QED BY <1>0, <1>4, <1>6, <1>12, <2>1, LedgerKept
<1> QED BY <1>5, <1>6, <1>7, <1>9, <1>10, <1>11, <1>13, OnePageKept DEF PageKept

\* A step of page p that leaves the ledger, the socket and the submits alone, and
\* moves one request to one that holds no list.
LEMMA QuietKept ==
  ASSUME PageInv, NEW p \in Pages, NEW k \in Kinds, NEW from, NEW to \in {Idle, Sending},
         Move(p, k, from, to),
         UNCHANGED <<tail, log, unsent, announced, boot>>,
         \A q \in Pages : /\ task'[q] = task[q] /\ seen'[q] = seen[q] /\ start'[q] = start[q],
         \A q \in Pages : q # p => /\ queued'[q] = queued[q] /\ view'[q] = view[q]
                                   /\ last'[q] = last[q],
         view'[p] \in {view[p], req[p][k].body},
         PageTypes', \A q \in Pages : Spent(q) <= Spent(q)',
         Phase(p)', Onward(p)', Fresh(p)'
  PROVE  PageKept
<1>1. /\ PageTypes /\ req'[p][k].body = <<>>
      /\ \A j \in Kinds : j # k => req'[p][j] = req[p][j]
      /\ \A q \in Pages : q # p => req'[q] = req[q]
  BY MoveFacts, RequestFacts DEF PageInv
<1>2. SameLedger /\ LedgerGrows /\ \A q \in Pages : q # p => SamePage(q)
  BY <1>1 DEF LedgerGrows, SamePage, SameLedger
<1>3. Histories'
  <2>1. view'[p] \in AtHand(p) /\ \A j \in Kinds : req'[p][j].body \in AtHand(p)
    BY <1>1 DEF AtHand
  <2> QED BY <1>2, <2>1, HistoriesKept
<1>4. Ledger'
  BY <1>2, LedgerKept
<1> QED BY <1>2, <1>3, <1>4, OnePageKept DEF PageKept

\* A document is asked for where none is shown.
LEMMA NavigateKept ==
  ASSUME PageInv, NEW p \in Pages, Navigate(p)
  PROVE  PageKept
<1>0. PageTypes /\ TypeOK /\ Phase(p) /\ Onward(p) /\ Fresh(p)
  BY DEF PageInv, Phases, AllOnward, AllFresh
<1>1. /\ ~Shown(p) /\ Move(p, "document", "idle", Sending) /\ UNCHANGED <<tail, task, seen, start>>
      /\ UNCHANGED <<log, unsent, announced, boot, queued, view, last, posts>>
  BY DEF Navigate, vars
<1>2. /\ req'[p]["document"] = Sending /\ req' \in [Pages -> [Kinds -> Requests]]
      /\ \A j \in {"refresh", "create"} : req'[p][j] = req[p][j]
      /\ \A q \in Pages : q # p => req'[q] = req[q]
  BY <1>0, <1>1, MoveFacts, RequestFacts DEF Kinds
<1>3. PageTypes'
  BY <1>0, <1>1, <1>2 DEF PageTypes
<1>4. Phase(p)'
  BY <1>0, <1>1, <1>2, RequestFacts DEF Phase, Shown, Kinds
<1>5. Onward(p)' /\ Fresh(p)'
  BY <1>0, <1>1, <1>2 DEF Onward, Fresh, UpTo
<1>6. \A q \in Pages : Spent(q) <= Spent(q)'
  BY <1>0, <1>1, <1>2 DEF Spent, PageTypes
<1> QED BY <1>1, <1>3, <1>4, <1>5, <1>6, QuietKept DEF Kinds

\* A document is shown before its page has a socket.
LEMMA ShowDocumentKept ==
  ASSUME PageInv, NEW p \in Pages, ShowDocument(p)
  PROVE  PageKept
<1> DEFINE body == req[p]["document"].body
<1>0. PageTypes /\ TypeOK /\ Phase(p) /\ Onward(p) /\ Fresh(p) /\ req[p]["document"] \in Requests
  BY DEF PageInv, Phases, AllOnward, AllFresh, PageTypes, Kinds
<1>1. /\ Move(p, "document", "answered", Idle) /\ UNCHANGED <<tail, task, seen, start>>
      /\ view' = [view EXCEPT ![p] = body]
      /\ last' = [last EXCEPT ![p] = "document"]
      /\ UNCHANGED <<log, unsent, announced, boot, queued, posts>>
  BY DEF ShowDocument, vars
<1>2. /\ req'[p]["document"] = Idle /\ req' \in [Pages -> [Kinds -> Requests]]
      /\ req[p]["document"].at = "answered"
      /\ \A j \in {"refresh", "create"} : req'[p][j] = req[p][j]
      /\ \A q \in Pages : q # p => req'[q] = req[q]
  BY <1>0, <1>1, MoveFacts, RequestFacts DEF Kinds
<1>3. /\ view'[p] = body /\ last'[p] = "document" /\ body # <<>> /\ task[p] = "none"
      /\ body \in Lists
      /\ \A q \in Pages : q # p => view'[q] = view[q] /\ last'[q] = last[q]
  BY <1>0, <1>1, <1>2 DEF Phase, PageTypes, Requests, TypeOK, Pages
<1>4. PageTypes'
  BY <1>0, <1>1, <1>2, <1>3 DEF PageTypes
<1>5. Phase(p)'
  BY <1>0, <1>1, <1>2, <1>3, RequestFacts DEF Phase, Shown, Kinds
<1>6. Onward(p)' /\ Fresh(p)'
  BY <1>1, <1>3 DEF Onward, Fresh
<1>7. \A q \in Pages : Spent(q) <= Spent(q)'
  BY <1>0, <1>1, <1>2 DEF Spent, PageTypes
<1> QED BY <1>1, <1>3, <1>4, <1>5, <1>6, <1>7, QuietKept DEF Kinds

\* The response of a submit is shown, unless it is an error.
LEMMA SwapCreateKept ==
  ASSUME PageInv, NEW p \in Pages, SwapCreate(p)
  PROVE  PageKept
<1> DEFINE body == req[p]["create"].body
<1>0. PageTypes /\ TypeOK /\ Phase(p) /\ Onward(p) /\ Fresh(p) /\ req[p]["create"] \in Requests
  BY DEF PageInv, Phases, AllOnward, AllFresh, PageTypes, Kinds
<1>1. /\ Move(p, "create", "answered", Idle) /\ UNCHANGED <<tail, task, seen, start>>
      /\ UNCHANGED <<log, unsent, announced, boot, queued, posts>>
      /\ \/ /\ body # <<>>
            /\ view' = [view EXCEPT ![p] = body]
            /\ last' = [last EXCEPT ![p] = "create"]
         \/ UNCHANGED <<view, last>>
  BY DEF SwapCreate, vars
<1>2. /\ req'[p]["create"] = Idle /\ req' \in [Pages -> [Kinds -> Requests]]
      /\ req[p]["create"].at = "answered"
      /\ \A j \in {"refresh", "document"} : req'[p][j] = req[p][j]
      /\ \A q \in Pages : q # p => req'[q] = req[q]
  BY <1>0, <1>1, MoveFacts, RequestFacts DEF Kinds
<1>3. /\ body \in Lists
      /\ \A q \in Pages : q # p => view'[q] = view[q] /\ last'[q] = last[q]
      /\ \/ view'[p] = body /\ body # <<>> /\ last'[p] = "create"
         \/ UNCHANGED <<view, last>>
  BY <1>0, <1>1 DEF PageTypes, Requests
<1>4. PageTypes'
  BY <1>0, <1>1, <1>2, <1>3 DEF PageTypes
<1>5. Phase(p)'
  BY <1>0, <1>1, <1>2, <1>3, RequestFacts DEF Phase, Shown, Kinds
<1>6. Onward(p)' /\ Fresh(p)'
  BY <1>0, <1>1, <1>2, <1>3 DEF Onward, Fresh, UpTo
<1>7. \A q \in Pages : Spent(q) <= Spent(q)'
  <2>1. req[p]["create"].at # "sent" /\ req'[p]["create"].at # "sent"
    BY <1>2, RequestFacts
  <2>2. \A q \in Pages : posts[q] \in Nat /\ posts'[q] = posts[q]
    BY <1>0, <1>1 DEF PageTypes
  <2> QED BY <1>2, <2>1, <2>2 DEF Spent
<1>8. view'[p] \in {view[p], body}
  BY <1>3
<1> QED BY <1>1, <1>3, <1>4, <1>5, <1>6, <1>7, <1>8, QuietKept DEF Kinds

\* A refresh is shown, and the one that waited leaves.
LEMMA SwapRefreshKept ==
  ASSUME PageInv, NEW p \in Pages, SwapRefresh(p)
  PROVE  PageKept
<1> DEFINE body == req[p]["refresh"].body
           to == IF queued[p] THEN Sending ELSE Idle
<1>0. PageTypes /\ TypeOK /\ Phase(p) /\ Onward(p) /\ Fresh(p) /\ req[p]["refresh"] \in Requests
  BY DEF PageInv, Phases, AllOnward, AllFresh, PageTypes, Kinds
<1>1. /\ Move(p, "refresh", "answered", to) /\ UNCHANGED <<tail, task, seen, start>>
      /\ queued' = [queued EXCEPT ![p] = FALSE]
      /\ view' = [view EXCEPT ![p] = body]
      /\ last' = [last EXCEPT ![p] = "refresh"]
      /\ UNCHANGED <<log, unsent, announced, boot, posts>>
  BY DEF SwapRefresh, EndRefresh, vars
<1>2. /\ to \in {Idle, Sending} /\ to \in Requests
      /\ to.at = "idle" <=> ~queued[p]
      /\ to.at # "answered" /\ to.body = <<>>
  BY RequestFacts
<1> HIDE DEF to
<1>3. /\ req'[p]["refresh"] = to /\ req' \in [Pages -> [Kinds -> Requests]]
      /\ req[p]["refresh"].at = "answered"
      /\ \A j \in {"create", "document"} : req'[p][j] = req[p][j]
      /\ \A q \in Pages : q # p => req'[q] = req[q]
  BY <1>0, <1>1, <1>2, MoveFacts DEF Kinds
<1>4. /\ body \in Lists /\ body # <<>> /\ Shown(p) /\ task[p] \notin {"none", "refused", "upgraded"}
      /\ view'[p] = body /\ last'[p] = "refresh" /\ queued'[p] = FALSE
      /\ \A q \in Pages : q # p => view'[q] = view[q] /\ last'[q] = last[q] /\ queued'[q] = queued[q]
  BY <1>0, <1>1, <1>3 DEF Phase, PageTypes, Requests
<1>5. PageTypes'
  BY <1>0, <1>1, <1>3, <1>4 DEF PageTypes
<1>6. Phase(p)'
  BY <1>0, <1>1, <1>2, <1>3, <1>4 DEF Phase, Shown, Kinds
<1>7. Onward(p)'
  BY <1>2, <1>3 DEF Onward
<1>8. Fresh(p)'
  BY <1>0, <1>1, <1>2, <1>3, <1>4 DEF Fresh, UpTo
<1>9. \A q \in Pages : Spent(q) <= Spent(q)'
  BY <1>0, <1>1, <1>3 DEF Spent, PageTypes
<1> QED BY <1>1, <1>2, <1>4, <1>5, <1>6, <1>7, <1>8, <1>9, QuietKept DEF Kinds

\* A submit leaves, and is not served yet.
LEMMA SubmitKept ==
  ASSUME PageInv, NEW p \in Pages, Submit(p)
  PROVE  PageKept
<1>0. PageTypes /\ TypeOK /\ Phase(p) /\ Onward(p) /\ Fresh(p)
  BY DEF PageInv, Phases, AllOnward, AllFresh
<1>1. /\ Shown(p) /\ Move(p, "create", "idle", Sending) /\ UNCHANGED <<tail, task, seen, start>>
      /\ posts' = [posts EXCEPT ![p] = @ + 1]
      /\ UNCHANGED <<log, unsent, announced, boot, queued, view, last>>
  BY DEF Submit, vars
<1>2. /\ req'[p]["create"] = Sending /\ req' \in [Pages -> [Kinds -> Requests]]
      /\ req[p]["create"].at = "idle"
      /\ \A j \in {"refresh", "document"} : req'[p][j] = req[p][j]
      /\ \A q \in Pages : q # p => req'[q] = req[q]
  BY <1>0, <1>1, MoveFacts, RequestFacts DEF Kinds
<1>3. PageTypes'
  <2>1. posts' \in [Pages -> Nat]
    BY <1>0, <1>1 DEF PageTypes
  <2> QED BY <1>0, <1>1, <1>2, <2>1 DEF PageTypes
<1>4. Phase(p)'
  BY <1>0, <1>1, <1>2, RequestFacts DEF Phase, Shown, Kinds
<1>5. Onward(p)' /\ Fresh(p)'
  BY <1>0, <1>1, <1>2 DEF Onward, Fresh, UpTo
<1>6. \A q \in Pages : Spent(q) <= Spent(q)'
  <2>1. \A q \in Pages : /\ posts[q] \in Nat
                         /\ posts'[q] = IF q = p THEN posts[q] + 1 ELSE posts[q]
    BY <1>0, <1>1 DEF PageTypes
  <2> QED BY <1>2, <2>1, RequestFacts DEF Spent
<1> QED BY <1>1, <1>3, <1>4, <1>5, <1>6, QuietKept DEF Kinds

\* A request is lost, and with a refresh what the page knows of being fresh.
LEMMA FailKept ==
  ASSUME PageInv, NEW p \in Pages, NEW k \in Kinds, NEW from \in {"sent", "answered"},
         Fail(p, k, from)
  PROVE  PageKept
<1> DEFINE to == IF k = "refresh" /\ queued[p] THEN Sending ELSE Idle
<1>0. PageTypes /\ TypeOK /\ Phase(p) /\ Onward(p) /\ Fresh(p)
  BY DEF PageInv, Phases, AllOnward, AllFresh
<1>1. /\ Move(p, k, from, to) /\ UNCHANGED <<tail, task, seen, start>>
      /\ \/ /\ k = "refresh"
            /\ queued' = [queued EXCEPT ![p] = FALSE]
            /\ last' = [last EXCEPT ![p] = "failure"]
         \/ k # "refresh" /\ UNCHANGED <<queued, last>>
      /\ UNCHANGED <<log, unsent, announced, boot, view, posts>>
  BY DEF Fail, EndRefresh, vars
<1>2. /\ to \in {Idle, Sending} /\ to \in Requests
      /\ to.at # "answered" /\ to.body = <<>> /\ (k # "refresh" => to.at = "idle")
  BY RequestFacts
<1> HIDE DEF to
<1>3. /\ req'[p][k] = to /\ req' \in [Pages -> [Kinds -> Requests]]
      /\ req[p][k].at = from
      /\ \A j \in Kinds : j # k => req'[p][j] = req[p][j]
      /\ \A q \in Pages : q # p => req'[q] = req[q]
  BY <1>0, <1>1, <1>2, MoveFacts
<1>4. /\ \A q \in Pages : q # p => last'[q] = last[q] /\ queued'[q] = queued[q]
      /\ \/ k = "refresh" /\ last'[p] = "failure" /\ queued'[p] = FALSE
         \/ k # "refresh" /\ last'[p] = last[p] /\ queued'[p] = queued[p]
  BY <1>0, <1>1 DEF PageTypes
<1>5. PageTypes'
  BY <1>0, <1>1, <1>3, <1>4 DEF PageTypes
<1>6. Phase(p)'
  <2>1. CASE k = "refresh"
    <3>1. \A j \in {"create", "document"} : req'[p][j] = req[p][j]
      BY <1>3, <2>1 DEF Kinds
    <3>2. task[p] \notin {"none", "refused", "upgraded"}
      BY <1>0, <1>3, <2>1 DEF Phase
    <3> QED BY <1>0, <1>1, <1>2, <1>3, <1>4, <2>1, <3>1, <3>2 DEF Phase, Shown, Kinds
  <2>2. CASE k # "refresh"
    BY <1>0, <1>1, <1>2, <1>3, <1>4, <2>2 DEF Phase, Shown, Kinds
  <2> QED BY <2>1, <2>2
<1>7. Onward(p)' /\ Fresh(p)'
  <2>1. CASE k = "refresh"
    BY <1>2, <1>3, <1>4, <2>1 DEF Onward, Fresh
  <2>2. CASE k # "refresh"
    <3>1. req'[p]["refresh"] = req[p]["refresh"]
      BY <1>3, <2>2 DEF Kinds
    <3> QED BY <1>0, <1>1, <1>4, <2>2, <3>1 DEF Onward, Fresh, UpTo
  <2> QED BY <2>1, <2>2
<1>8. \A q \in Pages : Spent(q) <= Spent(q)'
  <2>1. \A q \in Pages : posts[q] \in Nat /\ posts'[q] = posts[q]
    BY <1>0, <1>1 DEF PageTypes
  <2>2. ASSUME NEW q \in Pages
        PROVE  req'[q]["create"].at = "sent" => req[q]["create"].at = "sent"
    <3>1. CASE q = p /\ k = "create"
      BY <1>2, <1>3, <3>1
    <3>2. CASE ~(q = p /\ k = "create")
      BY <1>3, <3>2 DEF Kinds
    <3> QED BY <3>1, <3>2
  <2> QED BY <2>1, <2>2 DEF Spent
<1> QED BY <1>1, <1>2, <1>4, <1>5, <1>6, <1>7, <1>8, QuietKept

\* A step of one socket alone: the page is as it was, but for what the task has
\* become and how far it has subscribed.
LEMMA SocketKept ==
  ASSUME PageInv, NEW p \in Pages, UNCHANGED pageVars,
         Upgrade(p) \/ RefuseOrigin(p) \/ TaskStep(p) \/ Breaks(p),
         Phase(p)', Fresh(p)'
  PROVE  PageKept
<1>1. /\ PageTypes /\ TypeOK /\ tail' = tail
      /\ \A q \in Pages : q # p => task'[q] = task[q] /\ seen'[q] = seen[q] /\ start'[q] = start[q]
  BY SocketAlone DEF PageInv
<1>2. /\ UNCHANGED <<log, unsent, announced, boot>>
      /\ UNCHANGED <<req, queued, view, last, posts>>
  BY DEF pageVars
<1>3. SameLedger /\ LedgerGrows /\ \A q \in Pages : q # p => SamePage(q)
  BY <1>1, <1>2 DEF SameLedger, LedgerGrows, SamePage
<1>4. PageTypes'
  BY <1>1, <1>2 DEF PageTypes
<1>5. Histories'
  BY <1>2 DEF PageInv, Histories, OneHistory
<1>6. Onward(p)'
  BY <1>2 DEF Onward, PageInv, AllOnward
<1>7. \A q \in Pages : Spent(q) <= Spent(q)'
  BY <1>1, <1>2 DEF Spent, PageTypes
<1>8. Ledger'
  BY <1>3, <1>4, <1>7, LedgerKept
<1> QED BY <1>3, <1>4, <1>5, <1>6, <1>8, OnePageKept DEF PageKept

\* A socket opens from a page that has not refreshed.
LEMMA OpenSocketKept ==
  ASSUME PageInv, NEW p \in Pages, OpenSocket(p)
  PROVE  PageKept
<1>1. /\ Shown(p) /\ (Upgrade(p) \/ RefuseOrigin(p)) /\ UNCHANGED pageVars
      /\ TypeOK /\ Phase(p)
  BY DEF OpenSocket, PageInv, Phases
<1>2. /\ task[p] = "none" /\ task'[p] \in {"upgraded", "refused"}
      /\ UNCHANGED <<req, last, view>>
  BY <1>1 DEF Upgrade, RefuseOrigin, Become, TypeOK, Pages, pageVars
<1>3. Phase(p)'
  BY <1>1, <1>2 DEF Phase, Shown
<1>4. Fresh(p)'
  BY <1>2 DEF Fresh
<1> QED BY <1>1, <1>3, <1>4, SocketKept

\* A task that subscribes starts from the events sent so far.
LEMMA SocketStepKept ==
  ASSUME PageInv, NEW p \in Pages, SocketStep(p)
  PROVE  PageKept
<1>0. /\ TypeOK /\ Phase(p) /\ Fresh(p) /\ TaskStep(p) /\ UNCHANGED pageVars
      /\ UNCHANGED <<log, unsent, announced, req, queued, last, view>>
  BY DEF SocketStep, PageInv, Phases, AllFresh, pageVars
<1>1. CASE Subscribe(p)
  <2>1. /\ task[p] = "upgraded" /\ task'[p] = "select"
        /\ seen'[p] = start'[p]
    BY <1>0, <1>1 DEF Subscribe, Become, TypeOK, Pages
  <2>2. Phase(p)'
    BY <1>0, <2>1 DEF Phase, Shown
  <2>3. Fresh(p)'
    BY <1>0, <2>1 DEF Fresh, Phase
  <2> QED BY <1>0, <2>2, <2>3, SocketKept
<1>2. CASE Receive(p) \/ Lag(p) \/ SendFrame(p) \/ SendFails(p) \/ ClientClosed(p)
  <2>1. /\ task[p] \in {"select", "sending"} /\ task'[p] \in {"select", "sending", "ended"}
        /\ UNCHANGED <<seen, start, tail>>
    BY <1>0, <1>2
    DEF Receive, Lag, SendFrame, SendFails, ClientClosed, Become, TypeOK, Pages
  <2>2. Phase(p)'
    BY <1>0, <2>1 DEF Phase, Shown
  <2>3. Fresh(p)'
    BY <1>0, <2>1 DEF Fresh, UpTo
  <2> QED BY <1>0, <2>2, <2>3, SocketKept
<1> QED BY <1>0, <1>1, <1>2 DEF TaskStep

\* A browser that goes away, or is given up, leaves its page as it was.
LEMMA BreakSocketKept ==
  ASSUME PageInv, NEW p \in Pages, BreakSocket(p) \/ SocketTimesOut(p)
  PROVE  PageKept
<1>1. Breaks(p) /\ UNCHANGED pageVars /\ TypeOK /\ Phase(p) /\ Fresh(p)
  BY DEF BreakSocket, SocketTimesOut, Breaks, PageInv, Phases, AllFresh
<1>2. /\ UNCHANGED <<log, unsent, announced, req, queued, last, view>>
      /\ UNCHANGED <<tail, task, seen, start>>
  BY <1>1, BreakFacts DEF pageVars, Pages
<1>3. Phase(p)' /\ Fresh(p)'
  BY <1>1, <1>2 DEF Phase, Fresh, UpTo, Shown
<1> QED BY <1>1, <1>3, SocketKept

\* A frame is handled while a refresh is under way, or starts one: what the page
\* has been told is never ahead of the refresh that is to come.
LEMMA OnMessageKept ==
  ASSUME PageInv, NEW p \in Pages, OnMessage(p)
  PROVE  PageKept
<1>0. /\ PageTypes /\ TypeOK /\ FeedInv /\ Phase(p) /\ Onward(p) /\ Fresh(p)
      /\ req[p]["refresh"] \in Requests
  BY DEF PageInv, Phases, AllOnward, AllFresh, PageTypes, Kinds
<1>1. /\ Handle(p) /\ task' = task /\ start' = start
      /\ UNCHANGED <<log, unsent, announced, boot, view, last, posts>>
      /\ \/ /\ Move(p, "refresh", "idle", Sending)
            /\ queued' = queued
         \/ /\ req[p]["refresh"] # Idle
            /\ queued' = [queued EXCEPT ![p] = TRUE]
            /\ req' = req
  BY DEF OnMessage, Handle
<1>2. /\ tail' = tail
      /\ \A q \in Pages : q # p => seen'[q] = seen[q]
  BY <1>0, <1>1, SocketAlone
<1>3. task[p] \notin {"none", "refused", "upgraded"}
  BY <1>0, <1>1 DEF Handle, FeedInv, Continuous, Pages
<1>4. req[p]["refresh"] # Idle => req[p]["refresh"].at # "idle"
  <2>1. req[p]["refresh"].at = "idle" => req[p]["refresh"].body = <<>>
    BY <1>0 DEF Phase, Kinds
  <2> QED BY <1>0, <2>1 DEF Requests, Idle
<1>5. /\ req' \in [Pages -> [Kinds -> Requests]] /\ queued' \in [Pages -> BOOLEAN]
      /\ \A j \in {"create", "document"} : req'[p][j] = req[p][j]
      /\ \A q \in Pages : q # p => req'[q] = req[q] /\ queued'[q] = queued[q]
      /\ \/ req'[p]["refresh"] = Sending
         \/ req'[p]["refresh"] = req[p]["refresh"] /\ req[p]["refresh"].at # "idle" /\ queued'[p]
  <2>1. CASE Move(p, "refresh", "idle", Sending) /\ queued' = queued
    BY <1>0, <2>1, MoveFacts, RequestFacts DEF Kinds, PageTypes
  <2>2. CASE /\ req[p]["refresh"] # Idle
             /\ queued' = [queued EXCEPT ![p] = TRUE]
             /\ req' = req
    BY <1>0, <1>4, <2>2 DEF PageTypes
  <2> QED BY <1>1, <2>1, <2>2
<1>6. SameLedger /\ LedgerGrows /\ \A q \in Pages : q # p => SamePage(q)
  BY <1>1, <1>2, <1>5 DEF SameLedger, LedgerGrows, SamePage
<1>7. PageTypes'
  BY <1>0, <1>1, <1>5 DEF PageTypes
<1>8. Histories'
  <2>1. view'[p] \in AtHand(p) /\ \A j \in Kinds : req'[p][j].body \in AtHand(p)
    BY <1>1, <1>5, RequestFacts DEF AtHand, Kinds
  <2> QED BY <1>6, <1>7, <2>1, HistoriesKept
<1>9. Phase(p)'
  BY <1>0, <1>1, <1>3, <1>5, RequestFacts DEF Phase, Shown, Kinds
<1>10. Onward(p)'
  BY <1>0, <1>1, <1>5, RequestFacts DEF Onward
<1>11. Fresh(p)'
  BY <1>5, RequestFacts DEF Fresh
<1>12. \A q \in Pages : Spent(q) <= Spent(q)'
  BY <1>0, <1>1, <1>5 DEF Spent, PageTypes
<1>13. Ledger'
  BY <1>6, <1>7, <1>12, LedgerKept
<1> QED BY <1>6, <1>7, <1>8, <1>9, <1>10, <1>11, <1>13, OnePageKept DEF PageKept

\* The process is replaced: no list is one of this process any more but the new
\* one's, and no task of the old one is left.
LEMMA RestartKept ==
  ASSUME PageInv, Restart
  PROVE  PageKept
<1>0. /\ PageTypes /\ TypeOK /\ Phases /\ Histories /\ AllOnward /\ Ledger /\ boot \in Nat
  BY DEF PageInv, PageTypes
<1>1. /\ boot' = boot + 1 /\ log' = <<Seed(boot')>> /\ unsent' = {}
      /\ task' = [p \in Pages |-> IF task[p] = "none" THEN "none" ELSE "ended"]
      /\ UNCHANGED <<tail, start, seen, announced, view, posts>>
  BY DEF Restart
<1>2. PICK up \in BOOLEAN :
        LET cut == {p \in Pages : req[p]["refresh"].at = "sent"}
            goesOn(p, k) == k = "refresh" /\ p \in cut /\ queued[p] /\ up
        IN /\ req' = [p \in Pages |-> [k \in Kinds |->
                        CASE req[p][k].at # "sent" -> req[p][k]
                          [] goesOn(p, k) -> Sending
                          [] OTHER -> Idle]]
           /\ queued' = [p \in Pages |-> queued[p] /\ p \notin cut]
           /\ last' = [p \in Pages |-> IF p \in cut THEN "failure" ELSE last[p]]
  BY DEF Restart
<1>3. ASSUME NEW p \in Pages, NEW k \in Kinds
      PROVE  \/ req[p][k].at # "sent" /\ req'[p][k] = req[p][k]
             \/ req[p][k].at = "sent" /\ req'[p][k] = Idle
             \/ req[p][k].at = "sent" /\ k = "refresh" /\ req'[p][k] = Sending
  <2> DEFINE goesOn == k = "refresh" /\ req[p]["refresh"].at = "sent" /\ queued[p] /\ up
  <2>1. req'[p][k] = CASE req[p][k].at # "sent" -> req[p][k]
                       [] goesOn -> Sending
                       [] OTHER -> Idle
    BY <1>2
  <2>2. CASE req[p][k].at # "sent"
    BY <2>1, <2>2
  <2>3. CASE req[p][k].at = "sent" /\ goesOn
    BY <2>1, <2>3
  <2>4. CASE req[p][k].at = "sent" /\ ~goesOn
    BY <2>1, <2>4
  <2> QED BY <2>2, <2>3, <2>4
<1>4. ASSUME NEW p \in Pages
      PROVE  last'[p] = IF req[p]["refresh"].at = "sent" THEN "failure" ELSE last[p]
  BY <1>2
<1>5. PageTypes'
  <2>1. req' \in [Pages -> [Kinds -> Requests]]
    <3>1. \A p \in Pages, k \in Kinds : req'[p][k] \in Requests
      BY <1>0, <1>3, RequestFacts DEF PageTypes
    <3> QED BY <1>2, <3>1
  <2>2. queued' \in [Pages -> BOOLEAN]
    BY <1>2
  <2>3. last' \in [Pages -> {"nothing", "document", "refresh", "create", "failure"}]
    <3>1. last' = [p \in Pages |-> IF req[p]["refresh"].at = "sent" THEN "failure" ELSE last[p]]
      BY <1>2
    <3> QED BY <1>0, <3>1 DEF PageTypes
  <2>4. log' \in Lists
    BY <1>0, <1>1 DEF Lists, Items, Seed
  <2> QED BY <1>0, <1>1, <2>1, <2>2, <2>3, <2>4 DEF PageTypes
<1>6. Histories'
  <2>1. ASSUME NEW list, OneHistory(list) \/ list = <<>> PROVE OneHistory(list)'
    BY <1>0, <1>1, <2>1 DEF OneHistory, Seed
  <2>2. log' # <<>> /\ log'[1] = Seed(boot)'
    BY <1>1 DEF Seed
  <2>3. ASSUME NEW p \in Pages, NEW k \in Kinds
        PROVE  OneHistory(view[p])' /\ OneHistory(req[p][k].body)'
    <3>1. PICK a, b : a = view[p] /\ b = req'[p][k].body
      OBVIOUS
    <3>2. OneHistory(a) /\ (OneHistory(b) \/ b = <<>>)
      BY <1>0, <1>3, <3>1, RequestFacts DEF Histories, OneHistory
    <3>3. OneHistory(a)' /\ OneHistory(b)'
      BY <2>1, <3>2
    <3> QED BY <1>1, <3>1, <3>3 DEF OneHistory
  <2> QED BY <2>2, <2>3 DEF Histories, Kinds
<1>7. ASSUME NEW p \in Pages PROVE Phase(p)'
  <2>1. Phase(p) /\ task'[p] \in {"none", "ended"} /\ (task'[p] = "none" => task[p] = "none")
    BY <1>0, <1>1 DEF Phases
  <2>2. \A k \in Kinds : req'[p][k].at # "answered" => req'[p][k].body = <<>>
    BY <1>3, <2>1, RequestFacts DEF Phase
  <2>3. \A k \in Kinds : req'[p][k].at = "answered" => req'[p][k] = req[p][k]
    BY <1>3, RequestFacts
  <2>4. \A k \in Kinds : req'[p][k].at # "idle" => req[p][k].at # "idle"
    BY <1>3, RequestFacts
  <2> QED BY <1>1, <1>4, <2>1, <2>2, <2>3, <2>4 DEF Phase, Shown, Kinds
<1>8. ASSUME NEW p \in Pages PROVE Onward(p)' /\ Fresh(p)'
  <2>1. Fresh(p)'
    BY <1>1 DEF Fresh
  <2>2. req'[p]["refresh"].at = "answered" => req'[p]["refresh"] = req[p]["refresh"]
    BY <1>3, RequestFacts DEF Kinds
  <2>3. Onward(p)'
    BY <1>0, <1>1, <1>4, <2>2 DEF Onward, AllOnward
  <2> QED BY <2>1, <2>3
<1>9. \A q \in Pages : Spent(q) <= Spent(q)'
  <2>1. \A q \in Pages : posts[q] \in Nat /\ posts'[q] = posts[q]
    BY <1>0, <1>1 DEF PageTypes
  <2>2. \A q \in Pages : req'[q]["create"].at = "sent" => req[q]["create"].at = "sent"
    BY <1>3, RequestFacts DEF Kinds
  <2> QED BY <2>1, <2>2 DEF Spent
<1>10. Ledger'
  <2>1. \A i \in 2..Len(log') : FALSE
    BY <1>1
  <2>2. \A q \in Pages : Spent(q) \in Int /\ Spent(q)' \in Int
    BY <1>0, <1>5 DEF PageTypes, Spent
  <2>3. \A q \in Pages, c \in Nat : c <= Spent(q) => c <= Spent(q)'
    BY <1>9, <2>2
  <2> QED BY <1>0, <1>1, <2>1, <2>3 DEF Ledger
<1> QED BY <1>5, <1>6, <1>7, <1>8, <1>10 DEF PageKept, Phases, AllOnward, AllFresh
-----------------------------------------------------------------------------
\* PageInv holds before there is any page.
LEMMA InitPage == PageInit => PageInv
<1> SUFFICES ASSUME PageInit PROVE PageInv
  OBVIOUS
<1>1. TypeOK /\ FeedInv
  BY InitTypes, InitFeed DEF PageInit
<1>2. /\ log = <<Seed(0)>> /\ Len(log) = 1 /\ log[1] = Seed(0) /\ log # <<>>
      /\ boot = 0 /\ unsent = {} /\ announced = <<>> /\ tail = 0
      /\ req = [p \in Pages |-> [k \in Kinds |-> Idle]]
      /\ queued = [p \in Pages |-> FALSE]
      /\ view = [p \in Pages |-> <<>>]
      /\ last = [p \in Pages |-> "nothing"]
      /\ posts = [p \in Pages |-> 0]
      /\ task = [p \in Pages |-> "none"]
  BY DEF PageInit, Init, Pages
<1>3. Seed(0) \in Items /\ <<>> \in Lists
  BY DEF Seed, Items, Lists
<1>4. PageTypes
  BY <1>2, <1>3, RequestFacts DEF PageTypes, Lists
<1>5. Histories
  BY <1>2, RequestFacts DEF Histories, OneHistory
<1>6. Phases
  BY <1>2, RequestFacts DEF Phases, Phase, Shown, Kinds
<1>7. Ledger
  BY <1>2 DEF Ledger
<1>8. AllFresh /\ AllOnward
  BY <1>2, RequestFacts DEF AllFresh, AllOnward, Fresh, Onward
<1> QED BY <1>1, <1>4, <1>5, <1>6, <1>7, <1>8 DEF PageInv

\* No step of server, sockets or pages breaks PageInv.
LEMMA NextPage == PageInv /\ [PageNext]_allVars => PageInv'
<1> SUFFICES ASSUME PageInv, [PageNext]_allVars PROVE PageInv'
  OBVIOUS
<1>1. TypeOK' /\ FeedInv'
  BY FeedKept DEF PageInv
<1>2. CASE UNCHANGED allVars
  <2>1. /\ UNCHANGED <<tail, task, cursor, start, wire, seen, peer>>
        /\ UNCHANGED <<log, unsent, announced, boot, req, queued, view, last, posts>>
    BY <1>2 DEF allVars, vars, pageVars
  <2> QED
    BY <1>1, <2>1 DEF PageInv, PageTypes, Histories, OneHistory, Phases, Phase, Shown, Ledger,
                      Spent, AllFresh, Fresh, UpTo, AllOnward, Onward
<1>3. CASE PageNext
  <2>1. ASSUME NEW p \in Pages, Progress(p) PROVE PageKept
    BY <2>1, ServeReadKept, ServeCreateKept, SwapCreateKept, SwapRefreshKept DEF Progress
  <2> QED
    BY <1>1, <1>3, <2>1, AnnounceKept, NavigateKept, ShowDocumentKept, OpenSocketKept,
       SocketStepKept, BreakSocketKept, OnMessageKept, SubmitKept, FailKept, RestartKept
    DEF PageNext, PageKept, PageInv
<1> QED BY <1>2, <1>3

\* PageInv holds in every reachable state.
LEMMA PageReachable == PageSpec => []PageInv
BY InitPage, NextPage, PTL DEF PageSpec
-----------------------------------------------------------------------------
\* A page shows a prefix of the list of the process that served it, in its
\* order, through any races of refreshes with submits and through restarts.
THEOREM ViewIsHistoryHolds == PageSpec => []ViewIsHistory
<1>1. PageInv => ViewIsHistory
  BY DEF PageInv, Histories, OneHistory, ViewIsHistory, Shown, Prefix
<1> QED BY <1>1, PageReachable, PTL

\* One refresh never undoes another: they are answered and shown in order,
\* whatever fails and whatever submits come in between.
THEOREM RefreshesAdvance == PageSpec => RefreshMonotone
<1> DEFINE Advance ==
      \A p \in Pages :
        /\ last[p] = "refresh" /\ last'[p] = "refresh"
        /\ view[p][1] = view'[p][1]
        => /\ Len(view[p]) <= Len(view'[p])
           /\ \A i \in 1..Len(view[p]) : view[p][i] = view'[p][i]
<1>1. PageInv /\ [PageNext]_allVars => [Advance]_allVars
  <2> SUFFICES ASSUME PageInv, [PageNext]_allVars,
                      NEW p \in Pages, last[p] = "refresh", last'[p] = "refresh",
                      view[p][1] = view'[p][1]
               PROVE  Prefix(view[p], view'[p])
    BY DEF Prefix
  <2>0. /\ PageTypes /\ TypeOK /\ Phase(p) /\ Onward(p) /\ view[p] \in Lists
    BY DEF PageInv, PageTypes, Phases, AllOnward
  <2>1. Prefix(view[p], view[p])
    BY <2>0 DEF Prefix, Lists
  <2>2. CASE view'[p] = view[p]
    BY <2>1, <2>2
  <2>3. CASE SwapRefresh(p)
    <3>1. req[p]["refresh"].at = "answered" /\ view'[p] = req[p]["refresh"].body
      BY <2>0, <2>3 DEF SwapRefresh, EndRefresh, Move, PageTypes
    <3> QED BY <2>0, <3>1 DEF Onward
  <2>4. ASSUME NEW q \in Pages, q # p, SwapRefresh(q) \/ SwapCreate(q) \/ ShowDocument(q)
        PROVE  view'[p] = view[p]
    BY <2>0, <2>4 DEF SwapRefresh, SwapCreate, ShowDocument, PageTypes
  <2>5. CASE SwapCreate(p)
    <3>1. view' = view \/ last'[p] = "create"
      BY <2>0, <2>5 DEF SwapCreate, PageTypes
    <3> QED BY <2>1, <3>1
  <2>6. ~ShowDocument(p)
    BY <2>0 DEF ShowDocument, PageTypes
  <2>7. CASE UNCHANGED view
    BY <2>1, <2>7
  <2>8. \/ UNCHANGED view
        \/ \E q \in Pages : SwapRefresh(q) \/ SwapCreate(q) \/ ShowDocument(q)
    BY DEF PageNext, Progress, Announce, ServeRead, ServeCreate, Navigate, OpenSocket, SocketStep,
           BreakSocket, SocketTimesOut, OnMessage, Submit, Fail, Restart, allVars, pageVars
  <2> QED BY <2>2, <2>3, <2>4, <2>5, <2>6, <2>7, <2>8
<1> QED BY <1>1, PageReachable, PTL DEF PageSpec, RefreshMonotone

\* A page with a working socket lacks an item of the list only for one of the
\* reasons StaleOnlyForAReason names, in every interleaving.
THEOREM StaleOnlyForAReasonHolds == PageSpec => []StaleOnlyForAReason
<1>1. PageInv => StaleOnlyForAReason
  <2> SUFFICES ASSUME PageInv, NEW p \in Pages, Live(p), NEW item \in Missing(p),
                      last[p] \notin {"create", "failure"}, item \notin unsent,
                      req[p]["refresh"] = Idle,
                      ~(last[p] = "document" /\ item = Seed(boot)),
                      ~(last[p] = "document" /\ EventOf(item) <= start[p])
               PROVE  EventOf(item) > seen[p]
    BY DEF StaleOnlyForAReason
  <2>1. /\ task[p] \in {"select", "sending"} /\ req[p]["refresh"].at = "idle"
        /\ Phase(p) /\ Fresh(p) /\ Ledger /\ log \in Lists /\ view[p] \in Lists
        /\ log[1] = Seed(boot) /\ tail \in Nat /\ announced \in Lists
        /\ last[p] \in {"nothing", "document", "refresh", "create", "failure"}
        /\ seen[p] \in Nat /\ start[p] \in Nat
    BY RequestFacts DEF PageInv, Live, Phases, AllFresh, PageTypes, Histories, TypeOK, Pages
  <2>2. last[p] \in {"document", "refresh"}
    BY <2>1 DEF Phase
  <2>3. DOMAIN announced = 1..tail /\ DOMAIN log = 1..Len(log) /\ DOMAIN view[p] = 1..Len(view[p])
    BY <2>1 DEF Lists, Ledger
  <2>4. PICK i \in 1..Len(log) : item = log[i]
    BY <2>3 DEF Missing, Members
  <2>5. \A j \in 1..Len(view[p]) : view[p][j] # item
    BY <2>3 DEF Missing, Members
  <2>6. ASSUME NEW n \in 1..tail, announced[n] = item PROVE EventOf(item) = n
    <3>1. \A m \in DOMAIN announced : announced[m] = item => m = n
      BY <2>1, <2>3, <2>6 DEF Ledger
    <3> QED BY <2>3, <2>6, <3>1 DEF EventOf
  <2>7. CASE last[p] = "refresh"
    <3>1. PICK n \in 1..tail : n > seen[p] /\ announced[n] = item
      BY <2>1, <2>4, <2>5, <2>7 DEF Fresh, UpTo
    <3> QED BY <2>6, <3>1
  <2>8. CASE last[p] = "document"
    <3>1. i # 1 /\ seen[p] = start[p]
      BY <2>1, <2>4, <2>8 DEF Fresh
    <3>2. i \in 2..Len(log)
      BY <3>1
    <3>3. PICK n \in 1..tail : announced[n] = item
      BY <2>1, <2>4, <3>2 DEF Ledger
    <3>4. EventOf(item) = n /\ n \in Nat
      BY <2>1, <2>6, <3>3
    <3> QED BY <2>1, <2>8, <3>1, <3>4
  <2> QED BY <2>2, <2>7, <2>8
<1> QED BY <1>1, PageReachable, PTL

\* Restarts included, what a browser handles is exactly the run of events sent
\* since its task subscribed.
THEOREM NoGapHoldsOnPages == PageSpec => []NoGap
<1>1. PageInv => NoGap
  BY FeedGivesNoGap DEF PageInv
<1> QED BY <1>1, PageReachable, PTL
=============================================================================
