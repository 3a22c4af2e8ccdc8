------------------------------ MODULE EventFeed ------------------------------
(***************************************************************************)
(* The path of an event from create_item to a browser: the tokio broadcast *)
(* channel AppState.events and one task per accepted websocket, which      *)
(* subscribes and then loops on a select! between the client's frames and  *)
(* the channel (websocket, src/main.rs).                                   *)
(*                                                                         *)
(* Events are told apart by their position in the order of sending.  The   *)
(* channel keeps the last RingSize of them: a receiver that fell further   *)
(* behind is told so instead of being given an event.                      *)
(*                                                                         *)
(* Definitions marked Variant are faults of the code that the properties   *)
(* are tested against; no specification uses them.                         *)
(***************************************************************************)
EXTENDS Naturals, Sequences

CONSTANTS
  Sockets,      \* the websockets browsers open; each is used once
  Attentive,    \* those whose browser keeps handling frames while it is there
  Silent,       \* those whose connection may vanish without being closed
  RingSize,     \* capacity of broadcast::channel, 256
  WireSize,     \* frames the network holds before a send has to wait
  MaxEvents     \* bound on the events sent

ASSUME FeedAssumption ==
  /\ Attentive \subseteq Sockets
  /\ Silent \subseteq Sockets
  /\ RingSize \in Nat \ {0}
  /\ WireSize \in Nat \ {0}
  /\ MaxEvents \in Nat

VARIABLES
  tail,    \* how many events were sent
  task,    \* state of the task of each socket
  cursor,  \* position of the event each receiver took last
  start,   \* value of cursor when the task subscribed
  wire,    \* frames sent to each browser that it has not handled
  seen,    \* position of the event in the last frame the browser handled
  peer     \* the browser's end as its host has it

vars == <<tail, task, cursor, start, wire, seen, peer>>

\* "refused": the upgrade was answered 403; "upgraded": 101 was answered and
\* the task has not run; "select": waiting in select!; "sending": in tx.send.
TaskStates == {"none", "refused", "upgraded", "select", "sending", "ended"}

\* "closed": the server's host has a close frame, the end of the stream or an
\* error to tell of; "vanished": nothing comes from the browser's end any more.
PeerStates == {"open", "closed", "vanished"}

Init ==
  /\ tail = 0
  /\ task = [s \in Sockets |-> "none"]
  /\ cursor = [s \in Sockets |-> 0]
  /\ start = [s \in Sockets |-> 0]
  /\ wire = [s \in Sockets |-> <<>>]
  /\ seen = [s \in Sockets |-> 0]
  /\ peer = [s \in Sockets |-> "open"]

Become(s, from, to) ==
  /\ task[s] = from
  /\ task' = [task EXCEPT ![s] = to]

\* events.send: the message gets the next position.  A send that finds no
\* receiver stores nothing, which no later subscriber can tell.
SendEvent ==
  /\ tail < MaxEvents
  /\ tail' = tail + 1
  /\ UNCHANGED <<task, cursor, start, wire, seen, peer>>

\* ws_upgrade, with a matching origin and without.
Upgrade(s) ==
  /\ Become(s, "none", "upgraded")
  /\ UNCHANGED <<tail, cursor, start, wire, seen, peer>>

RefuseOrigin(s) ==
  /\ Become(s, "none", "refused")
  /\ UNCHANGED <<tail, cursor, start, wire, seen, peer>>

\* events.subscribe(): only what is sent from here on is received.
Subscribe(s) ==
  /\ Become(s, "upgraded", "select")
  /\ cursor' = [cursor EXCEPT ![s] = tail]
  /\ start' = [start EXCEPT ![s] = tail]
  /\ seen' = [seen EXCEPT ![s] = tail]
  /\ UNCHANGED <<tail, wire, peer>>

Behind(s) == tail - cursor[s]

\* Variant: an event that cannot be sent at once is put aside for good.
Receive_Drops(s) ==
  /\ Behind(s) \in 1..RingSize
  /\ Become(s, "select", IF Len(wire[s]) < WireSize THEN "sending" ELSE "select")
  /\ cursor' = [cursor EXCEPT ![s] = @ + 1]
  /\ UNCHANGED <<tail, start, wire, seen, peer>>

\* events.recv() returned an event: send it on.
Receive(s) ==
  /\ Behind(s) \in 1..RingSize
  /\ Become(s, "select", "sending")
  /\ cursor' = [cursor EXCEPT ![s] = @ + 1]
  /\ UNCHANGED <<tail, start, wire, seen, peer>>

\* Variant: a lagging receiver goes on with the oldest event that is left.
Lag_GoesOn(s) ==
  /\ Behind(s) > RingSize
  /\ task[s] = "select"
  /\ cursor' = [cursor EXCEPT ![s] = tail - RingSize]
  /\ UNCHANGED <<tail, task, start, wire, seen, peer>>

\* events.recv() returned Lagged: the loop ends and the socket is dropped.
Lag(s) ==
  /\ Behind(s) > RingSize
  /\ Become(s, "select", "ended")
  /\ UNCHANGED <<tail, cursor, start, wire, seen, peer>>

\* tx.send().await completes once the host takes the frame, which says nothing
\* of a browser that is no longer there.
SendFrame(s) ==
  /\ Len(wire[s]) < WireSize
  /\ Become(s, "sending", "select")
  /\ wire' = [wire EXCEPT ![s] = IF peer[s] = "closed" THEN @ ELSE Append(@, cursor[s])]
  /\ UNCHANGED <<tail, cursor, start, seen, peer>>

\* Variant: the end of the client's stream falls under the ignored frames.
ClientClosed_Ignored(s) ==
  /\ peer[s] = "closed"
  /\ Become(s, "select", "select")
  /\ UNCHANGED <<tail, cursor, start, wire, seen, peer>>

\* tx.send().await fails, or rx.next() yields a close frame or the end of the
\* stream.  While the task is sending it does not look at what comes in.
SendFails(s) ==
  /\ peer[s] = "closed"
  /\ Become(s, "sending", "ended")
  /\ UNCHANGED <<tail, cursor, start, wire, seen, peer>>

ClientClosed(s) ==
  /\ peer[s] = "closed"
  /\ Become(s, "select", "ended")
  /\ UNCHANGED <<tail, cursor, start, wire, seen, peer>>

\* The browser handles the next frame: onmessage asks for the list again.
Handle(s) ==
  /\ peer[s] = "open"
  /\ wire[s] # <<>>
  /\ seen' = [seen EXCEPT ![s] = Head(wire[s])]
  /\ wire' = [wire EXCEPT ![s] = Tail(@)]
  /\ UNCHANGED <<tail, task, cursor, start, peer>>

Closed(s) ==
  /\ peer' = [peer EXCEPT ![s] = "closed"]
  /\ wire' = [wire EXCEPT ![s] = <<>>]
  /\ UNCHANGED <<tail, task, cursor, start, seen>>

Served(s) == task[s] \in {"upgraded", "select", "sending"}

\* The tab is closed, or the connection is reset.
PeerGone(s) ==
  /\ peer[s] = "open"
  /\ task[s] # "none"
  /\ Closed(s)

\* The machine or its network disappears without a word.  The frames its host
\* had acknowledged are lost with it; the others are left on the wire.  To a
\* connection without a task this is no other than PeerGone.
Vanish(s) ==
  /\ s \in Silent
  /\ peer[s] = "open"
  /\ Served(s)
  /\ peer' = [peer EXCEPT ![s] = "vanished"]
  /\ \E n \in 0..Len(wire[s]) : wire' = [wire EXCEPT ![s] = SubSeq(@, n + 1, Len(@))]
  /\ UNCHANGED <<tail, task, cursor, start, seen>>

\* The host gives up sending again what is not acknowledged, or is answered with
\* a reset.  With nothing on the wire nobody asks: the server sends no ping and
\* sets neither a time limit nor keepalive.
TimesOut(s) ==
  /\ peer[s] = "vanished"
  /\ wire[s] # <<>>
  /\ Closed(s)

TaskStep(s) ==
  Subscribe(s) \/ Receive(s) \/ Lag(s) \/ SendFrame(s) \/ SendFails(s) \/ ClientClosed(s)

Next ==
  \/ SendEvent
  \/ \E s \in Sockets :
       \/ Upgrade(s) \/ RefuseOrigin(s)
       \/ TaskStep(s)
       \/ Handle(s) \/ PeerGone(s) \/ Vanish(s) \/ TimesOut(s)

Spec == Init /\ [][Next]_vars

\* The runtime polls a task that was woken, whichever branch of select! woke it;
\* fairness is of the task's steps together, since select! picks among the
\* branches that are ready at random.  An attentive page's event loop handles
\* the frames it gets; of the others nothing is assumed.  A host sends a frame
\* again a finite number of times.
FairSpec ==
  /\ Spec
  /\ \A s \in Sockets : WF_vars(TaskStep(s)) /\ WF_vars(TimesOut(s))
  /\ \A s \in Attentive : WF_vars(Handle(s))
-----------------------------------------------------------------------------
TypeOK ==
  /\ tail \in 0..MaxEvents
  /\ task \in [Sockets -> TaskStates]
  /\ cursor \in [Sockets -> Nat]
  /\ start \in [Sockets -> Nat]
  /\ wire \in [Sockets -> Seq(Nat)]
  /\ seen \in [Sockets -> Nat]
  /\ peer \in [Sockets -> PeerStates]

\* The positions up to which events are on the wire or handled.
Sent(s) == IF task[s] = "sending" THEN cursor[s] - 1 ELSE cursor[s]

\* What a browser handles is exactly the run of events sent since its task
\* subscribed: none is skipped, repeated or overtaken, whether the network is
\* slow, the receiver lags or the connection ends.
NoGap ==
  \A s \in Sockets :
    /\ start[s] <= seen[s] /\ seen[s] <= cursor[s] /\ cursor[s] <= tail
    /\ peer[s] = "open" => \A i \in 1..Len(wire[s]) : wire[s][i] = seen[s] + i
    /\ task[s] \in {"select", "sending"} /\ peer[s] = "open" =>
         Len(wire[s]) = Sent(s) - seen[s]

\* An event sent after the subscription reaches an attentive browser, unless its
\* connection ends first; browsers that do not read hold up only themselves.
EventuallyDelivered ==
  \A s \in Attentive : \A n \in 1..MaxEvents :
    (task[s] = "select" /\ start[s] < n /\ tail >= n)
      ~> (seen[s] >= n \/ task[s] = "ended" \/ peer[s] # "open")

\* The task has something to learn that its browser has gone from.
CanTell(s) ==
  \/ peer[s] = "closed" /\ Served(s)
  \/ /\ peer[s] = "vanished"
     /\ \/ task[s] = "sending"
        \/ task[s] = "select" /\ (wire[s] # <<>> \/ cursor[s] < tail)

\* A task whose browser has gone ends, even one that waits in a send nobody
\* takes: at once where the connection was closed, and where it fell silent
\* as soon as there is one event to send.  A silent connection on which nothing
\* is left to acknowledge keeps its task until the next event, however long.
NoTaskForGonePeer ==
  \A s \in Sockets : CanTell(s) ~> (task[s] = "ended")
=============================================================================
