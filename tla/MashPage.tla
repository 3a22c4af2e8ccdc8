------------------------------ MODULE MashPage ------------------------------
(***************************************************************************)
(* The server and its browsers together: documents loaded from index, the  *)
(* websocket each document opens, the htmx refresh every frame asks for,   *)
(* and the form that posts a reservation (layout, src/main.rs).            *)
(*                                                                         *)
(* The server is taken at the grain of ReservationService, which module    *)
(* MashServer implements: a request is served in one step and a committed  *)
(* item is announced in a later one.  The channel and the websocket tasks  *)
(* are those of EventFeed, one socket per loaded document.                 *)
(*                                                                         *)
(* A document has three requests that can be under way at once: its own,   *)
(* the refresh (issued from body, so htmx keeps one in flight and at most  *)
(* one queued) and the form's POST (issued from the form, unordered with   *)
(* the refresh).                                                           *)
(*                                                                         *)
(* Definitions marked Variant are faults of the code that the properties   *)
(* are tested against; no specification uses them.                         *)
(***************************************************************************)
EXTENDS EventFeed

CONSTANTS
  MaxItems,     \* MAX_ITEMS
  MaxPosts,     \* bound on the submits of one document
  MaxFailures,  \* bound on the requests that fail
  MaxRestarts   \* bound on the restarts of the server

ASSUME PageAssumption ==
  /\ MaxItems \in Nat \ {0}
  /\ {MaxPosts, MaxFailures, MaxRestarts} \subseteq Nat

VARIABLES
  log,        \* the server's list
  unsent,     \* committed items whose create_item has not sent its event yet
  announced,  \* the item of every event, by position
  boot,
  req,        \* the requests of each document
  queued,     \* whether htmx has a refresh waiting behind the one in flight
  view,       \* the items shown in #items; empty before the document is shown
  last,       \* the response #items shows, or the failure of a refresh
  posts, failures

pageVars == <<log, unsent, announced, boot, req, queued, view, last, posts, failures>>
allVars == <<vars, pageVars>>

Pages == Sockets
Kinds == {"document", "refresh", "create"}

\* An answer without a list is an error response, which htmx does not swap in.
Idle == [at |-> "idle", body |-> <<>>]
Sending == [at |-> "sent", body |-> <<>>]
Answered(list) == [at |-> "answered", body |-> list]

Seed(b) == <<"seed", b>>
Members(seq) == {seq[i] : i \in DOMAIN seq}

PageInit ==
  /\ Init
  /\ log = <<Seed(0)>>
  /\ unsent = {}
  /\ announced = <<>>
  /\ boot = 0
  /\ req = [p \in Pages |-> [k \in Kinds |-> Idle]]
  /\ queued = [p \in Pages |-> FALSE]
  /\ view = [p \in Pages |-> <<>>]
  /\ last = [p \in Pages |-> "nothing"]
  /\ posts = [p \in Pages |-> 0]
  /\ failures = 0

Move(p, k, from, to) ==
  /\ req[p][k].at = from
  /\ req' = [req EXCEPT ![p][k] = to]

Shown(p) == view[p] # <<>>
-----------------------------------------------------------------------------
\* Server

\* Variant: a cache answers with a list it kept, shorter or not.
ServeRead_Cached(p, k) ==
  /\ k \in {"document", "refresh"}
  /\ \E n \in 1..Len(log) : Move(p, k, "sent", Answered(SubSeq(log, 1, n)))
  /\ UNCHANGED <<vars, log, unsent, announced, boot, queued, view, last, posts, failures>>

\* index and items_partial; no_store keeps every cache out of the way.
ServeRead(p, k) ==
  /\ k \in {"document", "refresh"}
  /\ Move(p, k, "sent", Answered(log))
  /\ UNCHANGED <<vars, log, unsent, announced, boot, queued, view, last, posts, failures>>

\* Variant: the list the form gets has the new item in front.
ServeCreate_InFront(p) ==
  LET item == <<p, posts[p]>>
  IN /\ Len(log) < MaxItems
     /\ Move(p, "create", "sent", Answered(<<log[1], item>> \o Tail(log)))
     /\ log' = Append(log, item)
     /\ unsent' = unsent \cup {item}
     /\ UNCHANGED <<vars, announced, boot, queued, view, last, posts, failures>>

\* create_item of a valid input where demo writes are enabled.
ServeCreate(p) ==
  LET item == <<p, posts[p]>>
      longer == Append(log, item)
  IN /\ IF Len(log) < MaxItems
          THEN /\ Move(p, "create", "sent", Answered(longer))
               /\ log' = longer
               /\ unsent' = unsent \cup {item}
          ELSE /\ Move(p, "create", "sent", Answered(<<>>))
               /\ UNCHANGED <<log, unsent>>
     /\ UNCHANGED <<vars, announced, boot, queued, view, last, posts, failures>>

\* The handlers that committed announce in any order.
Announce(item) ==
  /\ item \in unsent
  /\ unsent' = unsent \ {item}
  /\ announced' = Append(announced, item)
  /\ SendEvent
  /\ UNCHANGED <<log, boot, req, queued, view, last, posts, failures>>

\* The process is replaced: list, channel and connections are gone, and the
\* pages stay open.  Requests it had not answered fail; a refresh that waited
\* behind one of those leaves at once, and fails as well while the new process
\* is not up.
Restart ==
  /\ boot < MaxRestarts
  /\ boot' = boot + 1
  /\ log' = <<Seed(boot')>>
  /\ unsent' = {}
  /\ task' = [p \in Pages |-> IF task[p] = "none" THEN "none" ELSE "ended"]
  /\ wire' = [p \in Pages |-> <<>>]
  /\ \E up \in BOOLEAN :
       LET cut == {p \in Pages : req[p]["refresh"].at = "sent"}
           goesOn(p, k) == k = "refresh" /\ p \in cut /\ queued[p] /\ up
       IN /\ req' = [p \in Pages |-> [k \in Kinds |->
                       CASE req[p][k].at # "sent" -> req[p][k]
                         [] goesOn(p, k) -> Sending
                         [] OTHER -> Idle]]
          /\ queued' = [p \in Pages |-> queued[p] /\ p \notin cut]
          /\ last' = [p \in Pages |-> IF p \in cut THEN "failure" ELSE last[p]]
  /\ UNCHANGED <<tail, cursor, start, seen, peer, announced, view, posts, failures>>
-----------------------------------------------------------------------------
\* Browser

Navigate(p) ==
  /\ ~Shown(p)
  /\ Move(p, "document", "idle", Sending)
  /\ UNCHANGED <<vars, log, unsent, announced, boot, queued, view, last, posts, failures>>

ShowDocument(p) ==
  /\ req[p]["document"].at = "answered"
  /\ Move(p, "document", "answered", Idle)
  /\ view' = [view EXCEPT ![p] = req[p]["document"].body]
  /\ last' = [last EXCEPT ![p] = "document"]
  /\ UNCHANGED <<vars, log, unsent, announced, boot, queued, posts, failures>>

\* The document's script opens its socket once, and never again.
OpenSocket(p) ==
  /\ Shown(p)
  /\ Upgrade(p) \/ RefuseOrigin(p)
  /\ UNCHANGED pageVars

SocketStep(p) ==
  /\ TaskStep(p)
  /\ UNCHANGED pageVars

BreakSocket(p) ==
  /\ PeerGone(p) \/ Vanish(p)
  /\ UNCHANGED pageVars

SocketTimesOut(p) ==
  /\ TimesOut(p)
  /\ UNCHANGED pageVars

\* Variant: a frame that comes while a refresh is in flight is let go.
OnMessage_NotQueued(p) ==
  /\ Handle(p)
  /\ IF req[p]["refresh"] = Idle
       THEN Move(p, "refresh", "idle", Sending)
       ELSE UNCHANGED req
  /\ UNCHANGED <<log, unsent, announced, boot, queued, view, last, posts, failures>>

\* ws.onmessage: htmx.ajax('GET', ...), which queues behind one in flight.
OnMessage(p) ==
  /\ Handle(p)
  /\ IF req[p]["refresh"] = Idle
       THEN Move(p, "refresh", "idle", Sending) /\ UNCHANGED queued
       ELSE queued' = [queued EXCEPT ![p] = TRUE] /\ UNCHANGED req
  /\ UNCHANGED <<log, unsent, announced, boot, view, last, posts, failures>>

\* Variant: a refresh that ends empties the queue behind it.
EndRefresh_Forgets(p, from) ==
  /\ Move(p, "refresh", from, Idle)
  /\ queued' = [queued EXCEPT ![p] = FALSE]

\* The next refresh leaves when the one in flight ends, well or badly.
EndRefresh(p, from) ==
  /\ Move(p, "refresh", from, IF queued[p] THEN Sending ELSE Idle)
  /\ queued' = [queued EXCEPT ![p] = FALSE]

SwapRefresh(p) ==
  /\ EndRefresh(p, "answered")
  /\ view' = [view EXCEPT ![p] = req[p]["refresh"].body]
  /\ last' = [last EXCEPT ![p] = "refresh"]
  /\ UNCHANGED <<vars, log, unsent, announced, boot, posts, failures>>

Submit(p) ==
  /\ Shown(p)
  /\ posts[p] < MaxPosts
  /\ Move(p, "create", "idle", Sending)
  /\ posts' = [posts EXCEPT ![p] = @ + 1]
  /\ UNCHANGED <<vars, log, unsent, announced, boot, queued, view, last, failures>>

SwapCreate(p) ==
  LET body == req[p]["create"].body
  IN /\ Move(p, "create", "answered", Idle)
     /\ IF body # <<>>
          THEN /\ view' = [view EXCEPT ![p] = body]
               /\ last' = [last EXCEPT ![p] = "create"]
          ELSE UNCHANGED <<view, last>>
     /\ UNCHANGED <<vars, log, unsent, announced, boot, queued, posts, failures>>

\* A request is lost before the server has it, or its response on the way back.
Fail(p, k, from) ==
  /\ from \in {"sent", "answered"}
  /\ failures < MaxFailures
  /\ failures' = failures + 1
  /\ IF k = "refresh"
       THEN /\ EndRefresh(p, from)
            /\ last' = [last EXCEPT ![p] = "failure"]
       ELSE /\ Move(p, k, from, Idle)
            /\ UNCHANGED <<queued, last>>
  /\ UNCHANGED <<vars, log, unsent, announced, boot, view, posts>>

Progress(p) ==
  \/ \E k \in Kinds : ServeRead(p, k)
  \/ ServeCreate(p) \/ SwapCreate(p) \/ SwapRefresh(p)

PageNext ==
  \/ \E item \in unsent : Announce(item)
  \/ \E p \in Pages :
       \/ Progress(p)
       \/ Navigate(p) \/ ShowDocument(p)
       \/ OpenSocket(p) \/ SocketStep(p) \/ BreakSocket(p) \/ SocketTimesOut(p)
       \/ OnMessage(p) \/ Submit(p)
       \/ \E k \in Kinds, from \in {"sent", "answered"} : Fail(p, k, from)
  \/ Restart

PageSpec == PageInit /\ [][PageNext]_allVars

\* Handlers and tasks run on, a commit is followed by its event without an
\* await in between, and an open page handles its frames and responses.  What
\* the user does, and what fails, is under no obligation.
PageFairSpec ==
  /\ PageSpec
  /\ WF_allVars(\E item \in unsent : Announce(item))
  /\ \A p \in Pages :
       /\ WF_allVars(\E k \in Kinds : ServeRead(p, k))
       /\ WF_allVars(ServeCreate(p))
       /\ WF_allVars(SwapCreate(p))
       /\ WF_allVars(SwapRefresh(p))
       /\ WF_allVars(SocketStep(p))
       /\ WF_allVars(SocketTimesOut(p))
       /\ WF_allVars(OnMessage(p))
-----------------------------------------------------------------------------
Live(p) == peer[p] = "open" /\ task[p] \in {"select", "sending"}

Missing(p) == Members(log) \ Members(view[p])

EventOf(item) == CHOOSE n \in DOMAIN announced : announced[n] = item

\* A page never shows an order or an item the server did not have: what it
\* shows is a prefix of the list of the process that served it.
ViewIsHistory ==
  \A p \in Pages :
    Shown(p) /\ view[p][1] = log[1] =>
      /\ Len(view[p]) <= Len(log)
      /\ \A i \in 1..Len(view[p]) : view[p][i] = log[i]

\* Why a page with a working socket may lack an item: the item's event is not
\* sent, or not handled by the page yet, or a refresh is under way; or the page
\* still shows its document and the event was sent before the socket had
\* subscribed, or the server was replaced between the two; or a POST response
\* or a failed refresh came last.  There is no other way to be stale.
StaleOnlyForAReason ==
  \A p \in Pages : Live(p) =>
    \A item \in Missing(p) :
      \/ last[p] \in {"create", "failure"}
      \/ item \in unsent
      \/ req[p]["refresh"] # Idle
      \/ last[p] = "document" /\ item = Seed(boot)
      \/ last[p] = "document" /\ EventOf(item) <= start[p]
      \/ EventOf(item) > seen[p]

\* One refresh never undoes another: they are answered and shown in order.
RefreshMonotone ==
  [][\A p \in Pages :
       /\ last[p] = "refresh" /\ last'[p] = "refresh"
       /\ view[p][1] = view'[p][1]
       => /\ Len(view[p]) <= Len(view'[p])
          /\ \A i \in 1..Len(view[p]) : view[p][i] = view'[p][i]]_allVars

\* Once the users are done, every live page whose last response was a refresh
\* shows the server's list, and goes on showing it.
RefreshedPagesConverge ==
  \A p \in Pages : <>[](Live(p) /\ last[p] = "refresh" => view[p] = log)
=============================================================================
