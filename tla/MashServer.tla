----------------------------- MODULE MashServer -----------------------------
(***************************************************************************)
(* The request handlers of src/main.rs that touch the shared state: index, *)
(* reservation_component and items_partial read the list, create_item      *)
(* extends it and then announces the new item on the broadcast channel.    *)
(*                                                                         *)
(* Handlers run on several threads and interleave at every step between    *)
(* two uses of shared state.  The list is behind a tokio RwLock, which is  *)
(* fair: waiters are served in order of arrival, a run of readers at once. *)
(* A handler whose client disconnects is dropped, but only where it awaits,*)
(* and the await for the lock is the only one these handlers have.         *)
(*                                                                         *)
(* A request is used once; an item is the create request that made it, and *)
(* the seed of a process is the number of its boot (see                    *)
(* ReservationService).                                                    *)
(*                                                                         *)
(* Definitions marked Variant are faults of the code that the properties   *)
(* are tested against; no specification uses them.                         *)
(***************************************************************************)
EXTENDS Naturals, Sequences, FiniteSets

CONSTANTS
  Reads,        \* requests handled by a reading handler
  Creates,      \* requests handled by create_item
  MaxItems,     \* MAX_ITEMS
  MaxRestarts   \* bound on the restarts of the process

ASSUME ServerAssumption ==
  /\ MaxItems \in Nat \ {0}               \* MAX_ITEMS is 1024
  /\ MaxRestarts \in Nat
  /\ Reads \cap Creates = {}
  /\ (Reads \cup Creates) \cap Nat = {}   \* a request is not a boot number

VARIABLES
  items,       \* AppState.items, the Vec behind the lock
  events,      \* what was sent on AppState.events by this process
  boot,        \* which process this is
  demoWrites,  \* AppState.demo_writes_enabled, fixed while a process runs
  pc,          \* where each request's handler is
  ticket,      \* place of each request in the lock's queue
  nextTicket,
  rendered,    \* the handler's local: the list it turned into markup
  status       \* the status of the response a handler returned

vars == <<items, events, boot, demoWrites, pc, ticket, nextTicket, rendered, status>>

Requests == Reads \cup Creates

Members(seq) == {seq[i] : i \in DOMAIN seq}

\* Variant: a dropped handler keeps its place.
Queued_Leaked(r) == pc[r] \in {"waiting", "pushed", "rendered", "lost"}

\* A handler is in the lock's queue from its read() or write() until its guard
\* is dropped.  "waiting" covers both a queued handler and one that was granted
\* the lock and has not run yet.
Queued(r) == pc[r] \in {"waiting", "pushed", "rendered"}

\* Variant: create_item takes the lock with read().
Holds_AsReader(r) == Queued(r)

\* r has the lock when all that came before it and are still there share it.
Holds(r) ==
  /\ Queued(r)
  /\ \A s \in Requests :
       Queued(s) /\ ticket[s] < ticket[r] => r \in Reads /\ s \in Reads

Goto(r, from, to) ==
  /\ pc[r] = from
  /\ pc' = [pc EXCEPT ![r] = to]

Answer(r, from, code) ==
  /\ Goto(r, from, "answered")
  /\ status' = [status EXCEPT ![r] = code]
-----------------------------------------------------------------------------
Init ==
  /\ items = <<0>>
  /\ events = <<>>
  /\ boot = 0
  /\ demoWrites \in BOOLEAN
  /\ pc = [r \in Requests |-> "idle"]
  /\ ticket = [r \in Requests |-> 0]
  /\ nextTicket = 0
  /\ rendered = [r \in Requests |-> <<>>]
  /\ status = [r \in Requests |-> 0]

\* items.read().await or items.write().await: join the queue.
Enqueue(r) ==
  /\ Goto(r, "idle", "waiting")
  /\ ticket' = [ticket EXCEPT ![r] = nextTicket]
  /\ nextTicket' = nextTicket + 1
  /\ UNCHANGED <<items, events, boot, demoWrites, rendered, status>>

ArriveRead(r) == r \in Reads /\ Enqueue(r)

\* Variant: the event is sent as soon as the input was found valid.
ArriveCreate_Announces(r) ==
  /\ r \in Creates
  /\ demoWrites
  /\ Goto(r, "idle", "waiting")
  /\ ticket' = [ticket EXCEPT ![r] = nextTicket]
  /\ nextTicket' = nextTicket + 1
  /\ events' = Append(events, r)
  /\ UNCHANGED <<items, boot, demoWrites, rendered, status>>

\* create_item before the lock: the gate is asked before the input is looked
\* at, and only an input normalize_item accepts goes on.
ArriveCreate(r) == r \in Creates /\ demoWrites /\ Enqueue(r)

\* Variant: the closed gate answers as if the caller had to log in.
Forbid_Unauthorized(r) ==
  /\ r \in Creates
  /\ ~demoWrites
  /\ Answer(r, "idle", 401)
  /\ UNCHANGED <<items, events, boot, demoWrites, ticket, nextTicket, rendered>>

Forbid(r) ==
  /\ r \in Creates
  /\ ~demoWrites
  /\ Answer(r, "idle", 403)
  /\ UNCHANGED <<items, events, boot, demoWrites, ticket, nextTicket, rendered>>

RejectInput(r) ==
  /\ r \in Creates
  /\ demoWrites
  /\ Answer(r, "idle", 422)
  /\ UNCHANGED <<items, events, boot, demoWrites, ticket, nextTicket, rendered>>

\* Variant: off by one at capacity.
Push_OneTooMany(r) ==
  /\ r \in Creates
  /\ Holds(r)
  /\ Len(items) <= MaxItems
  /\ Goto(r, "waiting", "pushed")
  /\ items' = Append(items, r)
  /\ UNCHANGED <<events, boot, demoWrites, ticket, nextTicket, rendered, status>>

\* The critical section of create_item.
Push(r) ==
  /\ r \in Creates
  /\ Holds(r)
  /\ Len(items) < MaxItems
  /\ Goto(r, "waiting", "pushed")
  /\ items' = Append(items, r)
  /\ UNCHANGED <<events, boot, demoWrites, ticket, nextTicket, rendered, status>>

\* Variant: off by one the other way, so that the last place is never given.
RejectFull_Early(r) ==
  /\ r \in Creates
  /\ Holds(r)
  /\ Len(items) + 1 >= MaxItems
  /\ Answer(r, "waiting", 503)
  /\ UNCHANGED <<items, events, boot, demoWrites, ticket, nextTicket, rendered>>

RejectFull(r) ==
  /\ r \in Creates
  /\ Holds(r)
  /\ Len(items) >= MaxItems
  /\ Answer(r, "waiting", 503)      \* the guard is dropped by the return
  /\ UNCHANGED <<items, events, boot, demoWrites, ticket, nextTicket, rendered>>

\* items_markup runs under the lock in every handler (index clones the list
\* under the lock, which comes to the same).
Render(r) ==
  /\ Holds(r)
  /\ Goto(r, IF r \in Creates THEN "pushed" ELSE "waiting", "rendered")
  /\ rendered' = [rendered EXCEPT ![r] = items]
  /\ UNCHANGED <<items, events, boot, demoWrites, ticket, nextTicket, status>>

\* A reading handler drops its guard and returns.
ReturnRead(r) ==
  /\ r \in Reads
  /\ Answer(r, "rendered", 200)
  /\ UNCHANGED <<items, events, boot, demoWrites, ticket, nextTicket, rendered>>

\* create_item drops its guard, and only then announces the item.
DropGuard(r) ==
  /\ r \in Creates
  /\ Goto(r, "rendered", "unlocked")
  /\ UNCHANGED <<items, events, boot, demoWrites, ticket, nextTicket, rendered, status>>

\* Variant: the markup is made when the response is, outside the lock.
Send_RendersLate(r) ==
  /\ r \in Creates
  /\ Answer(r, "unlocked", 200)
  /\ events' = Append(events, r)
  /\ rendered' = [rendered EXCEPT ![r] = items]
  /\ UNCHANGED <<items, boot, demoWrites, ticket, nextTicket>>

Send(r) ==
  /\ r \in Creates
  /\ Answer(r, "unlocked", 200)
  /\ events' = Append(events, r)
  /\ UNCHANGED <<items, boot, demoWrites, ticket, nextTicket, rendered>>

\* The response reaches the caller.
Deliver(r) ==
  /\ Goto(r, "answered", "done")
  /\ UNCHANGED <<items, events, boot, demoWrites, ticket, nextTicket, rendered, status>>

\* Variant: something is awaited between the unlock and the send.
Disconnect_BeforeSend(r) ==
  /\ pc[r] \in {"waiting", "unlocked", "answered"}
  /\ pc' = [pc EXCEPT ![r] = "lost"]
  /\ UNCHANGED <<items, events, boot, demoWrites, ticket, nextTicket, rendered, status>>

\* The client disconnects: its handler is dropped where it awaits, together
\* with its place in the queue, or its response finds nobody.
Disconnect(r) ==
  /\ pc[r] \in {"waiting", "answered"}
  /\ pc' = [pc EXCEPT ![r] = "lost"]
  /\ UNCHANGED <<items, events, boot, demoWrites, ticket, nextTicket, rendered, status>>

\* The process stops and another one starts, perhaps configured otherwise.
\* Nothing is persisted; requests under way are lost.
Restart ==
  /\ boot < MaxRestarts
  /\ boot' = boot + 1
  /\ items' = <<boot'>>
  /\ events' = <<>>
  /\ demoWrites' \in BOOLEAN
  /\ pc' = [r \in Requests |-> IF pc[r] \in {"idle", "done"} THEN pc[r] ELSE "lost"]
  /\ UNCHANGED <<ticket, nextTicket, rendered, status>>

\* The steps the runtime takes by itself once a request has come in.
Advance(r) ==
  \/ Push(r) \/ RejectFull(r) \/ Render(r) \/ ReturnRead(r)
  \/ DropGuard(r) \/ Send(r) \/ Deliver(r)

Next ==
  \/ \E r \in Requests :
       \/ ArriveRead(r) \/ ArriveCreate(r) \/ Forbid(r) \/ RejectInput(r)
       \/ Advance(r)
       \/ Disconnect(r)
  \/ Restart

Spec == Init /\ [][Next]_vars

\* tokio polls every task that was woken: a handler that can move does.
FairSpec == Spec /\ \A r \in Requests : WF_vars(Advance(r))
-----------------------------------------------------------------------------
Committed == Members(items) \cap Creates

TypeOK ==
  /\ items \in Seq(Creates \cup Nat)
  /\ events \in Seq(Creates)
  /\ boot \in 0..MaxRestarts
  /\ demoWrites \in BOOLEAN
  /\ pc \in [Requests -> {"idle", "waiting", "pushed", "rendered", "unlocked",
                          "answered", "done", "lost"}]
  /\ ticket \in [Requests -> Nat]
  /\ nextTicket \in Nat
  /\ rendered \in [Requests -> Seq(Creates \cup Nat)]
  /\ status \in [Requests -> {0, 200, 403, 422, 503}]

\* Two handlers between lock and unlock are both readers: the list a create
\* turns into markup is the list it left, whatever the other threads do.
Exclusion ==
  \A r, s \in Requests :
    /\ pc[r] \in {"pushed", "rendered"} /\ pc[s] \in {"pushed", "rendered"}
    /\ r # s
    => r \in Reads /\ s \in Reads

\* MAX_ITEMS bounds the list although the length is tested by handlers that
\* were queued together, and no item is in it twice.
Capacity ==
  /\ Len(items) <= MaxItems
  /\ \A i, j \in 1..Len(items) : items[i] = items[j] => i = j

\* An event is sent once per item, and never before the item can be read:
\* a page that refreshes because of an event finds the item.
NotifyAfterCommit ==
  /\ Members(events) \subseteq Committed
  /\ \A i, j \in 1..Len(events) : events[i] = events[j] => i = j

\* No committed item goes unannounced: its handler is still on its way to the
\* send.  A handler dropped between the push and the send would break this.
CommitWillNotify ==
  \A r \in Committed :
    r \in Members(events) \/ pc[r] \in {"pushed", "rendered", "unlocked"}

\* A delivered list is a prefix of the list of the process that served it, it
\* ends in the item of the create it answers, and a 503 was no mistake.
AnswersAreHistory ==
  \A r \in Requests : pc[r] = "done" =>
    /\ status[r] = 200 =>
         /\ rendered[r][1] = boot =>
              /\ Len(rendered[r]) <= Len(items)
              /\ \A i \in 1..Len(rendered[r]) : rendered[r][i] = items[i]
         /\ r \in Creates => rendered[r][Len(rendered[r])] = r
    /\ status[r] = 503 /\ boot = 0 => Len(items) = MaxItems

\* A request that came in is answered, or its client or the process is gone:
\* the queue of the lock never stops, whichever way a handler leaves it.
EveryRequestEnds ==
  \A r \in Requests : (pc[r] = "waiting") ~> (pc[r] \in {"done", "lost"})

\* Every committed item is announced while its process lives.
EveryCommitAnnounced ==
  \A r \in Creates :
    (r \in Committed) ~> (r \in Members(events) \/ r \notin Committed)
-----------------------------------------------------------------------------
(***************************************************************************)
(* The abstract service: a create takes effect when it pushes, a read when *)
(* it renders, both while they hold the lock.                              *)
(***************************************************************************)
Decision(r) ==
  CASE pc[r] = "lost" -> [status |-> 499, body |-> <<>>]
    [] pc[r] = "pushed" -> [status |-> 200, body |-> items]
    [] pc[r] \in {"rendered", "unlocked"} -> [status |-> 200, body |-> rendered[r]]
    [] pc[r] \in {"answered", "done"} ->
         [status |-> status[r], body |-> IF status[r] = 200 THEN rendered[r] ELSE <<>>]
    [] OTHER -> [status |-> 0, body |-> <<>>]

Service ==
  INSTANCE ReservationService WITH
    log <- items,
    published <- events,
    answer <- [r \in Requests |-> Decision(r)],
    delivered <- {r \in Requests : pc[r] = "done"}

ImplementsService == Service!Spec
=============================================================================
