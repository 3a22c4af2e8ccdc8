------------------------- MODULE ReservationService -------------------------
(***************************************************************************)
(* What the reservation endpoints of the MASH web server promise to their  *)
(* callers: an append-only bounded list, read and extended atomically, and *)
(* one notification for every item appended.  No lock, no await and no     *)
(* handler steps appear here; module MashServer implements this one.       *)
(*                                                                         *)
(* A request is used once, so that answer is the history of the service.   *)
(* An item is the create request that made it; the item every process      *)
(* starts with is the number of the boot, because its identifier is drawn  *)
(* anew by each process (seed_items, src/main.rs).                         *)
(***************************************************************************)
EXTENDS Naturals, Sequences, FiniteSets

CONSTANTS
  Reads,        \* requests that render the list
  Creates,      \* POST requests that add an item
  MaxItems,     \* MAX_ITEMS
  MaxRestarts   \* bound on the restarts of the process

VARIABLES
  log,        \* the items, in the order they were committed
  published,  \* the items announced on the channel, in the order of sending
  boot,       \* how often the process was restarted
  answer,     \* what the service decided to answer each request
  delivered   \* the requests whose caller has the answer

vars == <<log, published, boot, answer, delivered>>

Requests == Reads \cup Creates

\* Statuses are HTTP's; 0 stands for no answer yet and 499 for a caller that
\* left, or a process that stopped, before the answer arrived.
Pending  == [status |-> 0, body |-> <<>>]
Dropped  == [status |-> 499, body |-> <<>>]
Refusals == {[status |-> s, body |-> <<>>] : s \in {403, 422}}
Full     == [status |-> 503, body |-> <<>>]
Ok(list) == [status |-> 200, body |-> list]

Members(seq) == {seq[i] : i \in DOMAIN seq}

Init ==
  /\ log = <<0>>
  /\ published = <<>>
  /\ boot = 0
  /\ answer = [r \in Requests |-> Pending]
  /\ delivered = {}

Settle(r, a) ==
  /\ answer[r] = Pending
  /\ answer' = [answer EXCEPT ![r] = a]
  /\ UNCHANGED delivered

\* A page or a fragment shows the whole list as it is at one instant.
Read(r) ==
  /\ r \in Reads
  /\ Settle(r, Ok(log))
  /\ UNCHANGED <<log, published, boot>>

\* A created item is appended, and the answer shows the list that ends in it.
Create(r) ==
  /\ r \in Creates
  /\ Len(log) < MaxItems
  /\ log' = Append(log, r)
  /\ Settle(r, Ok(log'))
  /\ UNCHANGED <<published, boot>>

\* A create is turned away for capacity only when the list is full.
TurnAway(r) ==
  /\ r \in Creates
  /\ Len(log) >= MaxItems
  /\ Settle(r, Full)
  /\ UNCHANGED <<log, published, boot>>

Refuse(r) ==
  /\ r \in Creates
  /\ \E a \in Refusals : Settle(r, a)
  /\ UNCHANGED <<log, published, boot>>

Deliver(r) ==
  /\ answer[r] # Pending
  /\ delivered' = delivered \cup {r}
  /\ UNCHANGED <<log, published, boot, answer>>

\* The caller leaves.  What its request did to the list stays done.
Lose(r) ==
  /\ r \notin delivered
  /\ answer' = [answer EXCEPT ![r] = Dropped]
  /\ UNCHANGED <<log, published, boot, delivered>>

\* Every committed item may be announced, once.
Publish(r) ==
  /\ r \in Members(log) \cap Creates
  /\ r \notin Members(published)
  /\ published' = Append(published, r)
  /\ UNCHANGED <<log, boot, answer, delivered>>

\* The list lives in memory: a new process starts from its own seed, and of the
\* requests without a delivered answer those the old process had taken in are
\* lost.
Restart ==
  /\ boot < MaxRestarts
  /\ boot' = boot + 1
  /\ log' = <<boot'>>
  /\ published' = <<>>
  /\ \E lost \in SUBSET (Requests \ delivered) :
        answer' = [r \in Requests |-> IF r \in lost THEN Dropped ELSE answer[r]]
  /\ UNCHANGED delivered

Next ==
  \/ \E r \in Requests :
       \/ Read(r) \/ Create(r) \/ TurnAway(r) \/ Refuse(r)
       \/ Deliver(r) \/ Lose(r) \/ Publish(r)
  \/ Restart

Spec == Init /\ [][Next]_vars
=============================================================================
