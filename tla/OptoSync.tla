------------------------------ MODULE OptoSync ------------------------------
(***************************************************************************)
(* Calls routed by the delivery the route map declared:                    *)
(* OptoSyncTransport.call over a durable queue of mutations and a local    *)
(* view (scripts/vendor/runtime/rust/opto_sync.rs and                      *)
(* runtime/typescript/opto-sync.ts).                                       *)
(*                                                                         *)
(* Queue, view and the connection behind them are the application's; they  *)
(* may fail at every call, and synchronisation settles queued mutations    *)
(* and brings other clients' changes at any time.  The Rust transport is   *)
(* not Sync, so one call ends before the next begins; calls of the         *)
(* TypeScript transport interleave at every await.                         *)
(*                                                                         *)
(* A template is a sequence of segments; a path one of segments with the   *)
(* text that was sent and the text it decodes to, so that an encoded slash *)
(* separates nothing.  A body has a token for its whole text and its       *)
(* top-level members in textual order.                                     *)
(*                                                                         *)
(* Definitions marked Variant are faults of the code that the properties   *)
(* are tested against; no specification uses them.                         *)
(***************************************************************************)
EXTENDS Naturals, Sequences

CONSTANTS
  Calls,       \* calls made on the transport
  Requests,    \* the requests they may carry
  MaxRemote    \* bound on the changes of other clients

\* Fields of a request: delivery, bound (it has an opto_sync binding),
\* operation, from and name (the record id's source), key, template, path,
\* body (empty, or one body in a sequence) and means: the record its caller
\* means.
ASSUME RequestAssumption ==
  /\ MaxRemote \in Nat
  /\ \A r \in Requests :
       /\ r.delivery \in {"direct", "opto_sync_queued"}
       /\ r.bound \in BOOLEAN
       /\ r.operation \in {"upsert", "delete"}
       /\ r.from \in {"path", "request", "minted"}

\* What `means` stands for: the value of the parameter in the path, or of the
\* string field in the body, that holds the record's id.
ASSUME MeansAssumption ==
  \A r \in Requests :
    /\ r.from = "path" =>
         \A k \in DOMAIN r.template \cap DOMAIN r.path :
           r.template[k] = r.name => r.path[k].text = r.means
    /\ r.from = "request" /\ r.body # <<>> =>
         \A i \in DOMAIN r.body[1].members :
           LET member == r.body[1].members[i]
           IN member.name = r.name /\ member.kind = "string" => member.text = r.means

VARIABLES
  port,     \* the language of the client
  stage,    \* how far each call is
  request,  \* what it carries
  record,   \* the record id it was given
  result,   \* what call returned
  log,      \* every mutation the queue accepted, in order
  settled,  \* how many of them the server has answered
  row,      \* the last authoritative row of each record that has one
  remote    \* changes of other clients so far

vars == <<port, stage, request, record, result, log, settled, row, remote>>

Ports == {"rust", "typescript"}

Nothing == [outcome |-> "none", value |-> ""]
Returned(value) == [outcome |-> "ok", value |-> value]
Failed(why) == [outcome |-> why, value |-> ""]

Failures == {"direct", "queue", "readback", "not_queueable", "no_local_projection"}

-----------------------------------------------------------------------------
\* The record id.  A result is a set of at most one id.

Given(text) == <<"given", text>>

\* Variant: the last segment of the path, whatever its name.
SegmentFor_Last(template, path, wanted) ==
  {Given(path[i].text) : i \in {Len(path)} \cap DOMAIN path}

\* segment_for_param: template and path are walked in lockstep up to the first
\* segment that is the parameter (a catch-all is spelt otherwise, {*name}),
\* whose value is decoded.
SegmentFor(template, path, wanted) ==
  {Given(path[i].text) : i \in {k \in DOMAIN template \cap DOMAIN path :
                                  /\ template[k] = wanted
                                  /\ \A j \in 1 .. k - 1 : template[j] # wanted}}

\* Where the quoted name of the field occurs in the text of a member: as its
\* name, as the name in an object that is its value, or as a string value.
Mentions(member, field) ==
  \/ member.name = field
  \/ member.kind = "object" /\ member.inner = field
  \/ member.kind = "string" /\ member.text = field

\* extract_string_field: what follows the first occurrence, in any place, must
\* be a colon and a string, of which every escape is cut to its second letter.
FirstMention(members, field) ==
  LET at == {i \in DOMAIN members :
               /\ Mentions(members[i], field)
               /\ \A j \in 1 .. i - 1 : ~Mentions(members[j], field)}
      taken(member) ==
        CASE member.name = field /\ member.kind = "string"  -> {member.raw}
          [] member.name # field /\ member.kind = "object"  -> {member.raw}
          [] OTHER                                          -> {}
  IN UNION {taken(members[i]) : i \in at}

\* The same field of the parsed body, in TypeScript.
Parsed(members, field) ==
  {members[i].text : i \in {k \in DOMAIN members :
                              members[k].name = field /\ members[k].kind = "string"}}

FieldOf(client, r) ==
  LET found == IF r.body = <<>> THEN {}
               ELSE IF client = "rust" THEN FirstMention(r.body[1].members, r.name)
               ELSE Parsed(r.body[1].members, r.name)
  IN {Given(text) : text \in found}

\* A hash of key, path and body, of another width in either language: equal
\* for equal requests to one client only, collisions left aside.
Minted(client, r) ==
  <<"minted", client, r.key>>
    \o [i \in DOMAIN r.path |-> r.path[i].sent]
    \o (IF r.body = <<>> THEN <<>> ELSE <<r.body[1].text>>)

RecordId(client, r) ==
  CASE r.from = "path"    -> SegmentFor(r.template, r.path, r.name)
    [] r.from = "request" -> FieldOf(client, r)
    [] OTHER              -> {Minted(client, r)}

-----------------------------------------------------------------------------
\* The application's local view: the last queued mutation of a record that is
\* not settled, over its last authoritative row; a set of at most one value.

Pending(id) == {i \in settled + 1 .. Len(log) : log[i].record = id}

ValueOf(mutation) == IF mutation.operation = "delete" THEN {} ELSE {mutation.value}

LocalJson(id) ==
  IF Pending(id) = {}
  THEN {row[i].value : i \in {k \in DOMAIN row : row[k].record = id}}
  ELSE UNION {ValueOf(log[i]) : i \in {k \in Pending(id) :
                                         \A j \in Pending(id) : j <= k}}

\* The row of one record, replaced or removed.
WithRow(id, values) ==
  SelectSeq(row, LAMBDA other : other.record # id)
    \o (IF values = {} THEN <<>>
        ELSE <<[record |-> id, value |-> CHOOSE v \in values : TRUE]>>)

\* The server took or refused the next mutation.
Settle(taken) ==
  /\ settled < Len(log)
  /\ settled' = settled + 1
  /\ row' = IF taken
            THEN WithRow(log[settled'].record, ValueOf(log[settled']))
            ELSE row
  /\ UNCHANGED <<port, stage, request, record, result, log, remote>>

\* Another client changed a record of ours.
PullRemote(id) ==
  /\ remote < MaxRemote
  /\ remote' = remote + 1
  /\ row' = WithRow(id, {"remote"})
  /\ UNCHANGED <<port, stage, request, record, result, log, settled>>

-----------------------------------------------------------------------------
\* The calls.

Init ==
  /\ port \in Ports
  /\ stage = [c \in Calls |-> "idle"]
  /\ request \in [Calls -> Requests]
  /\ record = [c \in Calls |-> <<>>]
  /\ result = [c \in Calls |-> Nothing]
  /\ log = <<>>
  /\ settled = 0
  /\ row = <<>>
  /\ remote = 0

Between(c) == stage[c] \in {"direct", "resolved", "queued"}

Turn(c) ==
  /\ stage[c] = "idle"
  /\ port = "rust" => \A d \in Calls : ~Between(d)

Queueable(r) == r.delivery = "opto_sync_queued" /\ r.bound

Return(c, value) ==
  /\ stage' = [stage EXCEPT ![c] = "done"]
  /\ result' = [result EXCEPT ![c] = value]

GoDirect(c) ==
  /\ Turn(c)
  /\ ~Queueable(request[c])
  /\ stage' = [stage EXCEPT ![c] = "direct"]
  /\ UNCHANGED <<port, request, record, result, log, settled, row, remote>>

DirectEnds(c) ==
  /\ stage[c] = "direct"
  /\ Return(c, Returned("answer")) \/ Return(c, Failed("direct"))
  /\ UNCHANGED <<port, request, record, log, settled, row, remote>>

Resolve(c) ==
  /\ Turn(c)
  /\ Queueable(request[c])
  /\ \E id \in RecordId(port, request[c]) :
       /\ stage' = [stage EXCEPT ![c] = "resolved"]
       /\ record' = [record EXCEPT ![c] = id]
  /\ UNCHANGED <<port, request, result, log, settled, row, remote>>

\* NotQueueable: no such parameter, no body, or no such string in it.
NoRecord(c) ==
  /\ Turn(c)
  /\ Queueable(request[c])
  /\ RecordId(port, request[c]) = {}
  /\ Return(c, Failed("not_queueable"))
  /\ UNCHANGED <<port, request, record, log, settled, row, remote>>

\* queue_delete has no payload, queue_upsert the body.
Mutation(c) ==
  [call |-> c, record |-> record[c], operation |-> request[c].operation,
   value |-> IF request[c].operation = "delete" THEN "" ELSE request[c].body[1].text]

HasPayload(c) == request[c].operation = "delete" \/ request[c].body # <<>>

Enqueue(c) ==
  /\ stage[c] = "resolved"
  /\ HasPayload(c)
  /\ log' = Append(log, Mutation(c))
  /\ stage' = [stage EXCEPT ![c] = "queued"]
  /\ UNCHANGED <<port, request, record, result, settled, row, remote>>

\* An upsert without a body, found out with the record id in hand.
NoPayload(c) ==
  /\ stage[c] = "resolved"
  /\ ~HasPayload(c)
  /\ Return(c, Failed("not_queueable"))
  /\ UNCHANGED <<port, request, record, log, settled, row, remote>>

\* Variant: the mutation stays in a queue that reported an error.
QueueFails_AfterTheFact(c) ==
  /\ stage[c] = "resolved"
  /\ HasPayload(c)
  /\ log' = Append(log, Mutation(c))
  /\ Return(c, Failed("queue"))
  /\ UNCHANGED <<port, request, record, settled, row, remote>>

QueueFails(c) ==
  /\ stage[c] = "resolved"
  /\ HasPayload(c)
  /\ Return(c, Failed("queue"))
  /\ UNCHANGED <<port, request, record, log, settled, row, remote>>

\* Variant: what is read back is the authoritative row.
ReadBack_Authoritative(c) ==
  LET local == {row[i].value : i \in {k \in DOMAIN row : row[k].record = record[c]}}
  IN /\ stage[c] = "queued"
     /\ IF local = {}
        THEN Return(c, Failed("no_local_projection"))
        ELSE \E value \in local : Return(c, Returned(value))
     /\ UNCHANGED <<port, request, record, log, settled, row, remote>>

ReadBack(c) ==
  LET local == LocalJson(record[c])
  IN /\ stage[c] = "queued"
     /\ IF local = {}
        THEN Return(c, Failed("no_local_projection"))
        ELSE \E value \in local : Return(c, Returned(value))
     /\ UNCHANGED <<port, request, record, log, settled, row, remote>>

ReadBackFails(c) ==
  /\ stage[c] = "queued"
  /\ Return(c, Failed("readback"))
  /\ UNCHANGED <<port, request, record, log, settled, row, remote>>

Next ==
  \/ \E c \in Calls :
       \/ GoDirect(c) \/ DirectEnds(c)
       \/ Resolve(c) \/ NoRecord(c)
       \/ Enqueue(c) \/ NoPayload(c) \/ QueueFails(c)
       \/ ReadBack(c) \/ ReadBackFails(c)
  \/ \E taken \in BOOLEAN : Settle(taken)
  \/ \E c \in Calls : record[c] # <<>> /\ PullRemote(record[c])

Spec == Init /\ [][Next]_vars

-----------------------------------------------------------------------------
(* Properties *)

\* The type invariant; a delete in the queue is a tombstone without data.
TypeOK ==
  /\ port \in Ports
  /\ stage \in [Calls -> {"idle", "direct", "resolved", "queued", "done"}]
  /\ request \in [Calls -> Requests]
  /\ \A c \in Calls : result[c].outcome \in Failures \cup {"none", "ok"}
  /\ \A i \in DOMAIN log : /\ log[i].call \in Calls
                           /\ log[i].operation = "delete" => log[i].value = ""
  /\ settled \in 0 .. Len(log)
  /\ remote \in 0 .. MaxRemote

Mutations(c) == {i \in DOMAIN log : log[i].call = c}

AfterTheQueue == {"ok", "readback", "no_local_projection"}

\* What a call reports tells whether its mutation is durable: a call that got
\* past the queue left exactly one mutation there, under the record id it
\* reads back, and one that went direct, was not queueable or was refused by
\* the queue left none, so that sending it again cannot apply it twice.
QueuedOnce ==
  \A c \in Calls :
    LET durable == /\ Queueable(request[c])
                   /\ stage[c] = "queued" \/ result[c].outcome \in AfterTheQueue
    IN IF durable
       THEN \E i \in Mutations(c) : Mutations(c) = {i} /\ log[i].record = record[c]
       ELSE Mutations(c) = {}

Written(i, value) == log[i].operation = "upsert" /\ log[i].value = value

\* "The caller's own write, read back": a queued call returns its own body,
\* the body of a later write to its record (only a TypeScript client makes one
\* before the call returns), or, once its own mutation is settled, the
\* authoritative row; never a row its own write is still to replace.
ReturnsOwnOrLater ==
  \A c \in Calls, i \in DOMAIN log :
    log[i].call = c /\ result[c].outcome = "ok" =>
      \/ \E j \in i .. Len(log) :
           /\ log[j].record = record[c]
           /\ Written(j, result[c].value)
           /\ j # i => port = "typescript"
      \/ i <= settled

\* Where Rust's search of the body misleads: the name is mentioned in another
\* member, or the id holds an escape.
Misleading(r) ==
  /\ r.from = "request"
  /\ r.body # <<>>
  /\ \E i \in DOMAIN r.body[1].members :
       LET member == r.body[1].members[i]
       IN IF member.name = r.name
          THEN member.raw # member.text
          ELSE Mentions(member, r.name)

Filed(i) == LET r == request[log[i].call]
            IN r.from = "minted" \/ log[i].record = Given(r.means)

\* A write is filed under the record its caller means, whichever segment of the
\* path names it and whichever call is in flight beside it, except by a Rust
\* client whose body misleads the search.
FiledAsNamed ==
  \A i \in DOMAIN log :
    Filed(i) \/ (port = "rust" /\ Misleading(request[log[i].call]))

\* "Pull one top-level string field out of a JSON object" (opto_sync.rs:268):
\* the comment's promise, for which FiledAsNamed has an exception.
TopLevelField == \A i \in DOMAIN log : Filed(i)
=============================================================================
