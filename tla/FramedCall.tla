----------------------------- MODULE FramedCall -----------------------------
(***************************************************************************)
(* Unary calls over one framed connection: FramedTransport.call, its       *)
(* Correlator and unary_answer (scripts/vendor/runtime/rust/transport.rs   *)
(* and frame.rs, the same code in transport.ts).                           *)
(*                                                                         *)
(* The connection is the application's (trait FramedConnection): an        *)
(* exchange may fail or return any sequence of frames that answer any call *)
(* written so far, so nothing proved here rests on its demultiplexing.     *)
(* Everything after the exchange is local to the caller and is one step    *)
(* with it.  Calls run concurrently; all carry the same content.           *)
(*                                                                         *)
(* Definitions marked Variant are faults of the code that the properties   *)
(* are tested against; no specification uses them.                         *)
(***************************************************************************)
EXTENDS Naturals, Sequences, FiniteSets

CONSTANTS
  Requests,    \* calls made on the transport, one thread each
  WellFormed,  \* those whose body is absent or JSON
  MaxAnswer    \* bound on the frames one exchange returns

ASSUME CallAssumption ==
  /\ IsFiniteSet(Requests)
  /\ WellFormed \subseteq Requests
  /\ MaxAnswer \in Nat

VARIABLES
  next,    \* Correlator.next
  stage,   \* how far each call is
  id,      \* correlation id of each call, 0 before it has one
  got,     \* frames the exchange returned to it
  result,  \* what call returned
  events   \* what the telemetry sink was given, in order

vars == <<next, stage, id, got, result, events>>

\* FrameKind; `call` is no answer and may still arrive, and "bodiless" is a data
\* frame without a body, which decode refuses and a connection may yet hand on.
Kinds == {"call", "data", "bodiless", "end", "error", "cancel"}

\* A frame of a server: the id it carries and the call it answers, which is
\* what the body of its data tells.
Frames == [id : Nat, kind : Kinds, of : Requests]

Ok(r) == [outcome |-> "ok", of |-> r]
Remote == [outcome |-> "remote"]
Protocol == [outcome |-> "protocol"]
Carrier == [outcome |-> "carrier"]
Pending == [outcome |-> "pending"]

-----------------------------------------------------------------------------
\* unary_answer: the loop over the frames, then the match on what it saw.

Misrouted(call, frame) == frame.id # call

SecondData(seen, frame) == frame.kind = "data" /\ seen.body # {}

\* What one frame makes of what was seen before it; `stop` is an early return.
Step(call, seen, frame) ==
  IF Misrouted(call, frame) \/ SecondData(seen, frame)
  THEN [seen EXCEPT !.stop = {Protocol}]
  ELSE CASE frame.kind = "data"  -> [seen EXCEPT !.body = {frame.of}]
         [] frame.kind = "end"   -> [seen EXCEPT !.ended = TRUE]
         [] frame.kind = "error" -> [seen EXCEPT !.stop = {Remote}]
         [] OTHER                -> [seen EXCEPT !.stop = {Protocol}]

\* Variant: the missing end is forgiven.
Conclude_Unended(seen) ==
  CASE seen.stop # {} -> CHOOSE verdict \in seen.stop : TRUE
    [] seen.stop = {} /\ seen.body # {} -> Ok(CHOOSE r \in seen.body : TRUE)
    [] OTHER -> Protocol

Conclude(seen) ==
  CASE seen.stop # {} -> CHOOSE verdict \in seen.stop : TRUE
    [] seen.stop = {} /\ seen.body # {} /\ seen.ended ->
         Ok(CHOOSE r \in seen.body : TRUE)
    [] OTHER -> Protocol

UnaryAnswer(call, frames) ==
  LET after[k \in 0 .. Len(frames)] ==
        IF k = 0 THEN [body |-> {}, ended |-> FALSE, stop |-> {}]
        ELSE IF after[k - 1].stop # {} THEN after[k - 1]
        ELSE Step(call, after[k - 1], frames[k])
  IN Conclude(after[Len(frames)])

-----------------------------------------------------------------------------
Init ==
  /\ next = 0
  /\ stage = [r \in Requests |-> "idle"]
  /\ id = [r \in Requests |-> 0]
  /\ got = [r \in Requests |-> <<>>]
  /\ result = [r \in Requests |-> Pending]
  /\ events = <<>>

\* Variant: an id derived from the request, which all calls here share.
TakeId_FromContent(r) ==
  /\ stage[r] = "idle"
  /\ stage' = [stage EXCEPT ![r] = "numbered"]
  /\ next' = next + 1
  /\ id' = [id EXCEPT ![r] = 1]
  /\ UNCHANGED <<got, result, events>>

\* next_id: increment and read under the correlator's mutex.
TakeId(r) ==
  /\ stage[r] = "idle"
  /\ stage' = [stage EXCEPT ![r] = "numbered"]
  /\ next' = next + 1
  /\ id' = [id EXCEPT ![r] = next']
  /\ UNCHANGED <<got, result, events>>

\* The body is not JSON: call returns before there is anything to observe.
RejectBody(r) ==
  /\ stage[r] = "numbered"
  /\ r \notin WellFormed
  /\ stage' = [stage EXCEPT ![r] = "done"]
  /\ result' = [result EXCEPT ![r] = Protocol]
  /\ UNCHANGED <<next, id, got, events>>

\* The exchange writes the call frame.
Write(r) ==
  /\ stage[r] = "numbered"
  /\ r \in WellFormed
  /\ stage' = [stage EXCEPT ![r] = "written"]
  /\ UNCHANGED <<next, id, got, result, events>>

\* Whatever servers may have sent by now on this connection: frames for calls
\* that were written, late ones too.
Arrivable ==
  {frame \in [id : 1 .. next, kind : Kinds, of : Requests] :
     /\ id[frame.of] = frame.id
     /\ stage[frame.of] \in {"written", "done"}
     /\ frame.of \in WellFormed}

\* observe.
Event(r, verdict) == [id |-> id[r], outcome |-> verdict.outcome]

Finish(r, verdict) ==
  /\ stage' = [stage EXCEPT ![r] = "done"]
  /\ result' = [result EXCEPT ![r] = verdict]
  /\ events' = Append(events, Event(r, verdict))
  /\ UNCHANGED <<next, id>>

\* Variant: only answers are observed.
CarrierFails_Unobserved(r) ==
  /\ stage[r] = "written"
  /\ stage' = [stage EXCEPT ![r] = "done"]
  /\ result' = [result EXCEPT ![r] = Carrier]
  /\ UNCHANGED <<next, id, got, events>>

CarrierFails(r) ==
  /\ stage[r] = "written"
  /\ Finish(r, Carrier)
  /\ UNCHANGED got

\* The exchange returned these frames.
Answered(r, frames) ==
  /\ stage[r] = "written"
  /\ got' = [got EXCEPT ![r] = frames]
  /\ Finish(r, UnaryAnswer(id[r], frames))

Answers == UNION {[1 .. n -> Arrivable] : n \in 0 .. MaxAnswer}

Next ==
  \E r \in Requests :
    \/ TakeId(r)
    \/ RejectBody(r)
    \/ Write(r)
    \/ CarrierFails(r)
    \/ \E frames \in Answers : Answered(r, frames)

Spec == Init /\ [][Next]_vars

-----------------------------------------------------------------------------
\* A body that call returns is the server's answer to that very call, whatever
\* frames the connection hands to whom (frame.id != id in unary_answer, and
\* ids that repeat for no two calls of a transport).
NoCrossTalk ==
  \A r, q \in Requests : result[r] = Ok(q) => q = r

\* The loop computes what can be said of the frames as a whole: the first that
\* is misrouted, a failure, no answer at all or a second body decides; without
\* one, there must be a body and an end.
Decides(call, frames, i) ==
  \/ frames[i].id # call
  \/ frames[i].kind \in {"error", "cancel", "call", "bodiless"}
  \/ frames[i].kind = "data" /\ \E j \in 1 .. i - 1 : frames[j].kind = "data"

FirstDeciding(call, frames) ==
  {i \in 1 .. Len(frames) :
     /\ Decides(call, frames, i)
     /\ \A j \in 1 .. i - 1 : ~Decides(call, frames, j)}

StrictOnShape ==
  \A r \in Requests :
    LET first == FirstDeciding(id[r], got[r])
        kinds == {got[r][i].kind : i \in 1 .. Len(got[r])}
    IN /\ result[r].outcome = "ok" => first = {} /\ {"data", "end"} \subseteq kinds
       /\ result[r] = Remote <=>
            \E i \in first : got[r][i].id = id[r] /\ got[r][i].kind = "error"

\* The sink is told of every exchange once, under an id that leads to one call,
\* with the outcome that call returned (observe at the end of call).
ObservedOnce ==
  \A r \in WellFormed :
    stage[r] = "done" =>
      Cardinality({i \in 1 .. Len(events) : events[i].id = id[r]}) = 1
      /\ \E i \in 1 .. Len(events) :
           events[i] = [id |-> id[r], outcome |-> result[r].outcome]

\* What the comment on FramedConnection says of an answer ("one `data` then
\* `end`, or a single `error`") and unary_answer claims to be strict about.
\* The loop accepts the end before the data, and several ends.
DataThenEnd ==
  \A r \in Requests :
    result[r].outcome = "ok" =>
      /\ Len(got[r]) = 2
      /\ got[r][1].kind = "data"
      /\ got[r][2].kind = "end"
=============================================================================
