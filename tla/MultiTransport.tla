--------------------------- MODULE MultiTransport ---------------------------
(***************************************************************************)
(* MultiTransport (scripts/vendor/runtime/rust/transports.rs): a call goes *)
(* over the first wire, in the order of preference, that its operation     *)
(* declares and that is ready.  Calls run concurrently and wires come and  *)
(* go between any two of their steps, between is_ready and send too.       *)
(*                                                                         *)
(* Definitions marked Variant are faults of the code that the properties   *)
(* are tested against; no specification uses them.                         *)
(***************************************************************************)
EXTENDS Naturals, Sequences

CONSTANTS
  Kinds,     \* TransportKind
  Kind,      \* the kind of each wire, in the order of registration
  Orders,    \* what the deployment may pass to prefer
  Calls,     \* calls made on the transport
  Declared,  \* the kinds the operation of each call declares
  Known      \* the calls whose operation is in OPERATIONS

ASSUME WiresAssumption ==
  /\ Kind \in Seq(Kinds)
  /\ Orders \subseteq Seq(Kinds)
  /\ Declared \in [Calls -> SUBSET Kinds]
  /\ Known \subseteq Calls

Wires == DOMAIN Kind

VARIABLES
  preference,  \* MultiTransport.preference
  considered,  \* wires the loop of prefer has looked at
  ready,       \* Wire.is_ready of each wire
  stage,       \* how far each call is
  at,          \* position in preference the call looks at
  used,        \* the wires on_start was told of for the call
  ended,       \* how often on_finish was called for it
  fallbacks,   \* the kinds on_fallback was told of for it
  steadily     \* wires it declares that were ready ever since it began

vars == <<preference, considered, ready, stage, at, used, ended, fallbacks,
          steadily>>

Stages == {"idle", "scanning", "sending", "answered", "failed", "unavailable",
           "unknown"}

InPreference(k) == \E i \in DOMAIN preference : preference[i] = k

-----------------------------------------------------------------------------
\* new: the wires' kinds in the order of registration.
New ==
  /\ preference = Kind
  /\ considered = Len(Kind)

\* prefer starts from the given order.
Preferred ==
  /\ preference \in Orders
  /\ considered = 0

Init ==
  /\ New \/ Preferred
  /\ ready \in [Wires -> BOOLEAN]
  /\ stage = [c \in Calls |-> "idle"]
  /\ at = [c \in Calls |-> 0]
  /\ used = [c \in Calls |-> {}]
  /\ ended = [c \in Calls |-> 0]
  /\ fallbacks = [c \in Calls |-> <<>>]
  /\ steadily = [c \in Calls |-> {}]

\* Variant: what was not listed is not tried.
Consider_OnlyListed ==
  /\ considered < Len(Kind)
  /\ considered' = considered + 1
  /\ UNCHANGED <<preference, ready, stage, at, used, ended, fallbacks, steadily>>

\* One turn of the loop of prefer: a kind that was not listed comes after the
\* listed ones.
Consider ==
  /\ considered < Len(Kind)
  /\ considered' = considered + 1
  /\ preference' = IF InPreference(Kind[considered + 1])
                   THEN preference
                   ELSE Append(preference, Kind[considered + 1])
  /\ UNCHANGED <<ready, stage, at, used, ended, fallbacks, steadily>>

\* The application: a wire drops or comes back.
Flap(w) ==
  /\ ready' = [ready EXCEPT ![w] = ~@]
  /\ steadily' = [c \in Calls |-> steadily[c] \ {w}]
  /\ UNCHANGED <<preference, considered, stage, at, used, ended, fallbacks>>

Begin(c) ==
  /\ stage[c] = "idle"
  /\ considered = Len(Kind)
  /\ c \in Known
  /\ stage' = [stage EXCEPT ![c] = "scanning"]
  /\ at' = [at EXCEPT ![c] = 1]
  /\ steadily' = [steadily EXCEPT
                    ![c] = {w \in Wires : ready[w] /\ Kind[w] \in Declared[c]}]
  /\ UNCHANGED <<preference, considered, ready, used, ended, fallbacks>>

\* UnknownOperation, before any wire is looked at.
RejectUnknown(c) ==
  /\ stage[c] = "idle"
  /\ considered = Len(Kind)
  /\ c \notin Known
  /\ stage' = [stage EXCEPT ![c] = "unknown"]
  /\ UNCHANGED <<preference, considered, ready, at, used, ended, fallbacks, steadily>>

-----------------------------------------------------------------------------
\* The loop of call.

Looking(c, k) ==
  /\ stage[c] = "scanning"
  /\ at[c] <= Len(preference)
  /\ k = preference[at[c]]

\* wires.iter().find: the first wire registered with the kind.
FoundFor(k, w) ==
  /\ Kind[w] = k
  /\ \A v \in Wires : v < w => Kind[v] # k

Advance(c) ==
  /\ at' = [at EXCEPT ![c] = @ + 1]
  /\ UNCHANGED stage

\* Not declared by the operation, or no wire of the kind.
Skip(c, k) ==
  /\ Looking(c, k)
  /\ k \notin Declared[c] \/ \A w \in Wires : Kind[w] # k
  /\ Advance(c)
  /\ UNCHANGED <<preference, considered, ready, used, ended, fallbacks, steadily>>

\* Variant: passed over in silence.
FallThrough_Silent(c, k, w) ==
  /\ Looking(c, k)
  /\ k \in Declared[c]
  /\ FoundFor(k, w)
  /\ ~ready[w]
  /\ Advance(c)
  /\ UNCHANGED <<preference, considered, ready, used, ended, fallbacks, steadily>>

\* The first wire of the kind is not ready: told to the sink, and the next
\* kind is looked at.
FallThrough(c, k, w) ==
  /\ Looking(c, k)
  /\ k \in Declared[c]
  /\ FoundFor(k, w)
  /\ ~ready[w]
  /\ Advance(c)
  /\ fallbacks' = [fallbacks EXCEPT ![c] = Append(@, k)]
  /\ UNCHANGED <<preference, considered, ready, used, ended, steadily>>

\* on_start, then send.
Send(c, k, w) ==
  /\ Looking(c, k)
  /\ k \in Declared[c]
  /\ FoundFor(k, w)
  /\ ready[w]
  /\ stage' = [stage EXCEPT ![c] = "sending"]
  /\ used' = [used EXCEPT ![c] = @ \cup {w}]
  /\ UNCHANGED <<preference, considered, ready, at, ended, fallbacks, steadily>>

\* Variant: a send that failed goes on to the next kind.
Return_TriesNext(c, how) ==
  /\ stage[c] = "sending"
  /\ ended' = [ended EXCEPT ![c] = @ + 1]
  /\ IF how = "failed"
     THEN /\ stage' = [stage EXCEPT ![c] = "scanning"]
          /\ at' = [at EXCEPT ![c] = @ + 1]
     ELSE /\ stage' = [stage EXCEPT ![c] = how]
          /\ UNCHANGED at
  /\ UNCHANGED <<preference, considered, ready, used, fallbacks, steadily>>

\* send came back, on_finish is told, and the call returns either way.
Return(c, how) ==
  /\ stage[c] = "sending"
  /\ stage' = [stage EXCEPT ![c] = how]
  /\ ended' = [ended EXCEPT ![c] = @ + 1]
  /\ UNCHANGED <<preference, considered, ready, at, used, fallbacks, steadily>>

\* NoneAvailable.
Exhaust(c) ==
  /\ stage[c] = "scanning"
  /\ at[c] > Len(preference)
  /\ stage' = [stage EXCEPT ![c] = "unavailable"]
  /\ UNCHANGED <<preference, considered, ready, at, used, ended, fallbacks, steadily>>

Next ==
  \/ Consider
  \/ \E w \in Wires : Flap(w)
  \/ \E c \in Calls :
       \/ Begin(c)
       \/ RejectUnknown(c)
       \/ \E k \in Kinds :
            \/ Skip(c, k)
            \/ \E w \in Wires : FallThrough(c, k, w) \/ Send(c, k, w)
       \/ \E how \in {"answered", "failed"} : Return(c, how)
       \/ Exhaust(c)

Spec == Init /\ [][Next]_vars

-----------------------------------------------------------------------------
\* Types of the state.  A call looks no further than one past the last kind.
TypeOK ==
  /\ preference \in Seq(Kinds)
  /\ considered \in 0 .. Len(Kind)
  /\ ready \in [Wires -> BOOLEAN]
  /\ stage \in [Calls -> Stages]
  /\ at \in [Calls -> Nat]
  /\ \A c \in Calls : at[c] <= Len(preference) + 1
  /\ used \in [Calls -> SUBSET Wires]
  /\ ended \in [Calls -> Nat]
  /\ fallbacks \in [Calls -> Seq(Kinds)]
  /\ steadily \in [Calls -> SUBSET Wires]

\* A transport the operation does not declare is never used, and a mutation
\* that may have reached a peer is not sent again over the next wire: one call
\* sends at most once, and on_finish answers its on_start (the return in the
\* match on send).
SentOnceAsDeclared ==
  \A c \in Calls :
    /\ \A w \in used[c] : Kind[w] \in Declared[c]
    /\ \A v, w \in used[c] : v = w
    /\ ended[c] = (IF stage[c] \in {"answered", "failed"} THEN 1 ELSE 0)

\* The comment on NoneAvailable ("Every transport the operation declares was
\* unavailable"): a call gives up only when no wire it declares was ready all
\* along, however the wires came and went meanwhile.  It needs one wire per
\* kind: only the first of a kind is ever asked.
NoneAvailableIsTrue ==
  \A c \in Calls : stage[c] = "unavailable" => steadily[c] = {}

\* A wire is not passed over for a less preferred one while it is ready, and
\* passing one over is told to the sink.
PassedOver(c, w) ==
  \E i \in DOMAIN preference : i < at[c] /\ preference[i] = Kind[w]

PreferenceKept ==
  \A c \in Calls :
    \A w \in Wires :
      PassedOver(c, w) /\ Kind[w] \in Declared[c] =>
        /\ w \notin steadily[c]
        /\ \E j \in DOMAIN fallbacks[c] : fallbacks[c][j] = Kind[w]

OneWirePerKind == \A v, w \in Wires : Kind[v] = Kind[w] => v = w
=============================================================================
