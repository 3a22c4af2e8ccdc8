------------------------ MODULE MultiTransportProofs ------------------------
(***************************************************************************)
(* Proofs about MultiTransport, for every set of wires, order of           *)
(* preference and number of calls.  Two invariants carry the argument: the *)
(* order is complete before the first call looks at it (OrderInv), and a   *)
(* wire whose kind a call has passed was seen not ready, unless another    *)
(* wire of the kind was asked in its place (ScanInv).                      *)
(***************************************************************************)
EXTENDS MultiTransport, TLAPS

OrderInv ==
  /\ preference \in Seq(Kinds)
  /\ considered \in 0 .. Len(Kind)
  /\ \A j \in 1 .. considered : InPreference(Kind[j])
  /\ stage \in [Calls -> Stages]
  /\ \A c \in Calls : stage[c] # "idle" => considered = Len(Kind)

\* The order never loses a kind, and no call begins before it is complete.
LEMMA OrderStep ==
  ASSUME OrderInv, [Next]_vars
  PROVE  OrderInv'
  <1> USE WiresAssumption
  <1>1. CASE Consider
    <2>1. considered' \in 0 .. Len(Kind) /\ Kind[considered + 1] \in Kinds
      BY <1>1 DEF Consider, OrderInv
    <2>2. preference' \in Seq(Kinds)
      BY <1>1, <2>1 DEF Consider, OrderInv
    <2>3. \A k : InPreference(k) => InPreference(k)'
      BY <1>1, <2>1 DEF Consider, OrderInv, InPreference
    <2>4. ASSUME NEW k, k = Kind[considered + 1]
          PROVE  InPreference(k)'
      <3>1. CASE InPreference(k)
        BY <3>1, <2>3
      <3>2. CASE ~InPreference(k)
        <4>1. preference' = Append(preference, k)
          BY <1>1, <2>4, <3>2 DEF Consider
        <4>2. /\ preference'[Len(preference) + 1] = k
              /\ Len(preference) + 1 \in DOMAIN preference'
          BY <4>1, <2>1, <2>4 DEF OrderInv
        <4> QED BY <4>2 DEF InPreference
      <3> QED BY <3>1, <3>2
    <2>5. \A j \in 1 .. considered' : InPreference(Kind[j])'
      <3> SUFFICES ASSUME NEW j \in 1 .. considered'
                   PROVE  InPreference(Kind[j])'
        OBVIOUS
      <3>1. j \in 1 .. considered \/ j = considered + 1
        BY <1>1 DEF Consider, OrderInv
      <3>2. CASE j \in 1 .. considered
        BY <3>2, <2>3 DEF OrderInv
      <3>3. CASE j = considered + 1
        BY <3>3, <2>4
      <3> QED BY <3>1, <3>2, <3>3
    <2>6. \A c \in Calls : stage[c] = "idle" /\ stage' = stage
      BY <1>1 DEF Consider, OrderInv
    <2>7. /\ stage' \in [Calls -> Stages]
          /\ \A c \in Calls : stage'[c] # "idle" => considered' = Len(Kind)
      BY <2>6, <1>1 DEF Consider, OrderInv
    <2> QED BY <2>1, <2>2, <2>5, <2>7 DEF OrderInv
  <1>2. ASSUME NEW c \in Calls, Begin(c) \/ RejectUnknown(c)
        PROVE  OrderInv'
    BY <1>2 DEF Begin, RejectUnknown, OrderInv, InPreference, Stages
  <1>3. ASSUME NEW c \in Calls, stage[c] # "idle",
               UNCHANGED <<preference, considered>>,
               \/ stage' = stage
               \/ \E s \in Stages : stage' = [stage EXCEPT ![c] = s]
        PROVE  OrderInv'
    BY <1>3 DEF OrderInv, InPreference
  <1>4. ASSUME NEW c \in Calls, NEW k \in Kinds, Skip(c, k)
        PROVE  OrderInv'
    BY <1>3, <1>4 DEF Skip, Looking, Advance
  <1>5. ASSUME NEW c \in Calls, NEW k \in Kinds, NEW w \in Wires, FallThrough(c, k, w)
        PROVE  OrderInv'
    BY <1>3, <1>5 DEF FallThrough, Looking, Advance
  <1>6. ASSUME NEW c \in Calls, NEW k \in Kinds, NEW w \in Wires, Send(c, k, w)
        PROVE  OrderInv'
    BY <1>3, <1>6 DEF Send, Looking, Stages
  <1>7. ASSUME NEW c \in Calls, NEW how \in {"answered", "failed"}, Return(c, how)
        PROVE  OrderInv'
    BY <1>3, <1>7 DEF Return, Stages
  <1>8. ASSUME NEW c \in Calls, Exhaust(c)
        PROVE  OrderInv'
    BY <1>3, <1>8 DEF Exhaust, Stages
  <1>9. CASE (\E w \in Wires : Flap(w)) \/ UNCHANGED vars
    BY <1>9 DEF Flap, vars, OrderInv, InPreference
  <1> QED BY <1>1, <1>2, <1>4, <1>5, <1>6, <1>7, <1>8, <1>9 DEF Next

LEMMA OrderStart == Init => OrderInv
  BY WiresAssumption DEF Init, New, Preferred, OrderInv, InPreference, Stages

LEMMA OrderHolds == Spec => []OrderInv
  BY OrderStart, OrderStep, PTL DEF Spec

-----------------------------------------------------------------------------
\* Types of the state, for any wires, preferences and calls.
THEOREM TransportTypeCorrect == Spec => []TypeOK
  <1> USE WiresAssumption
  <1>1. Init => TypeOK
    BY DEF Init, New, Preferred, TypeOK, Stages, Wires
  <1>2. TypeOK /\ OrderInv /\ [Next]_vars => TypeOK'
    <2> SUFFICES ASSUME TypeOK, OrderInv, [Next]_vars
                 PROVE  TypeOK'
      OBVIOUS
    <2>0. OrderInv'
      BY OrderStep
    <2>1. CASE Consider
      <3>1. Len(preference) <= Len(preference') /\ preference' \in Seq(Kinds)
        BY <2>0, <2>1 DEF OrderInv, Consider, TypeOK
      <3>2. \A c \in Calls : at'[c] <= Len(preference') + 1
        BY <3>1, <2>1 DEF Consider, TypeOK
      <3> QED BY <3>1, <3>2, <2>0, <2>1 DEF Consider, TypeOK, OrderInv
    <2>2. ASSUME NEW w \in Wires, Flap(w)
          PROVE  TypeOK'
      BY <2>2 DEF Flap, TypeOK
    <2>3. ASSUME NEW c \in Calls, Begin(c)
          PROVE  TypeOK'
      BY <2>3 DEF Begin, TypeOK, Stages
    <2>4. ASSUME NEW c \in Calls, RejectUnknown(c)
          PROVE  TypeOK'
      BY <2>4 DEF RejectUnknown, TypeOK, Stages
    <2>5. ASSUME NEW c \in Calls, NEW k \in Kinds, Skip(c, k)
          PROVE  TypeOK'
      BY <2>5 DEF Skip, Looking, Advance, TypeOK
    <2>6. ASSUME NEW c \in Calls, NEW k \in Kinds, NEW w \in Wires, FallThrough(c, k, w)
          PROVE  TypeOK'
      BY <2>6 DEF FallThrough, Looking, Advance, TypeOK
    <2>7. ASSUME NEW c \in Calls, NEW k \in Kinds, NEW w \in Wires, Send(c, k, w)
          PROVE  TypeOK'
      BY <2>7 DEF Send, Looking, TypeOK, Stages
    <2>8. ASSUME NEW c \in Calls, NEW how \in {"answered", "failed"}, Return(c, how)
          PROVE  TypeOK'
      BY <2>8 DEF Return, TypeOK, Stages
    <2>9. ASSUME NEW c \in Calls, Exhaust(c)
          PROVE  TypeOK'
      BY <2>9 DEF Exhaust, TypeOK, Stages
    <2>10. CASE UNCHANGED vars
      BY <2>10 DEF vars, TypeOK
    <2> QED BY <2>1, <2>2, <2>3, <2>4, <2>5, <2>6, <2>7, <2>8, <2>9, <2>10 DEF Next
  <1> QED BY <1>1, <1>2, OrderHolds, PTL DEF Spec

-----------------------------------------------------------------------------
SendInv ==
  \A c \in Calls :
    /\ stage[c] \in {"idle", "scanning", "unavailable", "unknown"} => used[c] = {}
    /\ stage[c] \notin {"answered", "failed"} => ended[c] = 0
    /\ stage[c] \in {"answered", "failed"} => ended[c] = 1
    /\ \A w \in used[c] : Kind[w] \in Declared[c]
    /\ \A v, w \in used[c] : v = w

\* A call sends at most once, over a wire it declares, and every on_start has
\* its on_finish.
THEOREM SentOnceHolds == Spec => []SentOnceAsDeclared
  <1>1. Init => SendInv
    BY DEF Init, SendInv
  <1>2. TypeOK /\ SendInv /\ [Next]_vars => SendInv'
    <2> SUFFICES ASSUME TypeOK, SendInv, [Next]_vars
                 PROVE  SendInv'
      OBVIOUS
    <2>1. ASSUME UNCHANGED <<stage, used, ended>>
          PROVE  SendInv'
      BY <2>1 DEF SendInv
    <2>2. CASE Consider \/ (\E w \in Wires : Flap(w)) \/ UNCHANGED vars
      BY <2>1, <2>2 DEF Consider, Flap, vars
    <2>3. ASSUME NEW c \in Calls, Begin(c) \/ RejectUnknown(c) \/ Exhaust(c)
          PROVE  SendInv'
      <3>1. /\ stage[c] \in {"idle", "scanning"}
            /\ stage'[c] \in {"scanning", "unknown", "unavailable"}
            /\ \A d \in Calls : d # c => stage'[d] = stage[d]
            /\ UNCHANGED <<used, ended>>
        BY <2>3 DEF Begin, RejectUnknown, Exhaust, TypeOK
      <3> QED BY <3>1 DEF SendInv
    <2>4. ASSUME NEW c \in Calls, NEW k \in Kinds, NEW w \in Wires, FallThrough(c, k, w)
          PROVE  SendInv'
      BY <2>1, <2>4 DEF FallThrough, Advance
    <2>5. ASSUME NEW c \in Calls, NEW k \in Kinds, Skip(c, k)
          PROVE  SendInv'
      BY <2>1, <2>5 DEF Skip, Advance
    <2>6. ASSUME NEW c \in Calls, NEW k \in Kinds, NEW w \in Wires, Send(c, k, w)
          PROVE  SendInv'
      BY <2>6 DEF Send, Looking, FoundFor, SendInv, TypeOK
    <2>7. ASSUME NEW c \in Calls, NEW how \in {"answered", "failed"}, Return(c, how)
          PROVE  SendInv'
      BY <2>7 DEF Return, SendInv, TypeOK
    <2> QED BY <2>2, <2>3, <2>4, <2>5, <2>6, <2>7 DEF Next
  <1>3. TypeOK /\ SendInv => SentOnceAsDeclared
    BY DEF SendInv, SentOnceAsDeclared
  <1> QED BY <1>1, <1>2, <1>3, TransportTypeCorrect, PTL DEF Spec

-----------------------------------------------------------------------------
ScanInv ==
  /\ \A c \in Calls : stage[c] = "idle" => at[c] = 0
  /\ \A c \in Calls :
       \A w \in steadily[c] : ready[w] /\ Kind[w] \in Declared[c]
  /\ PreferenceKept

\* A call moves on from a kind only when it may not use it, or when the first
\* wire of the kind was not ready.
LEMMA ScanStep ==
  ASSUME OneWirePerKind, TypeOK, OrderInv, ScanInv, [Next]_vars
  PROVE  ScanInv'
  <1> USE WiresAssumption
  <1>1. CASE Consider
    <2>1. \A c \in Calls : at[c] = 0 /\ at' = at /\ preference' \in Seq(Kinds)
      BY <1>1, OrderStep DEF Consider, OrderInv, ScanInv
    <2>2. PreferenceKept'
      BY <2>1 DEF PreferenceKept, PassedOver
    <2> QED BY <1>1, <2>1, <2>2 DEF Consider, ScanInv
  <1>2. ASSUME NEW w \in Wires, Flap(w)
        PROVE  ScanInv'
    BY <1>2 DEF Flap, ScanInv, PreferenceKept, PassedOver, TypeOK
  <1>3. ASSUME NEW c \in Calls, Begin(c)
        PROVE  ScanInv'
    <2>1. \A d \in Calls, w \in Wires : PassedOver(d, w)' => d # c
      BY <1>3 DEF Begin, PassedOver, TypeOK
    <2>2. \A d \in Calls, w \in Wires : d # c => (PassedOver(d, w)' <=> PassedOver(d, w))
      BY <1>3 DEF Begin, PassedOver, TypeOK
    <2>3. PreferenceKept'
      BY <1>3, <2>1, <2>2 DEF Begin, PreferenceKept, ScanInv, TypeOK
    <2> QED BY <1>3, <2>3 DEF Begin, ScanInv, TypeOK
  <1>4. ASSUME UNCHANGED <<preference, at, fallbacks, steadily, ready>>,
               \A d \in Calls : stage'[d] = "idle" => stage[d] = "idle"
        PROVE  ScanInv'
    BY <1>4 DEF ScanInv, PreferenceKept, PassedOver
  <1>5. ASSUME NEW c \in Calls, RejectUnknown(c) \/ Exhaust(c)
        PROVE  ScanInv'
    BY <1>4, <1>5 DEF RejectUnknown, Exhaust, TypeOK
  <1>6. ASSUME NEW c \in Calls, NEW k \in Kinds, NEW w \in Wires, Send(c, k, w)
        PROVE  ScanInv'
    BY <1>4, <1>6 DEF Send, TypeOK
  <1>7. ASSUME NEW c \in Calls, NEW how \in {"answered", "failed"}, Return(c, how)
        PROVE  ScanInv'
    BY <1>4, <1>7 DEF Return, TypeOK
  <1>8. ASSUME NEW c \in Calls, NEW k \in Kinds, Looking(c, k), Advance(c),
               UNCHANGED preference
        PROVE  /\ \A d \in Calls, w \in Wires :
                    PassedOver(d, w)' => PassedOver(d, w) \/ (d = c /\ Kind[w] = k)
               /\ \A d \in Calls : stage'[d] = "idle" => at'[d] = 0
    BY <1>8 DEF Looking, Advance, PassedOver, TypeOK, ScanInv
  <1>9. ASSUME NEW c \in Calls, NEW k \in Kinds, Skip(c, k)
        PROVE  ScanInv'
    <2>1. \A w \in Wires : Kind[w] = k => k \notin Declared[c]
      BY <1>9 DEF Skip
    <2>2. PreferenceKept'
      BY <1>8, <1>9, <2>1 DEF Skip, PreferenceKept, ScanInv
    <2> QED BY <1>8, <1>9, <2>2 DEF Skip, ScanInv
  <1>10. ASSUME NEW c \in Calls, NEW k \in Kinds, NEW v \in Wires, FallThrough(c, k, v)
         PROVE  ScanInv'
    <2>1. \A w \in Wires : Kind[w] = k => w \notin steadily[c]
      BY <1>10 DEF FallThrough, FoundFor, ScanInv, OneWirePerKind
    <2>2. fallbacks[c] \in Seq(Kinds) /\ fallbacks'[c] = Append(fallbacks[c], k)
      BY <1>10 DEF FallThrough, TypeOK
    <2>3. \A j \in DOMAIN fallbacks[c] : j \in DOMAIN fallbacks'[c]
                                         /\ fallbacks'[c][j] = fallbacks[c][j]
      BY <2>2
    <2>4. \E j \in DOMAIN fallbacks'[c] : fallbacks'[c][j] = k
      <3>1. Len(fallbacks[c]) + 1 \in DOMAIN fallbacks'[c]
            /\ fallbacks'[c][Len(fallbacks[c]) + 1] = k
        BY <2>2
      <3> QED BY <3>1
    <2>5. \A d \in Calls : d # c => fallbacks'[d] = fallbacks[d]
      BY <1>10 DEF FallThrough, TypeOK
    <2>6. steadily' = steadily
      BY <1>10 DEF FallThrough
    <2>7. ASSUME NEW d \in Calls, NEW w \in Wires, PassedOver(d, w)',
                 Kind[w] \in Declared[d]
          PROVE  /\ w \notin steadily'[d]
                 /\ \E j \in DOMAIN fallbacks'[d] : fallbacks'[d][j] = Kind[w]
      <3>1. PassedOver(d, w) \/ (d = c /\ Kind[w] = k)
        BY <1>8, <1>10, <2>7 DEF FallThrough
      <3>2. CASE PassedOver(d, w)
        BY <3>2, <2>7, <2>3, <2>5, <2>6 DEF ScanInv, PreferenceKept
      <3>3. CASE d = c /\ Kind[w] = k
        BY <3>3, <2>1, <2>4, <2>6
      <3> QED BY <3>1, <3>2, <3>3
    <2>8. PreferenceKept'
      BY <2>7 DEF PreferenceKept
    <2> QED BY <1>8, <1>10, <2>8 DEF FallThrough, ScanInv
  <1>11. CASE UNCHANGED vars
    BY <1>4, <1>11 DEF vars
  <1> QED BY <1>1, <1>2, <1>3, <1>5, <1>6, <1>7, <1>9, <1>10, <1>11 DEF Next

LEMMA ScanStart == Init => ScanInv
  BY OrderStart DEF Init, OrderInv, ScanInv, PreferenceKept, PassedOver

\* With one wire per kind, no ready wire is passed over for a less preferred
\* one, and the sink is told of every one passed over.
THEOREM PreferenceKeptHolds == OneWirePerKind => (Spec => []PreferenceKept)
  <1> SUFFICES ASSUME OneWirePerKind
               PROVE  Spec => []PreferenceKept
    OBVIOUS
  <1>1. Init => ScanInv
    BY ScanStart
  <1>2. TypeOK /\ OrderInv /\ ScanInv /\ [Next]_vars => ScanInv'
    BY ScanStep
  <1>3. ScanInv => PreferenceKept
    BY DEF ScanInv
  <1> QED BY <1>1, <1>2, <1>3, TransportTypeCorrect, OrderHolds, PTL DEF Spec

-----------------------------------------------------------------------------
EndInv == \A c \in Calls : stage[c] = "unavailable" => at[c] > Len(preference)

\* With one wire per kind, NoneAvailable is returned only when no wire the
\* operation declares was ready all along.
THEOREM NoneAvailableHolds == OneWirePerKind => (Spec => []NoneAvailableIsTrue)
  <1> SUFFICES ASSUME OneWirePerKind
               PROVE  Spec => []NoneAvailableIsTrue
    OBVIOUS
  <1>1. Init => EndInv
    BY DEF Init, EndInv
  <1>2. TypeOK /\ OrderInv /\ EndInv /\ [Next]_vars => EndInv'
    <2> SUFFICES ASSUME TypeOK, OrderInv, EndInv, [Next]_vars
                 PROVE  EndInv'
      OBVIOUS
    <2>1. CASE Consider
      BY <2>1, WiresAssumption DEF Consider, EndInv, OrderInv
    <2>2. ASSUME NEW c \in Calls, Exhaust(c)
          PROVE  EndInv'
      BY <2>2 DEF Exhaust, EndInv, TypeOK
    <2>3. ASSUME UNCHANGED preference,
                 \A d \in Calls : stage'[d] = "unavailable" =>
                                   stage[d] = "unavailable" /\ at'[d] = at[d]
          PROVE  EndInv'
      BY <2>3 DEF EndInv
    <2>4. ASSUME NEW c \in Calls, Begin(c) \/ RejectUnknown(c)
          PROVE  EndInv'
      BY <2>3, <2>4 DEF Begin, RejectUnknown, TypeOK
    <2>5. ASSUME NEW c \in Calls, NEW k \in Kinds, Skip(c, k)
          PROVE  EndInv'
      BY <2>3, <2>5 DEF Skip, Looking, Advance, TypeOK
    <2>6. ASSUME NEW c \in Calls, NEW k \in Kinds, NEW w \in Wires,
                 FallThrough(c, k, w) \/ Send(c, k, w)
          PROVE  EndInv'
      BY <2>3, <2>6 DEF FallThrough, Send, Looking, Advance, TypeOK
    <2>7. ASSUME NEW c \in Calls, NEW how \in {"answered", "failed"}, Return(c, how)
          PROVE  EndInv'
      BY <2>3, <2>7 DEF Return, TypeOK
    <2>8. CASE (\E w \in Wires : Flap(w)) \/ UNCHANGED vars
      BY <2>3, <2>8 DEF Flap, vars
    <2> QED BY <2>1, <2>2, <2>4, <2>5, <2>6, <2>7, <2>8 DEF Next
  <1>3. TypeOK /\ OrderInv /\ ScanInv /\ EndInv => NoneAvailableIsTrue
    <2> SUFFICES ASSUME TypeOK, OrderInv, ScanInv, EndInv,
                        NEW c \in Calls, stage[c] = "unavailable",
                        NEW w \in steadily[c]
                 PROVE  FALSE
      BY DEF NoneAvailableIsTrue
    <2>1. w \in Wires /\ w \in 1 .. considered
      BY WiresAssumption DEF TypeOK, OrderInv, Wires
    <2>2. InPreference(Kind[w])
      BY <2>1 DEF OrderInv
    <2>3. PassedOver(c, w)
      BY <2>2 DEF InPreference, PassedOver, EndInv, OrderInv, TypeOK
    <2> QED BY <2>1, <2>3 DEF ScanInv, PreferenceKept
  <1>4. TypeOK /\ OrderInv /\ ScanInv /\ [Next]_vars => ScanInv'
    BY ScanStep
  <1> QED BY <1>1, <1>2, <1>3, <1>4, ScanStart, TransportTypeCorrect, OrderHolds, PTL
          DEF Spec
=============================================================================
