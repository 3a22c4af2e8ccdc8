--------------------------- MODULE FramedCallProofs ---------------------------
(***************************************************************************)
(* Proofs about FramedCall for any number of concurrent calls and answers  *)
(* of any length: what the loop of unary_answer computes, that no call     *)
(* gets the body of another one's answer, and that every exchange is       *)
(* observed once.                                                          *)
(***************************************************************************)
EXTENDS FramedCall, FiniteSetTheorems, WellFoundedInduction, TLAPS

-----------------------------------------------------------------------------
(***************************************************************************)
(* The least number principle, which stands in for induction: it speaks of *)
(* a set and not of a predicate, and follows from the well-foundedness of  *)
(* strict inclusion among finite sets.                                     *)
(***************************************************************************)
LEMMA LeastNumber ==
  ASSUME NEW S \in SUBSET Nat, S # {}
  PROVE  \E m \in S : \A k \in S : m <= k
<1> DEFINE below == {1 .. n : n \in S}
<1>1. \A n \in S : IsFiniteSet(1 .. n) /\ 1 .. n \subseteq Nat
  BY FS_Interval
<1>2. below \subseteq FiniteSubsetsOf(Nat)
  BY <1>1, Zenon DEF FiniteSubsetsOf
<1>3. below # {}
  OBVIOUS
<1> HIDE DEF below
<1>4. PICK b \in below : \A c \in below : <<c, b>> \notin StrictSubsetOrdering(Nat)
  BY <1>2, <1>3, FS_StrictSubsetOrderingWellFounded, WFMin
<1>5. PICK m \in S : b = 1 .. m
  BY DEF below
<1>6. ASSUME NEW k \in S, k < m PROVE FALSE
  <2> DEFINE c == 1 .. k
  <2>1. c \in below
    BY DEF below
  <2>2. c \subseteq b /\ c # b
    <3>1. m \in b /\ m \notin c
      BY <1>5, <1>6
    <3> QED BY <1>5, <1>6, <3>1
  <2>3. c \in SUBSET Nat /\ b \in SUBSET Nat
    BY <1>5
  <2> HIDE DEF c
  <2>4. <<c, b>> \in StrictSubsetOrdering(Nat)
    BY <2>2, <2>3 DEF StrictSubsetOrdering
  <2> QED BY <1>4, <2>1, <2>4
<1> QED BY <1>6

-----------------------------------------------------------------------------
(* The loop of unary_answer. *)

Start == [body |-> {}, ended |-> FALSE, stop |-> {}]
OneMore(call, seen, frame) == IF seen.stop # {} THEN seen ELSE Step(call, seen, frame)

\* after[k] is what the loop has seen after k frames.
Reads(call, frames, n, after) ==
  after = [k \in 0 .. n |-> IF k = 0 THEN Start ELSE OneMore(call, after[k - 1], frames[k])]

\* The loop may be run to any frame: the recursion is well defined.
LEMMA LoopRuns ==
  ASSUME NEW call, NEW frames, NEW n \in Nat
  PROVE  \E after : Reads(call, frames, n, after)
<1> DEFINE stuck == {m \in 0 .. n : ~ \E after : Reads(call, frames, m, after)}
<1>1. SUFFICES ASSUME stuck # {} PROVE FALSE
  OBVIOUS
<1>2. PICK m \in stuck : \A k \in stuck : m <= k
  <2>1. stuck \in SUBSET Nat
    OBVIOUS
  <2> HIDE DEF stuck
  <2> QED BY <1>1, <2>1, LeastNumber
<1>3. CASE m = 0
  <2>1. Reads(call, frames, 0, [k \in 0 .. 0 |-> Start])
    BY DEF Reads
  <2> QED BY <1>2, <1>3, <2>1
<1>4. CASE m # 0
  <2>1. m - 1 \in 0 .. n /\ m - 1 \notin stuck
    BY <1>2, <1>4
  <2>2. PICK before : Reads(call, frames, m - 1, before)
    BY <2>1
  <2> DEFINE after == [k \in 0 .. m |->
                         IF k = 0 THEN Start ELSE OneMore(call, before[k - 1], frames[k])]
  <2>3. ASSUME NEW k \in 0 .. m - 1 PROVE after[k] = before[k]
    <3>1. k \in 0 .. m
      BY <1>2
    <3> QED BY <2>2, <3>1 DEF Reads
  <2>4. \A k \in 0 .. m : k # 0 => after[k - 1] = before[k - 1]
    BY <1>2, <2>3
  <2>5. Reads(call, frames, m, after)
    BY <2>4 DEF Reads
  <2> QED BY <1>2, <2>5
<1> QED BY <1>3, <1>4

\* unary_answer concludes from what such a run has seen after the last frame.
LEMMA AnswerOfLoop ==
  ASSUME NEW call, NEW frames, Len(frames) \in Nat
  PROVE  \E after : /\ Reads(call, frames, Len(frames), after)
                    /\ UnaryAnswer(call, frames) = Conclude(after[Len(frames)])
<1> DEFINE body(h) == [k \in 0 .. Len(frames) |->
                         IF k = 0 THEN [body |-> {}, ended |-> FALSE, stop |-> {}]
                         ELSE IF h[k - 1].stop # {} THEN h[k - 1]
                         ELSE Step(call, h[k - 1], frames[k])]
           after == CHOOSE h : h = body(h)
<1>1. UnaryAnswer(call, frames) = Conclude(after[Len(frames)])
  BY DEF UnaryAnswer
<1>2. PICK some : Reads(call, frames, Len(frames), some)
  BY LoopRuns
<1>3. some = body(some)
  BY <1>2 DEF Reads, OneMore, Start
<1> HIDE DEF body
<1>4. after = body(after)
  BY <1>3
<1>5. Reads(call, frames, Len(frames), after)
  BY <1>4 DEF body, Reads, OneMore, Start
<1> QED BY <1>1, <1>5

\* What the first deciding frame decides.
VerdictOn(call, frame) ==
  IF frame.id = call /\ frame.kind = "error" THEN Remote ELSE Protocol

\* What the loop has seen after k frames, in terms of these frames.
Seen == [body : SUBSET Requests, ended : BOOLEAN, stop : SUBSET {Remote, Protocol}]

SeenOf(call, frames, k, seen) ==
  /\ seen \in Seen
  /\ (\A i \in 1 .. k : ~Decides(call, frames, i)) =>
       /\ seen.stop = {}
       /\ seen.ended <=> \E i \in 1 .. k : frames[i].kind = "end"
       /\ seen.body # {} => \E i \in 1 .. k : frames[i].kind = "data"
       /\ \A i \in 1 .. k : frames[i].kind = "data" => seen.body = {frames[i].of}
  /\ \A i \in FirstDeciding(call, frames) :
       i <= k => seen.stop = {VerdictOn(call, frames[i])}

\* If a frame decides, one is the first to.
LEMMA SomeDecides ==
  ASSUME NEW call, NEW frames, Len(frames) \in Nat, NEW k \in 0 .. Len(frames),
         \E i \in 1 .. k : Decides(call, frames, i)
  PROVE  \E i \in FirstDeciding(call, frames) : i <= k
<1> DEFINE D == {i \in 1 .. k : Decides(call, frames, i)}
<1>1. D \in SUBSET Nat /\ D # {}
  OBVIOUS
<1>2. PICK i \in D : \A j \in D : i <= j
  <2> HIDE DEF D
  <2> QED BY <1>1, LeastNumber
<1>3. ASSUME NEW j \in 1 .. i - 1 PROVE ~Decides(call, frames, j)
  <2>1. j \in 1 .. k /\ j \notin D
    BY <1>2
  <2> QED BY <2>1
<1>4. i \in 1 .. Len(frames) /\ Decides(call, frames, i) /\ i <= k
  BY <1>2
<1> QED BY <1>3, <1>4 DEF FirstDeciding

\* One more frame.
LEMMA SeenStep ==
  ASSUME NEW call \in Nat, NEW frames \in Seq(Frames), NEW k \in 1 .. Len(frames),
         NEW seen, SeenOf(call, frames, k - 1, seen)
  PROVE  SeenOf(call, frames, k, OneMore(call, seen, frames[k]))
<1> DEFINE frame == frames[k]
           new == OneMore(call, seen, frame)
<1>0. Len(frames) \in Nat /\ frame \in Frames
  OBVIOUS
<1>1. /\ k \in Nat \ {0} /\ k - 1 \in Nat /\ k - 1 \in 0 .. Len(frames) /\ Len(frames) \in Nat
      /\ frame.id \in Nat /\ frame.kind \in Kinds /\ frame.of \in Requests
  BY <1>0 DEF Frames
<1>2. seen \in Seen
  BY DEF SeenOf
<1>3. CASE \E i \in 1 .. k - 1 : Decides(call, frames, i)
  <2>1. PICK i \in FirstDeciding(call, frames) : i <= k - 1
    BY <1>1, <1>3, SomeDecides
  <2>2. new = seen
    BY <2>1 DEF SeenOf, OneMore
  <2>3. \A j \in FirstDeciding(call, frames) : j <= k => j <= k - 1
    BY <1>1, <2>1 DEF FirstDeciding
  <2>4. ~ \A j \in 1 .. k : ~Decides(call, frames, j)
    BY <1>1, <1>3
  <2> QED BY <1>2, <2>2, <2>3, <2>4 DEF SeenOf
<1>4. CASE \A i \in 1 .. k - 1 : ~Decides(call, frames, i)
  <2>1. /\ seen.stop = {}
        /\ seen.ended <=> \E i \in 1 .. k - 1 : frames[i].kind = "end"
        /\ seen.body # {} => \E i \in 1 .. k - 1 : frames[i].kind = "data"
        /\ \A i \in 1 .. k - 1 : frames[i].kind = "data" => seen.body = {frames[i].of}
    BY <1>4 DEF SeenOf
  <2>2. new = Step(call, seen, frame)
    BY <2>1 DEF OneMore
  <2>3. SecondData(seen, frame) <=> frame.kind = "data" /\ \E j \in 1 .. k - 1 : frames[j].kind = "data"
    BY <2>1 DEF SecondData
  <2>4. \A i \in FirstDeciding(call, frames) : i <= k => i = k /\ Decides(call, frames, k)
    BY <1>1, <1>4 DEF FirstDeciding
  <2>5. CASE Decides(call, frames, k)
    <3>1. new = [seen EXCEPT !.stop = {VerdictOn(call, frame)}]
      BY <1>1, <2>2, <2>3, <2>5 DEF Step, Misrouted, Decides, VerdictOn
    <3>2. new \in Seen /\ new.stop = {VerdictOn(call, frame)}
      BY <1>2, <3>1 DEF Seen, VerdictOn
    <3>3. ~ \A i \in 1 .. k : ~Decides(call, frames, i)
      BY <1>1, <2>5
    <3> QED BY <2>4, <3>2, <3>3 DEF SeenOf
  <2>6. CASE ~Decides(call, frames, k)
    <3>1. ~Misrouted(call, frame) /\ ~SecondData(seen, frame) /\ frame.kind \in {"data", "end"}
      BY <1>1, <2>3, <2>6 DEF Decides, Misrouted, Kinds
    <3>2. CASE frame.kind = "data"
      <4>1. new = [seen EXCEPT !.body = {frame.of}]
        BY <2>2, <3>1, <3>2 DEF Step
      <4>2. /\ new \in Seen /\ new.stop = {} /\ new.body = {frame.of}
            /\ new.ended = seen.ended
        BY <1>1, <1>2, <2>1, <4>1 DEF Seen
      <4>3. \A i \in 1 .. k - 1 : frames[i].kind # "data"
        BY <2>1, <3>1, <3>2, <2>3
      <4>4. \A i \in 1 .. k : i = k \/ i \in 1 .. k - 1
        BY <1>1
      <4>5. \A i \in 1 .. k - 1 : i \in 1 .. k
        BY <1>1
      <4>6. k \in 1 .. k
        BY <1>1
      <4> QED BY <2>1, <2>4, <2>6, <3>2, <4>2, <4>3, <4>4, <4>5, <4>6 DEF SeenOf
    <3>3. CASE frame.kind = "end"
      <4>1. new = [seen EXCEPT !.ended = TRUE]
        BY <2>2, <3>1, <3>3 DEF Step
      <4>2. /\ new \in Seen /\ new.stop = {} /\ new.body = seen.body /\ new.ended
        BY <1>2, <2>1, <4>1 DEF Seen
      <4>3. \A i \in 1 .. k : i = k \/ i \in 1 .. k - 1
        BY <1>1
      <4>4. \A i \in 1 .. k - 1 : i \in 1 .. k
        BY <1>1
      <4>5. k \in 1 .. k
        BY <1>1
      <4> QED BY <2>1, <2>4, <2>6, <3>3, <4>2, <4>3, <4>4, <4>5 DEF SeenOf
    <3> QED BY <3>1, <3>2, <3>3
  <2> QED BY <2>5, <2>6
<1> QED BY <1>3, <1>4

\* What unary_answer returns, for an answer of any length.
LEMMA AnswerFacts ==
  ASSUME NEW call \in Nat, NEW frames \in Seq(Frames)
  PROVE  /\ UnaryAnswer(call, frames) \in {Remote, Protocol} \cup {Ok(q) : q \in Requests}
         /\ UnaryAnswer(call, frames).outcome = "ok" =>
              /\ FirstDeciding(call, frames) = {}
              /\ \E i \in 1 .. Len(frames) : /\ frames[i].kind = "data"
                                            /\ frames[i].id = call
                                            /\ UnaryAnswer(call, frames) = Ok(frames[i].of)
              /\ \E i \in 1 .. Len(frames) : frames[i].kind = "end"
         /\ UnaryAnswer(call, frames) = Remote <=>
              \E i \in FirstDeciding(call, frames) :
                frames[i].id = call /\ frames[i].kind = "error"
<1> DEFINE n == Len(frames)
           answer == UnaryAnswer(call, frames)
<1>1. n \in Nat
  OBVIOUS
<1>2. PICK after : Reads(call, frames, n, after) /\ answer = Conclude(after[n])
  BY <1>1, AnswerOfLoop
<1>3. \A k \in 0 .. n : SeenOf(call, frames, k, after[k])
  <2> DEFINE wrong == {k \in 0 .. n : ~SeenOf(call, frames, k, after[k])}
  <2>1. SUFFICES ASSUME wrong # {} PROVE FALSE
    OBVIOUS
  <2>2. PICK k \in wrong : \A j \in wrong : k <= j
    <3>1. wrong \in SUBSET Nat
      BY <1>1
    <3> HIDE DEF wrong
    <3> QED BY <2>1, <3>1, LeastNumber
  <2>3. CASE k = 0
    <3>1. after[0] = Start
      BY <1>1, <1>2 DEF Reads
    <3>2. SeenOf(call, frames, 0, Start)
      BY DEF SeenOf, Start, Seen, FirstDeciding
    <3> QED BY <2>2, <2>3, <3>1, <3>2
  <2>4. CASE k # 0
    <3>1. k \in 1 .. n /\ k - 1 \in 0 .. n /\ k - 1 \notin wrong
      BY <1>1, <2>2, <2>4
    <3>2. after[k] = OneMore(call, after[k - 1], frames[k])
      BY <1>2, <2>4 DEF Reads
    <3> QED BY <2>2, <3>1, <3>2, SeenStep
  <2> QED BY <2>3, <2>4
<1> DEFINE seen == after[n]
<1>4. SeenOf(call, frames, n, seen) /\ seen \in Seen /\ answer = Conclude(seen)
  BY <1>1, <1>2, <1>3 DEF SeenOf
<1> HIDE DEF seen, answer
<1>5. CASE \E i \in 1 .. n : Decides(call, frames, i)
  <2>1. PICK i \in FirstDeciding(call, frames) : TRUE
    BY <1>1, <1>5, SomeDecides
  <2>2. \A j \in FirstDeciding(call, frames) : j = i
    BY <2>1 DEF FirstDeciding
  <2>3. seen.stop = {VerdictOn(call, frames[i])}
    BY <1>1, <1>4, <2>1 DEF SeenOf, FirstDeciding
  <2>4. answer = VerdictOn(call, frames[i])
    BY <1>4, <2>3 DEF Conclude
  <2>5. answer \in {Remote, Protocol} /\ answer.outcome # "ok" /\ Remote # Protocol
    BY <2>4 DEF VerdictOn, Remote, Protocol
  <2>6. answer = Remote <=> frames[i].id = call /\ frames[i].kind = "error"
    BY <2>4, <2>5 DEF VerdictOn
  <2> QED BY <2>1, <2>2, <2>5, <2>6 DEF answer
<1>6. CASE \A i \in 1 .. n : ~Decides(call, frames, i)
  <2>1. FirstDeciding(call, frames) = {}
    BY <1>6 DEF FirstDeciding
  <2>2. /\ seen.stop = {}
        /\ seen.ended <=> \E i \in 1 .. n : frames[i].kind = "end"
        /\ seen.body # {} => \E i \in 1 .. n : frames[i].kind = "data"
        /\ \A i \in 1 .. n : frames[i].kind = "data" => seen.body = {frames[i].of}
    BY <1>4, <1>6 DEF SeenOf
  <2>3. CASE seen.body # {} /\ seen.ended
    <3>1. PICK i \in 1 .. n : frames[i].kind = "data" /\ seen.body = {frames[i].of}
      BY <2>2, <2>3
    <3>2. answer = Ok(frames[i].of)
      BY <1>4, <2>2, <2>3, <3>1 DEF Conclude
    <3>3. frames[i].id = call /\ frames[i].of \in Requests
      <4>1. frames[i] \in Frames
        BY <1>1
      <4> QED BY <1>6, <4>1 DEF Decides, Frames
    <3>4. answer # Remote
      BY <3>2 DEF Ok, Remote
    <3> QED BY <2>1, <2>2, <2>3, <3>1, <3>2, <3>3, <3>4 DEF answer
  <2>4. CASE ~(seen.body # {} /\ seen.ended)
    <3>1. answer = Protocol
      BY <1>4, <2>2, <2>4 DEF Conclude
    <3>2. Protocol # Remote /\ Protocol.outcome # "ok"
      BY DEF Protocol, Remote
    <3> QED BY <2>1, <3>1, <3>2 DEF answer
  <2> QED BY <2>3, <2>4
<1> QED BY <1>5, <1>6
-----------------------------------------------------------------------------
(***************************************************************************)
(* The inductive invariant.  The properties say nothing of a call that is  *)
(* still under way; Delivered and Reported tie what it has been given, and *)
(* what the sink has been told, to ids that belong to one call only.       *)
(***************************************************************************)
Stages == {"idle", "numbered", "written", "done"}
Results == {Remote, Protocol, Carrier, Pending} \cup {Ok(q) : q \in Requests}
Outcomes == {"ok", "remote", "protocol", "carrier", "pending"}

Types ==
  /\ next \in Nat
  /\ stage \in [Requests -> Stages]
  /\ id \in [Requests -> Nat]
  /\ got \in [Requests -> Seq(Frames)]
  /\ result \in [Requests -> Results]
  /\ events \in Seq([id : Nat, outcome : Outcomes])

\* Ids are taken once, and never 0.
Numbered ==
  /\ \A r \in Requests : id[r] <= next /\ (stage[r] = "idle" <=> id[r] = 0)
  /\ \A r, q \in Requests : id[r] = id[q] /\ id[r] # 0 => r = q

\* What a call was given answers a call that has its id, and its result is what
\* unary_answer makes of it or a failure before it.
Delivered ==
  \A r \in Requests :
    /\ stage[r] = "written" => r \in WellFormed
    /\ stage[r] # "done" => result[r] = Pending /\ got[r] = <<>>
    /\ stage[r] = "done" => \/ result[r] = UnaryAnswer(id[r], got[r])
                            \/ result[r] \in {Protocol, Carrier} /\ got[r] = <<>>
    /\ \A i \in 1 .. Len(got[r]) : got[r][i].id = id[got[r][i].of] /\ got[r][i].id # 0

Reported ==
  /\ \A i \in 1 .. Len(events) :
       \E r \in WellFormed : stage[r] = "done" /\ events[i] = Event(r, result[r])
  /\ \A r \in WellFormed :
       stage[r] = "done" => \E i \in 1 .. Len(events) : events[i] = Event(r, result[r])
  /\ \A i, j \in 1 .. Len(events) : events[i].id = events[j].id => i = j

IInv == Types /\ Numbered /\ Delivered /\ Reported

\* The outcome that observe reports of a verdict.
LEMMA OutcomeOfResult ==
  ASSUME NEW verdict \in Results
  PROVE  verdict.outcome \in Outcomes
BY DEF Results, Outcomes, Ok, Remote, Protocol, Carrier, Pending

\* IInv holds before any call.
LEMMA InitInv == Init => IInv
<1> SUFFICES ASSUME Init PROVE IInv
  OBVIOUS
<1>1. Types
  BY DEF Init, Types, Stages, Results
<1>2. Numbered
  BY DEF Init, Numbered
<1>3. Delivered
  BY DEF Init, Delivered
<1>4. Reported
  BY CallAssumption DEF Init, Reported
<1> QED BY <1>1, <1>2, <1>3, <1>4 DEF IInv

\* A call that ends, with a verdict and the frames it was given.
LEMMA FinishKeeps ==
  ASSUME IInv, NEW r \in WellFormed, stage[r] = "written",
         NEW verdict \in Results, NEW frames \in Seq(Frames),
         got' = [got EXCEPT ![r] = frames],
         Finish(r, verdict),
         \/ verdict = UnaryAnswer(id[r], frames)
         \/ verdict \in {Protocol, Carrier} /\ frames = <<>>,
         \A i \in 1 .. Len(frames) : frames[i].id = id[frames[i].of] /\ frames[i].id # 0
  PROVE  IInv'
<1> DEFINE event == Event(r, verdict)
           n == Len(events)
<1>1. /\ Types /\ Numbered /\ Delivered /\ Reported
      /\ r \in Requests /\ id[r] \in Nat /\ WellFormed \subseteq Requests
  BY CallAssumption DEF IInv, Types
<1>2. /\ stage' = [stage EXCEPT ![r] = "done"]
      /\ result' = [result EXCEPT ![r] = verdict]
      /\ events' = Append(events, event)
      /\ next' = next /\ id' = id
  BY DEF Finish
<1>3. event \in [id : Nat, outcome : Outcomes] /\ event.id = id[r]
  BY <1>1, OutcomeOfResult DEF Event
<1>4. Types'
  BY <1>1, <1>2, <1>3 DEF Types, Stages
<1>5. Numbered'
  BY <1>1, <1>2 DEF Numbered, Types
<1>6. Delivered'
  <2>1. ASSUME NEW q \in Requests, q # r
        PROVE  stage'[q] = stage[q] /\ result'[q] = result[q] /\ got'[q] = got[q]
    BY <1>1, <1>2, <2>1 DEF Types
  <2>2. stage'[r] = "done" /\ result'[r] = verdict /\ got'[r] = frames
    BY <1>1, <1>2 DEF Types
  <2> QED BY <1>1, <1>2, <2>1, <2>2 DEF Delivered
<1>7. Reported'
  <2>1. /\ n \in Nat /\ Len(events') = n + 1
        /\ \A i \in 1 .. n : events'[i] = events[i]
        /\ events'[n + 1] = event
    BY <1>1, <1>2, <1>3 DEF Types
  <2>2. \A i \in 1 .. Len(events') : i \in 1 .. n \/ i = n + 1
    BY <2>1
  <2>3. ASSUME NEW q \in WellFormed, q # r
        PROVE  stage'[q] = stage[q] /\ result'[q] = result[q] /\ id'[q] = id[q]
    BY <1>1, <1>2, <2>3 DEF Types
  <2>4. stage'[r] = "done" /\ result'[r] = verdict /\ Event(r, verdict)' = event
    BY <1>1, <1>2 DEF Types, Event
  <2>5. ASSUME NEW i \in 1 .. n
        PROVE  /\ \E q \in WellFormed : q # r /\ stage[q] = "done" /\ events[i] = Event(q, result[q])
               /\ events[i].id # id[r]
    <3>1. PICK q \in WellFormed : stage[q] = "done" /\ events[i] = Event(q, result[q])
      BY <1>1 DEF Reported
    <3>2. q # r /\ events[i].id = id[q]
      BY <3>1 DEF Event
    <3>3. id[q] # 0
      BY <1>1, <3>1 DEF Numbered
    <3>4. id[q] # id[r]
      BY <1>1, <3>2, <3>3 DEF Numbered
    <3> QED BY <3>1, <3>2, <3>4
  <2>6. \A i \in 1 .. Len(events') :
          \E q \in WellFormed : stage'[q] = "done" /\ events'[i] = Event(q, result[q])'
    <3> SUFFICES ASSUME NEW i \in 1 .. Len(events')
                 PROVE  \E q \in WellFormed : stage'[q] = "done" /\ events'[i] = Event(q, result[q])'
      OBVIOUS
    <3>1. CASE i = n + 1
      BY <2>1, <2>4, <3>1 DEF Event
    <3>2. CASE i \in 1 .. n
      <4>1. PICK q \in WellFormed : q # r /\ stage[q] = "done" /\ events[i] = Event(q, result[q])
        BY <2>5, <3>2
      <4> QED BY <2>1, <2>3, <3>2, <4>1 DEF Event
    <3> QED BY <2>2, <3>1, <3>2
  <2>7. \A q \in WellFormed : stage'[q] = "done" =>
          \E i \in 1 .. Len(events') : events'[i] = Event(q, result[q])'
    <3> SUFFICES ASSUME NEW q \in WellFormed, stage'[q] = "done"
                 PROVE  \E i \in 1 .. Len(events') : events'[i] = Event(q, result[q])'
      OBVIOUS
    <3>1. CASE q = r
      <4>1. n + 1 \in 1 .. Len(events')
        BY <2>1
      <4> QED BY <2>1, <2>4, <3>1, <4>1 DEF Event
    <3>2. CASE q # r
      <4>1. PICK i \in 1 .. n : events[i] = Event(q, result[q])
        BY <1>1, <2>3, <3>2 DEF Reported
      <4>2. i \in 1 .. Len(events')
        BY <2>1
      <4> QED BY <2>1, <2>3, <3>2, <4>1, <4>2 DEF Event
    <3> QED BY <3>1, <3>2
  <2>8. \A i, j \in 1 .. Len(events') : events'[i].id = events'[j].id => i = j
    <3>1. events'[n + 1].id = id[r]
      BY <1>3, <2>1
    <3>2. \A i \in 1 .. n : events'[i].id # id[r]
      BY <2>1, <2>5
    <3>3. \A i, j \in 1 .. n : events'[i].id = events'[j].id => i = j
      BY <1>1, <2>1 DEF Reported
    <3> QED BY <2>2, <3>1, <3>2, <3>3
  <2> QED BY <2>6, <2>7, <2>8 DEF Reported
<1> QED BY <1>4, <1>5, <1>6, <1>7 DEF IInv

\* No step of any call breaks it.
LEMMA NextInv == IInv /\ [Next]_vars => IInv'
<1> SUFFICES ASSUME IInv, [Next]_vars PROVE IInv'
  OBVIOUS
<1>0. Types /\ Numbered /\ Delivered /\ Reported /\ WellFormed \subseteq Requests
  BY CallAssumption DEF IInv
<1>1. ASSUME NEW r \in Requests, TakeId(r) PROVE IInv'
  <2>1. /\ stage[r] = "idle" /\ stage' = [stage EXCEPT ![r] = "numbered"]
        /\ next' = next + 1 /\ id' = [id EXCEPT ![r] = next + 1]
        /\ UNCHANGED <<got, result, events>>
    BY <1>1 DEF TakeId
  <2>2. Types'
    BY <1>0, <2>1 DEF Types, Stages
  <2>3. ASSUME NEW q \in Requests, q # r PROVE stage'[q] = stage[q] /\ id'[q] = id[q]
    BY <1>0, <2>1, <2>3 DEF Types
  <2>4. /\ stage'[r] = "numbered" /\ id'[r] = next + 1 /\ id[r] = 0
        /\ next \in Nat /\ \A q \in Requests : id[q] \in Nat /\ id[q] <= next
    BY <1>0, <2>1 DEF Types, Numbered
  <2>5. Numbered'
    <3>1. \A q \in Requests : id'[q] <= next' /\ (stage'[q] = "idle" <=> id'[q] = 0)
      BY <1>0, <2>1, <2>3, <2>4 DEF Numbered
    <3>2. \A q, p \in Requests : id'[q] = id'[p] /\ id'[q] # 0 => q = p
      BY <1>0, <2>3, <2>4 DEF Numbered
    <3> QED BY <3>1, <3>2 DEF Numbered
  <2>6. Delivered'
    <3> SUFFICES ASSUME NEW q \in Requests
                 PROVE  /\ stage'[q] = "written" => q \in WellFormed
                        /\ stage'[q] # "done" => result'[q] = Pending /\ got'[q] = <<>>
                        /\ stage'[q] = "done" => \/ result'[q] = UnaryAnswer(id'[q], got'[q])
                                                 \/ result'[q] \in {Protocol, Carrier} /\ got'[q] = <<>>
                        /\ \A i \in 1 .. Len(got'[q]) :
                             got'[q][i].id = id'[got'[q][i].of] /\ got'[q][i].id # 0
      BY DEF Delivered
    <3>1. ASSUME NEW i \in 1 .. Len(got[q])
          PROVE  got[q][i].id = id'[got[q][i].of] /\ got[q][i].id # 0
      <4>1. got[q][i].id = id[got[q][i].of] /\ got[q][i].id # 0
        BY <1>0 DEF Delivered
      <4>2. got[q][i].of \in Requests
        <5>1. got[q] \in Seq(Frames)
          BY <1>0 DEF Types
        <5>2. got[q][i] \in Frames
          BY <5>1
        <5> QED BY <5>2 DEF Frames
      <4>3. got[q][i].of # r
        BY <2>4, <4>1
      <4> QED BY <2>3, <4>1, <4>2, <4>3
    <3> QED BY <1>0, <2>1, <2>3, <2>4, <3>1 DEF Delivered
  <2>7. Reported'
    <3>1. \A q \in WellFormed : stage'[q] = "done" <=> stage[q] = "done"
      BY <1>0, <2>1, <2>3, <2>4
    <3>2. \A q \in WellFormed : stage[q] = "done" => Event(q, result[q])' = Event(q, result[q])
      BY <1>0, <2>1, <2>3 DEF Event
    <3> QED BY <1>0, <2>1, <3>1, <3>2 DEF Reported
  <2> QED BY <2>2, <2>5, <2>6, <2>7 DEF IInv
<1>2. ASSUME NEW r \in Requests, RejectBody(r) PROVE IInv'
  <2>1. /\ r \notin WellFormed /\ stage[r] = "numbered"
        /\ stage' = [stage EXCEPT ![r] = "done"]
        /\ result' = [result EXCEPT ![r] = Protocol]
        /\ UNCHANGED <<next, id, got, events>>
    BY <1>2 DEF RejectBody
  <2>2. Types'
    BY <1>0, <2>1 DEF Types, Stages, Results
  <2>3. ASSUME NEW q \in Requests, q # r PROVE stage'[q] = stage[q] /\ result'[q] = result[q]
    BY <1>0, <2>1, <2>3 DEF Types
  <2>4. stage'[r] = "done" /\ result'[r] = Protocol
    BY <1>0, <2>1 DEF Types
  <2>5. Numbered'
    BY <1>0, <2>1, <2>3, <2>4 DEF Numbered
  <2>6. Delivered'
    BY <1>0, <2>1, <2>3, <2>4 DEF Delivered
  <2>7. Reported'
    <3>1. \A q \in WellFormed : stage'[q] = stage[q] /\ Event(q, result[q])' = Event(q, result[q])
      BY <1>0, <2>1, <2>3 DEF Event
    <3> QED BY <1>0, <2>1, <3>1 DEF Reported
  <2> QED BY <2>2, <2>5, <2>6, <2>7 DEF IInv
<1>3. ASSUME NEW r \in Requests, Write(r) PROVE IInv'
  <2>1. /\ stage[r] = "numbered" /\ r \in WellFormed
        /\ stage' = [stage EXCEPT ![r] = "written"]
        /\ UNCHANGED <<next, id, got, result, events>>
    BY <1>3 DEF Write
  <2>2. Types'
    BY <1>0, <2>1 DEF Types, Stages
  <2>3. \A q \in Requests : /\ stage'[q] = "done" <=> stage[q] = "done"
                            /\ stage'[q] = "idle" <=> stage[q] = "idle"
                            /\ stage'[q] = "written" <=> stage[q] = "written" \/ q = r
    BY <1>0, <2>1 DEF Types
  <2>4. Numbered'
    BY <1>0, <2>1, <2>3 DEF Numbered
  <2>5. Delivered'
    BY <1>0, <2>1, <2>3 DEF Delivered
  <2>6. Reported'
    <3>1. \A q \in WellFormed : /\ stage'[q] = "done" <=> stage[q] = "done"
                                /\ Event(q, result[q])' = Event(q, result[q])
      BY <1>0, <2>1, <2>3 DEF Event
    <3> QED BY <1>0, <2>1, <3>1 DEF Reported
  <2> QED BY <2>2, <2>4, <2>5, <2>6 DEF IInv
<1>4. ASSUME NEW r \in Requests, stage[r] = "written" PROVE r \in WellFormed
  BY <1>0, <1>4 DEF Delivered
<1>5. ASSUME NEW r \in Requests, CarrierFails(r) PROVE IInv'
  <2> DEFINE none == <<>>
  <2>1. stage[r] = "written" /\ Finish(r, Carrier) /\ got' = got
    BY <1>5 DEF CarrierFails
  <2>2. r \in WellFormed
    BY <1>4, <2>1
  <2>3. got[r] = none /\ got \in [Requests -> Seq(Frames)]
    BY <1>0, <2>1 DEF Delivered, Types
  <2>4. got' = [got EXCEPT ![r] = none]
    BY <2>1, <2>3
  <2>5. none \in Seq(Frames) /\ Carrier \in Results /\ Len(none) = 0
    BY DEF Results
  <2>6. \A i \in 1 .. Len(none) : none[i].id = id[none[i].of] /\ none[i].id # 0
    BY <2>5
  <2>7. Carrier \in {Protocol, Carrier}
    OBVIOUS
  <2> HIDE DEF none
  <2>8. none = <<>>
    BY DEF none
  <2> QED BY <2>1, <2>2, <2>4, <2>5, <2>6, <2>7, <2>8, FinishKeeps
<1>6. ASSUME NEW r \in Requests, NEW frames \in Answers, Answered(r, frames) PROVE IInv'
  <2>1. /\ stage[r] = "written" /\ got' = [got EXCEPT ![r] = frames]
        /\ Finish(r, UnaryAnswer(id[r], frames))
    BY <1>6 DEF Answered
  <2>2. PICK n \in 0 .. MaxAnswer : frames \in [1 .. n -> Arrivable]
    BY DEF Answers
  <2>3. Arrivable \subseteq Frames
    BY <1>0 DEF Arrivable, Frames, Types
  <2>4. n \in Nat
    BY CallAssumption
  <2>5. frames \in Seq(Frames) /\ Len(frames) = n
    BY <2>2, <2>3, <2>4
  <2>6. \A i \in 1 .. Len(frames) : frames[i].id = id[frames[i].of] /\ frames[i].id # 0
    BY <2>2, <2>5 DEF Arrivable
  <2>7. UnaryAnswer(id[r], frames) \in Results
    BY <1>0, <2>5, AnswerFacts DEF Types, Results
  <2> QED BY <1>4, <2>1, <2>5, <2>6, <2>7, FinishKeeps
<1>7. CASE UNCHANGED vars
  BY <1>0, <1>7 DEF vars, IInv, Types, Numbered, Delivered, Reported, Event
<1> QED BY <1>1, <1>2, <1>3, <1>5, <1>6, <1>7 DEF Next

\* IInv holds in every reachable state.
LEMMA Reachable == Spec => []IInv
BY InitInv, NextInv, PTL DEF Spec

-----------------------------------------------------------------------------
\* A body that call returns is the answer to that very call, with any number of
\* calls on the connection and any frames handed to any of them: an accepted
\* frame carries the call's id, and ids are taken once (unary_answer, next_id).
THEOREM NoCrossTalkHolds == Spec => []NoCrossTalk
<1>1. IInv => NoCrossTalk
  <2> SUFFICES ASSUME IInv, NEW r \in Requests, NEW q \in Requests, result[r] = Ok(q)
               PROVE  q = r
    BY DEF NoCrossTalk
  <2>1. Types /\ Numbered /\ Delivered
    BY DEF IInv
  <2>2. result[r] \notin {Protocol, Carrier, Pending} /\ result[r].outcome = "ok"
    BY DEF Ok, Protocol, Carrier, Pending
  <2>3. result[r] = UnaryAnswer(id[r], got[r])
    BY <2>1, <2>2 DEF Delivered
  <2>4. id[r] \in Nat /\ got[r] \in Seq(Frames)
    BY <2>1 DEF Types
  <2>5. PICK i \in 1 .. Len(got[r]) : got[r][i].id = id[r] /\ result[r] = Ok(got[r][i].of)
    BY <2>2, <2>3, <2>4, AnswerFacts
  <2>6. got[r][i].of = q
    BY <2>5 DEF Ok
  <2>7. id[q] = id[r] /\ id[r] # 0
    BY <2>1, <2>5, <2>6 DEF Delivered
  <2> QED BY <2>1, <2>7 DEF Numbered
<1> QED BY <1>1, Reachable, PTL

\* For answers of any length, the loop of unary_answer accepts, and reports a
\* failure of the server, exactly as can be read off the frames as a whole.
THEOREM StrictOnShapeHolds == Spec => []StrictOnShape
<1>1. IInv => StrictOnShape
  <2> SUFFICES ASSUME IInv, NEW r \in Requests
               PROVE  /\ result[r].outcome = "ok" =>
                           /\ FirstDeciding(id[r], got[r]) = {}
                           /\ {"data", "end"} \subseteq {got[r][i].kind : i \in 1 .. Len(got[r])}
                      /\ result[r] = Remote <=>
                           \E i \in FirstDeciding(id[r], got[r]) :
                             got[r][i].id = id[r] /\ got[r][i].kind = "error"
    BY DEF StrictOnShape
  <2>1. id[r] \in Nat /\ got[r] \in Seq(Frames)
    BY DEF IInv, Types
  <2>2. CASE result[r] = UnaryAnswer(id[r], got[r])
    BY <2>1, <2>2, AnswerFacts
  <2>3. CASE result[r] \in {Protocol, Carrier, Pending} /\ got[r] = <<>>
    <3>1. FirstDeciding(id[r], got[r]) = {}
      BY <2>3 DEF FirstDeciding
    <3>2. result[r].outcome # "ok" /\ result[r] # Remote
      BY <2>3 DEF Protocol, Carrier, Pending, Remote
    <3> QED BY <3>1, <3>2
  <2> QED BY <2>2, <2>3 DEF IInv, Delivered
<1> QED BY <1>1, Reachable, PTL

\* The sink is told of every exchange that ended, and once, under an id that
\* no other call has (observe).
THEOREM ObservedOnceHolds == Spec => []ObservedOnce
<1>1. IInv => ObservedOnce
  <2> SUFFICES ASSUME IInv, NEW r \in WellFormed, stage[r] = "done"
               PROVE  /\ Cardinality({i \in 1 .. Len(events) : events[i].id = id[r]}) = 1
                      /\ \E i \in 1 .. Len(events) :
                           events[i] = [id |-> id[r], outcome |-> result[r].outcome]
    BY DEF ObservedOnce
  <2>1. PICK i \in 1 .. Len(events) : events[i] = Event(r, result[r])
    BY DEF IInv, Reported
  <2>2. {j \in 1 .. Len(events) : events[j].id = id[r]} = {i}
    BY <2>1 DEF IInv, Reported, Event
  <2>3. Cardinality({i}) = 1
    BY FS_Singleton
  <2> QED BY <2>1, <2>2, <2>3 DEF Event
<1> QED BY <1>1, Reachable, PTL
=============================================================================
