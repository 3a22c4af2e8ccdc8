--------------------------- MODULE OptoSyncProofs ---------------------------
(***************************************************************************)
(* Proofs about OptoSync for any calls, any requests and any number of     *)
(* foreign changes.  CallInv ties how far a call is to what it returned    *)
(* and to its entries in the log; TurnInv says that the calls of a Rust    *)
(* client do not overlap, so that the last entry is its own while it reads *)
(* back.                                                                   *)
(***************************************************************************)
EXTENDS OptoSync, TLAPS

Stages == {"idle", "direct", "resolved", "queued", "done"}

\* The log is a sequence; what its records are the model leaves open.
LogShape ==
  /\ Len(log) \in Nat
  /\ DOMAIN log = 1 .. Len(log)
  /\ \E S : log \in Seq(S)

LEMMA AppendFacts ==
  ASSUME NEW seq, \E S : seq \in Seq(S), NEW e
  PROVE  /\ \E S : Append(seq, e) \in Seq(S)
         /\ Len(seq) \in Nat
         /\ DOMAIN seq = 1 .. Len(seq)
         /\ Len(Append(seq, e)) = Len(seq) + 1
         /\ DOMAIN Append(seq, e) = 1 .. Len(seq) + 1
         /\ \A i \in 1 .. Len(seq) : Append(seq, e)[i] = seq[i]
         /\ Append(seq, e)[Len(seq) + 1] = e
<1>1. PICK S : seq \in Seq(S)
  OBVIOUS
<1>2. seq \in Seq(S \cup {e})
  BY <1>1
<1>3. Append(seq, e) \in Seq(S \cup {e})
  BY <1>2
<1> QED BY <1>2, <1>3

LEMMA Outcomes ==
  /\ Nothing.outcome = "none"
  /\ \A value : Returned(value).outcome = "ok" /\ Returned(value).value = value
  /\ \A why : Failed(why).outcome = why
BY DEF Nothing, Returned, Failed

CallInv ==
  /\ port \in Ports
  /\ stage \in [Calls -> Stages]
  /\ request \in [Calls -> Requests]
  /\ DOMAIN record = Calls
  /\ DOMAIN result = Calls
  /\ \A c \in Calls :
       /\ stage[c] = "direct" => ~Queueable(request[c])
       /\ stage[c] \in {"resolved", "queued"} => Queueable(request[c])
       /\ stage[c] # "done" => result[c].outcome = "none"
       /\ result[c].outcome \in Failures \cup {"none", "ok"}

WellFormed(mutation) ==
  /\ mutation.call \in Calls
  /\ mutation.operation \in {"upsert", "delete"}
  /\ mutation.operation = "delete" => mutation.value = ""

LogInv ==
  /\ LogShape
  /\ \A i \in 1 .. Len(log) : WellFormed(log[i])
  /\ settled \in 0 .. Len(log)
  /\ remote \in 0 .. MaxRemote

\* The steps by which the log can change, seen from the log.
LEMMA LogStep ==
  ASSUME CallInv, LogInv, [Next]_vars
  PROVE  \/ UNCHANGED log
         \/ \E c \in Calls : Enqueue(c)
BY DEF Next, vars, GoDirect, DirectEnds, Resolve, NoRecord, NoPayload, QueueFails,
       ReadBack, ReadBackFails, Settle, PullRemote

\* A step that enters nothing in the log changes none of the calls entered.
LEMMA CallStep ==
  ASSUME CallInv, [Next]_vars
  PROVE  CallInv'
<1>1. UNCHANGED <<port, request>>
  BY DEF Next, vars, GoDirect, DirectEnds, Resolve, NoRecord, Enqueue, NoPayload,
         QueueFails, ReadBack, ReadBackFails, Settle, PullRemote
<1>2. ASSUME NEW c \in Calls, NEW s \in Stages,
             stage' = [stage EXCEPT ![c] = s], DOMAIN record' = Calls,
             UNCHANGED result, stage[c] # "done", s # "done",
             s = "direct" => ~Queueable(request[c]),
             s \in {"resolved", "queued"} => Queueable(request[c])
      PROVE  CallInv'
  BY <1>1, <1>2 DEF CallInv
<1>3. ASSUME NEW c \in Calls, NEW value, Return(c, value), UNCHANGED record,
             value.outcome \in Failures \cup {"ok"}
      PROVE  CallInv'
  BY <1>1, <1>3 DEF CallInv, Return, Stages
<1>4. ASSUME NEW c \in Calls, GoDirect(c)
      PROVE  CallInv'
  BY <1>2, <1>4 DEF GoDirect, Turn, CallInv, Stages
<1>5. ASSUME NEW c \in Calls, Resolve(c)
      PROVE  CallInv'
  <2>1. DOMAIN record' = Calls
    BY <1>5 DEF Resolve, CallInv
  <2> QED BY <1>2, <1>5, <2>1 DEF Resolve, Turn, CallInv, Stages
<1>6. ASSUME NEW c \in Calls, Enqueue(c)
      PROVE  CallInv'
  BY <1>2, <1>6 DEF Enqueue, CallInv, Stages
<1>7. ASSUME NEW c \in Calls,
             DirectEnds(c) \/ NoRecord(c) \/ NoPayload(c) \/ QueueFails(c)
                \/ ReadBack(c) \/ ReadBackFails(c)
      PROVE  CallInv'
  <2>1. UNCHANGED record
    BY <1>7 DEF DirectEnds, NoRecord, NoPayload, QueueFails, ReadBack, ReadBackFails
  <2>2. PICK value : Return(c, value) /\ value.outcome \in Failures \cup {"ok"}
    BY <1>7, Outcomes DEF DirectEnds, NoRecord, NoPayload, QueueFails, ReadBack,
                          ReadBackFails, Failures
  <2> QED BY <1>3, <2>1, <2>2
<1>8. CASE UNCHANGED <<stage, record, result>>
  BY <1>1, <1>8 DEF CallInv
<1>9. ASSUME (\E taken \in BOOLEAN : Settle(taken)) \/ (\E c \in Calls : PullRemote(record[c]))
             \/ UNCHANGED vars
      PROVE  UNCHANGED <<stage, record, result>>
  BY <1>9 DEF Settle, PullRemote, vars
<1> QED BY <1>4, <1>5, <1>6, <1>7, <1>8, <1>9 DEF Next

\* The log stays one of well-formed mutations.
LEMMA LogInvStep ==
  ASSUME CallInv, LogInv, [Next]_vars
  PROVE  LogInv'
<1>1. CASE UNCHANGED log
  <2>1. settled' \in 0 .. Len(log) /\ remote' \in 0 .. MaxRemote
    <3>1. CASE UNCHANGED <<settled, remote>>
      BY <3>1 DEF LogInv
    <3>2. ASSUME NEW taken \in BOOLEAN, Settle(taken)
          PROVE  settled' \in 0 .. Len(log) /\ remote' = remote
      BY <3>2 DEF Settle, LogInv, LogShape
    <3>3. ASSUME NEW id, PullRemote(id)
          PROVE  settled' = settled /\ remote' \in 0 .. MaxRemote
      BY <3>3, RequestAssumption DEF PullRemote, LogInv
    <3>4. \/ UNCHANGED <<settled, remote>>
          \/ \E taken \in BOOLEAN : Settle(taken)
          \/ \E id : PullRemote(id)
      BY DEF Next, vars, GoDirect, DirectEnds, Resolve, NoRecord, Enqueue, NoPayload,
             QueueFails, ReadBack, ReadBackFails
    <3> QED BY <3>1, <3>2, <3>3, <3>4 DEF LogInv
  <2> QED BY <1>1, <2>1 DEF LogInv, LogShape
<1>2. ASSUME NEW c \in Calls, Enqueue(c)
      PROVE  LogInv'
  <2>1. log' = Append(log, Mutation(c)) /\ UNCHANGED <<settled, remote>>
    BY <1>2 DEF Enqueue
  <2>2. WellFormed(Mutation(c))
    <3>1. request[c].operation \in {"upsert", "delete"}
      BY RequestAssumption DEF CallInv
    <3> QED BY <3>1 DEF Mutation, WellFormed
  <2>3. LogShape'
    BY <2>1, AppendFacts DEF LogInv, LogShape
  <2>4. /\ Len(log') = Len(log) + 1
        /\ \A i \in 1 .. Len(log) : log'[i] = log[i]
        /\ log'[Len(log) + 1] = Mutation(c)
    BY <2>1, AppendFacts DEF LogInv, LogShape
  <2>5. \A i \in 1 .. Len(log') : WellFormed(log'[i])
    BY <2>2, <2>4 DEF LogInv, LogShape
  <2>6. settled' \in 0 .. Len(log')
    BY <2>1, <2>4 DEF LogInv, LogShape
  <2> QED BY <2>1, <2>3, <2>5, <2>6 DEF LogInv, WellFormed
<1> QED BY <1>1, <1>2, LogStep

LEMMA InitShapes == Init => CallInv /\ LogInv
<1> SUFFICES ASSUME Init PROVE CallInv /\ LogInv
  OBVIOUS
<1>1. CallInv
  BY Outcomes DEF Init, CallInv, Stages
<1>2. log = <<>> /\ settled = 0 /\ remote = 0
  BY DEF Init
<1>3. log \in Seq({})
  BY <1>2
<1>4. LogShape /\ Len(log) = 0
  BY <1>2, <1>3 DEF LogShape
<1>5. LogInv
  BY <1>2, <1>4, RequestAssumption DEF LogInv
<1> QED BY <1>1, <1>5

LEMMA ShapesInvariant == Spec => [](CallInv /\ LogInv)
<1>1. CallInv /\ LogInv /\ [Next]_vars => (CallInv /\ LogInv)'
  BY CallStep, LogInvStep
<1> QED BY InitShapes, <1>1, PTL DEF Spec
-----------------------------------------------------------------------------
\* The state keeps its types, and a queued delete carries no data.
THEOREM OptoTypeCorrect == Spec => []TypeOK
<1>1. CallInv /\ LogInv => TypeOK
  BY DEF CallInv, LogInv, LogShape, WellFormed, TypeOK, Stages
<1> QED BY ShapesInvariant, <1>1, PTL
-----------------------------------------------------------------------------
Durable(c) ==
  /\ Queueable(request[c])
  /\ stage[c] = "queued" \/ result[c].outcome \in AfterTheQueue

\* Only Enqueue makes a call durable, and nothing undoes it.
LEMMA DurableStep ==
  ASSUME CallInv, [Next]_vars, NEW d \in Calls
  PROVE  /\ ~Enqueue(d) => (Durable(d)' <=> Durable(d))
         /\ Durable(d) => record'[d] = record[d]
         /\ Enqueue(d) => ~Durable(d) /\ Durable(d)' /\ record'[d] = record[d]
<1> USE DEF Durable, AfterTheQueue
<1>1. UNCHANGED request
  BY DEF Next, vars, GoDirect, DirectEnds, Resolve, NoRecord, Enqueue, NoPayload,
         QueueFails, ReadBack, ReadBackFails, Settle, PullRemote
<1>2. stage[d] # "done" => result[d].outcome = "none"
  BY DEF CallInv
<1>3. ASSUME NEW c \in Calls, GoDirect(c) \/ Resolve(c)
      PROVE  /\ ~Enqueue(d)
             /\ Durable(d)' <=> Durable(d)
             /\ Durable(d) => record'[d] = record[d]
  BY <1>1, <1>2, <1>3 DEF GoDirect, Resolve, Enqueue, Turn, CallInv
<1>4. ASSUME NEW c \in Calls, Enqueue(c)
      PROVE  /\ d # c => ~Enqueue(d) /\ (Durable(d)' <=> Durable(d))
             /\ d = c => ~Durable(d) /\ Durable(d)'
             /\ record'[d] = record[d]
  BY <1>1, <1>2, <1>4 DEF Enqueue, CallInv
<1>5. ASSUME NEW c \in Calls,
             DirectEnds(c) \/ NoRecord(c) \/ NoPayload(c) \/ QueueFails(c)
      PROVE  /\ ~Enqueue(d)
             /\ Durable(d)' <=> Durable(d)
             /\ record'[d] = record[d]
  <2>1. PICK value : Return(c, value) /\ (value.outcome \in AfterTheQueue => DirectEnds(c))
    BY <1>5, Outcomes DEF DirectEnds, NoRecord, NoPayload, QueueFails
  <2>2. ~Enqueue(d) /\ UNCHANGED record
    BY <1>5, <2>1 DEF DirectEnds, NoRecord, NoPayload, QueueFails, Return, Enqueue, Turn, CallInv
  <2>3. stage[c] \in {"direct", "idle", "resolved"} /\ (DirectEnds(c) => ~Queueable(request[c]))
    BY <1>5 DEF DirectEnds, NoRecord, NoPayload, QueueFails, Turn, CallInv
  <2> QED BY <1>1, <1>2, <2>1, <2>2, <2>3 DEF Return, CallInv
<1>6. ASSUME NEW c \in Calls, ReadBack(c) \/ ReadBackFails(c)
      PROVE  /\ ~Enqueue(d)
             /\ Durable(d)' <=> Durable(d)
             /\ record'[d] = record[d]
  <2>1. PICK value : Return(c, value) /\ value.outcome \in AfterTheQueue
    BY <1>6, Outcomes DEF ReadBack, ReadBackFails
  <2>2. ~Enqueue(d) /\ UNCHANGED record /\ stage[c] = "queued"
    BY <1>6, <2>1 DEF ReadBack, ReadBackFails, Return, Enqueue, CallInv
  <2> QED BY <1>1, <2>1, <2>2 DEF Return, CallInv
<1>7. ASSUME (\E taken \in BOOLEAN : Settle(taken)) \/ (\E c \in Calls : PullRemote(record[c]))
             \/ UNCHANGED vars
      PROVE  /\ ~Enqueue(d)
             /\ Durable(d)' <=> Durable(d)
             /\ record'[d] = record[d]
  <2>1. UNCHANGED <<stage, record, result, log>>
    BY <1>7 DEF Settle, PullRemote, vars
  <2>2. ~Enqueue(d)
    BY <2>1 DEF Enqueue, CallInv
  <2> QED BY <1>1, <2>1, <2>2
<1> QED BY <1>3, <1>4, <1>5, <1>6, <1>7 DEF Next

\* What Enqueue makes of a call's entries.
LEMMA EnqueueMutations ==
  ASSUME CallInv, LogInv, NEW c \in Calls, Enqueue(c), NEW d \in Calls
  PROVE  /\ Len(log') = Len(log) + 1
         /\ Len(log) \in Nat
         /\ \A i \in 1 .. Len(log) : log'[i] = log[i]
         /\ log'[Len(log) + 1].record = record[c]
         /\ log'[Len(log) + 1].call = c
         /\ d # c => Mutations(d)' = Mutations(d)
         /\ d = c => Mutations(d)' = Mutations(d) \cup {Len(log) + 1}
<1>1. log' = Append(log, Mutation(c))
  BY DEF Enqueue
<1>2. /\ Len(log) \in Nat
      /\ DOMAIN log = 1 .. Len(log)
      /\ Len(log') = Len(log) + 1
      /\ DOMAIN log' = 1 .. Len(log) + 1
      /\ \A i \in 1 .. Len(log) : log'[i] = log[i]
      /\ log'[Len(log) + 1] = Mutation(c)
  BY <1>1, AppendFacts DEF LogInv, LogShape
<1>3. Mutation(c).call = c /\ Mutation(c).record = record[c]
  BY DEF Mutation
<1>4. log'[Len(log) + 1].call = c /\ log'[Len(log) + 1].record = record[c]
  BY <1>2, <1>3
<1>5. \A i : i \in Mutations(d)' <=> (i \in Mutations(d) \/ (i = Len(log) + 1 /\ d = c))
  <2> SUFFICES ASSUME NEW i
               PROVE  i \in Mutations(d)' <=> (i \in Mutations(d) \/ (i = Len(log) + 1 /\ d = c))
    OBVIOUS
  <2>1. i \in DOMAIN log' <=> i \in DOMAIN log \/ i = Len(log) + 1
    BY <1>2
  <2>2. Len(log) + 1 \notin DOMAIN log
    BY <1>2
  <2> QED BY <1>2, <1>4, <2>1, <2>2 DEF Mutations
<1> QED BY <1>2, <1>4, <1>5

Once(c) == IF Durable(c)
           THEN \E i \in Mutations(c) : Mutations(c) = {i} /\ log[i].record = record[c]
           ELSE Mutations(c) = {}

LEMMA OnceStep ==
  ASSUME CallInv, LogInv, \A c \in Calls : Once(c), [Next]_vars
  PROVE  \A c \in Calls : Once(c)'
<1> SUFFICES ASSUME NEW d \in Calls PROVE Once(d)'
  OBVIOUS
<1>1. CASE UNCHANGED log
  <2>1. ~Enqueue(d)
    <3>1. Enqueue(d) => Len(log') = Len(log) + 1 /\ Len(log) \in Nat
      BY EnqueueMutations
    <3>2. Len(log') = Len(log)
      BY <1>1
    <3> QED BY <3>1, <3>2
  <2>2. Mutations(d)' = Mutations(d)
    BY <1>1 DEF Mutations
  <2>3. (Durable(d)' <=> Durable(d)) /\ (Durable(d) => record'[d] = record[d])
    BY <2>1, DurableStep
  <2> QED BY <1>1, <2>2, <2>3 DEF Once
<1>2. ASSUME NEW c \in Calls, Enqueue(c), c = d
      PROVE  Once(d)'
  <2>1. Mutations(d)' = Mutations(d) \cup {Len(log) + 1}
    BY <1>2, EnqueueMutations
  <2>2. ~Durable(d) /\ Durable(d)' /\ record'[d] = record[d]
    BY <1>2, DurableStep
  <2>3. Mutations(d) = {}
    BY <2>2 DEF Once
  <2>4. log'[Len(log) + 1].record = record'[d]
    BY <1>2, <2>2, EnqueueMutations
  <2> QED BY <2>1, <2>2, <2>3, <2>4 DEF Once
<1>3. ASSUME NEW c \in Calls, Enqueue(c), c # d
      PROVE  Once(d)'
  <2>1. Mutations(d)' = Mutations(d) /\ \A i \in 1 .. Len(log) : log'[i] = log[i]
    BY <1>3, EnqueueMutations
  <2>2. Mutations(d) \subseteq 1 .. Len(log)
    BY DEF Mutations, LogInv, LogShape
  <2>3. ~Enqueue(d)
    BY <1>3 DEF Enqueue, CallInv
  <2>4. (Durable(d)' <=> Durable(d)) /\ (Durable(d) => record'[d] = record[d])
    BY <2>3, DurableStep
  <2> QED BY <2>1, <2>2, <2>4 DEF Once
<1> QED BY <1>1, <1>2, <1>3, LogStep

LEMMA OnceInvariant == Spec => [](CallInv /\ LogInv /\ \A c \in Calls : Once(c))
<1>1. Init => \A c \in Calls : Once(c)
  <2> SUFFICES ASSUME Init, NEW c \in Calls PROVE Once(c)
    OBVIOUS
  <2>1. log = <<>> /\ stage[c] = "idle" /\ result[c].outcome = "none"
    BY Outcomes DEF Init
  <2>2. Mutations(c) = {}
    BY <2>1 DEF Mutations
  <2> QED BY <2>1, <2>2 DEF Once, Durable, AfterTheQueue
<1>2. /\ CallInv /\ LogInv /\ (\A c \in Calls : Once(c))
      /\ [Next]_vars
      => (CallInv /\ LogInv /\ \A c \in Calls : Once(c))'
  BY CallStep, LogInvStep, OnceStep
<1> QED BY InitShapes, <1>1, <1>2, PTL DEF Spec

\* What a call reports tells whether its mutation is in the log, and it is
\* there once at most.
THEOREM QueuedOnceHolds == Spec => []QueuedOnce
<1>1. (\A c \in Calls : Once(c)) => QueuedOnce
  BY DEF Once, Durable, QueuedOnce
<1> QED BY <1>1, OnceInvariant, PTL
-----------------------------------------------------------------------------
\* Calls of a Rust client do not overlap, so that a call that waits for its
\* read back made the last entry.
TurnInv ==
  port = "rust" =>
    /\ \A c, d \in Calls : Between(c) /\ Between(d) => c = d
    /\ \A c \in Calls : stage[c] = "queued" => \A i \in Mutations(c) : i = Len(log)

LEMMA TurnStep ==
  ASSUME CallInv, LogInv, \A c \in Calls : Once(c), TurnInv, [Next]_vars
  PROVE  TurnInv'
<1> SUFFICES ASSUME port' = "rust" PROVE TurnInv'
  BY DEF TurnInv
<1>1. port = "rust"
  BY DEF Next, vars, GoDirect, DirectEnds, Resolve, NoRecord, Enqueue, NoPayload,
         QueueFails, ReadBack, ReadBackFails, Settle, PullRemote
<1>2. ASSUME UNCHANGED log,
             \A c \in Calls : stage'[c] = "queued" => stage[c] = "queued",
             \A c, d \in Calls : Between(c)' /\ Between(d)' => c = d
      PROVE  TurnInv'
  <2>1. \A c \in Calls : Mutations(c)' = Mutations(c)
    BY <1>2 DEF Mutations
  <2> QED BY <1>1, <1>2, <2>1 DEF TurnInv
<1>3. ASSUME NEW c \in Calls, GoDirect(c) \/ Resolve(c)
      PROVE  TurnInv'
  <2>1. Turn(c) /\ UNCHANGED log
    BY <1>3 DEF GoDirect, Resolve
  <2>2. stage'[c] \in {"direct", "resolved"} /\ \A d \in Calls \ {c} : stage'[d] = stage[d]
    BY <1>3 DEF GoDirect, Resolve, CallInv
  <2>3. \A d \in Calls : Between(d)' => d = c
    BY <1>1, <2>1, <2>2 DEF Turn, Between
  <2> QED BY <1>2, <2>1, <2>2, <2>3
<1>4. ASSUME NEW c \in Calls, Enqueue(c)
      PROVE  TurnInv'
  <2>1. stage[c] = "resolved" /\ stage' = [stage EXCEPT ![c] = "queued"]
    BY <1>4 DEF Enqueue
  <2>2. \A d \in Calls : Between(d)' => d = c
    BY <1>1, <2>1 DEF Between, TurnInv, CallInv
  <2>3. Mutations(c) = {}
    BY <1>4, DurableStep DEF Once
  <2>4. Mutations(c)' = Mutations(c) \cup {Len(log) + 1} /\ Len(log') = Len(log) + 1
    BY <1>4, EnqueueMutations
  <2>5. \A i \in Mutations(c)' : i = Len(log')
    BY <2>3, <2>4
  <2>6. \A d \in Calls : stage'[d] = "queued" => d = c
    BY <2>2 DEF Between
  <2> QED BY <2>2, <2>5, <2>6 DEF TurnInv
<1>5. ASSUME NEW c \in Calls,
             DirectEnds(c) \/ NoRecord(c) \/ NoPayload(c) \/ QueueFails(c)
                \/ ReadBack(c) \/ ReadBackFails(c)
      PROVE  TurnInv'
  <2>1. UNCHANGED log /\ stage' = [stage EXCEPT ![c] = "done"]
    BY <1>5 DEF DirectEnds, NoRecord, NoPayload, QueueFails, ReadBack, ReadBackFails, Return
  <2>2. \A d \in Calls : Between(d)' => Between(d)
    BY <2>1 DEF Between, CallInv
  <2>3. \A d \in Calls : stage'[d] = "queued" => stage[d] = "queued"
    BY <2>1 DEF CallInv
  <2> QED BY <1>1, <1>2, <2>1, <2>2, <2>3 DEF TurnInv
<1>6. ASSUME UNCHANGED <<stage, log>>
      PROVE  TurnInv'
  BY <1>1, <1>2, <1>6 DEF TurnInv, Between
<1>7. ASSUME (\E taken \in BOOLEAN : Settle(taken)) \/ (\E c \in Calls : PullRemote(record[c]))
             \/ UNCHANGED vars
      PROVE  UNCHANGED <<stage, log>>
  BY <1>7 DEF Settle, PullRemote, vars
<1> QED BY <1>3, <1>4, <1>5, <1>6, <1>7 DEF Next
-----------------------------------------------------------------------------
\* What makes the value a call returned truthful for its entry i.
Truthful(c, i) ==
  \/ \E j \in i .. Len(log) :
       /\ log[j].record = record[c]
       /\ Written(j, result[c].value)
       /\ j # i => port = "typescript"
  \/ i <= settled

\* A call returns by one of two actions; nothing touches its result again.
LEMMA ResultStep ==
  ASSUME CallInv, [Next]_vars, NEW c \in Calls
  PROVE  \/ result'[c] = result[c]
         \/ result'[c].outcome # "ok"
         \/ DirectEnds(c)
         \/ ReadBack(c)
<1>1. ASSUME NEW d \in Calls, DirectEnds(d) \/ ReadBack(d)
      PROVE  result'[c] = result[c] \/ d = c
  <2>1. PICK value : Return(d, value)
    BY <1>1 DEF DirectEnds, ReadBack
  <2> QED BY <2>1 DEF Return, CallInv
<1>2. ASSUME NEW d \in Calls,
             NoRecord(d) \/ NoPayload(d) \/ QueueFails(d) \/ ReadBackFails(d)
      PROVE  result'[c] = result[c] \/ result'[c].outcome # "ok"
  <2>1. PICK value : Return(d, value) /\ value.outcome # "ok"
    BY <1>2, Outcomes DEF NoRecord, NoPayload, QueueFails, ReadBackFails
  <2> QED BY <2>1 DEF Return, CallInv
<1>3. ASSUME NEW d \in Calls, GoDirect(d) \/ Resolve(d) \/ Enqueue(d)
      PROVE  UNCHANGED result
  BY <1>3 DEF GoDirect, Resolve, Enqueue
<1>4. ASSUME (\E taken \in BOOLEAN : Settle(taken)) \/ (\E d \in Calls : PullRemote(record[d]))
             \/ UNCHANGED vars
      PROVE  UNCHANGED result
  BY <1>4 DEF Settle, PullRemote, vars
<1> QED BY <1>1, <1>2, <1>3, <1>4 DEF Next

\* What is read back while the call's own entry waits for the server.
LEMMA ReadBackTruthful ==
  ASSUME CallInv, LogInv, \A c \in Calls : Once(c), TurnInv,
         NEW c \in Calls, ReadBack(c), result'[c].outcome = "ok",
         NEW i \in Mutations(c), ~(i <= settled)
  PROVE  \E j \in i .. Len(log) :
           /\ log[j].record = record[c]
           /\ Written(j, result'[c].value)
           /\ j # i => port = "typescript"
<1>1. stage[c] = "queued" /\ Durable(c)
  BY DEF ReadBack, Durable, CallInv
<1>2. log[i].record = record[c]
  BY <1>1 DEF Once
<1>3. PICK value \in LocalJson(record[c]) : result'[c].value = value
  <2>1. CASE LocalJson(record[c]) = {}
    <3>1. result'[c] = Failed("no_local_projection")
      BY <2>1 DEF ReadBack, Return, CallInv
    <3> QED BY <3>1, Outcomes
  <2>2. CASE LocalJson(record[c]) # {}
    <3>1. PICK value \in LocalJson(record[c]) : Return(c, Returned(value))
      BY <2>2 DEF ReadBack
    <3>2. result'[c] = Returned(value)
      BY <3>1 DEF Return, CallInv
    <3> QED BY <3>2, Outcomes
  <2> QED BY <2>1, <2>2
<1>4. i \in Pending(record[c])
  BY <1>2 DEF Pending, Mutations, LogInv, LogShape
<1>5. PICK k \in Pending(record[c]) :
        /\ \A j \in Pending(record[c]) : j <= k
        /\ value \in ValueOf(log[k])
  BY <1>4 DEF LocalJson
<1>6. k \in i .. Len(log) /\ log[k].record = record[c] /\ k \in 1 .. Len(log)
  BY <1>4, <1>5 DEF Pending, LogInv, LogShape
<1>7. Written(k, value)
  <2>1. log[k].operation # "delete" /\ value = log[k].value
    BY <1>5 DEF ValueOf
  <2>2. WellFormed(log[k])
    BY <1>6 DEF LogInv
  <2> QED BY <2>1, <2>2 DEF WellFormed, Written
<1>8. k # i => port = "typescript"
  <2>1. port = "rust" => i = Len(log)
    BY <1>1 DEF TurnInv
  <2> QED BY <2>1, <1>6 DEF CallInv, Ports, LogInv, LogShape
<1> QED BY <1>3, <1>6, <1>7, <1>8

\* An entry that is followed by others stays truthful.
LEMMA TruthfulStep ==
  ASSUME CallInv, LogInv, [Next]_vars, NEW c \in Calls, NEW i \in 1 .. Len(log),
         Truthful(c, i), result'[c] = result[c], record'[c] = record[c]
  PROVE  Truthful(c, i)'
<1>1. UNCHANGED port
  BY DEF Next, vars, GoDirect, DirectEnds, Resolve, NoRecord, Enqueue, NoPayload,
         QueueFails, ReadBack, ReadBackFails, Settle, PullRemote
<1>2. /\ Len(log) \in Nat /\ Len(log') \in Nat
      /\ Len(log) <= Len(log')
      /\ \A j \in 1 .. Len(log) : log'[j] = log[j]
  <2>1. CASE UNCHANGED log
    BY <2>1 DEF LogInv, LogShape
  <2>2. ASSUME NEW d \in Calls, Enqueue(d)
        PROVE  /\ Len(log) \in Nat /\ Len(log') = Len(log) + 1
               /\ \A j \in 1 .. Len(log) : log'[j] = log[j]
    BY <2>2, EnqueueMutations
  <2> QED BY <2>1, <2>2, LogStep
<1>3. settled' = settled \/ settled' = settled + 1
  BY DEF Next, vars, GoDirect, DirectEnds, Resolve, NoRecord, Enqueue, NoPayload,
         QueueFails, ReadBack, ReadBackFails, Settle, PullRemote
<1>4. i <= settled => i <= settled'
  BY <1>3 DEF LogInv, LogShape
<1>5. ASSUME NEW j \in i .. Len(log),
             log[j].record = record[c], Written(j, result[c].value),
             j # i => port = "typescript"
      PROVE  /\ j \in i .. Len(log')
             /\ log'[j].record = record'[c]
             /\ Written(j, result[c].value)'
             /\ j # i => port' = "typescript"
  <2>1. j \in 1 .. Len(log) /\ j \in i .. Len(log')
    BY <1>2
  <2>2. log'[j] = log[j]
    BY <1>2, <2>1
  <2> QED BY <1>1, <1>5, <2>1, <2>2 DEF Written
<1> QED BY <1>4, <1>5 DEF Truthful

ReturnInv ==
  \A c \in Calls : result[c].outcome = "ok" => \A i \in Mutations(c) : Truthful(c, i)

LEMMA ReturnStep ==
  ASSUME CallInv, LogInv, \A c \in Calls : Once(c), TurnInv, ReturnInv, [Next]_vars
  PROVE  ReturnInv'
<1> SUFFICES ASSUME NEW c \in Calls, result'[c].outcome = "ok", NEW i \in Mutations(c)'
             PROVE  Truthful(c, i)'
  BY DEF ReturnInv
<1>1. CASE ReadBack(c)
  <2>1. UNCHANGED <<port, log, record, settled>>
    BY <1>1 DEF ReadBack
  <2>2. i \in Mutations(c)
    BY <2>1 DEF Mutations
  <2>3. CASE i <= settled
    BY <2>1, <2>3 DEF Truthful
  <2>4. CASE ~(i <= settled)
    <3>1. PICK j \in i .. Len(log) :
            /\ log[j].record = record[c]
            /\ Written(j, result'[c].value)
            /\ j # i => port = "typescript"
      BY <1>1, <2>2, <2>4, ReadBackTruthful
    <3> QED BY <2>1, <3>1 DEF Truthful, Written
  <2> QED BY <2>3, <2>4
<1>2. CASE DirectEnds(c)
  <2>1. UNCHANGED log /\ ~Queueable(request[c])
    BY <1>2 DEF DirectEnds, CallInv
  <2>2. Mutations(c)' = {}
    BY <2>1 DEF Once, Durable, Mutations
  <2> QED BY <2>2
<1>3. CASE result'[c] = result[c]
  <2>1. result[c].outcome = "ok"
    BY <1>3
  <2>2. i \in Mutations(c)
    <3>1. CASE UNCHANGED log
      BY <3>1 DEF Mutations
    <3>2. ASSUME NEW d \in Calls, Enqueue(d)
          PROVE  Mutations(c)' = Mutations(c)
      <4>1. d # c
        BY <3>2, <2>1 DEF Enqueue, CallInv
      <4> QED BY <3>2, <4>1, EnqueueMutations
    <3> QED BY <3>1, <3>2, LogStep
  <2>3. Durable(c)
    BY <2>2 DEF Once
  <2>4. record'[c] = record[c]
    BY <2>3, DurableStep
  <2>5. i \in 1 .. Len(log)
    BY <2>2 DEF Mutations, LogInv, LogShape
  <2>6. Truthful(c, i)
    BY <2>1, <2>2 DEF ReturnInv
  <2> QED BY <1>3, <2>4, <2>5, <2>6, TruthfulStep
<1> QED BY <1>1, <1>2, <1>3, ResultStep

\* A queued call returns its own write, a later one of its record, or what the
\* server has settled, whatever is queued and pulled while it waits.
THEOREM ReturnsOwnOrLaterHolds == Spec => []ReturnsOwnOrLater
<1>1. Init => TurnInv /\ ReturnInv
  <2> SUFFICES ASSUME Init PROVE TurnInv /\ ReturnInv
    OBVIOUS
  <2>1. \A c \in Calls : stage[c] = "idle" /\ result[c].outcome = "none"
    BY Outcomes DEF Init
  <2> QED BY <2>1 DEF TurnInv, ReturnInv, Between
<1>2. /\ CallInv /\ LogInv /\ (\A c \in Calls : Once(c)) /\ TurnInv /\ ReturnInv
      /\ [Next]_vars
      => TurnInv' /\ ReturnInv'
  BY TurnStep, ReturnStep
<1>3. CallInv /\ LogInv /\ ReturnInv => ReturnsOwnOrLater
  BY DEF CallInv, LogInv, LogShape, ReturnInv, Mutations, Truthful, ReturnsOwnOrLater
<1> QED BY <1>1, <1>2, <1>3, OnceInvariant, PTL DEF Spec
-----------------------------------------------------------------------------
(***************************************************************************)
(* The record a write is filed under.                                      *)
(***************************************************************************)

\* An id that RecordId finds is the one the caller means.
LEMMA MeantOnPath ==
  ASSUME NEW r \in Requests, r.from = "path",
         NEW id \in SegmentFor(r.template, r.path, r.name)
  PROVE  id = Given(r.means)
<1>1. PICK k \in DOMAIN r.template \cap DOMAIN r.path :
        r.template[k] = r.name /\ id = Given(r.path[k].text)
  BY DEF SegmentFor
<1>2. r.path[k].text = r.means
  BY <1>1, MeansAssumption
<1> QED BY <1>1, <1>2

LEMMA MeantInBody ==
  ASSUME NEW r \in Requests, r.from = "request", NEW client \in Ports,
         ~(client = "rust" /\ Misleading(r)), NEW id \in FieldOf(client, r)
  PROVE  id = Given(r.means)
<1> DEFINE members == r.body[1].members
           holds(text) == \E i \in DOMAIN members : members[i].name = r.name
                            /\ members[i].kind = "string" /\ members[i].text = text
<1>1. r.body # <<>>
  BY DEF FieldOf
<1>2. \A text : holds(text) => text = r.means
  <2> SUFFICES ASSUME NEW text, NEW i \in DOMAIN members, members[i].name = r.name,
                      members[i].kind = "string", members[i].text = text
               PROVE  text = r.means
    OBVIOUS
  <2> QED BY <1>1, MeansAssumption
<1>3. CASE client = "rust"
  <2>1. PICK text \in FirstMention(members, r.name) : id = Given(text)
    BY <1>1, <1>3 DEF FieldOf
  <2>2. PICK i \in DOMAIN members :
          /\ Mentions(members[i], r.name)
          /\ \/ /\ members[i].name = r.name /\ members[i].kind = "string"
                /\ text = members[i].raw
             \/ /\ members[i].name # r.name /\ members[i].kind = "object"
    BY <2>1 DEF FirstMention
  <2>3. members[i].name = r.name /\ members[i].raw = members[i].text
    BY <1>1, <1>3, <2>2 DEF Misleading
  <2>4. holds(text)
    BY <2>2, <2>3
  <2> QED BY <1>2, <2>1, <2>4
<1>4. CASE client = "typescript"
  <2>1. PICK text \in Parsed(members, r.name) : id = Given(text)
    BY <1>1, <1>4 DEF FieldOf
  <2>2. holds(text)
    BY <2>1 DEF Parsed
  <2> QED BY <1>2, <2>1, <2>2
<1> QED BY <1>3, <1>4 DEF Ports

LEMMA RecordIdMeans ==
  ASSUME NEW r \in Requests, NEW client \in Ports, NEW id \in RecordId(client, r)
  PROVE  r.from = "minted" \/ id = Given(r.means) \/ (client = "rust" /\ Misleading(r))
<1>1. CASE r.from = "path"
  BY <1>1, MeantOnPath DEF RecordId
<1>2. CASE r.from = "request"
  BY <1>2, MeantInBody DEF RecordId
<1> QED BY <1>1, <1>2, RequestAssumption

\* An id found stays with its call until the queue has it; what a call carries
\* does not change.
RecordInv ==
  /\ \A c \in Calls : stage[c] \in {"resolved", "queued"} => record[c] \in RecordId(port, request[c])
  /\ \A i \in 1 .. Len(log) : log[i].record \in RecordId(port, request[log[i].call])

LEMMA RecordStep ==
  ASSUME CallInv, LogInv, RecordInv, [Next]_vars
  PROVE  RecordInv'
<1>1. UNCHANGED <<port, request>>
  BY DEF Next, vars, GoDirect, DirectEnds, Resolve, NoRecord, Enqueue, NoPayload,
         QueueFails, ReadBack, ReadBackFails, Settle, PullRemote
<1>3. ASSUME NEW c \in Calls, stage'[c] \in {"resolved", "queued"}
      PROVE  record'[c] \in RecordId(port, request[c])
  <2>1. ASSUME NEW d \in Calls, Resolve(d)
        PROVE  record'[c] \in RecordId(port, request[c])
    BY <1>3, <2>1 DEF Resolve, RecordInv, CallInv
  <2>2. ASSUME NEW d \in Calls, GoDirect(d) \/ Enqueue(d)
        PROVE  record'[c] \in RecordId(port, request[c])
    BY <1>3, <2>2 DEF GoDirect, Enqueue, RecordInv, CallInv
  <2>3. ASSUME NEW d \in Calls,
               DirectEnds(d) \/ NoRecord(d) \/ NoPayload(d) \/ QueueFails(d)
                 \/ ReadBack(d) \/ ReadBackFails(d)
        PROVE  record'[c] \in RecordId(port, request[c])
    <3>1. UNCHANGED record /\ stage' = [stage EXCEPT ![d] = "done"]
      BY <2>3 DEF DirectEnds, NoRecord, NoPayload, QueueFails, ReadBack, ReadBackFails, Return
    <3> QED BY <1>3, <3>1 DEF RecordInv, CallInv
  <2>4. ASSUME (\E taken \in BOOLEAN : Settle(taken)) \/ (\E d \in Calls : PullRemote(record[d]))
               \/ UNCHANGED vars
        PROVE  UNCHANGED <<stage, record>>
    BY <2>4 DEF Settle, PullRemote, vars
  <2> QED BY <1>3, <2>1, <2>2, <2>3, <2>4 DEF Next, RecordInv
<1>4. ASSUME NEW i \in 1 .. Len(log')
      PROVE  log'[i].record \in RecordId(port, request[log'[i].call])
  <2>1. CASE UNCHANGED log
    BY <1>4, <2>1 DEF RecordInv
  <2>2. ASSUME NEW c \in Calls, Enqueue(c)
        PROVE  log'[i].record \in RecordId(port, request[log'[i].call])
    <3>1. record[c] \in RecordId(port, request[c])
      BY <2>2 DEF Enqueue, RecordInv
    <3>2. CASE i = Len(log) + 1
      BY <2>2, <3>1, <3>2, EnqueueMutations
    <3>3. CASE i \in 1 .. Len(log)
      BY <2>2, <3>3, EnqueueMutations DEF RecordInv
    <3>4. i \in 1 .. Len(log) \/ i = Len(log) + 1
      BY <1>4, <2>2, EnqueueMutations
    <3> QED BY <3>2, <3>3, <3>4
  <2> QED BY <2>1, <2>2, LogStep
<1> QED BY <1>1, <1>3, <1>4 DEF RecordInv

\* A write is filed under the record its caller means, whichever segment or
\* field names it, except by a Rust client whose body misleads the search
\* (segment_for_param, extract_string_field; the parsed body of TypeScript).
THEOREM FiledAsNamedHolds == Spec => []FiledAsNamed
<1>1. Init => RecordInv
  <2> SUFFICES ASSUME Init PROVE RecordInv
    OBVIOUS
  <2>1. (\A c \in Calls : stage[c] = "idle") /\ log = <<>>
    BY DEF Init
  <2> QED BY <2>1 DEF RecordInv
<1>2. CallInv /\ LogInv /\ RecordInv /\ [Next]_vars => (CallInv /\ LogInv /\ RecordInv)'
  BY CallStep, LogInvStep, RecordStep
<1>3. CallInv /\ LogInv /\ RecordInv => FiledAsNamed
  <2> SUFFICES ASSUME CallInv, LogInv, RecordInv, NEW i \in DOMAIN log
               PROVE  Filed(i) \/ (port = "rust" /\ Misleading(request[log[i].call]))
    BY DEF FiledAsNamed
  <2>1. i \in 1 .. Len(log) /\ log[i].call \in Calls
    BY DEF LogInv, LogShape, WellFormed
  <2>2. request[log[i].call] \in Requests /\ port \in Ports
    BY <2>1 DEF CallInv
  <2>3. log[i].record \in RecordId(port, request[log[i].call])
    BY <2>1 DEF RecordInv
  <2> QED BY <2>2, <2>3, RecordIdMeans DEF Filed
<1> QED BY InitShapes, <1>1, <1>2, <1>3, PTL DEF Spec
=============================================================================
