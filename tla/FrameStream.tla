---------------------------- MODULE FrameStream -----------------------------
(***************************************************************************)
(* Length-prefixed frames over a byte stream: Frame.encode_tcp on one end, *)
(* decode_stream and the tail its caller keeps on the other                *)
(* (scripts/vendor/runtime/rust/frame.rs, and the same code in frame.ts    *)
(* and ridl/framing.py).  The network cuts the stream into reads anywhere, *)
(* inside a prefix too.                                                    *)
(*                                                                         *)
(* A payload is a short sequence of bytes and decode an accept set: what   *)
(* is in a frame is the subject of FrameCodec.  Prefixes have PrefixBytes  *)
(* digits of base Base, most significant first.                            *)
(*                                                                         *)
(* Definitions marked Variant are faults of the code that the properties   *)
(* are tested against; no specification uses them.                         *)
(***************************************************************************)
EXTENDS Naturals, Sequences

CONSTANTS
  Payloads,       \* what the peer may send after a prefix, sequences of bytes,
                  \* longer ones than MAX_FRAME_BYTES too
  Decodable,      \* those of them Frame.decode accepts
  PrefixBytes,    \* LENGTH_PREFIX_BYTES, 4
  Base,           \* values of a byte, 256
  MaxFrameBytes,  \* MAX_FRAME_BYTES, 8 MiB
  MaxSent         \* bound on what one connection carries

Bytes == 0 .. Base - 1

\* A length with its lowest bytes cut off, from none of them to all.
Shifted(length) ==
  LET by[k \in 0 .. PrefixBytes] == IF k = 0 THEN length ELSE by[k - 1] \div Base
  IN by

\* Every length that is sent has no more digits than a prefix.
ASSUME StreamAssumption ==
  /\ PrefixBytes \in Nat \ {0}
  /\ Base \in Nat \ {0, 1}
  /\ MaxFrameBytes \in Nat
  /\ Payloads \subseteq Seq(Bytes)
  /\ \A p \in Payloads : Shifted(Len(p))[PrefixBytes] = 0
  /\ Decodable \subseteq Payloads
  /\ \A p \in Decodable : Len(p) <= MaxFrameBytes
  /\ MaxSent \in Nat

VARIABLES
  sent,       \* what the peer put on the connection
  net,        \* bytes not yet read
  tail,       \* bytes the caller kept for the next read
  delivered,  \* payloads of the frames the caller was handed
  open        \* FALSE once decode_stream returned an error

vars == <<sent, net, tail, delivered, open>>

\* Variant: little-endian.
Prefix_LittleEndian(length) ==
  [k \in 1 .. PrefixBytes |-> Shifted(length)[k - 1] % Base]

\* The length as a big-endian number of PrefixBytes digits.
Prefix(length) ==
  [k \in 1 .. PrefixBytes |-> Shifted(length)[PrefixBytes - k] % Base]

\* encode_tcp.
Wire(payload) == Prefix(Len(payload)) \o payload

-----------------------------------------------------------------------------
\* decode_stream.

DeclaredLength(buffer, offset) ==
  LET value[k \in 0 .. PrefixBytes] ==
        IF k = 0 THEN 0 ELSE value[k - 1] * Base + buffer[offset + k]
  IN value[PrefixBytes]

\* Variant: the limit itself is too long.
TooLong_AtLimit(buffer, offset) ==
  DeclaredLength(buffer, offset) >= MaxFrameBytes

\* Refused before anything is allocated for it.
TooLong(buffer, offset) == DeclaredLength(buffer, offset) > MaxFrameBytes

\* Variant: one byte short.
NextOffset_Early(buffer, offset) ==
  offset + PrefixBytes + DeclaredLength(buffer, offset) - 1

\* Where the loop goes on.
NextOffset(buffer, offset) ==
  offset + PrefixBytes + DeclaredLength(buffer, offset)

DecodeError == [ok |-> FALSE, frames |-> <<>>, consumed |-> 0]
AllUpTo(offset) == [ok |-> TRUE, frames |-> <<>>, consumed |-> offset]

\* A frame that starts at offset lies in the buffer with all its bytes.
Whole(buffer, offset) ==
  Len(buffer) - offset >= PrefixBytes + DeclaredLength(buffer, offset)

PayloadAt(buffer, offset) ==
  SubSeq(buffer, offset + PrefixBytes + 1,
         offset + PrefixBytes + DeclaredLength(buffer, offset))

\* The loop, from each offset on: an error anywhere is the result of the whole
\* call, so the frames decoded before it are not returned.
DecodeStream(buffer) ==
  LET from[offset \in 0 .. Len(buffer)] ==
        IF Len(buffer) - offset < PrefixBytes THEN AllUpTo(offset)
        ELSE IF TooLong(buffer, offset) THEN DecodeError
        ELSE IF ~Whole(buffer, offset) THEN AllUpTo(offset)
        ELSE IF PayloadAt(buffer, offset) \notin Decodable THEN DecodeError
        ELSE LET rest == from[NextOffset(buffer, offset)]
             IN IF rest.ok
                THEN [rest EXCEPT !.frames = <<PayloadAt(buffer, offset)>> \o @]
                ELSE DecodeError
  IN from[0]

-----------------------------------------------------------------------------
Init ==
  /\ sent = <<>>
  /\ net = <<>>
  /\ tail = <<>>
  /\ delivered = <<>>
  /\ open = TRUE

\* The peer writes one frame; TCP keeps the order of its bytes.
Send(payload) ==
  /\ open
  /\ Len(sent) < MaxSent
  /\ sent' = Append(sent, payload)
  /\ net' = net \o Wire(payload)
  /\ UNCHANGED <<tail, delivered, open>>

\* One read brings the next n bytes; the caller prepends its tail.
Read(n) ==
  LET buffer == tail \o SubSeq(net, 1, n)
      result == DecodeStream(buffer)
  IN /\ open
     /\ net' = SubSeq(net, n + 1, Len(net))
     /\ open' = result.ok
     /\ delivered' = delivered \o result.frames
     /\ tail' = IF result.ok
                THEN SubSeq(buffer, result.consumed + 1, Len(buffer))
                ELSE <<>>
     /\ UNCHANGED sent

SomeRead == \E n \in 1 .. Len(net) : Read(n)

Next ==
  \/ \E payload \in Payloads : Send(payload)
  \/ SomeRead

\* Fairness: a connection that stays up brings what was written.
Spec == Init /\ [][Next]_vars /\ WF_vars(SomeRead)

-----------------------------------------------------------------------------
\* The bytes of everything sent, in order.
Stream(payloads) ==
  LET upTo[k \in 0 .. Len(payloads)] ==
        IF k = 0 THEN <<>> ELSE upTo[k - 1] \o Wire(payloads[k])
  IN upTo[Len(payloads)]

\* No byte is lost, read twice or given to the wrong frame: the caller was
\* handed the first frames sent, in order, and its tail with what is still to be
\* read holds the bytes of the others (decode_stream's consumed count against the
\* tail the caller keeps).  A read never leaves a frame it could have returned in
\* the tail, so when all bytes were read all frames were handed over; and no
\* length that a peer declares makes the tail grow beyond one frame with its
\* prefix.
NothingLost ==
  /\ Len(delivered) <= Len(sent)
  /\ delivered = SubSeq(sent, 1, Len(delivered))
  /\ open => tail \o net = Stream(SubSeq(sent, Len(delivered) + 1, Len(sent)))
  /\ open /\ net = <<>> => delivered = sent
  /\ Len(tail) < PrefixBytes + MaxFrameBytes

\* The refinement: frames come out once each, in order, until the first that
\* cannot be decoded, wherever the reads cut the stream.
Channel == INSTANCE FrameChannel
             WITH Items <- Payloads, delivered <- Len(delivered)

ImplementsChannel == Channel!Spec

\* A well-behaved peer's frames all arrive.
GoodPeerIsHeard ==
  \A k \in 1 .. MaxSent :
    Len(sent) = k ~>
      \/ Len(delivered) >= k
      \/ \E i \in 1 .. Len(sent) : sent[i] \notin Decodable
=============================================================================

