---------------------------- MODULE FrameChannel ----------------------------
(***************************************************************************)
(* What a TCP connection of the ridl runtime promises its reader, however  *)
(* the bytes are cut into reads: the frames of the peer come out once      *)
(* each, in the order of sending, and none after the first that cannot be  *)
(* decoded.  FrameStream implements it.                                    *)
(***************************************************************************)
EXTENDS Naturals, Sequences

CONSTANTS
  Items,       \* what the peer may put on the connection
  Decodable,   \* those of them decode accepts
  MaxSent      \* bound on the items of one connection

VARIABLES
  sent,        \* the items the peer put on the connection
  delivered,   \* how many of them the reader was handed
  open         \* FALSE once decode_stream returned an error

vars == <<sent, delivered, open>>

Init ==
  /\ sent = <<>>
  /\ delivered = 0
  /\ open = TRUE

Send(item) ==
  /\ Len(sent) < MaxSent
  /\ sent' = Append(sent, item)
  /\ UNCHANGED <<delivered, open>>

\* One read hands over all the frames it completed.
Receive(n) ==
  /\ open
  /\ \A i \in delivered + 1 .. n : sent[i] \in Decodable
  /\ delivered' = n
  /\ UNCHANGED <<sent, open>>

\* Only an item that cannot be decoded, and that nothing undecodable
\* precedes, ends the connection.
Fail ==
  /\ open
  /\ \E bad \in delivered + 1 .. Len(sent) :
       /\ sent[bad] \notin Decodable
       /\ \A i \in delivered + 1 .. bad - 1 : sent[i] \in Decodable
  /\ open' = FALSE
  /\ UNCHANGED <<sent, delivered>>

Next ==
  \/ \E item \in Items : Send(item)
  \/ \E n \in delivered + 1 .. Len(sent) : Receive(n)
  \/ Fail

Spec == Init /\ [][Next]_vars
=============================================================================
