------------------------------- MODULE MCFrames -------------------------------
(***************************************************************************)
(* The two parts of framing, side by side: what is in a frame (every frame *)
(* the ports build, with up to MaxAltered members written by a foreign     *)
(* peer), and how frames travel through a TCP stream.  They share no       *)
(* state; each behaviour is one of a part.                                 *)
(*                                                                         *)
(* Bytes have two values and prefixes two bytes: <<1, 0, 0>> is over the   *)
(* limit.  The empty payload is not JSON; <<0>> is a frame of another      *)
(* dialect.                                                                *)
(***************************************************************************)
EXTENDS FrameCodec, FrameStream

VARIABLE part

MCPayloads == {<<>>, <<0>>, <<1>>, <<0, 1>>, <<1, 0, 0>>}
MCDecodable == {<<1>>, <<0, 1>>}

\* Another part is looked at.
NoFrame == CodecInit /\ built = Bare("end", "none") /\ by = "rust"

FramesInit ==
  \/ part = "envelope" /\ CodecInit /\ Init
  \/ part = "stream" /\ Init /\ NoFrame

FramesNext ==
  \/ part = "envelope" /\ CodecNext /\ UNCHANGED <<part, vars>>
  \/ part = "stream" /\ Next /\ UNCHANGED <<part, codecVars>>

\* Fairness: a connection that stays up brings what was written.
FramesSpec ==
  /\ FramesInit /\ [][FramesNext]_<<part, vars, codecVars>>
  /\ WF_vars(part = "stream" /\ SomeRead)
=============================================================================
