----------------------------- MODULE MCMashPage -----------------------------
(* Two pages against a channel that keeps one event. *)
EXTENDS MashPage, TLC

Interchangeable == Permutations(Sockets)
=============================================================================
