----------------------------- MODULE MCFramedCall -----------------------------
(* Two calls in flight beside each other, whose exchanges return up to two    *)
(* frames, and one whose body is not JSON.                                    *)
EXTENDS FramedCall, TLC
CONSTANTS r1, r2
MCWellFormed == {r1, r2}
MCRequests == MCWellFormed \cup {"notjson"}
Interchangeable == Permutations(MCWellFormed)
=============================================================================
