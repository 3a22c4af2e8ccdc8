---------------------------- MODULE MCMashServer ----------------------------
(* A reader and three creates on a list with room for two of the creates. *)
EXTENDS MashServer
=============================================================================
