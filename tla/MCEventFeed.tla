----------------------------- MODULE MCEventFeed -----------------------------
(* Two browsers, one of which may stop reading, and a ring of two events. *)
EXTENDS EventFeed
=============================================================================
