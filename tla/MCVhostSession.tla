--------------------------- MODULE MCVhostSession ---------------------------
(* Two clients, one after the other, and one server. *)
EXTENDS VhostSession
=============================================================================
