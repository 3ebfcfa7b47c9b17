----------------------------- MODULE MCVhostEcho -----------------------------
(* The event loops of client and server over rings of a few descriptors. *)
EXTENDS VhostEcho
=============================================================================
