------------------------------- MODULE MCVring -------------------------------
(* One vring of three (or two) descriptors for TLC. *)
EXTENDS Vring
=============================================================================
