----------------------------- MODULE MCLifecycle -----------------------------
(* Two servers and two clients, whose lives overlap or follow one another. *)
EXTENDS Lifecycle
=============================================================================
