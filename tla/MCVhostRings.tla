----------------------------- MODULE MCVhostRings -----------------------------
(* Masters for model checking VhostRings: every choice of a watch per ring. *)
EXTENDS VhostRings

MCModes == [Rings -> {"fd", "poll"}]
=============================================================================
