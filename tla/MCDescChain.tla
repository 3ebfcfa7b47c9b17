----------------------------- MODULE MCDescChain -----------------------------
(* Packets for model checking DescChain with Cap = 4 and Hdr = 1. *)
EXTENDS DescChain

Short == {<<2>>, <<1, 2>>, <<1, 1, 1>>}
TooLong == {<<1, 1, 2>>}

(* A guest's packets begin with a descriptor of their own for the header;
   put_vring's are one buffer, which it fills up to Cap + Hdr. *)
MCChains == Short \cup TooLong \cup {<<4>>}
=============================================================================
