------------------------------ MODULE MCMemTable ------------------------------
(* Tables for model checking MemTable: one file, two files, memory that grew
   and moved, and a file split by a hole in the guest's addresses. *)
EXTENDS MemTable, Sequences

Region(g, u, s, o, f) ==
  [guest |-> g, user |-> u, size |-> s, offset |-> o, file |-> f]

OneFile  == <<Region(0, 20, 2, 0, "f")>>
TwoFiles == <<Region(0, 20, 1, 0, "g"), Region(2, 30, 2, 0, "f")>>
Moved    == <<Region(1, 21, 2, 0, "f"), Region(3, 23, 1, 0, "h")>>
Split    == <<Region(0, 20, 2, 0, "f"), Region(3, 22, 2, 1, "f")>>

MCTables == {OneFile, TwoFiles, Moved, Split}
MCOwn == {5}
=============================================================================
