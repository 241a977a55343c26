----------------------------- MODULE MCSchedReg -----------------------------
(***************************************************************************)
(* SchedReg for TLC.  The entries are model values; the safety runs are    *)
(* symmetric in them, since no definition of SchedReg orders entries.      *)
(***************************************************************************)
EXTENDS SchedReg, TLC

EntrySymmetry == Permutations(Entries)
=============================================================================
