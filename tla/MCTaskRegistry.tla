--------------------------- MODULE MCTaskRegistry ---------------------------
(***************************************************************************)
(* TaskRegistry for TLC.  Tasks are told apart by their slots only, and    *)
(* the sets by their bits, so exchanging two of either changes no          *)
(* behaviour.                                                              *)
(***************************************************************************)
EXTENDS TaskRegistry, TLC

Symmetry == Permutations(Tasks) \cup Permutations(Sets)
=============================================================================
