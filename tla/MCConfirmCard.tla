---------------------------- MODULE MCConfirmCard ----------------------------
(* Windows are interchangeable. *)
EXTENDS ConfirmCard, TLC

TabSymmetry == Permutations(Tabs)
=============================================================================
