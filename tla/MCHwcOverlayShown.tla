------------------------- MODULE MCHwcOverlayShown --------------------------
(***************************************************************************)
(* Model-checking instance of HwcOverlayShown.                             *)
(***************************************************************************)
EXTENDS HwcOverlayShown, TLC

ModelSymmetry == Permutations(Fd) \cup Permutations(App)
=============================================================================
