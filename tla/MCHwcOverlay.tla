---------------------------- MODULE MCHwcOverlay ----------------------------
(***************************************************************************)
(* Model-checking instance of HwcOverlay: interchangeable descriptors and  *)
(* interchangeable applications (no definition tells two of them apart).   *)
(***************************************************************************)
EXTENDS HwcOverlay, TLC

ModelSymmetry == Permutations(Fd) \cup Permutations(App)
=============================================================================
