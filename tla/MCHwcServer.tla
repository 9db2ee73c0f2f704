---------------------------- MODULE MCHwcServer -----------------------------
(***************************************************************************)
(* Model-checking instances of HwcServer.                                  *)
(***************************************************************************)
EXTENDS HwcServer, TLC

ClientSymmetry == Permutations(Client)
=============================================================================
