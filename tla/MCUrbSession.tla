---------------------------- MODULE MCUrbSession ----------------------------
(* Instances of UrbSession for TLC. *)
EXTENDS UrbSessionInv, TLC

\* URBs are interchangeable; only used where no liveness is checked.
UrbSymmetry == Permutations(Urbs)
=============================================================================
