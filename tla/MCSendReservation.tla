------------------------- MODULE MCSendReservation -------------------------
(***************************************************************************)
(* Instances of SendReservation for TLC.  The model values of the sets of  *)
(* proposals and outputs are given in the .cfg files.                      *)
(***************************************************************************)
EXTENDS SendReservationInv, TLC

\* Outputs are interchangeable as long as none of them is migratable.
OutputSymmetry == Permutations(Outputs)
=============================================================================
