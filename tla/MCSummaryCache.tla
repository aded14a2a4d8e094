--------------------------- MODULE MCSummaryCache ---------------------------
(***************************************************************************)
(* Instances of SummaryCache for TLC.                                      *)
(***************************************************************************)
EXTENDS SummaryCache, TLC

ReaderSymmetry == Permutations(Readers)
=============================================================================
