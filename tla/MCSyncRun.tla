----------------------------- MODULE MCSyncRun -----------------------------
(***************************************************************************)
(* Instances of SyncRun for TLC.                                           *)
(***************************************************************************)
EXTENDS SyncRun, TLC

MCTreeRewinds == [i \in 1..MaxRewinds |-> i]
MCAnchorRewinds == [i \in 1..AnchorPasses |-> 2 * i - 1]
=============================================================================
