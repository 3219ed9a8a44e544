------------------------- MODULE MCReconcileJournal -------------------------
(***************************************************************************)
(* Instances of ReconcileJournal for TLC.                                  *)
(***************************************************************************)
EXTENDS ReconcileJournal
=============================================================================
