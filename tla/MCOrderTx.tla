------------------------------ MODULE MCOrderTx ------------------------------
(***************************************************************************)
(* Instances of OrderTx for TLC.                                           *)
(***************************************************************************)
EXTENDS OrderTxDocs, TLC

\* Requests are alike until they start.
RequestSymmetry == Permutations(Handlers)
==============================================================================
