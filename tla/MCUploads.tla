------------------------------ MODULE MCUploads ------------------------------
(***************************************************************************)
(* Instances of Uploads for TLC.                                           *)
(***************************************************************************)
EXTENDS Uploads, TLC

\* Files and requests are alike until they are used, and so are orders.
IdSymmetry == Permutations(Handlers) \cup Permutations(Files) \cup Permutations(Orders)
==============================================================================
