------------------------------ MODULE MCAccounts ------------------------------
(***************************************************************************)
(* Instances of Accounts for TLC.                                          *)
(***************************************************************************)
EXTENDS Accounts, TLC

\* Ids and requests are alike until they are used.
IdSymmetry == Permutations(Handlers) \cup Permutations(Orders) \cup Permutations(Hosts)
==============================================================================
