---------------------------- MODULE MCOrderCache -----------------------------
(***************************************************************************)
(* Instances of OrderCache for TLC.                                        *)
(***************************************************************************)
EXTENDS OrderCache, TLC

\* Requests are alike until they start.
HandlerSymmetry == Permutations(Handlers)
==============================================================================
