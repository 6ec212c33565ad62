------------------------------- MODULE MCStats -------------------------------
(***************************************************************************)
(* Instances of Stats for TLC.                                             *)
(***************************************************************************)
EXTENDS Stats, TLC

\* A price below 0 and one above, which a .cfg cannot write.
MCPrices == {-1, 2}

\* A period that ends before the last moment, and one that begins after the first.
MCSpans == {<<0, 0>>, <<1, 1>>}

\* Orders are alike until they are used, and so are the rows of a list.
Symmetry == Permutations(Orders) \cup Permutations(Cleaners) \cup Permutations(Properties)
==============================================================================
