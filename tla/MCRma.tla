-------------------------------- MODULE MCRma --------------------------------
(***************************************************************************)
(* Instance of Rma: two nodes with two regions each; local buffers of one  *)
(* and of two parts, shorter and longer than a region, and one so large that   *)
(* the sum of its parts wraps.                                             *)
(***************************************************************************)
EXTENDS Rma, TLC

CONSTANTS n1, n2, k1, k2, i1, i2

\* Nothing tells nodes, keys or interrupt numbers apart.
MCSymmetry == Permutations({n1, n2}) \cup Permutations({k1, k2}) \cup Permutations({i1, i2})

MCIovs == {<<2>>, <<2, 2>>, <<5>>, <<5, 5>>}

=============================================================================
