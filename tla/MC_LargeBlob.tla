---------------------------- MODULE MC_LargeBlob ----------------------------
(* Two clients of one token.  With elements of two units and chunks of three *)
(* the empty array ends inside a chunk, an array of one element goes over    *)
(* two, and an array of two elements fills two.                              *)
EXTENDS LargeBlob

\* What a user may write over everything: nothing at all.
Emptied == {<<>>}

Symmetry == Permutations(Clients) \cup Permutations(Keys)
=============================================================================
