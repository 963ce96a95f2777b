----------------------------- MODULE MC_HidOpen -----------------------------
(* Three processes: an owner, one that waits for it, and one that may take  *)
(* the token between the close and the second open of the one that waited.  *)
EXTENDS HidOpen, TLC

Symmetry == Permutations(Procs) \cup Permutations(Sessions)
=============================================================================
