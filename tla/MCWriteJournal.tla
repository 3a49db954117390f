--------------------------- MODULE MCWriteJournal ---------------------------
(* An arbitrary caller of the journal: two keys that may name the same     *)
(* href, so that the key and the href checks are both exercised.           *)
EXTENDS WriteJournal, TLC

Symmetry == Permutations(Keys) \cup Permutations(ETags) \cup Permutations(Changes)
=============================================================================
