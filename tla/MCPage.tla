------------------------------- MODULE MCPage -------------------------------
(* Small instances of Page: a page is loaded while an entry is stored.     *)
EXTENDS Page, TLC

CONSTANTS t1, t2, k1, k2, k3

OneEntry == {[title |-> t1, version |-> 1, key |-> k1]}

Symmetry == Permutations(Slots)
=============================================================================
