----------------------------- MODULE MCBrowser -----------------------------
(* Browser with interchangeable slots for its calls.                       *)
EXTENDS Browser, TLC

Symmetry == Permutations(Slots)
=============================================================================
