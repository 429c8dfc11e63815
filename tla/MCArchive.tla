----------------------------- MODULE MCArchive -----------------------------
(* Small instances of Archive.                                             *)
EXTENDS Archive, TLC

Symmetry == Permutations(Procs) \cup Permutations(Titles) \cup Permutations(Secrets)
            \cup Permutations(EntryIds) \cup Permutations(KeyIds)
            \cup Permutations(Names) \cup Permutations(Materials)
=============================================================================
