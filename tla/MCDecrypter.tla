---------------------------- MODULE MCDecrypter ----------------------------
(* A small instance of Decrypter: one component decrypts two messages, as  *)
(* the one of the Account page does.                                       *)
EXTENDS Decrypter, TLC

CONSTANTS d1, x, y

Messages == d1 :> <<x, y>>

Symmetry == Permutations(Runs)
=============================================================================
