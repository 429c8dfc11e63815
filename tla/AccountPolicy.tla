--------------------------- MODULE AccountPolicy ---------------------------
(***************************************************************************)
(* Required U2F with every request of auth/u2f/u2f.go done in one piece:   *)
(* what an account has registered, and whether U2F is required of it.      *)
(***************************************************************************)
CONSTANT Handles
VARIABLES enforced, enrolled

vars == <<enforced, enrolled>>

Init == enforced = FALSE /\ enrolled = {}

(* Registering requires U2F from then on.                                  *)
Register(h) ==
  /\ enrolled' = enrolled \cup {h}
  /\ enforced' = TRUE

(* The requirement goes when one registration is left; h may be one that   *)
(* was deleted before.                                                     *)
Remove(h) ==
  /\ enrolled' = enrolled \ {h}
  /\ enforced' = (enforced /\ \A g \in Handles : enrolled # {g})

Require(want) ==
  /\ want => enrolled # {}
  /\ enforced' = want
  /\ UNCHANGED enrolled

Next ==
  \/ \E h \in Handles : Register(h) \/ Remove(h)
  \/ \E want \in BOOLEAN : Require(want)
=============================================================================
