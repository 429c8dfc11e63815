----------------------------- MODULE U2fPromise -----------------------------
(***************************************************************************)
(* What ui/public/u2f-api.js promises of u2f.sign and u2f.register: the    *)
(* callback of a call is called after the call, once at most, and with the *)
(* answer to a request made for that call.                                 *)
(***************************************************************************)
EXTENDS Sequences

CONSTANT Calls
VARIABLES
  asked,    \* the calls made
  heard     \* whose answers the callback of a call was given

Init == asked = {} /\ heard = [c \in Calls |-> <<>>]

Ask(c) == asked' = asked \cup {c} /\ UNCHANGED heard

CallBack(c) ==
  /\ c \in asked /\ heard[c] = <<>>
  /\ heard' = [heard EXCEPT ![c] = <<c>>]
  /\ UNCHANGED asked

Next == \E c \in Calls : Ask(c) \/ CallBack(c)

Spec == Init /\ [][Next]_<<asked, heard>>
=============================================================================
