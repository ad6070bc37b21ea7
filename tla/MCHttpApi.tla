----------------------------- MODULE MCHttpApi -----------------------------
(***************************************************************************)
(* The finite instance of HttpApi: two requests at a time, one room, one   *)
(* player, two processes one after the other.  The two find places for     *)
(* both in the management API and for one in the player API.               *)
(***************************************************************************)
EXTENDS HttpApi

MCConcurrent == [management |-> 2, player |-> 1]
=============================================================================
