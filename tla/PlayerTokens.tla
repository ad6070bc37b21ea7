---------------------------- MODULE PlayerTokens ----------------------------
(***************************************************************************)
(* Player tokens: src/internal/playerauth/auth.go.  A token is what is     *)
(* under its MAC, a player and an expiry, together with the key that made  *)
(* the MAC.  Nobody makes a token without the key, so the encoding has no  *)
(* part in what follows.                                                   *)
(***************************************************************************)
EXTENDS Naturals

CONSTANTS Player, TokenTTL      \* 15 minutes

ASSUME TokenAssumption == TokenTTL \in Nat \ {0}

\* A key is the number of the process that drew the nonce for it: New derives
\* it from the operator's secret, which stays, and a nonce, which does not.
Token == [player : Player, expires : Nat, key : Nat]

Issue(player, key, now) == [player |-> player, expires |-> now + TokenTTL, key |-> key]

\* Mutant: the key is derived from the operator's secret alone.
VerifyAnyKey(token, key, now) == now < token.expires

Verify(token, key, now) == token.key = key /\ now < token.expires
=============================================================================
