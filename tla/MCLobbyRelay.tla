---------------------------- MODULE MCLobbyRelay ----------------------------
(***************************************************************************)
(* Finite instances of LobbyRelay: queues over a small registry, and the   *)
(* operator who takes the ID of a match again.                             *)
(***************************************************************************)
EXTENDS LobbyRelay

Symmetry == Permutations(Player) \cup Permutations(Match) \cup Permutations(OwnRoom)
=============================================================================
