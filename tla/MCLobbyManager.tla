--------------------------- MODULE MCLobbyManager ---------------------------
(***************************************************************************)
(* Finite instances of LobbyManager: the life of a lobby with a queue      *)
(* beside it, queues alone with more players, and the failing Enqueue.     *)
(***************************************************************************)
EXTENDS LobbyManager

Symmetry == Permutations(Player) \cup Permutations(LobbyID) \cup Permutations(Match)
            \cup Permutations(QueueKey)
=============================================================================
