---------------------------- MODULE MCRelayStore ----------------------------
(***************************************************************************)
(* The finite instance of RelayStore for the handshake: one room, and IDs  *)
(* enough for a rebind while the old binding is still in use.              *)
(***************************************************************************)
EXTENDS RelayStore, TLC

CONSTANT p1

MCSolo == {{p1}}
Symmetry == Permutations(Candidate) \cup Permutations(Binding) \cup Permutations(Endpoint)
            \cup Permutations(Nonce)
=============================================================================
