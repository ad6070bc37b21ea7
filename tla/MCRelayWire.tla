---------------------------- MODULE MCRelayWire ----------------------------
(***************************************************************************)
(* The finite instance of RelayWire: one room of two participants, with    *)
(* IDs enough for a rebind between admission and fan-out.                  *)
(***************************************************************************)
EXTENDS RelayWire, TLC

CONSTANTS p1, p2

MCPair == {{p1, p2}}
Symmetry == Permutations(Grant) \cup Permutations(Candidate) \cup Permutations(Binding)
            \cup Permutations(Endpoint) \cup Permutations(Nonce)
=============================================================================
