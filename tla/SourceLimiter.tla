--------------------------- MODULE SourceLimiter ---------------------------
(***************************************************************************)
(* What pre-authentication admission promises each source (ADR 0003): a    *)
(* token bucket of its own, which fills at a constant rate up to its burst *)
(* and is never forgotten.  Nobody gains by staying away or by coming back.*)
(* It bounds what a source is given: a refusal is no step, hence always    *)
(* allowed (a full table refuses a source that was forgotten).             *)
(***************************************************************************)
EXTENDS Integers

CONSTANTS Source, Dim,
          Rate, Burst,   \* of one source, per dimension
          Costs          \* what a datagram may cost

VARIABLE level           \* the tokens each source has now

Least(m, n) == IF m <= n THEN m ELSE n

Init == level = [s \in Source |-> [d \in Dim |-> Burst[d]]]

Refill ==
    level' = [s \in Source |-> [d \in Dim |-> Least(Burst[d], level[s][d] + Rate[d])]]

Take(s, cost) ==
    /\ \A d \in Dim : cost[d] <= level[s][d]
    /\ level' = [level EXCEPT ![s] = [d \in Dim |-> level[s][d] - cost[d]]]

Next == Refill \/ \E s \in Source, cost \in Costs : Take(s, cost)

Spec == Init /\ [][Next]_level
=============================================================================
