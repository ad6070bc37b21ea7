----------------------------- MODULE OnceFilter -----------------------------
(***************************************************************************)
(* What the replay window promises (ADR 0001, section on the replay        *)
(* window): a filter with perfect memory.  A sequence number is let        *)
(* through when it was never let through before and lies fewer than Width  *)
(* numbers behind the greatest one that was.                               *)
(***************************************************************************)
EXTENDS Integers

CONSTANTS Width, Sequence

VARIABLES delivered,   \* every sequence number ever let through
          verdict      \* the answer to the last call

Acceptable(s) == s \notin delivered /\ \A d \in delivered : d - s < Width

Offer(s) ==
    /\ verdict' = Acceptable(s)
    /\ delivered' = IF Acceptable(s) THEN delivered \cup {s} ELSE delivered

Init == delivered = {} /\ verdict = FALSE
Next == \E s \in Sequence : Offer(s)
Spec == Init /\ [][Next]_<<delivered, verdict>>
=============================================================================
