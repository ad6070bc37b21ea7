----------------------------- MODULE ReplayOps -----------------------------
(***************************************************************************)
(* The replay window of a binding: type replayWindow and its method accept *)
(* in src/internal/store/relay.go.  The 64-bit bitmap is the set of its    *)
(* set bits; bit k stands for the sequence number highest - k.             *)
(***************************************************************************)
EXTENDS Integers

CONSTANT Width       \* bits of the bitmap (64 in the code)

ASSUME WidthAssumption == Width \in Nat \ {0}

Window == [initialized : BOOLEAN, highest : Nat, bitmap : SUBSET (0 .. Width - 1)]

\* The zero value: what a new binding starts with and what clearBinding restores.
NewWindow == [initialized |-> FALSE, highest |-> 0, bitmap |-> {}]

\* Mutant: the left edge is off by one (delta > 64 instead of delta >= 64).
FreshEdgeOffByOne(w, s) ==
    \/ ~w.initialized
    \/ s > w.highest
    \/ w.highest - s <= Width /\ w.highest - s \notin w.bitmap

\* accept's result.  A number past the left edge of the bitmap is refused.
Fresh(w, s) ==
    \/ ~w.initialized
    \/ s > w.highest
    \/ w.highest - s < Width /\ w.highest - s \notin w.bitmap

\* bitmap << k: bits shifted past the width are lost (all of them if k >= Width).
ShiftLeft(bits, k) == {b \in 0 .. Width - 1 : b - k \in bits}

\* Mutant: the bitmap is not shifted when the window advances.
AcceptWithoutShift(w, s) ==
    IF ~Fresh(w, s) THEN w
    ELSE IF ~w.initialized \/ s > w.highest
    THEN [initialized |-> TRUE, highest |-> s, bitmap |-> {0} \cup w.bitmap]
    ELSE [w EXCEPT !.bitmap = @ \cup {w.highest - s}]

\* Mutant: a late number is let through without setting its bit.
AcceptForgetsLate(w, s) ==
    IF Fresh(w, s) /\ w.initialized /\ s < w.highest THEN w
    ELSE AcceptWithoutShift(w, s)

\* accept's effect on the window.
Accept(w, s) ==
    IF ~Fresh(w, s) THEN w
    ELSE IF ~w.initialized \/ s > w.highest
    THEN [initialized |-> TRUE,
          highest |-> s,
          bitmap  |-> {0} \cup IF w.initialized THEN ShiftLeft(w.bitmap, s - w.highest) ELSE {}]
    ELSE [w EXCEPT !.bitmap = @ \cup {w.highest - s}]
=============================================================================
