------------------------- MODULE ReplayWindow_proof -------------------------
(***************************************************************************)
(* For every width and every stream of sequence numbers: the window says   *)
(* exactly what accept() has to know of the past, so replayWindow          *)
(* implements the filter that forgets nothing.                             *)
(***************************************************************************)
EXTENDS ReplayWindow, TLAPS

IInv == TypeOK /\ WindowExact

\* The code's verdict and the filter's are the same wherever the window is exact.
LEMMA FreshIsAcceptable ==
    ASSUME IInv, NEW s \in Sequence
    PROVE  Fresh(window, s) <=> Filter!Acceptable(s)
<1> USE WidthAssumption, SequenceAssumption
<1>1. CASE ~window.initialized
  BY <1>1 DEF IInv, TypeOK, WindowExact, Fresh, Filter!Acceptable
<1>2. CASE window.initialized /\ s > window.highest
  BY <1>2 DEF IInv, TypeOK, WindowExact, Window, Fresh, Filter!Acceptable
<1>3. CASE window.initialized /\ ~(s > window.highest)
  <2>1. window.highest \in delivered /\ window.highest - s \in Nat
    BY <1>3 DEF IInv, TypeOK, WindowExact, Window
  <2>2. (\A d \in delivered : d - s < Width) <=> window.highest - s < Width
    BY <2>1 DEF IInv, TypeOK, WindowExact, Window
  <2>3. ASSUME window.highest - s < Width
        PROVE  window.highest - s \in window.bitmap <=> s \in delivered
    <3>1. window.highest - s \in 0 .. Width - 1
      BY <2>1, <2>3
    <3>2. window.highest - (window.highest - s) = s
      BY DEF IInv, TypeOK, Window
    <3> QED
      BY <3>1, <3>2, <1>3 DEF IInv, WindowExact
  <2> QED
    BY <1>3, <2>2, <2>3 DEF Fresh, Filter!Acceptable
<1> QED
  BY <1>1, <1>2, <1>3

\* The invariant holds at the start and is kept by every call of accept().
LEMMA InitIInv == Init => IInv
<1> SUFFICES ASSUME Init PROVE IInv
  OBVIOUS
<1>1. window \in Window
  BY WidthAssumption DEF Init, NewWindow, Window
<1>2. /\ ~window.initialized
      /\ window.bitmap = {}
      /\ delivered = {}
      /\ verdict \in BOOLEAN
  BY DEF Init, NewWindow
<1> QED
  BY <1>1, <1>2 DEF IInv, TypeOK, WindowExact

LEMMA ReceiveIInv ==
    ASSUME IInv, NEW s \in Sequence, Receive(s)
    PROVE  IInv'
<1> USE WidthAssumption, SequenceAssumption
<1>1. CASE ~Fresh(window, s)
  <2>1. window' = window /\ delivered' = delivered
    BY <1>1 DEF Receive, Accept
  <2>2. verdict' \in BOOLEAN
    BY DEF Receive, Fresh
  <2> QED
    BY <2>1, <2>2 DEF IInv, TypeOK, WindowExact
<1>2. CASE Fresh(window, s) /\ ~window.initialized
  <2>1. /\ window' = [initialized |-> TRUE, highest |-> s, bitmap |-> {0}]
        /\ delivered' = {s}
        /\ verdict' = TRUE
    BY <1>2 DEF Receive, Accept, IInv, WindowExact
  <2>2. TypeOK'
    BY <2>1 DEF TypeOK, Window
  <2>3. \A k \in 0 .. Width - 1 : k \in window'.bitmap <=> window'.highest - k \in delivered'
    BY <2>1
  <2>4. WindowExact'
    BY <2>1, <2>3 DEF WindowExact
  <2> QED
    BY <2>2, <2>4 DEF IInv
<1>3. CASE Fresh(window, s) /\ window.initialized /\ s > window.highest
  <2> DEFINE k == s - window.highest
  <2>1. /\ window' = [initialized |-> TRUE, highest |-> s, bitmap |-> {0} \cup ShiftLeft(window.bitmap, k)]
        /\ delivered' = delivered \cup {s}
        /\ verdict' = TRUE
    BY <1>3 DEF Receive, Accept
  <2>2. k \in Nat \ {0} /\ window.highest \in Nat
    BY <1>3 DEF IInv, TypeOK, Window
  <2>3. TypeOK'
    BY <2>1, <2>2 DEF IInv, TypeOK, Window, ShiftLeft
  <2>4. \A d \in delivered' : d <= s
    BY <1>3, <2>1, <2>2 DEF IInv, TypeOK, WindowExact
  <2>5. ASSUME NEW b \in 0 .. Width - 1
        PROVE  b \in window'.bitmap <=> s - b \in delivered'
    <3>1. CASE b = 0
      BY <3>1, <2>1
    <3>2. CASE b # 0 /\ b < k
      <4>1. b - k \notin window.bitmap
        BY <3>2, <2>2 DEF IInv, TypeOK, Window
      <4>2. s - b > window.highest /\ s - b # s
        BY <3>2, <2>2
      <4>3. s - b \notin delivered
        BY <4>2, <2>2 DEF IInv, TypeOK, WindowExact
      <4> QED
        BY <3>2, <4>1, <4>2, <4>3, <2>1 DEF ShiftLeft
    <3>3. CASE b >= k
      <4>1. b - k \in 0 .. Width - 1 /\ window.highest - (b - k) = s - b /\ s - b # s
        BY <3>3, <2>2
      <4>2. b - k \in window.bitmap <=> s - b \in delivered
        BY <4>1, <1>3 DEF IInv, WindowExact
      <4> QED
        BY <3>3, <4>1, <4>2, <2>1, <2>2 DEF ShiftLeft
    <3> QED
      BY <3>1, <3>2, <3>3, <2>2
  <2>6. WindowExact'
    BY <2>1, <2>4, <2>5 DEF WindowExact
  <2> QED
    BY <2>3, <2>6 DEF IInv
<1>4. CASE Fresh(window, s) /\ window.initialized /\ ~(s > window.highest)
  <2> DEFINE j == window.highest - s
  <2>1. /\ window' = [window EXCEPT !.bitmap = @ \cup {j}]
        /\ delivered' = delivered \cup {s}
        /\ verdict' = TRUE
    BY <1>4 DEF Receive, Accept
  <2>2. j \in 0 .. Width - 1 /\ window.highest \in Nat
    BY <1>4 DEF Fresh, IInv, TypeOK, Window
  <2>3. TypeOK'
    BY <2>1, <2>2 DEF IInv, TypeOK, Window
  <2>4. /\ window'.highest = window.highest
        /\ window'.initialized = TRUE
        /\ window'.bitmap = window.bitmap \cup {j}
    BY <2>1, <1>4 DEF IInv, TypeOK, Window
  <2>5. ASSUME NEW b \in 0 .. Width - 1
        PROVE  b \in window'.bitmap <=> window'.highest - b \in delivered'
    <3>1. b = j <=> window.highest - b = s
      BY <2>2
    <3> QED
      BY <3>1, <2>1, <2>4, <1>4 DEF IInv, WindowExact
  <2>6. WindowExact'
    BY <2>1, <2>2, <2>4, <2>5, <1>4 DEF IInv, TypeOK, WindowExact
  <2> QED
    BY <2>3, <2>6 DEF IInv
<1> QED
  BY <1>1, <1>2, <1>3, <1>4

\* The window is a summary of the whole past of its binding: it knows the
\* greatest number accepted and which of the Width last ones were.
THEOREM ReplayWindowExact == Spec => [](TypeOK /\ WindowExact)
<1>1. Init => IInv
  BY InitIInv
<1>2. IInv /\ [Next]_vars => IInv'
  <2> SUFFICES ASSUME IInv, [Next]_vars PROVE IInv'
    OBVIOUS
  <2>1. CASE Next
    BY <2>1, ReceiveIInv DEF Next
  <2>2. CASE UNCHANGED vars
    BY <2>2 DEF vars, IInv, TypeOK, WindowExact
  <2> QED
    BY <2>1, <2>2
<1> QED
  BY <1>1, <1>2, PTL DEF Spec, IInv

\* accept() implements the filter with perfect memory (ADR 0001): whatever
\* the network reorders, repeats or loses, no number is let through twice and
\* none that is new and inside the window is refused.
THEOREM ReplayWindowImplementsFilter == Spec => ImplementsFilter
<1>1. Init => Filter!Init
  BY DEF Init, Filter!Init
<1>2. IInv /\ [Next]_vars => [Filter!Next]_<<delivered, verdict>>
  <2> SUFFICES ASSUME IInv, [Next]_vars
               PROVE  [Filter!Next]_<<delivered, verdict>>
    OBVIOUS
  <2>1. ASSUME NEW s \in Sequence, Receive(s)
        PROVE  Filter!Offer(s)
    <3>1. Fresh(window, s) <=> Filter!Acceptable(s)
      BY FreshIsAcceptable
    <3>2. Fresh(window, s) \in BOOLEAN /\ Filter!Acceptable(s) \in BOOLEAN
      BY DEF Fresh, Filter!Acceptable
    <3> QED
      BY <2>1, <3>1, <3>2 DEF Receive, Filter!Offer
  <2>2. CASE Next
    BY <2>1, <2>2 DEF Next, Filter!Next
  <2>3. CASE UNCHANGED vars
    BY <2>3 DEF vars
  <2> QED
    BY <2>2, <2>3
<1>3. Spec => []IInv
  BY ReplayWindowExact, PTL DEF IInv
<1> QED
  BY <1>1, <1>2, <1>3, PTL DEF Spec, ImplementsFilter, Filter!Spec
=============================================================================
