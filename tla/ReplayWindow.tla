---------------------------- MODULE ReplayWindow ----------------------------
(***************************************************************************)
(* One binding's replay window driven by an arbitrary stream of sequence   *)
(* numbers (reordered, duplicated, lost), and the proof obligation that it *)
(* implements OnceFilter, which remembers everything.                      *)
(***************************************************************************)
EXTENDS ReplayOps

CONSTANT Sequence    \* the sequence numbers a client may send

ASSUME SequenceAssumption == Sequence \subseteq Nat \ {0}

VARIABLES window,      \* the window of the binding
          delivered,   \* history: the numbers accept() returned true for
          verdict      \* the last result of accept()

vars == <<window, delivered, verdict>>

Init ==
    /\ window = NewWindow
    /\ delivered = {}
    /\ verdict = FALSE

\* One call of replayWindow.accept.
Receive(s) ==
    /\ verdict' = Fresh(window, s)
    /\ window' = Accept(window, s)
    /\ delivered' = IF Fresh(window, s) THEN delivered \cup {s} ELSE delivered

Next == \E s \in Sequence : Receive(s)

Spec == Init /\ [][Next]_vars
-----------------------------------------------------------------------------
TypeOK ==
    /\ window \in Window
    /\ delivered \subseteq Sequence
    /\ verdict \in BOOLEAN

\* The three words of the window say about the past exactly what accept()
\* needs: highest is the greatest number accepted, and each bit tells
\* whether the number it stands for was accepted.
WindowExact ==
    /\ window.initialized <=> delivered # {}
    /\ window.initialized => window.highest \in delivered
    /\ \A d \in delivered : d <= window.highest
    /\ \A k \in 0 .. Width - 1 :
          k \in window.bitmap <=> window.initialized /\ window.highest - k \in delivered

\* The window implements the filter that never forgets: no duplicate is
\* ever let through, and nothing new inside the window is ever refused.
Filter == INSTANCE OnceFilter
ImplementsFilter == Filter!Spec
=============================================================================
