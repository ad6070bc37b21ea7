---------------------------- MODULE MCAdmission ----------------------------
(***************************************************************************)
(* The finite instance of Admission: pre-authentication with more sources  *)
(* than the table holds, and the two groups behind authentication with two *)
(* rooms.  The process limiters are tighter than those below them, so that *)
(* either may be the one that refuses.                                     *)
(***************************************************************************)
EXTENDS Admission, TLC

CONSTANTS g1, g2, g3, r1, r2

MCRoomOf == (g1 :> r1) @@ (g2 :> r1) @@ (g3 :> r2)

Of(packets, bytes) == [d \in Dim |-> IF d = "packets" THEN packets ELSE bytes]

MCRate == [class \in Class |-> Of(1, 1)]
MCBurst == [class \in Class |->
               CASE class = "source" -> Of(2, 2)
                 [] class = "preauth" -> Of(4, 5)
                 [] class = "session" -> Of(1, 2)
                 [] class = "room" -> Of(2, 3)
                 [] class = "process" -> Of(2, 3)
                 [] class = "roomFanout" -> Of(1, 2)
                 [] class = "fanout" -> Of(1, 1)]

Symmetry == Permutations(Source)

\* A behaviour takes from the limiters before authentication or from those
\* behind it: the two share nothing but the clock.
OneSide ==
    \/ spent[<<"preauth", None>>] = Nothing
    \/ spent[<<"process", None>>] = Nothing /\ spent[<<"fanout", None>>] = Nothing
=============================================================================
