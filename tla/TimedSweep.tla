----------------------------- MODULE TimedSweep -----------------------------
(***************************************************************************)
(* RelayStore with its sweeper on a clock: the ticker of RunSweeper in     *)
(* src/internal/store/store.go and of runSweeper in                        *)
(* src/internal/server/server.go, which calls Expire.  A pass may come     *)
(* early, as a ticker that was late once does, but never more than one     *)
(* interval after the pass before it; a pass takes no time of the clock.   *)
(***************************************************************************)
EXTENDS RelayStore

CONSTANT SweepInterval

ASSUME IntervalAssumption == SweepInterval \in Nat \ {0}

VARIABLE nextSweep      \* when the ticker fires next, at the latest

timedVars == <<vars, nextSweep>>

TimedInit == Init /\ nextSweep = SweepInterval

SweepDue == now >= nextSweep

\* The ticker fires: one pass, and the next is due an interval later.
Sweep ==
    /\ Expire
    /\ nextSweep' = now + SweepInterval

\* Time does not pass a tick that is due.
TimedTick ==
    /\ ~SweepDue
    /\ Tick
    /\ UNCHANGED nextSweep

Calls ==
    \/ \E r \in Room, players \in Definition, roomTTL \in RoomTTL :
          \E grantTTL \in [players -> GrantTTL] : CreateRoom(r, players, roomTTL, grantTTL)
    \/ \E r \in Room : CreateRoomFails(r) \/ EndRoom(r)
    \/ Handshake
    \/ Traffic

TimedNext ==
    \/ Calls /\ UNCHANGED nextSweep
    \/ Sweep
    \/ TimedTick

TimedSpec == TimedInit /\ [][TimedNext]_timedVars
-----------------------------------------------------------------------------
\* What is left of a room is reclaimed within one sweep (ADR 0002: a room one
\* sweep after its deadline, or after its last grant and the grace of 5 s; a
\* tombstone after 61 s), though nobody calls anything: records, and the
\* capacity they take, do not pile up.
ReclaimedInTime ==
    \A r \in Room :
        /\ Standing(r) => /\ now < rooms[r].deadline + SweepInterval
                          /\ ~GrantsPast(r, EmptyGrace + SweepInterval)
        /\ rooms[r].state = "open" => ~GrantsPast(r, SweepInterval)
        /\ rooms[r].state = "tombstone" => now < rooms[r].tombstoneDeadline + SweepInterval
=============================================================================
