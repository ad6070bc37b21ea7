------------------------------ MODULE RelayWire ------------------------------
(***************************************************************************)
(* RelayStore with the writing of a fan-out plan spelled out: writeFanout  *)
(* in src/internal/relay/udp.go writes to one address after the other,     *)
(* long after the store's lock was released, while the control side ends   *)
(* and creates rooms and deadlines pass.                                   *)
(*                                                                         *)
(* The UDP loop is one goroutine: while it writes it calls nothing.  Up to *)
(* then RelayStore lets other packets come between, as the store promises  *)
(* to cope with.                                                           *)
(***************************************************************************)
EXTENDS RelayStore

CONSTANT WriteTimeout       \* of a whole batch; 2 ms, at most 20 ms

\* A tombstone outlasts every batch that was planned before it.
ASSUME TimeoutAssumption == WriteTimeout \in 1 .. TombstoneTTL

VARIABLE batch   \* what writeFanout has before it: the addresses not written
                 \* to, the write deadline, and the room and grant of the sender

wireVars == <<vars, batch>>

Batch == [left : SUBSET (Grant \X Endpoint), deadline : Nat, room : Room, sender : Grant]

ASSUME BatchAssumption == None \notin Batch

WireInit == Init /\ batch = None
-----------------------------------------------------------------------------
\* writeFanout sets the write deadline, once for all its writes.
BeginFanout ==
    /\ batch = None
    /\ loop # None /\ loop.phase = "planned" /\ loop.recipients # {}
    /\ batch' = [left |-> loop.recipients, deadline |-> now + WriteTimeout,
                 room |-> grants[loop.sender].room, sender |-> loop.sender]
    /\ UNCHANGED vars

\* Mutant: a write at the deadline still goes out.
InTimeLate == now <= batch.deadline

InTime == now < batch.deadline

\* One write goes out.
Write ==
    /\ batch # None /\ InTime
    /\ \E to \in batch.left : batch' = [batch EXCEPT !.left = batch.left \ {to}]
    /\ UNCHANGED vars

\* The batch is written, or it ends at a write that failed or came too late, or
\* no deadline could be set, or there was no plan.
EndFanout == LoopDone /\ batch' = None

\* Scheduling: the clock does not advance between the plan and the setting of
\* the deadline; the loop takes one mutex there and calls nothing that waits.
Prompt == loop # None /\ loop.phase = "planned" => batch # None

Between ==
    /\ UNCHANGED batch
    /\ \/ Control
       \/ Prompt /\ Tick
       \/ batch = None /\ Handshake
       \/ /\ batch = None
          /\ \E b \in Binding, named, genuine, allowed \in BOOLEAN, e \in Endpoint, s \in Sequence :
                \/ AdmitClientIngress(b, named, e, s, genuine, allowed)
                \/ AdmitPing(b, named, e, s, genuine)
       \/ \E allowed \in BOOLEAN : AdmitFanout(allowed)

WireNext == BeginFanout \/ Write \/ EndFanout \/ Between

WireSpec == WireInit /\ [][WireNext]_wireVars
-----------------------------------------------------------------------------
\* The room of a batch ended after the batch was planned.
EndedAt(r) == rooms[r].tombstoneDeadline - TombstoneTTL

\* A room falls silent with its end: what is still written to its addresses is
\* the rest of the one batch in hand, within the write timeout of the end, and
\* never after another room has come up under the same ID (ADR 0002 revokes at
\* once; writeFanout holds mere addresses).
SilentAfterTheEnd ==
    [][batch # None /\ batch' # None /\ batch' # batch =>
         \/ Standing(batch.room) /\ batch.sender \in rooms[batch.room].grants
         \/ rooms[batch.room].state = "tombstone" /\ now < EndedAt(batch.room) + WriteTimeout]_wireVars
=============================================================================
