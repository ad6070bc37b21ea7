----------------------------- MODULE RelayStore -----------------------------
(***************************************************************************)
(* The room registry and relay authority of the service: type Store in     *)
(* src/internal/store/store.go and relay.go.  Every exported method takes  *)
(* the one mutex, reads the clock once and runs to its end, so a method is *)
(* one action; time passes between actions.                                *)
(*                                                                         *)
(* Abstractions.  A grant ID, candidate ID or binding ID is a model value; *)
(* Go's nil map lookup is None.  A grant object is named by its grant ID,  *)
(* and a new grant takes an ID no resident room holds.  Tags are the       *)
(* verdict of their comparison ("genuine"), a request's room and session   *)
(* are whether both are the grant's own ("named").  The token buckets may  *)
(* refuse at any time: a preauthentication refusal changes nothing and is  *)
(* left out, the other refusals are choices of their actions.  A call that *)
(* is rejected without changing the store is a stuttering step.            *)
(***************************************************************************)
EXTENDS ReplayOps, FiniteSets

CONSTANTS
    Room, Participant, Grant, Candidate, Binding, Endpoint, Nonce,
    None,                \* nil
    Definition,          \* the participant sets rooms are created with
    RoomTTL, GrantTTL,   \* the lifetimes asked for, at most MaxRoomTTL and MaxGrantTTL
    ChallengeTTL, BindingTTL, EmptyGrace, TombstoneTTL,
    MaxOpenRooms, MaxRoomRecords, MaxActiveSessions,
    Sequence,            \* sequence numbers a client may send
    MaxTime,             \* bound: last reading of the clock
    MaxGeneration        \* bound: bindings of one grant

Challenge == [candidate : Candidate, nonce : Nonce, endpoint : Endpoint, deadline : Nat]
Completed == [candidate : Candidate, nonce : Nonce, endpoint : Endpoint, deadline : Nat,
              generation : Nat, binding : Binding]
Bound     == [id : Binding, endpoint : Endpoint, deadline : Nat, generation : Nat, replay : Window]
Admitted  == [phase : {"admitted"}, room : Room, participant : Participant \cup {None},
              binding : Binding, generation : Nat, sequence : Sequence]
Plan      == [phase : {"planned"}, sender : Grant, binding : Binding,
              recipients : SUBSET (Grant \X Endpoint)]

ASSUME NoneAssumption ==
    /\ None \notin Room /\ None \notin Participant /\ None \notin Grant
    /\ None \notin Candidate /\ None \notin Challenge /\ None \notin Completed
    /\ None \notin Bound /\ None \notin Admitted /\ None \notin Plan

ASSUME SetAssumption ==
    /\ IsFiniteSet(Room) /\ IsFiniteSet(Grant)
    /\ Definition \subseteq SUBSET Participant
    /\ \A players \in Definition : IsFiniteSet(players) /\ players # {}
    /\ Sequence \subseteq Nat \ {0}

ASSUME LimitAssumption ==
    /\ RoomTTL \subseteq Nat \ {0} /\ GrantTTL \subseteq Nat \ {0}
    /\ {ChallengeTTL, BindingTTL, EmptyGrace, TombstoneTTL} \subseteq Nat \ {0}
    /\ {MaxOpenRooms, MaxRoomRecords, MaxActiveSessions} \subseteq Nat
    /\ {MaxTime, MaxGeneration} \subseteq Nat

VARIABLES
    now,             \* the monotonic clock
    rooms,           \* roomsByID; an absent ID is a record of state "absent"
    grants,          \* the grant objects; one never allocated is of state "free"
    grantsByID,      \* the grants the index of that name holds
    candidatesByID, bindingsByID,
    openRooms, activeSessions,
    loop             \* what the UDP loop holds between two calls: nothing, an
                     \* AdmittedClientData or a RelayPlan

indexes == <<grantsByID, candidatesByID, bindingsByID>>
vars == <<now, rooms, grants, indexes, openRooms, activeSessions, loop>>

RoomRecord == [state : {"absent", "open", "empty", "tombstone"}, deadline : Nat,
               grants : SUBSET Grant, tombstoneDeadline : Nat]

GrantRecord == [state : {"free", "issued", "bound", "expired", "revoked"},
                room : Room \cup {None}, participant : Participant \cup {None},
                deadline : Nat, secret : BOOLEAN,
                bindingState : {"unbound", "bound", "rebind_pending", "expired", "revoked"},
                generation : Nat,
                pending : Challenge \cup {None},
                recent  : Completed \cup {None},
                binding : Bound \cup {None}]

NoRoom == [state |-> "absent", deadline |-> 0, grants |-> {}, tombstoneDeadline |-> 0]

NoGrant == [state |-> "free", room |-> None, participant |-> None, deadline |-> 0,
            secret |-> FALSE, bindingState |-> "unbound", generation |-> 0,
            pending |-> None, recent |-> None, binding |-> None]

Init ==
    /\ now = 0
    /\ rooms = [r \in Room |-> NoRoom]
    /\ grants = [g \in Grant |-> NoGrant]
    /\ grantsByID = {}
    /\ candidatesByID = [c \in Candidate |-> None]
    /\ bindingsByID = [b \in Binding |-> None]
    /\ openRooms = 0
    /\ activeSessions = 0
    /\ loop = None
-----------------------------------------------------------------------------
Earlier(s, t) == IF s <= t THEN s ELSE t

Live(grant) == grant.state \in {"issued", "bound"}

\* The room is resident and not a tombstone.
Standing(r) == rooms[r].state \in {"open", "empty"}

\* now has reached lastGrantDeadline(room) + delay.
GrantsPast(r, delay) == \A g \in rooms[r].grants : now >= grants[g].deadline + delay

RoomAccessTerminal(r) ==
    rooms[r].state # "open" \/ now >= rooms[r].deadline \/ GrantsPast(r, 0)
-----------------------------------------------------------------------------
(***************************************************************************)
(* The private helpers of relay.go work on one grant and on the indexes.   *)
(* They are written as functions of a work item: the grant record as left  *)
(* so far, the index entries deleted on its behalf, and whether it stopped *)
(* counting as an active session.                                          *)
(***************************************************************************)
Work(g) == [grant |-> grants[g], candidates |-> {}, bindings |-> {},
            delisted |-> FALSE, ended |-> FALSE]

ClearPending(w) ==
    LET x == w.grant
    IN  IF x.pending = None THEN w
        ELSE [w EXCEPT !.candidates = @ \cup {x.pending.candidate},
                       !.grant = [x EXCEPT !.pending = None,
                                           !.bindingState = IF x.binding # None THEN "bound"
                                                            ELSE x.bindingState]]

\* Mutant: the candidate ID of the completed handshake stays in the index.
ClearRecentLeavesID(w) ==
    IF w.grant.recent = None THEN w
    ELSE [w EXCEPT !.grant = [w.grant EXCEPT !.recent = None]]

ClearRecent(w) ==
    IF w.grant.recent = None THEN w
    ELSE [w EXCEPT !.candidates = @ \cup {w.grant.recent.candidate},
                   !.grant = [w.grant EXCEPT !.recent = None]]

\* Mutants: the grant keeps showing the binding it lost; the binding ID stays
\* in the index; the completed handshake outlives its binding.
ClearBindingSilently(w) ==
    IF w.grant.binding = None THEN w
    ELSE LET v == ClearRecent(w)
         IN  [v EXCEPT !.bindings = @ \cup {w.grant.binding.id},
                       !.grant = [v.grant EXCEPT !.binding = None, !.state = "issued"]]

ClearBindingLeavesID(w) ==
    IF w.grant.binding = None THEN w
    ELSE [ClearBindingSilently(w) EXCEPT !.bindings = w.bindings,
                                         !.grant.bindingState = "expired"]

ClearBindingKeepsRecent(w) ==
    IF w.grant.binding = None THEN w
    ELSE [w EXCEPT !.bindings = @ \cup {w.grant.binding.id},
                   !.grant = [w.grant EXCEPT !.binding = None, !.state = "issued",
                                             !.bindingState = "expired"]]

\* The binding and, with it, the completed handshake that produced it.
ClearBinding(w) ==
    IF w.grant.binding = None THEN w
    ELSE LET binding == w.grant.binding
             own == w.grant.recent # None /\ w.grant.recent.generation = binding.generation
             v == IF own THEN ClearRecent(w) ELSE w
             x == [v.grant EXCEPT !.binding = None]
         IN  [v EXCEPT !.bindings = @ \cup {binding.id},
                       !.grant = IF Live(x)
                                 THEN [x EXCEPT !.state = "issued", !.bindingState = "expired"]
                                 ELSE x]

ExpireRelay(w) ==
    LET due(handle) == handle # None /\ now >= handle.deadline
        u == IF due(w.grant.pending) THEN ClearPending(w) ELSE w
        v == IF due(u.grant.recent) THEN ClearRecent(u) ELSE u
    IN  IF due(v.grant.binding) THEN ClearBinding(v) ELSE v

ClearRelay(w) ==
    LET v == ClearBinding(ClearRecent(ClearPending(w)))
    IN  [v EXCEPT !.grant = [v.grant EXCEPT !.generation = 0]]

\* Mutant: a grant that already ended is subtracted again.
TerminalGrantCountsTwice(w, terminal) ==
    LET v == ClearRelay(w)
    IN  [v EXCEPT !.delisted = TRUE, !.ended = TRUE,
                  !.grant = [v.grant EXCEPT !.secret = FALSE, !.state = terminal,
                                            !.bindingState = terminal]]

TerminalGrant(w, terminal) ==
    LET v == ClearRelay(w)
        x == [v.grant EXCEPT !.secret = FALSE]
    IN  [v EXCEPT !.delisted = TRUE,
                  !.ended = v.ended \/ Live(x),
                  !.grant = IF Live(x) THEN [x EXCEPT !.state = terminal, !.bindingState = terminal]
                            ELSE x]

\* The store after the work on some grants: their records, and the indexes
\* and the session counter without what the work took out of them.
Unlisted(index, ids) == [i \in DOMAIN index |-> IF i \in ids THEN None ELSE index[i]]

SettledGrants(work)     == [g \in Grant |-> IF g \in DOMAIN work THEN work[g].grant ELSE grants[g]]
SettledIDs(work)        == grantsByID \ {g \in DOMAIN work : work[g].delisted}
SettledCandidates(work) == Unlisted(candidatesByID, UNION {work[g].candidates : g \in DOMAIN work})
SettledBindings(work)   == Unlisted(bindingsByID, UNION {work[g].bindings : g \in DOMAIN work})
SettledSessions(work)   == activeSessions - Cardinality({g \in DOMAIN work : work[g].ended})

Settle(work) ==
    /\ grants' = SettledGrants(work)
    /\ grantsByID' = SettledIDs(work)
    /\ candidatesByID' = SettledCandidates(work)
    /\ bindingsByID' = SettledBindings(work)
    /\ activeSessions' = SettledSessions(work)

One(g, w) == [h \in {g} |-> w]

\* tombstoneRoom, for a room that is not one yet.
Tombstoned == [state |-> "tombstone", deadline |-> 0, grants |-> {},
               tombstoneDeadline |-> now + TombstoneTTL]

TombstoneRoom(r, terminal) ==
    /\ Settle([g \in rooms[r].grants |-> TerminalGrant(Work(g), terminal)])
    /\ rooms' = [rooms EXCEPT ![r] = Tombstoned]
    /\ openRooms' = IF rooms[r].state = "open" THEN openRooms - 1 ELSE openRooms
-----------------------------------------------------------------------------
(***************************************************************************)
(* The control side: CreateRoom, EndRoom and the sweep.                    *)
(***************************************************************************)
Vacant(r) ==
    \/ rooms[r].state = "absent"
    \/ rooms[r].state = "tombstone" /\ now >= rooms[r].tombstoneDeadline

\* The IDs a CSPRNG draw may return: none that a resident room still holds.
Drawable == Grant \ UNION {rooms[r].grants : r \in Room}

Records(r) == {q \in Room \ {r} : rooms[q].state # "absent"}

\* CreateRoom that allocates.  An ID in use by a standing room answers with
\* the room's allocation or a conflict and changes nothing.
CreateRoom(r, players, roomTTL, grantTTL) ==
    /\ Vacant(r)
    /\ \A p \in players : grantTTL[p] <= roomTTL
    /\ openRooms < MaxOpenRooms
    /\ Cardinality(Records(r)) < MaxRoomRecords
    /\ activeSessions <= MaxActiveSessions - Cardinality(players)
    /\ \E id \in [players -> Drawable] :
        /\ \A p, q \in players : p # q => id[p] # id[q]
        /\ LET issued == {id[p] : p \in players}
               owner(g) == CHOOSE p \in players : id[p] = g
           IN  /\ grants' = [g \in Grant |->
                      IF g \in issued
                      THEN [NoGrant EXCEPT !.state = "issued", !.room = r, !.participant = owner(g),
                                           !.deadline = now + grantTTL[owner(g)], !.secret = TRUE]
                      ELSE grants[g]]
               /\ grantsByID' = grantsByID \cup issued
               /\ rooms' = [rooms EXCEPT ![r] = [NoRoom EXCEPT !.state = "open",
                                                               !.deadline = now + roomTTL,
                                                               !.grants = issued]]
    /\ openRooms' = openRooms + 1
    /\ activeSessions' = activeSessions + Cardinality(players)
    /\ UNCHANGED <<now, candidatesByID, bindingsByID, loop>>

\* CreateRoom that fails after it dropped an old tombstone: a lifetime out of
\* range, no capacity, or no random bytes.
CreateRoomFails(r) ==
    /\ rooms[r].state = "tombstone" /\ Vacant(r)
    /\ rooms' = [rooms EXCEPT ![r] = NoRoom]
    /\ UNCHANGED <<now, grants, indexes, openRooms, activeSessions, loop>>

\* Mutant: a repeated EndRoom starts the tombstone's time again.
EndRoomRefreshes(r) ==
    /\ rooms[r].state # "absent"
    /\ UNCHANGED <<now, loop>>
    /\ TombstoneRoom(r, "revoked")

\* EndRoom: revoke a standing room, or drop a tombstone that is due.
EndRoom(r) ==
    /\ UNCHANGED <<now, loop>>
    /\ \/ /\ Standing(r)
          /\ TombstoneRoom(r, "revoked")
       \/ /\ rooms[r].state = "tombstone" /\ Vacant(r)
          /\ rooms' = [rooms EXCEPT ![r] = NoRoom]
          /\ UNCHANGED <<grants, indexes, openRooms, activeSessions>>

\* Mutant: the sweep ends a grant one tick before its deadline.
SweptGrantEarly(g) ==
    LET w == ExpireRelay(Work(g))
    IN  IF Live(w.grant) /\ now + 1 >= w.grant.deadline THEN TerminalGrant(w, "expired") ELSE w

\* What the sweep makes of a grant and of a room.
SweptGrant(g) ==
    LET w == ExpireRelay(Work(g))
    IN  IF Live(w.grant) /\ now >= w.grant.deadline THEN TerminalGrant(w, "expired") ELSE w

\* Mutant: the grace after the last grant is forgotten.
SweepEndsAtDeadline(r) == Standing(r) /\ now >= rooms[r].deadline

SweepEnds(r) == Standing(r) /\ (now >= rooms[r].deadline \/ GrantsPast(r, EmptyGrace))

SweptRoom(r) ==
    CASE rooms[r].state = "tombstone" /\ Vacant(r) -> NoRoom
      [] SweepEnds(r) -> Tombstoned
      [] Standing(r) /\ ~SweepEnds(r) /\ GrantsPast(r, 0) -> [rooms[r] EXCEPT !.state = "empty"]
      [] OTHER -> rooms[r]

\* Expire: one pass of the sweeper over every room.
Expire ==
    LET resident == UNION {rooms[r].grants : r \in {q \in Room : Standing(q)}}
    IN  /\ Settle([g \in resident |->
               IF SweepEnds(grants[g].room) THEN TerminalGrant(SweptGrant(g), "expired")
               ELSE SweptGrant(g)])
        /\ rooms' = [r \in Room |-> SweptRoom(r)]
        /\ openRooms' = openRooms - Cardinality({r \in Room : rooms[r].state = "open"
                                                              /\ SweptRoom(r).state # "open"})
        /\ UNCHANGED <<now, loop>>
-----------------------------------------------------------------------------
(***************************************************************************)
(* The relay side: the handshake, authenticated ingress and fan-out.       *)
(***************************************************************************)
\* liveAuthority accepts a grant that is live and whose room still stands.
Authoritative(g) == Live(grants[g]) /\ Standing(grants[g].room)

\* Mutant: authority outlives the exact deadline.
LapsedLate(g) == now > rooms[grants[g].room].deadline \/ now > grants[g].deadline

\* A deadline liveAuthority finds passed, the room's or the grant's own.
Lapsed(g) == now >= rooms[grants[g].room].deadline \/ now >= grants[g].deadline

\* What liveAuthority does about it: it ends the room, or else the grant.
LapseAuthority(g) ==
    IF now >= rooms[grants[g].room].deadline
    THEN TombstoneRoom(grants[g].room, "expired")
    ELSE Settle(One(g, TerminalGrant(Work(g), "expired"))) /\ UNCHANGED <<rooms, openRooms>>

\* Mutant: the deadline is not cut to the grant's and the room's.
DeadlineUncut(g, ttl) == now + ttl

\* A deadline ttl from now, cut to the grant's and its room's.
DeadlineWithin(g, ttl) ==
    Earlier(now + ttl, Earlier(grants[g].deadline, rooms[grants[g].room].deadline))

\* BeginChallenge (Hello).  The draw is a candidate ID, or None when the random
\* source fails; a pending or a just completed handshake answers without one.
BeginChallenge(g, named, e, n, drawn) ==
    /\ g \in grantsByID /\ Authoritative(g)
    /\ UNCHANGED <<now, loop>>
    /\ \/ Lapsed(g) /\ LapseAuthority(g)
       \/ LET w == ExpireRelay(Work(g))
              answered == \/ w.grant.pending # None
                          \/ w.grant.recent # None /\ w.grant.recent.nonce = n
              challenge == [candidate |-> drawn, nonce |-> n, endpoint |-> e,
                            deadline |-> DeadlineWithin(g, ChallengeTTL)]
          IN  /\ ~Lapsed(g) /\ named
              /\ UNCHANGED <<rooms, openRooms>>
              /\ \/ /\ answered \/ drawn = None
                    /\ Settle(One(g, w))
                 \/ /\ ~answered /\ drawn # None
                    /\ SettledCandidates(One(g, w))[drawn] = None
                    /\ grants' = [grants EXCEPT ![g] =
                           [w.grant EXCEPT !.pending = challenge,
                                           !.bindingState = IF w.grant.binding # None
                                                            THEN "rebind_pending"
                                                            ELSE w.grant.bindingState]]
                    /\ candidatesByID' = [SettledCandidates(One(g, w)) EXCEPT ![drawn] = g]
                    /\ bindingsByID' = SettledBindings(One(g, w))
                    /\ UNCHANGED <<grantsByID, activeSessions>>

\* Authenticate, when the candidate is that of the handshake completed last and
\* the stored answer has gone stale.
StaleRetry(g, e) ==
    LET recent  == grants[g].recent
        binding == grants[g].binding
        orphan  == \/ binding = None
                   \/ binding.generation # recent.generation
                   \/ binding.id # recent.binding
        overdue == binding # None /\ now >= binding.deadline
    IN  /\ \/ now >= recent.deadline
           \/ e = recent.endpoint /\ (orphan \/ overdue)
        /\ Settle(One(g, IF overdue /\ (now >= recent.deadline \/ ~orphan)
                         THEN ClearBinding(Work(g)) ELSE ClearRecent(Work(g))))
        /\ UNCHANGED <<rooms, openRooms>>

\* Authenticate, when the pending challenge is answered in time and correctly:
\* the new binding replaces the old one in one step.
Bind(g, c, e, b) ==
    LET pending  == grants[g].pending
        deadline == DeadlineWithin(g, BindingTTL)
        next     == grants[g].generation + 1
        cleared  == One(g, ClearBinding(ClearRecent(ClearPending(Work(g)))))
    IN  /\ next <= MaxGeneration
        /\ bindingsByID[b] = None
        /\ grants' = [grants EXCEPT ![g] =
               [cleared[g].grant EXCEPT
                  !.state = "bound", !.bindingState = "bound", !.generation = next,
                  !.binding = [id |-> b, endpoint |-> e, deadline |-> deadline,
                               generation |-> next, replay |-> NewWindow],
                  !.recent = [candidate |-> c, nonce |-> pending.nonce, endpoint |-> pending.endpoint,
                              deadline |-> Earlier(now + ChallengeTTL, deadline),
                              generation |-> next, binding |-> b]]]
        /\ candidatesByID' = [SettledCandidates(cleared) EXCEPT ![c] = g]
        /\ bindingsByID' = [SettledBindings(cleared) EXCEPT ![b] = g]
        /\ UNCHANGED <<rooms, openRooms, grantsByID, activeSessions>>

\* Authenticate (Auth).  Answers that change nothing are stuttering steps: an
\* unknown candidate, a repeated Auth, another endpoint, a wrong tag.
Authenticate(c, named, e, genuine, b) ==
    LET g == candidatesByID[c]
    IN  /\ g # None
        /\ Authoritative(g)
        /\ UNCHANGED <<now, loop>>
        /\ LET recent  == grants[g].recent
               pending == grants[g].pending
               retry   == recent # None /\ recent.candidate = c
               first   == ~retry /\ pending # None /\ pending.candidate = c
           IN  \/ Lapsed(g) /\ LapseAuthority(g)
               \/ ~Lapsed(g) /\ named /\ retry /\ StaleRetry(g, e)
               \/ /\ ~Lapsed(g) /\ named /\ first /\ now >= pending.deadline
                  /\ Settle(One(g, ClearPending(Work(g))))
                  /\ UNCHANGED <<rooms, openRooms>>
               \/ /\ ~Lapsed(g) /\ named /\ first /\ now < pending.deadline
                  /\ e = pending.endpoint /\ genuine
                  /\ Bind(g, c, e, b)
-----------------------------------------------------------------------------
\* The binding ID leads to a grant that carries this very binding.
Resolves(b) ==
    LET g == bindingsByID[b]
    IN  g # None /\ grants[g].binding # None /\ grants[g].binding.id = b

\* admitAuthenticatedLocked, when it rejects because something has expired.
IngressExpires(g, named) ==
    \/ Lapsed(g) /\ LapseAuthority(g)
    \/ /\ ~Lapsed(g) /\ named /\ now >= grants[g].binding.deadline
       /\ Settle(One(g, ClearBinding(Work(g))))
       /\ UNCHANGED <<rooms, openRooms>>

\* admitAuthenticatedLocked, when the packet is authentic: the sequence number
\* is spent before the token buckets are asked.
IngressSpends(g, named, e, s, genuine) ==
    /\ ~Lapsed(g) /\ named /\ now < grants[g].binding.deadline
    /\ e = grants[g].binding.endpoint /\ genuine
    /\ LET binding == grants[g].binding
       IN  grants' = [grants EXCEPT ![g] =
               [grants[g] EXCEPT !.binding = [binding EXCEPT !.replay = Accept(binding.replay, s)]]]
    /\ UNCHANGED <<rooms, indexes, openRooms, activeSessions>>

\* AdmitPing.
AdmitPing(b, named, e, s, genuine) ==
    LET g == bindingsByID[b]
    IN  /\ Resolves(b)
        /\ Authoritative(g) /\ rooms[grants[g].room].state = "open"
        /\ IngressExpires(g, named) \/ IngressSpends(g, named, e, s, genuine)
        /\ UNCHANGED <<now, loop>>

\* AdmitClientIngress; allowed is the answer of the authenticated token buckets.
AdmitClientIngress(b, named, e, s, genuine, allowed) ==
    LET g == bindingsByID[b]
    IN  /\ loop = None
        /\ Resolves(b)
        /\ Authoritative(g) /\ rooms[grants[g].room].state = "open"
        /\ UNCHANGED now
        /\ \/ IngressExpires(g, named) /\ UNCHANGED loop
           \/ /\ IngressSpends(g, named, e, s, genuine)
              /\ loop' = IF allowed /\ Fresh(grants[g].binding.replay, s)
                         THEN [phase |-> "admitted", room |-> grants[g].room,
                               participant |-> grants[g].participant, binding |-> b,
                               generation |-> grants[g].binding.generation, sequence |-> s]
                         ELSE None

\* The admitted value is still that of the binding its ID leads to.
Current(admitted) ==
    LET g == bindingsByID[admitted.binding]
    IN  /\ Resolves(admitted.binding)
        /\ grants[g].binding.generation = admitted.generation
        /\ grants[g].room = admitted.room
        /\ grants[g].participant = admitted.participant

\* The other live grants of the sender's room, each brought up to date.
Audience(g) == {h \in rooms[grants[g].room].grants \ {g} : Live(grants[h])}

\* Mutant: recipients are taken as they are, without expiring their relay state.
FanoutWorkUnexpired(g) ==
    [h \in Audience(g) |-> IF now >= grants[h].deadline THEN TerminalGrant(Work(h), "expired")
                           ELSE Work(h)]

FanoutWork(g) ==
    [h \in Audience(g) |-> IF now >= grants[h].deadline THEN TerminalGrant(Work(h), "expired")
                           ELSE ExpireRelay(Work(h))]

Recipients(work) ==
    {<<h, work[h].grant.binding.endpoint>> : h \in {k \in DOMAIN work : work[k].grant.binding # None}}

\* AdmitFanout; allowed is the answer of the fan-out token buckets.
AdmitFanout(allowed) ==
    /\ loop # None /\ loop.phase = "admitted"
    /\ UNCHANGED now
    /\ LET g == bindingsByID[loop.binding]
       IN  \/ /\ ~(Current(loop) /\ Authoritative(g))
              /\ loop' = None
              /\ UNCHANGED <<rooms, grants, indexes, openRooms, activeSessions>>
           \/ /\ Current(loop) /\ Authoritative(g) /\ Lapsed(g)
              /\ LapseAuthority(g)
              /\ loop' = None
           \/ /\ Current(loop) /\ Authoritative(g) /\ ~Lapsed(g)
              /\ now >= grants[g].binding.deadline
              /\ Settle(One(g, ClearBinding(Work(g))))
              /\ loop' = None
              /\ UNCHANGED <<rooms, openRooms>>
           \/ /\ Current(loop) /\ Authoritative(g) /\ ~Lapsed(g)
              /\ now < grants[g].binding.deadline
              /\ Settle(FanoutWork(g))
              /\ loop' = IF allowed \/ Recipients(FanoutWork(g)) = {}
                         THEN [phase |-> "planned", sender |-> g, binding |-> loop.binding,
                               recipients |-> Recipients(FanoutWork(g))]
                         ELSE None
              /\ UNCHANGED <<rooms, openRooms>>

\* The loop is done with what it holds: the plan is written out, or the answer
\* could not be encoded or is oversized.
LoopDone ==
    /\ loop # None
    /\ loop' = None
    /\ UNCHANGED <<now, rooms, grants, indexes, openRooms, activeSessions>>

Tick ==
    /\ now < MaxTime
    /\ now' = now + 1
    /\ UNCHANGED <<rooms, grants, indexes, openRooms, activeSessions, loop>>

Control ==
    \/ \E r \in Room, players \in Definition, roomTTL \in RoomTTL :
          \E grantTTL \in [players -> GrantTTL] : CreateRoom(r, players, roomTTL, grantTTL)
    \/ \E r \in Room : CreateRoomFails(r) \/ EndRoom(r)
    \/ Expire

Handshake ==
    \E named, genuine \in BOOLEAN, e \in Endpoint :
        \/ \E g \in Grant, n \in Nonce, drawn \in Candidate \cup {None} :
              BeginChallenge(g, named, e, n, drawn)
        \/ \E c \in Candidate, b \in Binding : Authenticate(c, named, e, genuine, b)

Traffic ==
    \/ \E b \in Binding, named, genuine, allowed \in BOOLEAN, e \in Endpoint, s \in Sequence :
          \/ AdmitClientIngress(b, named, e, s, genuine, allowed)
          \/ AdmitPing(b, named, e, s, genuine)
    \/ \E allowed \in BOOLEAN : AdmitFanout(allowed)
    \/ LoopDone

Next == Control \/ Handshake \/ Traffic \/ Tick

Spec == Init /\ [][Next]_vars
-----------------------------------------------------------------------------
TypeOK ==
    /\ now \in Nat
    /\ rooms \in [Room -> RoomRecord]
    /\ grants \in [Grant -> GrantRecord]
    /\ grantsByID \subseteq Grant
    /\ candidatesByID \in [Candidate -> Grant \cup {None}]
    /\ bindingsByID \in [Binding -> Grant \cup {None}]
    /\ openRooms \in Int
    /\ activeSessions \in Int
    /\ loop \in Admitted \cup Plan \cup {None}

Candidates(grant) ==
    {c \in Candidate : \/ grant.pending # None /\ c = grant.pending.candidate
                       \/ grant.recent # None /\ c = grant.recent.candidate}

\* The three ID indexes list exactly the credentials the grants carry: no ID
\* of a revoked, expired or replaced credential still resolves, and none of
\* a current one is lost, whichever of the many clear paths ran.
IndexIntegrity ==
    /\ \A g \in Grant : g \in grantsByID <=> Live(grants[g])
    /\ \A c \in Candidate, g \in Grant :
          candidatesByID[c] = g <=> c \in Candidates(grants[g])
    /\ \A b \in Binding, g \in Grant :
          bindingsByID[b] = g <=> grants[g].binding # None /\ grants[g].binding.id = b

\* A live grant is listed by the open room it names, a resident room lists only
\* grants that name it, and a grant that is not live has neither secret nor
\* credentials: what the code dereferences after an index lookup is there.
Armed(x) ==
    IF Live(x) THEN x.secret
    ELSE ~x.secret /\ x.pending = None /\ x.recent = None /\ x.binding = None

GrantHome ==
    /\ \A g \in Grant :
          /\ Armed(grants[g])
          /\ Live(grants[g]) =>
                /\ grants[g].room \in Room /\ rooms[grants[g].room].state = "open"
                /\ g \in rooms[grants[g].room].grants
    /\ \A r \in Room : \A g \in rooms[r].grants : grants[g].room = r

\* Every credential ends no later than what it was derived from: a challenge
\* with its grant, a completed handshake with its binding, a binding with its
\* grant, a grant with its room.
Nested(x) ==
    /\ x.pending # None => x.pending.deadline <= x.deadline
    /\ x.binding # None => x.binding.deadline <= x.deadline
    /\ x.recent # None /\ x.binding # None => x.recent.deadline <= x.binding.deadline

DeadlineNesting ==
    \A g \in Grant :
        /\ Nested(grants[g])
        /\ Live(grants[g]) => grants[g].deadline <= rooms[grants[g].room].deadline

\* The states a grant shows agree with the credentials it carries, and a
\* completed handshake is always the one that made the current binding (the
\* mismatch Authenticate tests for at relay.go:471 cannot arise).
Coherent(x) ==
    /\ x.binding # None <=> x.state = "bound"
    /\ x.binding # None => /\ x.bindingState = IF x.pending # None THEN "rebind_pending" ELSE "bound"
                           /\ x.binding.generation = x.generation
    /\ x.binding = None => x.bindingState \notin {"bound", "rebind_pending"}
    /\ x.recent # None => /\ x.binding # None
                          /\ x.recent.generation = x.generation
                          /\ x.recent.binding = x.binding.id
    /\ x.pending # None /\ x.recent # None => x.pending.candidate # x.recent.candidate

HandshakeCoherence == \A g \in Grant : Coherent(grants[g])

\* The two running counters equal what they count, so the capacity checks of
\* CreateRoom neither leak nor admit more than the limits.
CountersExact ==
    /\ openRooms = Cardinality({r \in Room : rooms[r].state = "open"})
    /\ activeSessions = Cardinality({g \in Grant : Live(grants[g])})
    /\ openRooms <= MaxOpenRooms
    /\ activeSessions <= MaxActiveSessions
    /\ Cardinality({r \in Room : rooms[r].state # "absent"}) <= MaxRoomRecords

\* A binding, a challenge or a packet is accepted only before the deadline of
\* the grant and of its room (ADR 0002: authority ends exactly at now >= deadline).
AuthorityEndsAtDeadline ==
    [][\A g \in Grant :
         LET granted == \/ grants'[g].binding # None /\ grants'[g].binding # grants[g].binding
                        \/ grants'[g].pending # None /\ grants'[g].pending # grants[g].pending
         IN  granted => /\ Live(grants[g]) /\ now < grants[g].deadline
                        /\ rooms[grants[g].room].state = "open"
                        /\ now < rooms[grants[g].room].deadline]_vars

\* A tombstone keeps its deadline until it is dropped, and the ID stays closed
\* until then, whatever is retried meanwhile (ADR 0002: 60 s, never refreshed).
TombstoneHolds ==
    [][\A r \in Room : rooms[r].state = "tombstone" =>
         rooms'[r] = rooms[r] \/ now >= rooms[r].tombstoneDeadline]_vars

\* A grant that ended stays ended as long as its room is the same; one that
\* is live and not due is ended only by the end of its room.
GrantsEndOnce ==
    [][\A g \in Grant :
         /\ ~Live(grants[g]) /\ Live(grants'[g]) =>
               \A r \in Room : g \notin rooms[r].grants
         /\ Live(grants[g]) /\ ~Live(grants'[g]) =>
               now >= grants[g].deadline \/ rooms'[grants[g].room].state = "tombstone"]_vars

\* A new binding supersedes the one before it in one step: its generation is
\* the next, its replay window is fresh, its ID leads to the grant and the old
\* ID leads nowhere (ADR 0003: rebind is atomic).
RebindIsAtomic ==
    [][\A g \in Grant :
         LET old == grants[g].binding
             new == grants'[g].binding
         IN  new # None /\ (old = None \/ old.id # new.id) =>
               /\ new.generation = grants[g].generation + 1
               /\ new.replay = NewWindow
               /\ bindingsByID'[new.id] = g
               /\ old # None => bindingsByID'[old.id] = None]_vars

\* While a binding lives a sequence number once spent is never fresh again, and
\* a packet is admitted only by spending one that was (ADR 0001).  The window
\* starts afresh with a new binding and only then.
SequenceSpentOnce ==
    [][/\ \A g \in Grant :
            LET old == grants[g].binding
                new == grants'[g].binding
            IN  old # None /\ new # None /\ new.generation = old.generation =>
                  \A s \in Sequence : Fresh(new.replay, s) => Fresh(old.replay, s)
       /\ loop = None /\ loop' # None =>
            LET g == bindingsByID[loop'.binding]
            IN  /\ Fresh(grants[g].binding.replay, loop'.sequence)
                /\ ~Fresh(grants'[g].binding.replay, loop'.sequence)]_vars

\* A fan-out plan names exactly the other grants of the sender's room that are
\* bound and within their deadlines at that moment, at their current endpoints,
\* and only while the sender's own binding is still the one that was admitted.
FanoutAudience ==
    [][(loop # None /\ loop' # None /\ loop' # loop) =>
         LET g == loop'.sender
             bound(h) == /\ grants[h].binding # None /\ grants[h].room = grants[g].room
                         /\ now < grants[h].binding.deadline /\ now < grants[h].deadline
         IN  /\ bound(g) /\ grants[g].binding.id = loop.binding
             /\ grants[g].binding.generation = loop.generation
             /\ loop'.recipients =
                   {<<h, grants[h].binding.endpoint>> : h \in {k \in Grant \ {g} : bound(k)}}]_vars

\* GetRoom: what a snapshot shows of a grant.
Snapshot(g) ==
    LET x == grants[g]
        lapsed == x.binding # None /\ now >= x.binding.deadline
    IN  IF x.state = "revoked" THEN <<"revoked", "revoked">>
        ELSE IF x.state = "expired" \/ (Live(x) /\ now >= x.deadline) THEN <<"expired", "expired">>
        ELSE IF lapsed THEN <<"issued", "expired">>
        ELSE IF x.binding # None
        THEN <<x.state, IF x.pending # None /\ now < x.pending.deadline
                        THEN "rebind_pending" ELSE "bound">>
        ELSE <<x.state, x.bindingState>>

GetRoom(r) ==
    IF RoomAccessTerminal(r) THEN None
    ELSE [g \in rooms[r].grants |-> Snapshot(g)]

\* The sweep is invisible: no reader can tell whether the pass of the sweeper
\* due now has already run, so expiry is exact although it is carried out late.
SweepIsInvisible == [][Expire => \A r \in Room : GetRoom(r)' = GetRoom(r)]_vars
=============================================================================
