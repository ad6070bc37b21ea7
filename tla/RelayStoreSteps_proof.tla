----------------------- MODULE RelayStoreSteps_proof -----------------------
(***************************************************************************)
(* For any number of rooms, participants and IDs, any limits and any       *)
(* lifetimes: what no step of RelayStore may do.  Each action property     *)
(* follows from the invariant of RelayStore_proof and from a division of   *)
(* the steps by what they do to the grants (StepCases) and to the rooms    *)
(* (RoomCases).  So do the two properties of the modules that put the      *)
(* store on a clock, TimedSweep and RelayWire, at the end.                 *)
(***************************************************************************)
EXTENDS RelayStore_proof, TimedSweep, RelayWire

(***************************************************************************)
(* What a step does to the grants.                                         *)
(***************************************************************************)
\* Room and deadline of a grant are for life.
Keeps(h) == grants'[h].room = grants[h].room /\ grants'[h].deadline = grants[h].deadline

\* The step takes credentials away from h, gives none, and ends the grant only
\* at its deadline or with its room.
Trimmed(h) ==
    /\ Keeps(h)
    /\ grants'[h].pending \in {None, grants[h].pending}
    /\ grants'[h].binding \in {None, grants[h].binding}
    /\ Live(grants'[h]) => Live(grants[h])
    /\ Live(grants[h]) /\ ~Live(grants'[h]) =>
          now >= grants[h].deadline \/ rooms'[grants[h].room].state = "tombstone"

\* The step is an act of g on the authority it has at this moment.
Acts(g) ==
    /\ Live(grants[g]) /\ Live(grants'[g]) /\ Keeps(g)
    /\ rooms[grants[g].room].state = "open" /\ ~Lapsed(g)
    /\ \A h \in Grant \ {g} : grants'[h] = grants[h]

Challenges(g) == Acts(g) /\ grants'[g].binding \in {None, grants[g].binding}

Binds(g) ==
    /\ Acts(g)
    /\ grants'[g].pending = None
    /\ grants'[g].binding \in Bound
    /\ grants'[g].binding.generation = grants[g].generation + 1
    /\ grants'[g].binding.replay = NewWindow

Spent(g, s) == [grants[g].binding EXCEPT !.replay = Accept(grants[g].binding.replay, s)]

Spends(g) ==
    /\ Acts(g)
    /\ grants[g].binding \in Bound
    /\ grants'[g].pending = grants[g].pending
    /\ \E s \in Sequence : grants'[g].binding = Spent(g, s)

\* h is untouched, or it was in no room and becomes a grant without credentials.
Issues(h) ==
    \/ grants'[h] = grants[h]
    \/ /\ grants'[h].pending = None /\ grants'[h].binding = None
       /\ ~Live(grants[h]) /\ Live(grants'[h])
       /\ \A r \in Room : h \notin rooms[r].grants

StepKind ==
    \/ \A h \in Grant : Trimmed(h)
    \/ \E g \in Grant : Challenges(g) \/ Binds(g) \/ Spends(g)
    \/ \A h \in Grant : Issues(h)
-----------------------------------------------------------------------------
LEMMA UnchangedTrims ==
    ASSUME UNCHANGED grants
    PROVE  \A h \in Grant : Trimmed(h)
  BY DEF Trimmed, Keeps, Live

\* A grant that is not live carries nothing.
LEMMA TerminalTrims ==
    ASSUME NEW x \in GrantRecord, NEW w, Proper(x, w), NEW terminal \in {"expired", "revoked"}
    PROVE  /\ TerminalGrant(w, terminal).grant.pending = None
           /\ TerminalGrant(w, terminal).grant.binding = None
  BY TerminalGrantProper DEF Proper, InOrder, Armed

LEMMA SettleTrims ==
    ASSUME IInv, NEW S \in SUBSET Grant, NEW work, DOMAIN work = S, Settle(work),
           \A h \in S : /\ Proper(grants[h], work[h])
                        /\ work[h].grant.pending \in {None, grants[h].pending}
                        /\ work[h].grant.binding \in {None, grants[h].binding}
                        /\ Live(grants[h]) /\ ~Live(work[h].grant) =>
                              \/ now >= grants[h].deadline
                              \/ rooms'[grants[h].room].state = "tombstone"
    PROVE  \A h \in Grant : Trimmed(h)
<1> SUFFICES ASSUME NEW h \in Grant PROVE Trimmed(h)
  OBVIOUS
<1>1. grants'[h] = IF h \in S THEN work[h].grant ELSE grants[h]
  BY SettleFits
<1>2. CASE h \in S
  BY <1>1, <1>2 DEF Trimmed, Keeps, Proper
<1>3. CASE h \notin S
  BY <1>1, <1>3 DEF Trimmed, Keeps
<1> QED
  BY <1>2, <1>3

\* Work on one grant that leaves it as live as it was.
LEMMA OneTrims ==
    ASSUME IInv, NEW g \in Grant, NEW w, Proper(grants[g], w), Settle(One(g, w)),
           w.grant.pending \in {None, grants[g].pending},
           w.grant.binding \in {None, grants[g].binding},
           Live(grants[g]) /\ ~Live(w.grant) => now >= grants[g].deadline
    PROVE  \A h \in Grant : Trimmed(h)
<1>1. DOMAIN One(g, w) = {g} /\ One(g, w)[g] = w
  BY DEF One
<1> QED
  BY <1>1, SettleTrims

LEMMA TombstoneTrims ==
    ASSUME IInv, NEW r \in Room, NEW terminal \in {"expired", "revoked"},
           TombstoneRoom(r, terminal)
    PROVE  \A h \in Grant : Trimmed(h)
<1> DEFINE S == rooms[r].grants
           work == [h \in S |-> TerminalGrant(Work(h), terminal)]
<1>1. S \in SUBSET Grant /\ rooms \in [Room -> RoomRecord]
  BY DEF IInv, TypeOK, RoomRecord
<1>2. ASSUME NEW h \in S
      PROVE  /\ Proper(grants[h], work[h])
             /\ work[h].grant.pending = None /\ work[h].grant.binding = None
  BY <1>1, GrantInOrder, TerminalGrantProper, TerminalTrims
<1>3. Settle(work) /\ DOMAIN work = S
  BY DEF TombstoneRoom
<1> HIDE DEF work
<1>4. rooms'[r].state = "tombstone"
  BY <1>1 DEF TombstoneRoom, Tombstoned
<1>5. \A h \in S : grants[h].room = r
  BY DEF IInv, GrantHome
<1> QED
  BY <1>1, <1>2, <1>3, <1>4, <1>5, SettleTrims

LEMMA LapseTrims ==
    ASSUME IInv, NEW g \in Grant, Authoritative(g), Lapsed(g), LapseAuthority(g)
    PROVE  \A h \in Grant : Trimmed(h)
<1>1. CASE now >= rooms[grants[g].room].deadline
  <2>1. grants[g].room \in Room
    BY DEF Authoritative, IInv, GrantHome
  <2> QED
    BY <1>1, <2>1, TombstoneTrims DEF LapseAuthority
<1>2. CASE ~(now >= rooms[grants[g].room].deadline)
  <2>1. now >= grants[g].deadline
    BY <1>2 DEF Lapsed
  <2>2. Settle(One(g, TerminalGrant(Work(g), "expired")))
    BY <1>2 DEF LapseAuthority
  <2> QED
    BY <2>1, <2>2, GrantInOrder, TerminalGrantProper, TerminalTrims, OneTrims
<1> QED
  BY <1>1, <1>2

\* Each of the helpers that clear something of a live grant.
LEMMA ClearTrims ==
    ASSUME IInv, NEW g \in Grant,
           NEW w \in {ClearPending(Work(g)), ClearRecent(Work(g)), ClearBinding(Work(g)),
                      ExpireRelay(Work(g))}
    PROVE  /\ Proper(grants[g], w)
           /\ w.grant.pending \in {None, grants[g].pending}
           /\ w.grant.binding \in {None, grants[g].binding}
           /\ Live(w.grant) <=> Live(grants[g])
<1>1. /\ Proper(grants[g], Work(g)) /\ grants[g] \in GrantRecord
      /\ Work(g).grant = grants[g]
  BY GrantInOrder DEF Work
<1> QED
  BY <1>1, ClearPendingProper, ClearRecentProper, ClearBindingProper, ExpireRelayProper DEF Live

LEMMA OneClearTrims ==
    ASSUME IInv, NEW g \in Grant,
           NEW w \in {ClearPending(Work(g)), ClearRecent(Work(g)), ClearBinding(Work(g)),
                      ExpireRelay(Work(g))},
           Settle(One(g, w))
    PROVE  \A h \in Grant : Trimmed(h)
  BY ClearTrims, OneTrims
-----------------------------------------------------------------------------
\* The sweep ends what is due and trims the rest.
LEMMA ExpireTrims ==
    ASSUME IInv, Expire
    PROVE  \A h \in Grant : Trimmed(h)
<1> DEFINE S == UNION {rooms[r].grants : r \in {q \in Room : Standing(q)}}
           work == [g \in S |-> IF SweepEnds(grants[g].room)
                                THEN TerminalGrant(SweptGrant(g), "expired") ELSE SweptGrant(g)]
<1>1. S \in SUBSET Grant
  BY DEF IInv, TypeOK, RoomRecord
<1>2. ASSUME NEW h \in S
      PROVE  /\ Proper(grants[h], SweptGrant(h))
             /\ SweptGrant(h).grant.pending \in {None, grants[h].pending}
             /\ SweptGrant(h).grant.binding \in {None, grants[h].binding}
             /\ Live(grants[h]) /\ ~Live(SweptGrant(h).grant) => now >= grants[h].deadline
  <2> DEFINE w == ExpireRelay(Work(h))
  <2>0. h \in Grant /\ grants[h] \in GrantRecord
    BY <1>1, GrantInOrder
  <2>1. /\ Proper(grants[h], w)
        /\ w.grant.pending \in {None, grants[h].pending}
        /\ w.grant.binding \in {None, grants[h].binding}
        /\ Live(w.grant) <=> Live(grants[h])
    BY <2>0, ClearTrims
  <2>2. SweptGrant(h) = IF Live(w.grant) /\ now >= w.grant.deadline
                        THEN TerminalGrant(w, "expired") ELSE w
    BY DEF SweptGrant
  <2> HIDE DEF w
  <2>3. w.grant.deadline = grants[h].deadline
    BY <2>1 DEF Proper
  <2> QED
    BY <2>0, <2>1, <2>2, <2>3, TerminalGrantProper, TerminalTrims
<1>3. ASSUME NEW h \in S
      PROVE  /\ Proper(grants[h], work[h])
             /\ work[h].grant.pending \in {None, grants[h].pending}
             /\ work[h].grant.binding \in {None, grants[h].binding}
             /\ Live(grants[h]) /\ ~Live(work[h].grant) =>
                   now >= grants[h].deadline \/ SweepEnds(grants[h].room)
  <2>1. grants[h] \in GrantRecord
    BY <1>1, GrantInOrder
  <2>2. work[h] = IF SweepEnds(grants[h].room)
                  THEN TerminalGrant(SweptGrant(h), "expired") ELSE SweptGrant(h)
    OBVIOUS
  <2> HIDE DEF work
  <2> QED
    BY <1>2, <2>1, <2>2, TerminalGrantProper, TerminalTrims
<1>4. ASSUME NEW h \in S, SweepEnds(grants[h].room)
      PROVE  rooms'[grants[h].room].state = "tombstone"
  <2>1. grants[h].room \in Room
    BY DEF IInv, GrantHome
  <2>2. SweptRoom(grants[h].room) = Tombstoned
    BY <1>4 DEF SweptRoom, SweepEnds, Standing
  <2> QED
    BY <2>1, <2>2 DEF Expire, Tombstoned
<1>5. Settle(work) /\ DOMAIN work = S
  BY DEF Expire
<1> HIDE DEF work, S
<1> QED
  BY <1>1, <1>3, <1>4, <1>5, SettleTrims

LEMMA BeginChallengeKind ==
    ASSUME IInv, NEW g \in Grant, NEW named \in BOOLEAN, NEW e \in Endpoint, NEW n \in Nonce,
           NEW drawn \in Candidate \cup {None}, BeginChallenge(g, named, e, n, drawn)
    PROVE  (\A h \in Grant : Trimmed(h)) \/ Challenges(g)
<1> DEFINE w == ExpireRelay(Work(g))
           y(p, bs) == [w.grant EXCEPT !.pending = p, !.bindingState = bs]
<1>1. Authoritative(g) /\ Live(grants[g]) /\ rooms[grants[g].room].state = "open"
  BY DEF BeginChallenge, Authoritative, IInv, GrantHome
<1>2. CASE Lapsed(g) /\ LapseAuthority(g)
  BY <1>1, <1>2, LapseTrims
<1>3. CASE Settle(One(g, w))
  BY <1>3, OneClearTrims
<1>4. CASE ~Lapsed(g) /\ \E p, bs : grants' = [grants EXCEPT ![g] = y(p, bs)]
  <2>1. /\ Proper(grants[g], w)
        /\ w.grant.binding \in {None, grants[g].binding}
        /\ Live(w.grant)
    BY <1>1, ClearTrims
  <2>2. PICK p, bs : grants' = [grants EXCEPT ![g] = y(p, bs)]
    BY <1>4
  <2> HIDE DEF w
  <2>3. /\ w.grant \in GrantRecord
        /\ w.grant.room = grants[g].room /\ w.grant.deadline = grants[g].deadline
    BY <2>1 DEF Proper, WorkRecord
  <2>4. /\ y(p, bs).binding = w.grant.binding /\ y(p, bs).state = w.grant.state
        /\ y(p, bs).room = w.grant.room /\ y(p, bs).deadline = w.grant.deadline
    BY <2>3 DEF GrantRecord
  <2> HIDE DEF y
  <2>5. grants'[g] = y(p, bs) /\ \A h \in Grant \ {g} : grants'[h] = grants[h]
    BY <2>2 DEF IInv, TypeOK
  <2> QED
    BY <1>1, <1>4, <2>1, <2>3, <2>4, <2>5 DEF Challenges, Acts, Keeps, Live
<1> HIDE DEF y
<1>5. \/ Lapsed(g) /\ LapseAuthority(g)
      \/ Settle(One(g, w))
      \/ ~Lapsed(g) /\ \E p, bs : grants' = [grants EXCEPT ![g] = y(p, bs)]
  BY DEF BeginChallenge, y
<1> QED
  BY <1>2, <1>3, <1>4, <1>5

LEMMA StaleRetryTrims ==
    ASSUME IInv, NEW g \in Grant, NEW e \in Endpoint, StaleRetry(g, e)
    PROVE  \A h \in Grant : Trimmed(h)
<1>1. PICK w \in {ClearBinding(Work(g)), ClearRecent(Work(g))} : Settle(One(g, w))
  BY DEF StaleRetry
<1> QED
  BY <1>1, OneClearTrims

LEMMA BindKind ==
    ASSUME IInv, NEW g \in Grant, Authoritative(g), ~Lapsed(g), NEW e \in Endpoint,
           NEW b \in Binding, grants[g].pending # None,
           Bind(g, grants[g].pending.candidate, e, b)
    PROVE  Binds(g)
<1> DEFINE w == ClearBinding(ClearRecent(ClearPending(Work(g))))
           next == grants[g].generation + 1
           binding == [id |-> b, endpoint |-> e, deadline |-> DeadlineWithin(g, BindingTTL),
                       generation |-> next, replay |-> NewWindow]
           y(recent) == [w.grant EXCEPT !.state = "bound", !.bindingState = "bound",
                                        !.generation = next, !.binding = binding,
                                        !.recent = recent]
<1>1. /\ Live(grants[g]) /\ rooms[grants[g].room].state = "open"
      /\ grants[g] \in GrantRecord
  BY GrantInOrder DEF Authoritative, IInv, GrantHome
<1>2. /\ w.grant \in GrantRecord /\ w.grant.pending = None
      /\ w.grant.room = grants[g].room /\ w.grant.deadline = grants[g].deadline
  <2> DEFINE u == ClearPending(Work(g))
             v == ClearRecent(u)
  <2>1. Proper(grants[g], u) /\ u.grant.pending = None
    BY <1>1, GrantInOrder, ClearPendingProper
  <2> HIDE DEF u
  <2>2. Proper(grants[g], v) /\ v.grant.pending = None
    BY <1>1, <2>1, ClearRecentProper
  <2> HIDE DEF v
  <2>3. Proper(grants[g], ClearBinding(v)) /\ ClearBinding(v).grant.pending = None
    BY <1>1, <2>2, ClearBindingProper
  <2> QED
    BY <2>3 DEF u, v, Proper, WorkRecord
<1>3. PICK recent : grants' = [grants EXCEPT ![g] = y(recent)]
  BY DEF Bind, One
<1> HIDE DEF w
<1>4. binding \in Bound /\ binding.generation = next /\ binding.replay = NewWindow
  <2>1. next \in Nat
    BY <1>1 DEF GrantRecord
  <2>2. DeadlineWithin(g, BindingTTL) \in Nat
    BY DeadlineWithinBounds, LimitAssumption
  <2> QED
    BY <2>1, <2>2, NewWindowType DEF Bound
<1> HIDE DEF binding
<1>5. /\ y(recent).binding = binding /\ y(recent).pending = None /\ y(recent).state = "bound"
      /\ y(recent).room = w.grant.room /\ y(recent).deadline = w.grant.deadline
  BY <1>2 DEF GrantRecord
<1> HIDE DEF y
<1>6. grants'[g] = y(recent) /\ \A h \in Grant \ {g} : grants'[h] = grants[h]
  BY <1>3 DEF IInv, TypeOK
<1> QED
  BY <1>1, <1>2, <1>4, <1>5, <1>6 DEF Binds, Acts, Keeps, Live

LEMMA AuthenticateKind ==
    ASSUME IInv, NEW c \in Candidate, NEW named \in BOOLEAN, NEW e \in Endpoint,
           NEW genuine \in BOOLEAN, NEW b \in Binding, Authenticate(c, named, e, genuine, b)
    PROVE  (\A h \in Grant : Trimmed(h)) \/ \E g \in Grant : Binds(g)
<1> DEFINE g == candidatesByID[c]
<1>1. g \in Grant /\ Authoritative(g)
  BY DEF IInv, TypeOK, Authenticate
<1> HIDE DEF g
<1>2. CASE Lapsed(g) /\ LapseAuthority(g)
  BY <1>1, <1>2, LapseTrims
<1>3. CASE StaleRetry(g, e)
  BY <1>1, <1>3, StaleRetryTrims
<1>4. CASE Settle(One(g, ClearPending(Work(g))))
  BY <1>1, <1>4, OneClearTrims
<1>5. CASE /\ ~Lapsed(g) /\ grants[g].pending # None /\ grants[g].pending.candidate = c
           /\ Bind(g, c, e, b)
  BY <1>1, <1>5, BindKind
<1> QED
  BY <1>2, <1>3, <1>4, <1>5 DEF Authenticate, g
-----------------------------------------------------------------------------
LEMMA IngressExpiresTrims ==
    ASSUME IInv, NEW g \in Grant, Authoritative(g), NEW named \in BOOLEAN,
           IngressExpires(g, named)
    PROVE  \A h \in Grant : Trimmed(h)
<1>1. CASE Lapsed(g) /\ LapseAuthority(g)
  BY <1>1, LapseTrims
<1>2. CASE Settle(One(g, ClearBinding(Work(g))))
  BY <1>2, OneClearTrims
<1> QED
  BY <1>1, <1>2 DEF IngressExpires

LEMMA IngressSpendsEffect ==
    ASSUME IInv, NEW g \in Grant, grants[g].binding \in Bound, Authoritative(g),
           NEW named \in BOOLEAN, NEW e \in Endpoint, NEW s \in Sequence,
           NEW genuine \in BOOLEAN, IngressSpends(g, named, e, s, genuine)
    PROVE  /\ Acts(g)
           /\ grants'[g].pending = grants[g].pending
           /\ grants'[g].binding = Spent(g, s)
<1> DEFINE y == [grants[g] EXCEPT !.binding = Spent(g, s)]
<1>1. /\ Live(grants[g]) /\ rooms[grants[g].room].state = "open" /\ ~Lapsed(g)
      /\ grants[g] \in GrantRecord
  BY GrantInOrder DEF Authoritative, IngressSpends, IInv, GrantHome
<1>2. grants' = [grants EXCEPT ![g] = y]
  BY DEF IngressSpends, Spent
<1>3. /\ y.binding = Spent(g, s) /\ y.pending = grants[g].pending /\ y.state = grants[g].state
      /\ y.room = grants[g].room /\ y.deadline = grants[g].deadline
  BY <1>1 DEF GrantRecord
<1> HIDE DEF y
<1>4. grants'[g] = y /\ \A h \in Grant \ {g} : grants'[h] = grants[h]
  BY <1>2 DEF IInv, TypeOK
<1> QED
  BY <1>1, <1>3, <1>4 DEF Acts, Keeps, Live

LEMMA IngressSpendsKind ==
    ASSUME IInv, NEW g \in Grant, grants[g].binding \in Bound, Authoritative(g),
           NEW named \in BOOLEAN, NEW e \in Endpoint, NEW s \in Sequence,
           NEW genuine \in BOOLEAN, IngressSpends(g, named, e, s, genuine)
    PROVE  Spends(g)
  BY IngressSpendsEffect DEF Spends

\* What the two methods that admit a packet do to the grants.
LEMMA IngressKind ==
    ASSUME IInv, NEW b \in Binding, Resolves(b), Authoritative(bindingsByID[b]),
           NEW named \in BOOLEAN, NEW e \in Endpoint, NEW s \in Sequence,
           NEW genuine \in BOOLEAN,
           \/ IngressExpires(bindingsByID[b], named)
           \/ IngressSpends(bindingsByID[b], named, e, s, genuine)
    PROVE  (\A h \in Grant : Trimmed(h)) \/ \E g \in Grant : Spends(g)
<1>1. PICK g \in Grant : g = bindingsByID[b]
  BY ResolvedGrant
<1>2. /\ grants[g].binding \in Bound /\ Authoritative(g)
      /\ IngressExpires(g, named) \/ IngressSpends(g, named, e, s, genuine)
  BY <1>1, ResolvedGrant
<1>3. CASE IngressExpires(g, named)
  BY <1>2, <1>3, IngressExpiresTrims
<1>4. CASE IngressSpends(g, named, e, s, genuine)
  BY <1>2, <1>4, IngressSpendsKind
<1> QED
  BY <1>2, <1>3, <1>4

LEMMA FanoutTrims ==
    ASSUME IInv, NEW g \in Grant, Authoritative(g), Settle(FanoutWork(g))
    PROVE  \A h \in Grant : Trimmed(h)
<1> DEFINE work == FanoutWork(g)
           S == Audience(g)
<1>1. DOMAIN work = S /\ S \in SUBSET Grant
  BY DEF FanoutWork, Audience, Authoritative, IInv, TypeOK, RoomRecord, GrantHome
<1>2. ASSUME NEW h \in S
      PROVE  /\ Proper(grants[h], work[h])
             /\ work[h].grant.pending \in {None, grants[h].pending}
             /\ work[h].grant.binding \in {None, grants[h].binding}
             /\ Live(grants[h]) /\ ~Live(work[h].grant) => now >= grants[h].deadline
  <2>1. h \in Grant /\ grants[h] \in GrantRecord /\ Proper(grants[h], Work(h))
    BY <1>1, GrantInOrder
  <2>2. work[h] = IF now >= grants[h].deadline THEN TerminalGrant(Work(h), "expired")
                  ELSE ExpireRelay(Work(h))
    BY DEF FanoutWork
  <2> HIDE DEF work
  <2>3. CASE now >= grants[h].deadline
    BY <2>1, <2>2, <2>3, TerminalGrantProper, TerminalTrims
  <2>4. CASE ~(now >= grants[h].deadline)
    BY <2>1, <2>2, <2>4, ClearTrims
  <2> QED
    BY <2>3, <2>4
<1>3. Settle(work)
  OBVIOUS
<1> HIDE DEF work, S
<1> QED
  BY <1>1, <1>2, <1>3, SettleTrims

LEMMA AdmitFanoutTrims ==
    ASSUME IInv, NEW allowed \in BOOLEAN, AdmitFanout(allowed)
    PROVE  \A h \in Grant : Trimmed(h)
<1> DEFINE g == bindingsByID[loop.binding]
<1>1. loop.binding \in Binding
  BY DEF IInv, TypeOK, AdmitFanout, Admitted, Plan
<1>2. Current(loop) => g \in Grant
  BY <1>1, ResolvedGrant DEF Current
<1> HIDE DEF g
<1>3. CASE UNCHANGED grants
  BY <1>3, UnchangedTrims
<1>4. CASE Current(loop) /\ Authoritative(g) /\ Lapsed(g) /\ LapseAuthority(g)
  BY <1>2, <1>4, LapseTrims
<1>5. CASE Current(loop) /\ Settle(One(g, ClearBinding(Work(g))))
  BY <1>2, <1>5, OneClearTrims
<1>6. CASE Current(loop) /\ Authoritative(g) /\ Settle(FanoutWork(g))
  BY <1>2, <1>6, FanoutTrims
<1> QED
  BY <1>3, <1>4, <1>5, <1>6 DEF AdmitFanout, g

LEMMA CreateRoomIssues ==
    ASSUME IInv, NEW r \in Room, NEW players \in Definition, NEW roomTTL \in RoomTTL,
           NEW grantTTL \in [players -> GrantTTL],
           CreateRoom(r, players, roomTTL, grantTTL)
    PROVE  \A h \in Grant : Issues(h)
<1> DEFINE x(p, d) == [NoGrant EXCEPT !.state = "issued", !.room = r, !.participant = p,
                                      !.deadline = d, !.secret = TRUE]
<1>1. PICK id \in [players -> Drawable] :
        LET issued == {id[p] : p \in players}
            owner(h) == CHOOSE p \in players : id[p] = h
        IN  grants' = [h \in Grant |-> IF h \in issued
                                       THEN x(owner(h), now + grantTTL[owner(h)])
                                       ELSE grants[h]]
  BY DEF CreateRoom
<1>2. SUFFICES ASSUME NEW h \in Grant, h \in {id[p] : p \in players}
               PROVE  Issues(h)
  BY <1>1 DEF Issues
<1>3. \A q \in Room : h \notin rooms[q].grants
  BY <1>2 DEF Drawable
<1>4. ~Live(grants[h])
  BY <1>3 DEF IInv, GrantHome
<1>5. \E p, d : grants'[h] = x(p, d)
  BY <1>1, <1>2
<1>6. ASSUME NEW p, NEW d
      PROVE  x(p, d).pending = None /\ x(p, d).binding = None /\ x(p, d).state = "issued"
  BY DEF NoGrant
<1> HIDE DEF x
<1> QED
  BY <1>3, <1>4, <1>5, <1>6 DEF Issues, Live

LEMMA EndRoomTrims ==
    ASSUME IInv, NEW r \in Room, EndRoom(r)
    PROVE  \A h \in Grant : Trimmed(h)
  BY TombstoneTrims, UnchangedTrims DEF EndRoom

\* Every step trims grants, is the act of one grant on its own authority, or
\* issues grants to a new room.
LEMMA StepCases ==
    ASSUME IInv, [Next]_vars
    PROVE  StepKind
<1>1. CASE UNCHANGED grants
  BY <1>1, UnchangedTrims DEF StepKind
<1>2. CASE Control
  <2>1. ASSUME NEW r \in Room, CreateRoomFails(r) PROVE UNCHANGED grants
    BY <2>1 DEF CreateRoomFails
  <2> QED
    BY <1>1, <1>2, <2>1, CreateRoomIssues, EndRoomTrims, ExpireTrims DEF Control, StepKind
<1>3. CASE Handshake
  <2> HIDE DEF StepKind
  <2>1. ASSUME NEW g \in Grant, NEW named \in BOOLEAN, NEW e \in Endpoint, NEW n \in Nonce,
               NEW drawn \in Candidate \cup {None}, BeginChallenge(g, named, e, n, drawn)
        PROVE  StepKind
    BY <2>1, BeginChallengeKind DEF StepKind
  <2>2. ASSUME NEW c \in Candidate, NEW named \in BOOLEAN, NEW e \in Endpoint,
               NEW genuine \in BOOLEAN, NEW b \in Binding, Authenticate(c, named, e, genuine, b)
        PROVE  StepKind
    BY <2>2, AuthenticateKind DEF StepKind
  <2> QED
    BY <1>3, <2>1, <2>2 DEF Handshake
<1>4. CASE Traffic
  <2>1. ASSUME NEW b \in Binding, NEW named \in BOOLEAN, NEW genuine \in BOOLEAN,
               NEW e \in Endpoint, NEW s \in Sequence,
               \/ AdmitPing(b, named, e, s, genuine)
               \/ \E allowed \in BOOLEAN : AdmitClientIngress(b, named, e, s, genuine, allowed)
        PROVE  StepKind
    <3>1. /\ Resolves(b) /\ Authoritative(bindingsByID[b])
          /\ \/ IngressExpires(bindingsByID[b], named)
             \/ IngressSpends(bindingsByID[b], named, e, s, genuine)
      BY <2>1 DEF AdmitPing, AdmitClientIngress
    <3> QED
      BY <3>1, IngressKind DEF StepKind
  <2>2. CASE \E allowed \in BOOLEAN : AdmitFanout(allowed)
    BY <2>2, AdmitFanoutTrims DEF StepKind
  <2>3. CASE LoopDone
    BY <1>1, <2>3 DEF LoopDone
  <2> QED
    BY <1>4, <2>1, <2>2, <2>3 DEF Traffic
<1>5. CASE Tick
  BY <1>1, <1>5 DEF Tick
<1>6. CASE UNCHANGED vars
  BY <1>1, <1>6 DEF vars
<1> QED
  BY <1>2, <1>3, <1>4, <1>5, <1>6 DEF Next
-----------------------------------------------------------------------------
(***************************************************************************)
(* What a step does to a room.                                             *)
(***************************************************************************)
\* r is created now, with grants that are not due.
Opens(r) ==
    /\ rooms'[r].state = "open" /\ rooms'[r].grants # {}
    /\ \E ttl \in RoomTTL : rooms'[r].deadline = now + ttl
    /\ \A g \in rooms'[r].grants : \E ttl \in GrantTTL : grants'[g].deadline = now + ttl

RoomKind(r) ==
    \/ rooms'[r] = rooms[r]
    \/ Standing(r) /\ rooms'[r] = [rooms[r] EXCEPT !.state = "empty"]
    \/ Standing(r) /\ rooms'[r] = Tombstoned
    \/ Vacant(r) /\ (rooms'[r] = NoRoom \/ Opens(r))

LEMMA TombstoneRoomKind ==
    ASSUME IInv, NEW q \in Room, Standing(q), NEW terminal, TombstoneRoom(q, terminal)
    PROVE  \A r \in Room : RoomKind(r)
  BY DEF TombstoneRoom, RoomKind, IInv, TypeOK

LEMMA LapseRoomKind ==
    ASSUME IInv, NEW g \in Grant, Authoritative(g), LapseAuthority(g)
    PROVE  \A r \in Room : RoomKind(r)
<1>1. grants[g].room \in Room /\ Standing(grants[g].room)
  BY DEF Authoritative, IInv, GrantHome
<1>2. CASE UNCHANGED rooms
  BY <1>2 DEF RoomKind
<1>3. CASE TombstoneRoom(grants[g].room, "expired")
  BY <1>1, <1>3, TombstoneRoomKind
<1> QED
  BY <1>2, <1>3 DEF LapseAuthority

LEMMA CreateRoomKind ==
    ASSUME IInv, NEW q \in Room, NEW players \in Definition, NEW roomTTL \in RoomTTL,
           NEW grantTTL \in [players -> GrantTTL],
           CreateRoom(q, players, roomTTL, grantTTL)
    PROVE  \A r \in Room : RoomKind(r)
<1> DEFINE x(p) == [NoGrant EXCEPT !.state = "issued", !.room = q, !.participant = p,
                                   !.deadline = now + grantTTL[p], !.secret = TRUE]
<1>1. PICK id \in [players -> Drawable] :
        LET issued == {id[p] : p \in players}
            owner(h) == CHOOSE p \in players : id[p] = h
        IN  /\ grants' = [h \in Grant |-> IF h \in issued THEN x(owner(h)) ELSE grants[h]]
            /\ rooms' = [rooms EXCEPT ![q] = [NoRoom EXCEPT !.state = "open",
                                                            !.deadline = now + roomTTL,
                                                            !.grants = issued]]
  BY DEF CreateRoom
<1> DEFINE issued == {id[p] : p \in players}
           owner(h) == CHOOSE p \in players : id[p] = h
<1>2. Vacant(q) /\ players # {}
  BY SetAssumption DEF CreateRoom
<1>3. /\ rooms'[q].state = "open" /\ rooms'[q].deadline = now + roomTTL
      /\ rooms'[q].grants = issued
      /\ \A r \in Room \ {q} : rooms'[r] = rooms[r]
  BY <1>1 DEF IInv, TypeOK, NoRoom
<1>4. ASSUME NEW h \in issued
      PROVE  \E ttl \in GrantTTL : grants'[h].deadline = now + ttl
  <2>1. h \in Grant
    BY DEF Drawable
  <2>2. owner(h) \in players
    OBVIOUS
  <2>3. grants'[h] = x(owner(h))
    BY <1>1, <2>1
  <2>4. x(owner(h)).deadline = now + grantTTL[owner(h)]
    BY DEF NoGrant
  <2> QED
    BY <2>2, <2>3, <2>4
<1>5. issued # {}
  BY <1>2
<1> HIDE DEF issued
<1>6. Opens(q)
  BY <1>3, <1>4, <1>5 DEF Opens
<1> QED
  BY <1>2, <1>3, <1>6, SMTT(30) DEF RoomKind

LEMMA ExpireRoomKind ==
    ASSUME IInv, Expire
    PROVE  \A r \in Room : RoomKind(r)
<1> SUFFICES ASSUME NEW r \in Room PROVE RoomKind(r)
  OBVIOUS
<1>1. rooms'[r] = SweptRoom(r)
  BY DEF Expire
<1>2. CASE rooms[r].state = "tombstone" /\ Vacant(r)
  BY <1>1, <1>2 DEF SweptRoom, SweepEnds, Standing, RoomKind
<1>3. CASE SweepEnds(r)
  BY <1>1, <1>3 DEF SweptRoom, SweepEnds, Standing, RoomKind
<1>4. CASE Standing(r) /\ ~SweepEnds(r) /\ GrantsPast(r, 0)
  BY <1>1, <1>4 DEF SweptRoom, Standing, RoomKind
<1>5. CASE /\ ~(rooms[r].state = "tombstone" /\ Vacant(r))
           /\ ~SweepEnds(r)
           /\ ~(Standing(r) /\ ~SweepEnds(r) /\ GrantsPast(r, 0))
  BY <1>1, <1>5 DEF SweptRoom, RoomKind
<1> QED
  BY <1>2, <1>3, <1>4, <1>5

\* Every step leaves a room alone, empties or ends a standing one, or drops or reuses
\* a record whose time is over.
LEMMA RoomCases ==
    ASSUME IInv, [Next]_vars
    PROVE  \A r \in Room : RoomKind(r)
<1>1. CASE UNCHANGED rooms
  BY <1>1 DEF RoomKind
<1>2. ASSUME NEW q \in Room, CreateRoomFails(q) \/ EndRoom(q)
      PROVE  \A r \in Room : RoomKind(r)
  <2>1. CASE Vacant(q) /\ rooms' = [rooms EXCEPT ![q] = NoRoom]
    BY <2>1 DEF RoomKind, IInv, TypeOK
  <2>2. CASE Standing(q) /\ TombstoneRoom(q, "revoked")
    BY <2>2, TombstoneRoomKind
  <2> QED
    BY <1>2, <2>1, <2>2 DEF CreateRoomFails, EndRoom
<1>3. CASE Control
  BY <1>2, <1>3, CreateRoomKind, ExpireRoomKind DEF Control
<1>4. CASE Handshake
  <2>1. ASSUME NEW g \in Grant, NEW named \in BOOLEAN, NEW e \in Endpoint, NEW n \in Nonce,
               NEW drawn \in Candidate \cup {None}, BeginChallenge(g, named, e, n, drawn)
        PROVE  \A r \in Room : RoomKind(r)
    BY <1>1, <2>1, LapseRoomKind DEF BeginChallenge
  <2>2. ASSUME NEW c \in Candidate, NEW named \in BOOLEAN, NEW e \in Endpoint,
               NEW genuine \in BOOLEAN, NEW b \in Binding, Authenticate(c, named, e, genuine, b)
        PROVE  \A r \in Room : RoomKind(r)
    <3>1. \/ UNCHANGED rooms
          \/ \E g \in Grant : Authoritative(g) /\ LapseAuthority(g)
      BY <2>2 DEF Authenticate, StaleRetry, Bind, IInv, TypeOK
    <3> QED
      BY <1>1, <3>1, LapseRoomKind
  <2> QED
    BY <1>4, <2>1, <2>2 DEF Handshake
<1>5. CASE Traffic
  <2>1. ASSUME NEW b \in Binding, Resolves(b), Authoritative(bindingsByID[b]),
               LapseAuthority(bindingsByID[b])
        PROVE  \A r \in Room : RoomKind(r)
    BY <2>1, ResolvedGrant, LapseRoomKind
  <2>2. ASSUME NEW b \in Binding, NEW named \in BOOLEAN, NEW genuine \in BOOLEAN,
               NEW e \in Endpoint, NEW s \in Sequence,
               \/ AdmitPing(b, named, e, s, genuine)
               \/ \E allowed \in BOOLEAN : AdmitClientIngress(b, named, e, s, genuine, allowed)
        PROVE  \A r \in Room : RoomKind(r)
    <3>1. \/ UNCHANGED rooms
          \/ /\ Resolves(b) /\ Authoritative(bindingsByID[b])
             /\ LapseAuthority(bindingsByID[b])
      BY <2>2 DEF AdmitPing, AdmitClientIngress, IngressExpires, IngressSpends
    <3> QED
      BY <1>1, <2>1, <3>1
  <2>3. ASSUME NEW allowed \in BOOLEAN, AdmitFanout(allowed)
        PROVE  \A r \in Room : RoomKind(r)
    <3>1. loop.binding \in Binding
      BY <2>3 DEF IInv, TypeOK, AdmitFanout, Admitted, Plan
    <3>2. \/ UNCHANGED rooms
          \/ /\ Resolves(loop.binding) /\ Authoritative(bindingsByID[loop.binding])
             /\ LapseAuthority(bindingsByID[loop.binding])
      BY <2>3 DEF AdmitFanout, Current
    <3> QED
      BY <1>1, <2>1, <3>1, <3>2
  <2>4. CASE LoopDone
    BY <1>1, <2>4 DEF LoopDone
  <2> QED
    BY <1>5, <2>2, <2>3, <2>4 DEF Traffic
<1> QED
  BY <1>1, <1>3, <1>4, <1>5 DEF Next, Tick, vars
-----------------------------------------------------------------------------
(***************************************************************************)
(* The theorems about single steps.                                        *)
(***************************************************************************)
LEMMA IInvHolds == Spec => []IInv
<1>1. IInv /\ [Next]_vars => IInv'
  BY NextIInv
<1> QED
  BY InitIInv, <1>1, PTL DEF Spec

\* A binding, a challenge or a packet is accepted only before the deadline of the
\* grant and of its room (liveAuthority and the checks after it in relay.go).
THEOREM RelayAuthorityEnds == Spec => AuthorityEndsAtDeadline
<1> DEFINE A == \A g \in Grant :
         LET granted == \/ grants'[g].binding # None /\ grants'[g].binding # grants[g].binding
                        \/ grants'[g].pending # None /\ grants'[g].pending # grants[g].pending
         IN  granted => /\ Live(grants[g]) /\ now < grants[g].deadline
                        /\ rooms[grants[g].room].state = "open"
                        /\ now < rooms[grants[g].room].deadline
<1>1. IInv /\ [Next]_vars => A
  <2> SUFFICES ASSUME IInv, [Next]_vars, NEW g \in Grant,
                      \/ grants'[g].binding # None /\ grants'[g].binding # grants[g].binding
                      \/ grants'[g].pending # None /\ grants'[g].pending # grants[g].pending
               PROVE  /\ Live(grants[g]) /\ now < grants[g].deadline
                      /\ rooms[grants[g].room].state = "open"
                      /\ now < rooms[grants[g].room].deadline
    OBVIOUS
  <2>1. \E k \in Grant : Acts(k)
    BY StepCases DEF StepKind, Trimmed, Challenges, Binds, Spends, Issues
  <2>2. Acts(g)
    BY <2>1 DEF Acts
  <2>3. grants[g].room \in Room
    BY <2>2 DEF Acts, IInv, GrantHome
  <2>4. now \in Nat /\ grants[g].deadline \in Nat /\ rooms[grants[g].room].deadline \in Nat
    BY <2>3 DEF IInv, TypeOK, GrantRecord, RoomRecord
  <2> QED
    BY <2>2, <2>4 DEF Acts, Lapsed
<1>2. IInv /\ [Next]_vars => [A]_vars
  BY <1>1
<1> HIDE DEF A
<1>3. Spec => [][A]_vars
  BY <1>2, IInvHolds, PTL DEF Spec
<1> QED
  BY <1>3 DEF AuthorityEndsAtDeadline, A

\* A tombstone is never refreshed and its ID stays closed until it is due, in
\* EndRoom, CreateRoom, the sweep and every lapse of authority.
THEOREM RelayTombstoneHolds == Spec => TombstoneHolds
<1> DEFINE A == \A r \in Room : rooms[r].state = "tombstone" =>
                    rooms'[r] = rooms[r] \/ now >= rooms[r].tombstoneDeadline
<1>1. IInv /\ [Next]_vars => A
  <2> SUFFICES ASSUME IInv, [Next]_vars, NEW r \in Room, rooms[r].state = "tombstone"
               PROVE  rooms'[r] = rooms[r] \/ now >= rooms[r].tombstoneDeadline
    OBVIOUS
  <2> QED
    BY RoomCases DEF RoomKind, Standing, Vacant
<1>2. IInv /\ [Next]_vars => [A]_vars
  BY <1>1
<1> HIDE DEF A
<1>3. Spec => [][A]_vars
  BY <1>2, IInvHolds, PTL DEF Spec
<1> QED
  BY <1>3 DEF TombstoneHolds, A

\* A grant that ended stays ended, and one that is not due ends only with its room,
\* whichever of the clear and terminal paths of relay.go and store.go runs.
THEOREM RelayGrantsEndOnce == Spec => GrantsEndOnce
<1> DEFINE A == \A g \in Grant :
         /\ ~Live(grants[g]) /\ Live(grants'[g]) =>
               \A r \in Room : g \notin rooms[r].grants
         /\ Live(grants[g]) /\ ~Live(grants'[g]) =>
               now >= grants[g].deadline \/ rooms'[grants[g].room].state = "tombstone"
<1>1. IInv /\ [Next]_vars => A
  <2> SUFFICES ASSUME IInv, [Next]_vars, NEW g \in Grant
               PROVE  /\ ~Live(grants[g]) /\ Live(grants'[g]) =>
                            \A r \in Room : g \notin rooms[r].grants
                      /\ Live(grants[g]) /\ ~Live(grants'[g]) =>
                            \/ now >= grants[g].deadline
                            \/ rooms'[grants[g].room].state = "tombstone"
    OBVIOUS
  <2>1. CASE Trimmed(g)
    BY <2>1 DEF Trimmed
  <2>2. CASE \E k \in Grant : Acts(k)
    BY <2>2 DEF Acts
  <2>3. CASE Issues(g)
    BY <2>3 DEF Issues
  <2> QED
    BY <2>1, <2>2, <2>3, StepCases DEF StepKind, Challenges, Binds, Spends
<1>2. IInv /\ [Next]_vars => [A]_vars
  BY <1>1
<1> HIDE DEF A
<1>3. Spec => [][A]_vars
  BY <1>2, IInvHolds, PTL DEF Spec
<1> QED
  BY <1>3 DEF GrantsEndOnce, A

\* A rebind is one step: next generation, fresh window, new ID in, old ID out
\* (Authenticate in relay.go; that no other path replaces a binding is StepCases).
THEOREM RelayRebindIsAtomic == Spec => RebindIsAtomic
<1> DEFINE A == \A g \in Grant :
         LET old == grants[g].binding
             new == grants'[g].binding
         IN  new # None /\ (old = None \/ old.id # new.id) =>
               /\ new.generation = grants[g].generation + 1
               /\ new.replay = NewWindow
               /\ bindingsByID'[new.id] = g
               /\ old # None => bindingsByID'[old.id] = None
<1>1. IInv /\ [Next]_vars => A
  <2> SUFFICES ASSUME IInv, [Next]_vars, NEW g \in Grant, grants'[g].binding # None,
                      grants[g].binding = None \/ grants[g].binding.id # grants'[g].binding.id
               PROVE  /\ grants'[g].binding.generation = grants[g].generation + 1
                      /\ grants'[g].binding.replay = NewWindow
                      /\ bindingsByID'[grants'[g].binding.id] = g
                      /\ grants[g].binding # None => bindingsByID'[grants[g].binding.id] = None
    OBVIOUS
  <2>1. ~Trimmed(g) /\ ~Challenges(g) /\ ~Issues(g)
    BY DEF Trimmed, Challenges, Issues
  <2>2. ~Spends(g)
    BY NoneAssumption DEF Spends, Spent, Bound
  <2>3. \A k \in Grant : Acts(k) => k = g
    BY DEF Acts
  <2>4. Binds(g)
    BY <2>1, <2>2, <2>3, StepCases DEF StepKind, Challenges, Binds, Spends
  <2>5. IInv'
    BY NextIInv
  <2>6. /\ grants'[g].binding.id \in Binding
        /\ bindingsByID'[grants'[g].binding.id] = g
    BY <2>4, <2>5 DEF Binds, Bound, IInv, IndexIntegrity
  <2>7. ASSUME grants[g].binding # None
        PROVE  bindingsByID'[grants[g].binding.id] = None
    <3>1. grants[g].binding.id \in Binding
      BY <2>7, GrantInOrder DEF GrantRecord, Bound
    <3>2. bindingsByID[grants[g].binding.id] = g
      BY <2>7, <3>1 DEF IInv, IndexIntegrity
    <3>3. bindingsByID'[grants[g].binding.id] \in Grant \cup {None}
      BY <2>5, <3>1 DEF IInv, TypeOK
    <3>4. ASSUME NEW h \in Grant, bindingsByID'[grants[g].binding.id] = h
          PROVE  FALSE
      <4>1. grants'[h].binding # None /\ grants'[h].binding.id = grants[g].binding.id
        BY <2>5, <3>1, <3>4 DEF IInv, IndexIntegrity
      <4>2. h # g /\ grants'[h] = grants[h]
        BY <2>4, <2>7, <4>1 DEF Binds, Acts
      <4>3. bindingsByID[grants[g].binding.id] = h
        BY <3>1, <4>1, <4>2 DEF IInv, IndexIntegrity
      <4> QED
        BY <3>2, <4>2, <4>3
    <3> QED
      BY <3>3, <3>4
  <2> QED
    BY <2>4, <2>6, <2>7 DEF Binds
<1>2. IInv /\ [Next]_vars => [A]_vars
  BY <1>1
<1> HIDE DEF A
<1>3. Spec => [][A]_vars
  BY <1>2, IInvHolds, PTL DEF Spec
<1> QED
  BY <1>3 DEF RebindIsAtomic, A
-----------------------------------------------------------------------------
\* Accepting a number spends it, and makes no other number fresh.
LEMMA AcceptSpends ==
    ASSUME NEW w \in Window, NEW s \in Nat, NEW t \in Nat
    PROVE  /\ Fresh(Accept(w, s), t) => Fresh(w, t)
           /\ ~Fresh(Accept(w, s), s)
<1> USE WidthAssumption
<1> DEFINE v == Accept(w, s)
<1>0. w.highest \in Nat /\ w.bitmap \subseteq 0 .. Width - 1
  BY DEF Window
<1>1. CASE ~Fresh(w, s)
  BY <1>1 DEF Accept
<1>2. CASE ~w.initialized
  <2>1. v.initialized /\ v.highest = s /\ 0 \in v.bitmap
    BY <1>2 DEF Accept, Fresh
  <2> HIDE DEF v
  <2>2. ~Fresh(v, s)
    BY <2>1 DEF Fresh
  <2> QED
    BY <1>2, <2>2 DEF Fresh, v
<1>3. CASE w.initialized /\ s > w.highest
  <2>1. /\ v.initialized /\ v.highest = s
        /\ v.bitmap = {0} \cup ShiftLeft(w.bitmap, s - w.highest)
    BY <1>3 DEF Accept, Fresh
  <2> HIDE DEF v
  <2>2. ~Fresh(v, s)
    BY <2>1 DEF Fresh
  <2>3. ASSUME Fresh(v, t), ~(t > w.highest)
        PROVE  w.highest - t < Width /\ w.highest - t \notin w.bitmap
    <3>1. s - t < Width /\ s - t \notin v.bitmap /\ s - t \in 0 .. Width - 1
      BY <1>0, <1>3, <2>1, <2>3 DEF Fresh
    <3>2. (s - t) - (s - w.highest) = w.highest - t
      BY <1>0
    <3>3. w.highest - t \notin w.bitmap
      BY <2>1, <3>1, <3>2 DEF ShiftLeft
    <3> QED
      BY <1>0, <1>3, <3>1, <3>3
  <2> QED
    BY <2>2, <2>3 DEF Fresh, v
<1>4. CASE Fresh(w, s) /\ w.initialized /\ ~(s > w.highest)
  <2>1. /\ v.initialized = w.initialized /\ v.highest = w.highest
        /\ v.bitmap = w.bitmap \cup {w.highest - s}
    BY <1>4 DEF Accept, Window
  <2> HIDE DEF v
  <2> QED
    BY <1>0, <1>4, <2>1 DEF Fresh, v
<1> QED
  BY <1>1, <1>2, <1>3, <1>4

LEMMA HandshakeKeepsLoop == Handshake => UNCHANGED <<now, loop>>
<1>1. ASSUME NEW g \in Grant, NEW named \in BOOLEAN, NEW e \in Endpoint, NEW n \in Nonce,
             NEW drawn \in Candidate \cup {None}, BeginChallenge(g, named, e, n, drawn)
      PROVE  UNCHANGED <<now, loop>>
  BY <1>1 DEF BeginChallenge
<1>2. ASSUME NEW c \in Candidate, NEW named \in BOOLEAN, NEW e \in Endpoint,
             NEW genuine \in BOOLEAN, NEW b \in Binding, Authenticate(c, named, e, genuine, b)
      PROVE  UNCHANGED <<now, loop>>
  BY <1>2 DEF Authenticate
<1> QED
  BY <1>1, <1>2 DEF Handshake

\* Only AdmitClientIngress hands the loop a packet, and it spends the number first.
LEMMA AdmissionSpends ==
    ASSUME IInv, [Next]_vars, loop = None, loop' # None,
           NEW g, g = bindingsByID[loop'.binding]
    PROVE  /\ g \in Grant /\ grants[g].binding \in Bound
           /\ loop'.sequence \in Sequence
           /\ Fresh(grants[g].binding.replay, loop'.sequence)
           /\ grants'[g].binding = Spent(g, loop'.sequence)
<1>1. ASSUME NEW b \in Binding, NEW named \in BOOLEAN, NEW genuine \in BOOLEAN,
             NEW allowed \in BOOLEAN, NEW e \in Endpoint, NEW s \in Sequence,
             AdmitClientIngress(b, named, e, s, genuine, allowed)
      PROVE  /\ g \in Grant /\ grants[g].binding \in Bound
             /\ loop'.sequence \in Sequence
             /\ Fresh(grants[g].binding.replay, loop'.sequence)
             /\ grants'[g].binding = Spent(g, loop'.sequence)
  <2>1. PICK k \in Grant : k = bindingsByID[b]
    BY <1>1, ResolvedGrant DEF AdmitClientIngress
  <2>2. /\ IngressSpends(k, named, e, s, genuine) /\ Authoritative(k)
        /\ Fresh(grants[k].binding.replay, s)
        /\ loop'.binding = b /\ loop'.sequence = s
    BY <1>1, <2>1 DEF AdmitClientIngress
  <2>3. grants[k].binding \in Bound
    BY <1>1, <2>1, ResolvedGrant DEF AdmitClientIngress
  <2>4. grants'[k].binding = Spent(k, s)
    BY <2>2, <2>3, IngressSpendsEffect
  <2>5. g = k
    BY <2>1, <2>2
  <2> QED
    BY <2>2, <2>3, <2>4, <2>5
<1>2. ~UNCHANGED loop
  OBVIOUS
<1>3. ~Control
  BY <1>2 DEF Control, CreateRoom, CreateRoomFails, EndRoom, Expire
<1>4. ~Handshake
  BY <1>2, HandshakeKeepsLoop
<1>5. Traffic
  BY <1>2, <1>3, <1>4 DEF Next, Tick, vars
<1>6. ~LoopDone /\ ~\E allowed \in BOOLEAN : AdmitFanout(allowed)
  BY DEF LoopDone, AdmitFanout
<1>7. \E b \in Binding, named, genuine, allowed \in BOOLEAN, e \in Endpoint, s \in Sequence :
         AdmitClientIngress(b, named, e, s, genuine, allowed)
  BY <1>2, <1>5, <1>6 DEF Traffic, AdmitPing
<1> QED
  BY <1>1, <1>7

\* While a binding lives a spent number is never fresh again, and a packet reaches the
\* loop only by spending one that was (replayWindow.accept under admitAuthenticatedLocked).
THEOREM RelaySequenceSpentOnce == Spec => SequenceSpentOnce
<1> DEFINE A ==
       /\ \A g \in Grant :
            LET old == grants[g].binding
                new == grants'[g].binding
            IN  old # None /\ new # None /\ new.generation = old.generation =>
                  \A s \in Sequence : Fresh(new.replay, s) => Fresh(old.replay, s)
       /\ loop = None /\ loop' # None =>
            LET g == bindingsByID[loop'.binding]
            IN  /\ Fresh(grants[g].binding.replay, loop'.sequence)
                /\ ~Fresh(grants'[g].binding.replay, loop'.sequence)
<1>0. ASSUME NEW g, grants[g].binding \in Bound, NEW s \in Sequence
      PROVE  /\ grants[g].binding.replay \in Window /\ s \in Nat
             /\ Spent(g, s).replay = Accept(grants[g].binding.replay, s)
  BY <1>0, SetAssumption DEF Bound, Spent
<1>1. ASSUME IInv, [Next]_vars, NEW g \in Grant, NEW s \in Sequence,
             grants[g].binding # None, grants'[g].binding # None,
             grants'[g].binding.generation = grants[g].binding.generation,
             Fresh(grants'[g].binding.replay, s)
      PROVE  Fresh(grants[g].binding.replay, s)
  <2>1. CASE grants'[g].binding = grants[g].binding
    BY <1>1, <2>1
  <2>2. CASE Spends(g)
    <3>1. PICK t \in Sequence : grants'[g].binding = Spent(g, t)
      BY <2>2 DEF Spends
    <3>2. grants[g].binding \in Bound
      BY <2>2 DEF Spends
    <3>3. Fresh(Accept(grants[g].binding.replay, t), s)
      BY <1>0, <1>1, <3>1, <3>2
    <3> QED
      BY <1>0, <3>2, <3>3, AcceptSpends
  <2>3. ~Binds(g)
    <3>1. grants[g].binding.generation = grants[g].generation /\ grants[g].generation \in Nat
      BY <1>1, GrantInOrder DEF InOrder, Coherent, GrantRecord
    <3> QED
      BY <1>1, <3>1 DEF Binds
  <2>4. CASE grants'[g].binding # grants[g].binding /\ ~Spends(g)
    <3>1. ~Trimmed(g) /\ ~Challenges(g) /\ ~Issues(g)
      BY <1>1, <2>4 DEF Trimmed, Challenges, Issues
    <3>2. \A k \in Grant : Acts(k) => k = g
      BY <2>4 DEF Acts
    <3> QED
      BY <1>1, <2>3, <2>4, <3>1, <3>2, StepCases DEF StepKind, Challenges, Binds, Spends
  <2> QED
    BY <2>1, <2>2, <2>4
<1>2. ASSUME IInv, [Next]_vars, loop = None, loop' # None,
             NEW g, g = bindingsByID[loop'.binding]
      PROVE  /\ Fresh(grants[g].binding.replay, loop'.sequence)
             /\ ~Fresh(grants'[g].binding.replay, loop'.sequence)
  <2>1. /\ g \in Grant /\ grants[g].binding \in Bound
        /\ loop'.sequence \in Sequence
        /\ Fresh(grants[g].binding.replay, loop'.sequence)
        /\ grants'[g].binding = Spent(g, loop'.sequence)
    BY <1>2, AdmissionSpends
  <2>2. PICK s \in Sequence : s = loop'.sequence
    BY <2>1
  <2>3. grants'[g].binding.replay = Accept(grants[g].binding.replay, s)
    BY <1>0, <2>1, <2>2
  <2> QED
    BY <1>0, <2>1, <2>2, <2>3, AcceptSpends
<1>3. IInv /\ [Next]_vars => A
  BY <1>1, <1>2
<1>4. IInv /\ [Next]_vars => [A]_vars
  BY <1>3
<1> HIDE DEF A
<1>5. Spec => [][A]_vars
  BY <1>4, IInvHolds, PTL DEF Spec
<1> QED
  BY <1>5 DEF SequenceSpentOnce, A
-----------------------------------------------------------------------------
(***************************************************************************)
(* What the expiry helpers leave of a record that is in order.             *)
(***************************************************************************)
Due(handle) == handle # None /\ now >= handle.deadline

LEMMA ClearStates ==
    ASSUME NEW x \in GrantRecord, NEW w, Proper(x, w)
    PROVE  /\ ClearPending(w).grant.bindingState =
                 IF w.grant.pending # None /\ w.grant.binding # None THEN "bound"
                 ELSE w.grant.bindingState
           /\ ClearRecent(w).grant.bindingState = w.grant.bindingState
           /\ ClearBinding(w).grant.state =
                 IF w.grant.binding # None THEN "issued" ELSE w.grant.state
           /\ ClearBinding(w).grant.bindingState =
                 IF w.grant.binding # None THEN "expired" ELSE w.grant.bindingState
<1>1. w \in WorkRecord /\ w.grant \in GrantRecord /\ InOrder(w.grant)
  BY DEF Proper, WorkRecord
<1>2. ClearPending(w).grant.bindingState =
         IF w.grant.pending # None /\ w.grant.binding # None THEN "bound"
         ELSE w.grant.bindingState
  BY <1>1 DEF ClearPending, WorkRecord, GrantRecord
<1>3. ClearRecent(w).grant.bindingState = w.grant.bindingState
  BY <1>1 DEF ClearRecent, WorkRecord, GrantRecord
<1>4. CASE w.grant.binding = None
  BY <1>2, <1>3, <1>4 DEF ClearBinding
<1>5. CASE w.grant.binding # None
  <2> DEFINE u == ClearRecent(w)
             y == [u.grant EXCEPT !.binding = None]
  <2>1. w.grant.recent # None => w.grant.recent.generation = w.grant.binding.generation
    BY <1>1, <1>5 DEF InOrder, Coherent
  <2>2. w.grant.recent = None => u = w
    BY DEF ClearRecent
  <2>3. /\ Proper(x, u) /\ u.grant.state = w.grant.state /\ w.grant.state = "bound"
    BY <1>1, <1>5, ClearRecentProper DEF InOrder, Coherent
  <2>4. u \in WorkRecord /\ u.grant \in GrantRecord
    BY <2>3 DEF Proper, WorkRecord
  <2>5. y.state = "bound" /\ y \in GrantRecord
    BY <2>3, <2>4 DEF GrantRecord
  <2>6. ClearBinding(w).grant = [y EXCEPT !.state = "issued", !.bindingState = "expired"]
    <3>1. ClearBinding(w) = [u EXCEPT !.bindings = @ \cup {w.grant.binding.id},
                                      !.grant = IF Live(y)
                                                THEN [y EXCEPT !.state = "issued",
                                                               !.bindingState = "expired"]
                                                ELSE y]
      BY <1>5, <2>1, <2>2 DEF ClearBinding
    <3>2. Live(y)
      BY <2>5 DEF Live
    <3> HIDE DEF u, y
    <3> QED
      BY <2>4, <3>1, <3>2 DEF WorkRecord
  <2> HIDE DEF y
  <2> QED
    BY <1>2, <1>3, <1>5, <2>5, <2>6 DEF GrantRecord
<1> QED
  BY <1>4, <1>5

LEMMA ExpireRelayEffect ==
    ASSUME IInv, NEW g \in Grant
    PROVE  LET x == grants[g]
               y == ExpireRelay(Work(g)).grant
           IN  /\ y.pending = IF Due(x.pending) THEN None ELSE x.pending
               /\ y.binding = IF Due(x.binding) THEN None ELSE x.binding
               /\ y.state = IF Due(x.binding) THEN "issued" ELSE x.state
               /\ y.bindingState =
                     IF Due(x.binding) THEN "expired"
                     ELSE IF Due(x.pending) /\ x.binding # None THEN "bound"
                     ELSE x.bindingState
<1> DEFINE w == Work(g)
           u == IF Due(w.grant.pending) THEN ClearPending(w) ELSE w
           v == IF Due(u.grant.recent) THEN ClearRecent(u) ELSE u
           t == IF Due(v.grant.binding) THEN ClearBinding(v) ELSE v
<1>1. grants[g] \in GrantRecord /\ Proper(grants[g], w) /\ w.grant = grants[g]
  BY GrantInOrder DEF Work
<1>2. ExpireRelay(Work(g)) = t
  BY DEF ExpireRelay, Due
<1> HIDE DEF w
<1>3. /\ Proper(grants[g], u)
      /\ u.grant.pending = IF Due(w.grant.pending) THEN None ELSE w.grant.pending
      /\ u.grant.binding = w.grant.binding /\ u.grant.state = w.grant.state
      /\ u.grant.bindingState = IF Due(w.grant.pending) /\ w.grant.binding # None THEN "bound"
                                ELSE w.grant.bindingState
  <2>1. CASE Due(w.grant.pending)
    BY <1>1, <2>1, ClearPendingProper, ClearStates DEF Due
  <2>2. CASE ~Due(w.grant.pending)
    BY <1>1, <2>2
  <2> QED
    BY <2>1, <2>2
<1> HIDE DEF u
<1>4. /\ Proper(grants[g], v)
      /\ v.grant.pending = u.grant.pending /\ v.grant.binding = u.grant.binding
      /\ v.grant.state = u.grant.state /\ v.grant.bindingState = u.grant.bindingState
  BY <1>1, <1>3, ClearRecentProper, ClearStates
<1> HIDE DEF v
<1>5. /\ t.grant.pending = v.grant.pending
      /\ t.grant.binding = IF Due(v.grant.binding) THEN None ELSE v.grant.binding
      /\ t.grant.state = IF Due(v.grant.binding) THEN "issued" ELSE v.grant.state
      /\ t.grant.bindingState = IF Due(v.grant.binding) THEN "expired" ELSE v.grant.bindingState
  <2>1. CASE Due(v.grant.binding)
    BY <1>1, <1>4, <2>1, ClearBindingProper, ClearStates DEF Due
  <2>2. CASE ~Due(v.grant.binding)
    BY <2>2
  <2> QED
    BY <2>1, <2>2
<1> HIDE DEF t
<1> QED
  BY <1>1, <1>2, <1>3, <1>4, <1>5

LEMMA TerminalState ==
    ASSUME NEW x \in GrantRecord, NEW w, Proper(x, w), Live(w.grant),
           NEW terminal \in {"expired", "revoked"}
    PROVE  TerminalGrant(w, terminal).grant.state = terminal
<1> DEFINE u1 == ClearPending(w)
           u2 == ClearRecent(u1)
           u3 == ClearBinding(u2)
           c == [u3 EXCEPT !.grant = [u3.grant EXCEPT !.generation = 0]]
           y == [c.grant EXCEPT !.secret = FALSE]
<1>1. Proper(x, u1) /\ Live(u1.grant)
  BY ClearPendingProper DEF Live
<1> HIDE DEF u1
<1>2. Proper(x, u2) /\ Live(u2.grant)
  BY <1>1, ClearRecentProper DEF Live
<1> HIDE DEF u2
<1>3. Proper(x, u3) /\ Live(u3.grant)
  BY <1>2, ClearBindingProper
<1>4. TerminalGrant(w, terminal) =
         [c EXCEPT !.delisted = TRUE, !.ended = c.ended \/ Live(y),
                   !.grant = IF Live(y) THEN [y EXCEPT !.state = terminal,
                                                       !.bindingState = terminal] ELSE y]
  BY DEF TerminalGrant, ClearRelay, u1, u2
<1> HIDE DEF u3
<1>5. c \in WorkRecord /\ c.grant = [u3.grant EXCEPT !.generation = 0] /\ u3.grant \in GrantRecord
  BY <1>3 DEF Proper, WorkRecord, GrantRecord
<1>6. c.grant \in GrantRecord /\ c.grant.state = u3.grant.state
  BY <1>5 DEF GrantRecord
<1> HIDE DEF c
<1>7. y \in GrantRecord /\ Live(y)
  BY <1>3, <1>6, ZenonT(60) DEF GrantRecord, Live
<1> HIDE DEF y
<1>8. TerminalGrant(w, terminal).grant = [y EXCEPT !.state = terminal, !.bindingState = terminal]
  BY <1>4, <1>5, <1>7 DEF WorkRecord
<1> QED
  BY <1>7, <1>8 DEF GrantRecord
-----------------------------------------------------------------------------
\* Bound and within its deadlines, in the room of g: whom a packet of g reaches.
Reachable(g, h) ==
    /\ grants[h].binding # None /\ grants[h].room = grants[g].room
    /\ now < grants[h].binding.deadline /\ now < grants[h].deadline

LEMMA FanoutRecipients ==
    ASSUME IInv, NEW g \in Grant, Authoritative(g)
    PROVE  Recipients(FanoutWork(g)) =
              {<<h, grants[h].binding.endpoint>> : h \in {k \in Grant \ {g} : Reachable(g, k)}}
<1> DEFINE work == FanoutWork(g)
           named == {h \in Audience(g) : work[h].grant.binding # None}
<1>1. /\ Audience(g) \subseteq Grant \ {g}
      /\ DOMAIN work = Audience(g)
      /\ grants[g].room \in Room
  BY DEF FanoutWork, Audience, Authoritative, IInv, TypeOK, RoomRecord, GrantHome
<1>2. ASSUME NEW h \in Grant, h # g
      PROVE  h \in Audience(g) <=> Live(grants[h]) /\ grants[h].room = grants[g].room
  BY <1>1, <1>2 DEF Audience, IInv, GrantHome
<1>3. ASSUME NEW h \in Audience(g)
      PROVE  /\ work[h].grant.binding # None <=> Reachable(g, h)
             /\ work[h].grant.binding # None => work[h].grant.binding = grants[h].binding
  <2>1. /\ h \in Grant /\ h # g /\ grants[h] \in GrantRecord /\ Proper(grants[h], Work(h))
        /\ grants[h].room = grants[g].room
    BY <1>1, <1>2, GrantInOrder
  <2>2. work[h] = IF now >= grants[h].deadline THEN TerminalGrant(Work(h), "expired")
                  ELSE ExpireRelay(Work(h))
    BY DEF FanoutWork
  <2> HIDE DEF work
  <2>3. now \in Nat /\ grants[h].deadline \in Nat
    BY <2>1 DEF IInv, TypeOK, GrantRecord
  <2>4. CASE now >= grants[h].deadline
    BY <2>1, <2>2, <2>3, <2>4, TerminalTrims DEF Reachable
  <2>5. CASE ~(now >= grants[h].deadline)
    <3>1. work[h].grant.binding = IF Due(grants[h].binding) THEN None ELSE grants[h].binding
      BY <2>1, <2>2, <2>5, ExpireRelayEffect
    <3>2. grants[h].binding # None => grants[h].binding.deadline \in Nat
      BY <2>1 DEF GrantRecord, Bound
    <3> QED
      BY <2>1, <2>3, <2>5, <3>1, <3>2 DEF Reachable, Due
  <2> QED
    BY <2>4, <2>5
<1>4. named = {k \in Grant \ {g} : Reachable(g, k)}
  <2>1. ASSUME NEW k \in Grant, k # g, Reachable(g, k)
        PROVE  k \in Audience(g)
    <3>1. Live(grants[k])
      BY <2>1, GrantInOrder DEF Reachable, InOrder, Coherent, Live
    <3> QED
      BY <1>2, <2>1, <3>1 DEF Reachable
  <2> HIDE DEF work
  <2> QED
    BY <1>1, <1>3, <2>1
<1>5. Recipients(work) = {<<h, work[h].grant.binding.endpoint>> : h \in named}
  BY <1>1 DEF Recipients
<1> HIDE DEF work
<1>6. \A h \in named : work[h].grant.binding.endpoint = grants[h].binding.endpoint
  BY <1>3
<1> HIDE DEF named
<1>7. Recipients(work) = {<<h, grants[h].binding.endpoint>> : h \in named}
  BY <1>5, <1>6
<1> QED
  BY <1>4, <1>7 DEF work

\* Only AdmitFanout turns a packet into a plan.
LEMMA FanoutPlans ==
    ASSUME IInv, [Next]_vars, loop # None, loop' # None, loop' # loop
    PROVE  LET g == loop'.sender
           IN  /\ g \in Grant /\ g = bindingsByID[loop.binding]
               /\ Current(loop) /\ Authoritative(g) /\ ~Lapsed(g)
               /\ now < grants[g].binding.deadline
               /\ loop'.recipients = Recipients(FanoutWork(g))
               /\ UNCHANGED rooms /\ Trimmed(g)
<1>1. ~Control
  BY DEF Control, CreateRoom, CreateRoomFails, EndRoom, Expire
<1>2. ~Handshake
  BY HandshakeKeepsLoop
<1>3. Traffic
  BY <1>1, <1>2 DEF Next, Tick, vars
<1>4. PICK allowed \in BOOLEAN : AdmitFanout(allowed)
  BY <1>3 DEF Traffic, AdmitClientIngress, AdmitPing, LoopDone
<1>5. loop.binding \in Binding
  BY <1>4 DEF IInv, TypeOK, AdmitFanout, Admitted, Plan
<1>6. Current(loop) => bindingsByID[loop.binding] \in Grant
  BY <1>5, ResolvedGrant DEF Current
<1>7. \A h \in Grant : Trimmed(h)
  BY <1>4, AdmitFanoutTrims
<1> QED
  BY <1>4, <1>6, <1>7 DEF AdmitFanout

\* A fan-out plan names exactly the other bound grants of the sender's room that are in
\* time, at their current endpoints (AdmitFanout: what expireRelay and terminalGrant leave).
THEOREM RelayFanoutAudience == Spec => FanoutAudience
<1> DEFINE A ==
       (loop # None /\ loop' # None /\ loop' # loop) =>
         LET g == loop'.sender
             bound(h) == /\ grants[h].binding # None /\ grants[h].room = grants[g].room
                         /\ now < grants[h].binding.deadline /\ now < grants[h].deadline
         IN  /\ bound(g) /\ grants[g].binding.id = loop.binding
             /\ grants[g].binding.generation = loop.generation
             /\ loop'.recipients =
                   {<<h, grants[h].binding.endpoint>> : h \in {k \in Grant \ {g} : bound(k)}}
<1>1. ASSUME IInv, [Next]_vars, loop # None, loop' # None, loop' # loop,
             NEW g, g = loop'.sender
      PROVE  /\ Reachable(g, g) /\ grants[g].binding.id = loop.binding
             /\ grants[g].binding.generation = loop.generation
             /\ loop'.recipients =
                   {<<h, grants[h].binding.endpoint>> : h \in {k \in Grant \ {g} : Reachable(g, k)}}
  <2>1. /\ g \in Grant /\ g = bindingsByID[loop.binding]
        /\ Current(loop) /\ Authoritative(g) /\ ~Lapsed(g)
        /\ now < grants[g].binding.deadline
        /\ loop'.recipients = Recipients(FanoutWork(g))
    BY <1>1, FanoutPlans
  <2>2. /\ grants[g].binding # None /\ grants[g].binding.id = loop.binding
        /\ grants[g].binding.generation = loop.generation
    BY <2>1 DEF Current, Resolves
  <2>3. now \in Nat /\ grants[g].deadline \in Nat
    BY <1>1, <2>1 DEF IInv, TypeOK, GrantRecord
  <2>4. now < grants[g].deadline
    BY <2>1, <2>3 DEF Lapsed
  <2>5. Recipients(FanoutWork(g)) =
           {<<h, grants[h].binding.endpoint>> : h \in {k \in Grant \ {g} : Reachable(g, k)}}
    BY <1>1, <2>1, FanoutRecipients
  <2> QED
    BY <2>1, <2>2, <2>4, <2>5 DEF Reachable
<1>2. IInv /\ [Next]_vars => A
  BY <1>1 DEF Reachable
<1>3. IInv /\ [Next]_vars => [A]_vars
  BY <1>2
<1> HIDE DEF A
<1>4. Spec => [][A]_vars
  BY <1>3, IInvHolds, PTL DEF Spec
<1> QED
  BY <1>4, PTL DEF FanoutAudience, A
-----------------------------------------------------------------------------
\* What GetRoom shows of a record: Snapshot of a grant, as a function of the record.
Shown(x) ==
    LET lapsed == x.binding # None /\ now >= x.binding.deadline
    IN  IF x.state = "revoked" THEN <<"revoked", "revoked">>
        ELSE IF x.state = "expired" \/ (Live(x) /\ now >= x.deadline) THEN <<"expired", "expired">>
        ELSE IF lapsed THEN <<"issued", "expired">>
        ELSE IF x.binding # None
        THEN <<x.state, IF x.pending # None /\ now < x.pending.deadline
                        THEN "rebind_pending" ELSE "bound">>
        ELSE <<x.state, x.bindingState>>

LEMMA SweptGrantShown ==
    ASSUME IInv, NEW g \in Grant
    PROVE  Shown(SweptGrant(g).grant) = Shown(grants[g])
<1> DEFINE x == grants[g]
           w == ExpireRelay(Work(g))
           y == w.grant
<1>1. /\ x \in GrantRecord /\ InOrder(x) /\ now \in Nat
      /\ Proper(x, w) /\ (Live(y) <=> Live(x)) /\ y.deadline = x.deadline
  BY GrantInOrder, ClearTrims DEF IInv, TypeOK, Proper
<1>2. /\ y.pending = IF Due(x.pending) THEN None ELSE x.pending
      /\ y.binding = IF Due(x.binding) THEN None ELSE x.binding
      /\ y.state = IF Due(x.binding) THEN "issued" ELSE x.state
      /\ y.bindingState =
            IF Due(x.binding) THEN "expired"
            ELSE IF Due(x.pending) /\ x.binding # None THEN "bound"
            ELSE x.bindingState
  BY ExpireRelayEffect
<1>3. SweptGrant(g) = IF Live(y) /\ now >= y.deadline THEN TerminalGrant(w, "expired") ELSE w
  BY DEF SweptGrant
<1>4. /\ x.binding # None => x.state = "bound" /\ x.binding.deadline \in Nat
      /\ x.pending # None => x.pending.deadline \in Nat
      /\ Live(x) \/ (x.binding = None /\ x.pending = None)
  BY <1>1 DEF InOrder, Coherent, Armed, GrantRecord, Bound, Challenge
<1>5. CASE Live(x) /\ now >= x.deadline
  <2>1. SweptGrant(g) = TerminalGrant(w, "expired")
    BY <1>1, <1>3, <1>5
  <2>2. SweptGrant(g).grant.state = "expired"
    BY <1>1, <1>5, <2>1, TerminalState
  <2> QED
    BY <1>5, <2>2 DEF Shown, Live
<1>6. CASE ~(Live(x) /\ now >= x.deadline)
  <2>1. SweptGrant(g).grant = y
    BY <1>1, <1>3, <1>6
  <2> HIDE DEF w
  <2>2. CASE ~Live(x)
    BY <1>2, <1>4, <2>1, <2>2 DEF Shown, Due, Live
  <2>3. CASE Live(x) /\ Due(x.binding)
    <3>1. y.binding = None /\ y.state = "issued" /\ y.bindingState = "expired"
      BY <1>2, <2>3
    <3>2. Shown(y) = <<"issued", "expired">>
      BY <1>1, <1>6, <3>1 DEF Shown, Live
    <3>3. Shown(x) = <<"issued", "expired">>
      BY <1>6, <2>3 DEF Shown, Due, Live
    <3> QED
      BY <2>1, <3>2, <3>3
  <2>4. CASE Live(x) /\ x.binding # None /\ ~Due(x.binding)
    <3>1. y.binding = x.binding /\ y.state = x.state
      BY <1>2, <2>4
    <3>2. (y.pending # None /\ now < y.pending.deadline)
             <=> (x.pending # None /\ now < x.pending.deadline)
      BY <1>1, <1>2, <1>4 DEF Due
    <3> QED
      BY <1>1, <1>6, <2>1, <2>4, <3>1, <3>2 DEF Shown, Due, Live
  <2>5. CASE Live(x) /\ x.binding = None
    <3>1. y.binding = None /\ y.state = x.state /\ y.bindingState = x.bindingState
      BY <1>2, <2>5 DEF Due
    <3> QED
      BY <1>1, <1>6, <2>1, <2>5, <3>1 DEF Shown, Live
  <2> QED
    BY <2>2, <2>3, <2>4, <2>5 DEF Due
<1> QED
  BY <1>5, <1>6

\* The sweep leaves the record of a grant to SweptGrant unless it ends the room.
LEMMA ExpireEffect ==
    ASSUME IInv, Expire
    PROVE  /\ now' = now
           /\ \A r \in Room : rooms'[r] = SweptRoom(r)
           /\ \A g \in Grant : grants'[g].deadline = grants[g].deadline
           /\ \A r \in Room : \A g \in rooms[r].grants :
                 Standing(r) /\ ~SweepEnds(r) => grants'[g] = SweptGrant(g).grant
<1> DEFINE S == UNION {rooms[r].grants : r \in {q \in Room : Standing(q)}}
           work == [g \in S |-> IF SweepEnds(grants[g].room)
                                THEN TerminalGrant(SweptGrant(g), "expired") ELSE SweptGrant(g)]
<1>1. S \in SUBSET Grant
  BY DEF IInv, TypeOK, RoomRecord
<1>2. ASSUME NEW g \in S
      PROVE  /\ Proper(grants[g], work[g])
             /\ ~SweepEnds(grants[g].room) => work[g] = SweptGrant(g)
  <2>1. grants[g] \in GrantRecord /\ Proper(grants[g], SweptGrant(g))
    BY <1>1, GrantInOrder, SweptGrantProper
  <2>2. work[g] = IF SweepEnds(grants[g].room)
                  THEN TerminalGrant(SweptGrant(g), "expired") ELSE SweptGrant(g)
    OBVIOUS
  <2> HIDE DEF work
  <2> QED
    BY <2>1, <2>2, TerminalGrantProper
<1>3. Settle(work) /\ DOMAIN work = S
  BY DEF Expire
<1> HIDE DEF work
<1>4. /\ GrantsFit
      /\ \A g \in Grant : grants'[g] = IF g \in S THEN work[g].grant ELSE grants[g]
  BY <1>1, <1>2, <1>3, SettleFits
<1>5. ASSUME NEW r \in Room, NEW g \in rooms[r].grants, Standing(r), ~SweepEnds(r)
      PROVE  grants'[g] = SweptGrant(g).grant
  <2>1. g \in S /\ grants[g].room = r
    BY <1>5 DEF IInv, GrantHome
  <2> QED
    BY <1>1, <1>2, <1>4, <1>5, <2>1
<1>6. /\ now' = now
      /\ \A r \in Room : rooms'[r] = SweptRoom(r)
      /\ \A g \in Grant : grants'[g].deadline = grants[g].deadline
  BY <1>4 DEF Expire, GrantsFit
<1> QED
  BY <1>5, <1>6

LEMMA SweepHidesRoom ==
    ASSUME IInv, Expire, NEW r \in Room
    PROVE  GetRoom(r)' = GetRoom(r)
<1>1. /\ now \in Nat /\ rooms[r] \in RoomRecord /\ rooms[r].grants \subseteq Grant
      /\ rooms[r].deadline \in Nat
      /\ \A g \in rooms[r].grants : grants[g].deadline \in Nat
      /\ EmptyGrace \in Nat
  BY LimitAssumption DEF IInv, TypeOK, RoomRecord, GrantRecord
<1>2. /\ now' = now /\ rooms'[r] = SweptRoom(r)
      /\ \A g \in rooms[r].grants : grants'[g].deadline = grants[g].deadline
  BY <1>1, ExpireEffect
<1>3. CASE RoomAccessTerminal(r)
  <2>1. SweptRoom(r).state # "open"
    <3>1. CASE rooms[r].state # "open"
      BY <3>1, SweptRoomShape
    <3>2. CASE rooms[r].state = "open" /\ now >= rooms[r].deadline
      <4>1. SweptRoom(r) = Tombstoned
        BY <3>2 DEF SweptRoom, SweepEnds, Standing
      <4> QED
        BY <4>1 DEF Tombstoned
    <3>3. CASE rooms[r].state = "open" /\ ~(now >= rooms[r].deadline) /\ GrantsPast(r, 0)
      <4>1. SweptRoom(r) \in {Tombstoned, [rooms[r] EXCEPT !.state = "empty"]}
        BY <3>3 DEF SweptRoom, Standing
      <4> QED
        BY <1>1, <4>1 DEF Tombstoned, RoomRecord
    <3> QED
      BY <1>3, <3>1, <3>2, <3>3 DEF RoomAccessTerminal
  <2>2. RoomAccessTerminal(r)'
    BY <1>2, <2>1 DEF RoomAccessTerminal
  <2> QED
    BY <1>3, <2>2 DEF GetRoom
<1>4. CASE ~RoomAccessTerminal(r)
  <2>1. /\ rooms[r].state = "open" /\ ~(now >= rooms[r].deadline) /\ ~GrantsPast(r, 0)
    BY <1>4 DEF RoomAccessTerminal
  <2>2. ~SweepEnds(r)
    <3>1. PICK g \in rooms[r].grants : ~(now >= grants[g].deadline + 0)
      BY <2>1 DEF GrantsPast
    <3>2. ~(now >= grants[g].deadline + EmptyGrace)
      BY <1>1, <3>1
    <3> QED
      BY <2>1, <3>2 DEF SweepEnds, GrantsPast
  <2>3. rooms'[r] = rooms[r]
    BY <1>2, <2>1, <2>2, SweptRoomShape
  <2>4. ~GrantsPast(r, 0)'
    BY <1>2, <2>1, <2>3 DEF GrantsPast
  <2>5. ~RoomAccessTerminal(r)'
    BY <1>2, <2>1, <2>3, <2>4 DEF RoomAccessTerminal
  <2>6. ASSUME NEW g \in rooms[r].grants
        PROVE  Snapshot(g)' = Snapshot(g)
    <3>1. grants'[g] = SweptGrant(g).grant
      BY <2>1, <2>2, ExpireEffect DEF Standing
    <3>2. Shown(grants'[g]) = Shown(grants[g])
      BY <1>1, <3>1, SweptGrantShown
    <3>3. Snapshot(g) = Shown(grants[g])
      BY DEF Snapshot, Shown
    <3>4. Snapshot(g)' = Shown(grants'[g])
      BY <1>2 DEF Snapshot, Shown, Live
    <3> QED
      BY <3>2, <3>3, <3>4
  <2>7. GetRoom(r) = [g \in rooms[r].grants |-> Snapshot(g)]
    BY <1>4 DEF GetRoom
  <2>8. GetRoom(r)' = [g \in rooms'[r].grants |-> Snapshot(g)']
    BY <2>5 DEF GetRoom
  <2> QED
    BY <2>3, <2>6, <2>7, <2>8
<1> QED
  BY <1>3, <1>4

\* No reader can tell whether the pass of the sweeper due now has already run (Expire
\* against GetRoom and roomAccessTerminal in store.go).
THEOREM RelaySweepIsInvisible == Spec => SweepIsInvisible
<1> DEFINE A == Expire => \A r \in Room : GetRoom(r)' = GetRoom(r)
<1>1. IInv /\ [Next]_vars => A
  BY SweepHidesRoom
<1>2. IInv /\ [Next]_vars => [A]_vars
  BY <1>1
<1> HIDE DEF A
<1>3. Spec => [][A]_vars
  BY <1>2, IInvHolds, PTL DEF Spec
<1> QED
  BY <1>3, PTL DEF SweepIsInvisible, A
-----------------------------------------------------------------------------
(***************************************************************************)
(* The sweeper on its clock.  At a pass nothing is left that was due; what *)
(* is made after it is not due then, and the next pass comes within the    *)
(* interval.                                                               *)
(***************************************************************************)
\* What of r will be due is not due before the pass before the next.
Swept(r) ==
    /\ Standing(r) => /\ nextSweep < rooms[r].deadline + SweepInterval
                      /\ \E g \in rooms[r].grants :
                            nextSweep < grants[g].deadline + EmptyGrace + SweepInterval
    /\ rooms[r].state = "open" =>
          \E g \in rooms[r].grants : nextSweep < grants[g].deadline + SweepInterval
    /\ rooms[r].state = "tombstone" => nextSweep < rooms[r].tombstoneDeadline + SweepInterval

Punctual == nextSweep \in Nat /\ now <= nextSweep /\ nextSweep <= now + SweepInterval

TimedInv == IInv /\ Punctual /\ \A r \in Room : Swept(r)

LEMMA RoomNumbers ==
    ASSUME IInv, NEW r \in Room
    PROVE  /\ now \in Nat /\ rooms[r] \in RoomRecord
           /\ rooms[r].deadline \in Nat /\ rooms[r].tombstoneDeadline \in Nat
           /\ \A g \in rooms[r].grants : g \in Grant /\ grants[g].deadline \in Nat
           /\ EmptyGrace \in Nat /\ SweepInterval \in Nat \ {0} /\ TombstoneTTL \in Nat \ {0}
  BY LimitAssumption, IntervalAssumption DEF IInv, TypeOK, RoomRecord, GrantRecord

\* A grant some room holds keeps its deadline.
LEMMA DeadlineKept ==
    ASSUME IInv, [Next]_vars, NEW r \in Room, NEW g \in rooms[r].grants
    PROVE  grants'[g].deadline = grants[g].deadline
<1>1. g \in Grant
  BY RoomNumbers
<1> QED
  BY <1>1, StepCases DEF StepKind, Trimmed, Challenges, Binds, Spends, Acts, Issues, Keeps

\* A step between two passes that takes no time.
LEMMA CallKeepsSwept ==
    ASSUME IInv, Punctual, [Next]_vars, UNCHANGED nextSweep, NEW r \in Room, Swept(r)
    PROVE  Swept(r)'
<1>1. RoomKind(r)
  BY RoomCases
<1>2. /\ now \in Nat /\ nextSweep \in Nat /\ SweepInterval \in Nat /\ TombstoneTTL \in Nat \ {0}
      /\ EmptyGrace \in Nat /\ nextSweep <= now + SweepInterval
  BY RoomNumbers DEF Punctual
<1>3. CASE rooms'[r] = rooms[r]
  BY <1>3, DeadlineKept DEF Swept, Standing
<1>4. CASE Standing(r) /\ rooms'[r] = [rooms[r] EXCEPT !.state = "empty"]
  <2>1. /\ rooms'[r].state = "empty" /\ rooms'[r].grants = rooms[r].grants
        /\ rooms'[r].deadline = rooms[r].deadline
    BY <1>4, RoomNumbers DEF RoomRecord
  <2> QED
    BY <1>4, <2>1, DeadlineKept DEF Swept, Standing
<1>5. CASE rooms'[r] = Tombstoned
  <2>1. rooms'[r].state = "tombstone" /\ rooms'[r].tombstoneDeadline = now + TombstoneTTL
    BY <1>5 DEF Tombstoned
  <2>2. nextSweep < now + TombstoneTTL + SweepInterval
    BY <1>2
  <2> QED
    BY <2>1, <2>2 DEF Swept, Standing
<1>6. CASE rooms'[r] = NoRoom
  BY <1>6 DEF NoRoom, Swept, Standing
<1>7. CASE Opens(r)
  <2>1. PICK ttl \in RoomTTL : rooms'[r].deadline = now + ttl
    BY <1>7 DEF Opens
  <2>2. PICK g \in rooms'[r].grants : \E t \in GrantTTL : grants'[g].deadline = now + t
    BY <1>7 DEF Opens
  <2>3. PICK t \in GrantTTL : grants'[g].deadline = now + t
    BY <2>2
  <2>4. ttl \in Nat \ {0} /\ t \in Nat \ {0}
    BY LimitAssumption
  <2>5. /\ nextSweep < (now + ttl) + SweepInterval
        /\ nextSweep < (now + t) + SweepInterval
        /\ nextSweep < (now + t) + EmptyGrace + SweepInterval
    BY <1>2, <2>4
  <2>6. rooms'[r].state = "open"
    BY <1>7 DEF Opens
  <2> QED
    BY <2>1, <2>3, <2>5, <2>6 DEF Swept, Standing
<1> QED
  BY <1>1, <1>3, <1>4, <1>5, <1>6, <1>7 DEF RoomKind

\* A pass of the sweeper leaves nothing that is due.
LEMMA SweepSweeps ==
    ASSUME IInv, Expire, nextSweep' = now + SweepInterval, NEW r \in Room
    PROVE  Swept(r)'
<1>1. /\ now \in Nat /\ rooms[r] \in RoomRecord
      /\ rooms[r].deadline \in Nat /\ rooms[r].tombstoneDeadline \in Nat
      /\ \A g \in rooms[r].grants : g \in Grant /\ grants[g].deadline \in Nat
      /\ EmptyGrace \in Nat /\ SweepInterval \in Nat \ {0} /\ TombstoneTTL \in Nat \ {0}
  BY RoomNumbers
<1>2. rooms'[r] = SweptRoom(r)
  BY DEF Expire
<1>3. \A g \in rooms[r].grants : grants'[g].deadline = grants[g].deadline
  BY <1>1, ExpireEffect
<1>4. CASE rooms[r].state = "tombstone" /\ Vacant(r)
  <2>1. rooms'[r] = NoRoom
    BY <1>2, <1>4 DEF SweptRoom, SweepEnds, Standing
  <2> QED
    BY <2>1 DEF NoRoom, Swept, Standing
<1>5. CASE SweepEnds(r)
  <2>1. rooms'[r] = Tombstoned
    BY <1>2, <1>5 DEF SweptRoom, SweepEnds, Standing
  <2>2. rooms'[r].state = "tombstone" /\ rooms'[r].tombstoneDeadline = now + TombstoneTTL
    BY <2>1 DEF Tombstoned
  <2>3. now + SweepInterval < (now + TombstoneTTL) + SweepInterval
    BY <1>1
  <2> QED
    BY <2>2, <2>3 DEF Swept, Standing
<1>6. CASE Standing(r) /\ ~SweepEnds(r)
  <2>1. PICK g \in rooms[r].grants : ~(now >= grants[g].deadline + EmptyGrace)
    BY <1>6 DEF SweepEnds, GrantsPast
  <2>2. ~(now >= rooms[r].deadline)
    BY <1>6 DEF SweepEnds
  <2>3. /\ now + SweepInterval < rooms[r].deadline + SweepInterval
        /\ now + SweepInterval < grants[g].deadline + EmptyGrace + SweepInterval
    BY <1>1, <2>1, <2>2
  <2>4. CASE GrantsPast(r, 0)
    <3>1. rooms'[r] = [rooms[r] EXCEPT !.state = "empty"]
      BY <1>2, <1>6, <2>4 DEF SweptRoom, Standing
    <3>2. /\ rooms'[r].state = "empty" /\ rooms'[r].grants = rooms[r].grants
          /\ rooms'[r].deadline = rooms[r].deadline
      BY <1>1, <3>1 DEF RoomRecord
    <3> QED
      BY <1>3, <2>3, <3>2 DEF Swept, Standing
  <2>5. CASE ~GrantsPast(r, 0)
    <3>1. rooms'[r] = rooms[r]
      BY <1>2, <1>6, <2>5 DEF SweptRoom, Standing
    <3>2. PICK k \in rooms[r].grants : ~(now >= grants[k].deadline + 0)
      BY <2>5 DEF GrantsPast
    <3>3. now + SweepInterval < grants[k].deadline + SweepInterval
      BY <1>1, <3>2
    <3> QED
      BY <1>3, <1>6, <2>3, <3>1, <3>3 DEF Swept, Standing
  <2> QED
    BY <2>4, <2>5
<1>7. CASE rooms[r].state = "tombstone" /\ ~Vacant(r)
  <2>1. rooms'[r] = rooms[r]
    BY <1>2, <1>7 DEF SweptRoom, SweepEnds, Standing
  <2>2. ~(now >= rooms[r].tombstoneDeadline)
    BY <1>7 DEF Vacant
  <2>3. now + SweepInterval < rooms[r].tombstoneDeadline + SweepInterval
    BY <1>1, <2>2
  <2> QED
    BY <1>7, <2>1, <2>3 DEF Swept, Standing
<1>8. CASE rooms[r].state = "absent"
  <2>1. rooms'[r] = rooms[r]
    BY <1>2, <1>8 DEF SweptRoom, SweepEnds, Standing
  <2> QED
    BY <1>8, <2>1 DEF Swept, Standing
<1>9. rooms[r].state \in {"absent", "open", "empty", "tombstone"}
  BY <1>1 DEF RoomRecord
<1> QED
  BY <1>4, <1>5, <1>6, <1>7, <1>8, <1>9 DEF Standing, SweepEnds

LEMMA TimedStep ==
    ASSUME TimedInv, [TimedNext]_timedVars
    PROVE  TimedInv'
<1>1. /\ IInv /\ Punctual /\ (\A r \in Room : Swept(r))
      /\ now \in Nat /\ nextSweep \in Nat /\ SweepInterval \in Nat \ {0}
  BY IntervalAssumption DEF TimedInv, Punctual, IInv, TypeOK
<1>2. CASE [Next]_vars /\ UNCHANGED <<now, nextSweep>>
  <2>1. IInv' /\ \A r \in Room : Swept(r)'
    BY <1>1, <1>2, NextIInv, CallKeepsSwept
  <2> QED
    BY <1>1, <1>2, <2>1 DEF TimedInv, Punctual
<1>3. CASE Calls /\ UNCHANGED nextSweep
  <2>1. Next
    BY <1>3 DEF Calls, Next, Control
  <2>2. UNCHANGED now
    <3>1. Handshake => UNCHANGED now
      BY HandshakeKeepsLoop
    <3>2. Traffic => UNCHANGED now
      BY DEF Traffic, AdmitClientIngress, AdmitPing, AdmitFanout, LoopDone
    <3> QED
      BY <1>3, <3>1, <3>2 DEF Calls, CreateRoom, CreateRoomFails, EndRoom
  <2> QED
    BY <1>2, <1>3, <2>1, <2>2
<1>4. CASE Sweep
  <2>1. Expire /\ nextSweep' = now + SweepInterval /\ now' = now
    BY <1>4 DEF Sweep, Expire
  <2>2. IInv'
    BY <1>1, <2>1, ExpireIInv
  <2>3. \A r \in Room : Swept(r)'
    BY <1>1, <2>1, SweepSweeps
  <2> QED
    BY <1>1, <2>1, <2>2, <2>3 DEF TimedInv, Punctual
<1>5. CASE TimedTick
  <2>1. now < nextSweep /\ now' = now + 1 /\ nextSweep' = nextSweep /\ Next
    BY <1>1, <1>5 DEF TimedTick, SweepDue, Tick, Next
  <2>2. IInv' /\ \A r \in Room : Swept(r)'
    BY <1>1, <2>1, NextIInv, CallKeepsSwept
  <2> QED
    BY <1>1, <2>1, <2>2 DEF TimedInv, Punctual
<1>6. CASE UNCHANGED timedVars
  BY <1>2, <1>6 DEF timedVars, vars
<1> QED
  BY <1>3, <1>4, <1>5, <1>6 DEF TimedNext

\* What is left of a room is reclaimed within one interval of the sweeper, although
\* nobody calls anything (RunSweeper and Expire in store.go).
THEOREM RelayReclaimedInTime == TimedSpec => []ReclaimedInTime
<1>1. TimedInit => TimedInv
  <2> SUFFICES ASSUME TimedInit PROVE TimedInv
    OBVIOUS
  <2>1. IInv
    BY InitIInv DEF TimedInit
  <2>2. Punctual /\ \A r \in Room : Swept(r)
    BY IntervalAssumption DEF TimedInit, Init, NoRoom, Punctual, Swept, Standing
  <2> QED
    BY <2>1, <2>2 DEF TimedInv
<1>2. TimedInv /\ [TimedNext]_timedVars => TimedInv'
  BY TimedStep
<1>3. TimedInv => ReclaimedInTime
  <2> SUFFICES ASSUME TimedInv, NEW r \in Room
               PROVE  /\ Standing(r) => /\ now < rooms[r].deadline + SweepInterval
                                        /\ ~GrantsPast(r, EmptyGrace + SweepInterval)
                      /\ rooms[r].state = "open" => ~GrantsPast(r, SweepInterval)
                      /\ rooms[r].state = "tombstone" =>
                            now < rooms[r].tombstoneDeadline + SweepInterval
    BY DEF ReclaimedInTime
  <2>1. /\ now \in Nat /\ nextSweep \in Nat /\ now <= nextSweep
        /\ rooms[r].deadline \in Nat /\ rooms[r].tombstoneDeadline \in Nat
        /\ \A g \in rooms[r].grants : grants[g].deadline \in Nat
        /\ EmptyGrace \in Nat /\ SweepInterval \in Nat
    BY RoomNumbers DEF TimedInv, Punctual
  <2>2. ASSUME NEW g \in rooms[r].grants, NEW d \in Nat, nextSweep < grants[g].deadline + d
        PROVE  ~GrantsPast(r, d)
    BY <2>1, <2>2 DEF GrantsPast
  <2>3. Swept(r)
    BY DEF TimedInv
  <2>4. CASE Standing(r)
    <3>1. nextSweep < rooms[r].deadline + SweepInterval
      BY <2>3, <2>4 DEF Swept
    <3>2. PICK g \in rooms[r].grants : nextSweep < grants[g].deadline + EmptyGrace + SweepInterval
      BY <2>3, <2>4 DEF Swept
    <3>3. /\ nextSweep < grants[g].deadline + (EmptyGrace + SweepInterval)
          /\ EmptyGrace + SweepInterval \in Nat
      BY <2>1, <3>2
    <3>4. ~GrantsPast(r, EmptyGrace + SweepInterval)
      BY <2>2, <3>3
    <3>5. rooms[r].state = "open" => ~GrantsPast(r, SweepInterval)
      BY <2>1, <2>2, <2>3 DEF Swept
    <3> QED
      BY <2>1, <2>4, <3>1, <3>4, <3>5 DEF Standing
  <2>5. CASE ~Standing(r)
    BY <2>1, <2>3, <2>5 DEF Swept, Standing
  <2> QED
    BY <2>4, <2>5
<1> QED
  BY <1>1, <1>2, <1>3, PTL DEF TimedSpec
-----------------------------------------------------------------------------
(***************************************************************************)
(* The writing of a plan.  A plan is fresh until its batch begins, for no  *)
(* time passes until then; from there on the batch is in hand of a room    *)
(* that stands, or that ended after it began, or it has run out of time.   *)
(***************************************************************************)
\* The room of g stands with g in it, or it ended at this very moment.
JustHome(g) ==
    LET r == grants[g].room
    IN  /\ r \in Room
        /\ \/ Standing(r) /\ g \in rooms[r].grants
           \/ rooms[r].state = "tombstone" /\ rooms[r].tombstoneDeadline = now + TombstoneTTL

FreshPlan == loop # None /\ loop.phase = "planned" /\ batch = None => JustHome(loop.sender)

Covered ==
    \/ Standing(batch.room) /\ batch.sender \in rooms[batch.room].grants
    \/ /\ rooms[batch.room].state = "tombstone"
       /\ batch.deadline <= EndedAt(batch.room) + WriteTimeout
    \/ now >= batch.deadline

InHand ==
    batch # None =>
        /\ batch \in Batch
        /\ batch.deadline <= now + WriteTimeout
        /\ Covered

WireInv == IInv /\ FreshPlan /\ InHand

LEMMA WireNumbers ==
    ASSUME IInv
    PROVE  /\ now \in Nat /\ TombstoneTTL \in Nat \ {0}
           /\ WriteTimeout \in Nat \ {0} /\ WriteTimeout <= TombstoneTTL
  BY LimitAssumption, TimeoutAssumption DEF IInv, TypeOK

\* A step of the store that takes no time leaves a plan fresh.
LEMMA JustHomeKept ==
    ASSUME IInv, [Next]_vars, UNCHANGED now, NEW g \in Grant, JustHome(g)
    PROVE  JustHome(g)'
<1> DEFINE r == grants[g].room
<1>0. /\ IInv' /\ now \in Nat /\ TombstoneTTL \in Nat \ {0}
      /\ r \in Room /\ rooms[r] \in RoomRecord
  BY NextIInv, WireNumbers, RoomNumbers DEF JustHome
<1>1. CASE Keeps(g)
  <2>1. grants'[g].room = r /\ RoomKind(r)
    BY <1>0, <1>1, RoomCases DEF Keeps
  <2>2. PICK k \in Room : k = r
    BY <1>0
  <2>3. /\ grants'[g].room = k /\ RoomKind(k) /\ rooms[k] \in RoomRecord
        /\ \/ Standing(k) /\ g \in rooms[k].grants
           \/ rooms[k].state = "tombstone" /\ rooms[k].tombstoneDeadline = now + TombstoneTTL
    BY <1>0, <2>1, <2>2 DEF JustHome
  <2> HIDE DEF r
  <2>4. CASE rooms'[k] = rooms[k]
    BY <2>2, <2>3, <2>4 DEF JustHome, Standing
  <2>5. CASE Standing(k) /\ rooms'[k] = [rooms[k] EXCEPT !.state = "empty"]
    <3>1. rooms'[k].state = "empty" /\ rooms'[k].grants = rooms[k].grants
      BY <2>3, <2>5 DEF RoomRecord
    <3> QED
      BY <2>3, <2>5, <3>1 DEF JustHome, Standing
  <2>6. CASE rooms'[k] = Tombstoned
    BY <2>3, <2>6 DEF JustHome, Tombstoned
  <2>7. ~Vacant(k)
    BY <1>0, <2>3 DEF Vacant, Standing
  <2> QED
    BY <2>3, <2>4, <2>5, <2>6, <2>7 DEF RoomKind
<1>2. CASE ~Live(grants[g]) /\ Live(grants'[g])
  BY <1>0, <1>2 DEF IInv, GrantHome, JustHome, Standing
<1>3. CASE grants'[g] = grants[g]
  BY <1>1, <1>3 DEF Keeps
<1> QED
  BY <1>1, <1>2, <1>3, StepCases
     DEF StepKind, Trimmed, Challenges, Binds, Spends, Acts, Issues

\* A step of the store leaves the batch in hand covered.
LEMMA CoveredKept ==
    ASSUME IInv, [Next]_vars, UNCHANGED batch, batch # None, InHand, now' \in Nat, now' >= now
    PROVE  InHand'
<1>1. /\ now \in Nat /\ TombstoneTTL \in Nat \ {0}
      /\ WriteTimeout \in Nat \ {0} /\ WriteTimeout <= TombstoneTTL
  BY WireNumbers
<1>2. PICK r \in Room : r = batch.room
  BY DEF InHand, Batch
<1>3. /\ batch.deadline \in Nat /\ batch.deadline <= now + WriteTimeout
      /\ batch.deadline <= now' + WriteTimeout
  BY <1>1 DEF InHand, Batch
<1>4. RoomKind(r) /\ rooms[r] \in RoomRecord /\ rooms[r].tombstoneDeadline \in Nat
  BY RoomCases, RoomNumbers
<1>5. Covered'
  <2>1. CASE now >= batch.deadline
    BY <1>1, <1>3, <2>1 DEF Covered
  <2>2. CASE Standing(r) /\ batch.sender \in rooms[r].grants
    <3>1. CASE rooms'[r] = rooms[r]
      BY <1>2, <2>2, <3>1 DEF Covered, Standing
    <3>2. CASE rooms'[r] = [rooms[r] EXCEPT !.state = "empty"]
      <4>1. rooms'[r].state = "empty" /\ rooms'[r].grants = rooms[r].grants
        BY <1>4, <3>2 DEF RoomRecord
      <4> QED
        BY <1>2, <2>2, <4>1 DEF Covered, Standing
    <3>3. CASE rooms'[r] = Tombstoned
      <4>1. rooms'[r].state = "tombstone" /\ rooms'[r].tombstoneDeadline = now + TombstoneTTL
        BY <3>3 DEF Tombstoned
      <4>2. EndedAt(r)' = now
        BY <1>1, <4>1 DEF EndedAt
      <4>3. batch' = batch /\ batch'.room = r
        BY <1>2
      <4> QED
        BY <1>3, <4>1, <4>2, <4>3 DEF Covered
    <3>4. ~Vacant(r)
      BY <2>2 DEF Vacant, Standing
    <3> QED
      BY <1>4, <3>1, <3>2, <3>3, <3>4 DEF RoomKind
  <2>3. CASE /\ rooms[r].state = "tombstone"
             /\ batch.deadline <= EndedAt(r) + WriteTimeout
    <3>1. CASE rooms'[r] = rooms[r]
      BY <1>2, <2>3, <3>1 DEF Covered, EndedAt
    <3>2. CASE Vacant(r)
      <4>1. now >= rooms[r].tombstoneDeadline
        BY <2>3, <3>2 DEF Vacant
      <4>2. batch.deadline <= now
        BY <1>1, <1>3, <1>4, <2>3, <4>1 DEF EndedAt
      <4> QED
        BY <1>1, <1>3, <4>2 DEF Covered
    <3>3. ~Standing(r)
      BY <2>3 DEF Standing
    <3> QED
      BY <1>4, <3>1, <3>2, <3>3 DEF RoomKind
  <2> QED
    BY <1>2, <2>1, <2>2, <2>3 DEF InHand, Covered
<1> QED
  BY <1>2, <1>3, <1>5 DEF InHand

\* A plan that AdmitFanout has just made is of a grant at home.
LEMMA NewPlanHome ==
    ASSUME IInv, [Next]_vars, loop # None, loop' # None, loop' # loop, UNCHANGED now
    PROVE  JustHome(loop.sender)'
<1>1. PICK g \in Grant : g = loop'.sender
  BY FanoutPlans
<1>2. /\ Authoritative(g) /\ UNCHANGED rooms /\ Keeps(g)
  BY <1>1, FanoutPlans DEF Trimmed
<1>3. grants[g].room \in Room /\ Standing(grants[g].room) /\ g \in rooms[grants[g].room].grants
  BY <1>2 DEF Authoritative, IInv, GrantHome
<1>4. JustHome(g)'
  BY <1>2, <1>3 DEF JustHome, Keeps, Standing
<1> QED
  BY <1>1, <1>4 DEF JustHome, Standing
\* Only Tick moves the clock.
LEMMA StillTime == Control \/ Handshake \/ Traffic => UNCHANGED now
<1>1. Control => UNCHANGED now
  BY DEF Control, CreateRoom, CreateRoomFails, EndRoom, Expire
<1>2. Handshake => UNCHANGED now
  BY HandshakeKeepsLoop
<1>3. Traffic => UNCHANGED now
  BY DEF Traffic, AdmitClientIngress, AdmitPing, AdmitFanout, LoopDone
<1> QED
  BY <1>1, <1>2, <1>3

\* A loop that holds nothing is never handed a plan.
LEMMA AdmittedPhase ==
    ASSUME [Next]_vars, loop = None, loop' # None
    PROVE  loop'.phase = "admitted"
<1>1. ~Control
  BY DEF Control, CreateRoom, CreateRoomFails, EndRoom, Expire
<1>2. ~Handshake
  BY HandshakeKeepsLoop
<1>3. Traffic
  BY <1>1, <1>2 DEF Next, Tick, vars
<1>4. \E b \in Binding, named, genuine, allowed \in BOOLEAN, e \in Endpoint, s \in Sequence :
         AdmitClientIngress(b, named, e, s, genuine, allowed)
  BY <1>3 DEF Traffic, AdmitPing, AdmitFanout, LoopDone
<1> QED
  BY <1>4 DEF AdmitClientIngress

LEMMA WireStep ==
    ASSUME WireInv, [WireNext]_wireVars
    PROVE  WireInv'
<1>1. /\ IInv /\ FreshPlan /\ InHand
      /\ now \in Nat /\ TombstoneTTL \in Nat \ {0}
      /\ WriteTimeout \in Nat \ {0} /\ WriteTimeout <= TombstoneTTL
  BY WireNumbers DEF WireInv
<1>2. CASE BeginFanout
  <2>1. IInv'
    BY <1>1, <1>2, NextIInv DEF BeginFanout
  <2>2. loop \in Plan /\ loop.sender \in Grant /\ loop.recipients \in SUBSET (Grant \X Endpoint)
    BY <1>1, <1>2 DEF BeginFanout, IInv, TypeOK, Admitted, Plan
  <2>3. PICK g \in Grant : g = loop.sender
    BY <2>2
  <2>4. /\ batch' = [left |-> loop.recipients, deadline |-> now + WriteTimeout,
                     room |-> grants[g].room, sender |-> g]
        /\ UNCHANGED vars
    BY <1>2, <2>3 DEF BeginFanout
  <2>5. JustHome(g)
    BY <1>1, <1>2, <2>3 DEF FreshPlan, BeginFanout
  <2>6. /\ UNCHANGED <<now, rooms, grants>> /\ grants[g].room \in Room
        /\ rooms[grants[g].room].tombstoneDeadline \in Nat
    BY <1>1, <2>4, <2>5, RoomNumbers DEF vars, JustHome
  <2>7. batch' \in Batch /\ batch' # None /\ batch'.deadline <= now' + WriteTimeout
    BY <1>1, <2>2, <2>4, <2>6, BatchAssumption DEF Batch
  <2>8. Covered'
    <3>1. PICK r \in Room : r = grants[g].room
      BY <2>6
    <3>2. /\ batch'.room = r /\ batch'.sender = g /\ batch'.deadline = now + WriteTimeout
          /\ rooms'[r] = rooms[r]
      BY <2>4, <2>6, <3>1
    <3>3. CASE Standing(r) /\ g \in rooms[r].grants
      BY <3>2, <3>3 DEF Covered, Standing
    <3>4. CASE rooms[r].state = "tombstone" /\ rooms[r].tombstoneDeadline = now + TombstoneTTL
      <4>1. EndedAt(r)' = now /\ now + WriteTimeout <= now + WriteTimeout
        BY <1>1, <3>2, <3>4 DEF EndedAt
      <4> QED
        BY <3>2, <3>4, <4>1 DEF Covered
    <3> QED
      BY <2>5, <3>1, <3>3, <3>4 DEF JustHome
  <2> QED
    BY <2>1, <2>7, <2>8 DEF WireInv, FreshPlan, InHand
<1>3. CASE Write
  <2>1. IInv' /\ UNCHANGED <<now, rooms, loop>>
    BY <1>1, <1>3, NextIInv DEF Write, vars
  <2>2. batch # None /\ batch \in Batch
    BY <1>1, <1>3 DEF Write, InHand
  <2>3. PICK to \in batch.left : batch' = [batch EXCEPT !.left = batch.left \ {to}]
    BY <1>3 DEF Write
  <2>4. /\ batch' \in Batch /\ batch' # None
        /\ batch'.room = batch.room /\ batch'.deadline = batch.deadline
        /\ batch'.sender = batch.sender
    BY <2>2, <2>3, BatchAssumption DEF Batch
  <2>5. Covered'
    BY <1>1, <2>1, <2>2, <2>4 DEF InHand, Covered, Standing, EndedAt
  <2> QED
    BY <1>1, <2>1, <2>2, <2>4, <2>5 DEF WireInv, FreshPlan, InHand
<1>4. CASE EndFanout
  <2>1. IInv'
    BY <1>1, <1>4, NextIInv DEF EndFanout, Next, Traffic
  <2>2. loop' = None /\ batch' = None
    BY <1>4 DEF EndFanout, LoopDone
  <2> QED
    BY <2>1, <2>2 DEF WireInv, FreshPlan, InHand
<1>5. ASSUME [Next]_vars, UNCHANGED batch, now' = now \/ (now' = now + 1 /\ Prompt)
      PROVE  WireInv'
  <2>1. IInv'
    BY <1>1, <1>5, NextIInv
  <2>2. InHand'
    <3>1. now' \in Nat /\ now' >= now
      BY <1>1, <1>5
    <3>2. CASE batch = None
      BY <1>5, <3>2 DEF InHand
    <3>3. CASE batch # None
      BY <1>1, <1>5, <3>1, <3>3, CoveredKept
    <3> QED
      BY <3>2, <3>3
  <2>3. ASSUME loop' # None, loop'.phase = "planned", batch = None
        PROVE  JustHome(loop.sender)'
    <3>1. CASE UNCHANGED loop
      <4>1. UNCHANGED now
        BY <1>5, <2>3, <3>1 DEF Prompt
      <4>2. loop \in Plan /\ loop.sender \in Grant
        BY <1>1, <2>3, <3>1 DEF IInv, TypeOK, Admitted, Plan
      <4>3. PICK g \in Grant : g = loop.sender
        BY <4>2
      <4>4. JustHome(g)
        BY <1>1, <2>3, <3>1, <4>3 DEF FreshPlan
      <4>5. JustHome(g)'
        BY <1>1, <1>5, <4>1, <4>4, JustHomeKept
      <4> QED
        BY <3>1, <4>3, <4>5 DEF JustHome, Standing
    <3>2. CASE ~UNCHANGED loop
      <4>1. ~Tick
        BY <3>2 DEF Tick
      <4>2. UNCHANGED now
        BY <1>5, <4>1, StillTime DEF Next, vars
      <4>3. loop # None
        BY <1>1, <1>5, <2>3, <3>2, AdmittedPhase
      <4> QED
        BY <1>1, <1>5, <2>3, <3>2, <4>2, <4>3, NewPlanHome
    <3> QED
      BY <3>1, <3>2
  <2> QED
    BY <1>5, <2>1, <2>2, <2>3 DEF WireInv, FreshPlan
<1>6. CASE Between
  <2>1. UNCHANGED batch /\ (Control \/ Handshake \/ Traffic \/ (Prompt /\ Tick))
    BY <1>6 DEF Between, Traffic
  <2>2. Next
    BY <2>1 DEF Next
  <2>3. now' = now \/ (now' = now + 1 /\ Prompt)
    BY <2>1, StillTime DEF Tick
  <2> QED
    BY <1>5, <2>1, <2>2, <2>3
<1>7. CASE UNCHANGED wireVars
  BY <1>5, <1>7 DEF wireVars, vars
<1> QED
  BY <1>2, <1>3, <1>4, <1>6, <1>7 DEF WireNext

\* What goes out after the end of a room is the rest of the one batch in hand, within the
\* write timeout, and never under another room of that ID (writeFanout in udp.go).
THEOREM RelaySilentAfterTheEnd == WireSpec => SilentAfterTheEnd
<1> DEFINE A ==
       batch # None /\ batch' # None /\ batch' # batch =>
         \/ Standing(batch.room) /\ batch.sender \in rooms[batch.room].grants
         \/ rooms[batch.room].state = "tombstone" /\ now < EndedAt(batch.room) + WriteTimeout
<1>1. WireInit => WireInv
  BY InitIInv DEF WireInit, Init, WireInv, FreshPlan, InHand
<1>2. WireInv /\ [WireNext]_wireVars => WireInv'
  BY WireStep
<1>3. WireInv /\ [WireNext]_wireVars => A
  <2> SUFFICES ASSUME WireInv, [WireNext]_wireVars, batch # None, batch' # None, batch' # batch
               PROVE  \/ Standing(batch.room) /\ batch.sender \in rooms[batch.room].grants
                      \/ /\ rooms[batch.room].state = "tombstone"
                         /\ now < EndedAt(batch.room) + WriteTimeout
    OBVIOUS
  <2>1. Write
    BY DEF WireNext, BeginFanout, EndFanout, Between, wireVars
  <2>2. now < batch.deadline /\ batch \in Batch /\ Covered
    BY <2>1 DEF Write, InTime, WireInv, InHand
  <2>3. /\ now \in Nat /\ batch.deadline \in Nat /\ batch.room \in Room
        /\ TombstoneTTL \in Nat /\ WriteTimeout \in Nat
        /\ rooms[batch.room].tombstoneDeadline \in Nat
    BY <2>2, WireNumbers, RoomNumbers DEF Batch, WireInv
  <2> QED
    BY <2>2, <2>3 DEF Covered, EndedAt
<1>4. WireInv /\ [WireNext]_wireVars => [A]_wireVars
  BY <1>3
<1> HIDE DEF A
<1>5. WireSpec => [][A]_wireVars
  BY <1>1, <1>2, <1>4, PTL DEF WireSpec
<1> QED
  BY <1>5, PTL DEF SilentAfterTheEnd, A
-----------------------------------------------------------------------------
(***************************************************************************)
(* The compositions add nothing to the store: what is proved of it holds   *)
(* of them.                                                                *)
(***************************************************************************)
\* The store with the sweeper on its ticker takes no step the store does not
\* take (RunSweeper calls Expire and nothing else).
THEOREM SweptStoreIsStore == TimedSpec => Spec
<1>1. TimedInit => Init
  BY DEF TimedInit
<1>2. [TimedNext]_timedVars => [Next]_vars
  <2>1. Calls => Next
    BY DEF Calls, Next, Control
  <2>2. Sweep => Next
    BY DEF Sweep, Next, Control
  <2>3. TimedTick => Next
    BY DEF TimedTick, Next
  <2> QED
    BY <2>1, <2>2, <2>3 DEF TimedNext, timedVars
<1> QED
  BY <1>1, <1>2, PTL DEF TimedSpec, Spec

\* Writing a batch out asks nothing of the store: the UDP loop, with its fan-out
\* spelled out, uses the store as any loop does (writeFanout in udp.go).
THEOREM WiredStoreIsStore == WireSpec => Spec
<1>1. WireInit => Init
  BY DEF WireInit
<1>2. [WireNext]_wireVars => [Next]_vars
  <2>1. BeginFanout \/ Write => UNCHANGED vars
    BY DEF BeginFanout, Write
  <2>2. EndFanout => Next
    BY DEF EndFanout, Next, Traffic
  <2>3. Between => Next
    BY DEF Between, Next, Traffic
  <2> QED
    BY <2>1, <2>2, <2>3 DEF WireNext, wireVars
<1> QED
  BY <1>1, <1>2, PTL DEF WireSpec, Spec
=============================================================================
