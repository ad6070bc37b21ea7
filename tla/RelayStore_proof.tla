-------------------------- MODULE RelayStore_proof --------------------------
(***************************************************************************)
(* For any number of rooms, participants and IDs, any limits and any       *)
(* lifetimes: the invariants of RelayStore hold in every reachable state.  *)
(* They are inductive only together.                                       *)
(***************************************************************************)
EXTENDS RelayStore, FiniteSetTheorems, TLAPS

IInv ==
    /\ TypeOK
    /\ IndexIntegrity
    /\ GrantHome
    /\ DeadlineNesting
    /\ HandshakeCoherence
    /\ CountersExact

(***************************************************************************)
(* Work items.  Every helper that clears something keeps the work item of  *)
(* a grant in order: what it took out of the record it also took out of    *)
(* the indexes, and nothing else.                                          *)
(***************************************************************************)
WorkRecord == [grant : GrantRecord, candidates : SUBSET Candidate, bindings : SUBSET Binding,
               delisted : BOOLEAN, ended : BOOLEAN]

BindingIDs(x) == {b \in Binding : x.binding # None /\ x.binding.id = b}

\* What holds of a record at every point of the work on it.
InOrder(x) == Armed(x) /\ Coherent(x) /\ Nested(x)

Proper(x, w) ==
    /\ w \in WorkRecord
    /\ InOrder(w.grant)
    /\ w.grant.room = x.room /\ w.grant.deadline = x.deadline
    /\ Candidates(w.grant) = Candidates(x) \ w.candidates
    /\ w.candidates \subseteq Candidates(x)
    /\ BindingIDs(w.grant) = BindingIDs(x) \ w.bindings
    /\ w.bindings \subseteq BindingIDs(x)
    /\ Live(w.grant) => Live(x)
    /\ w.delisted => ~Live(w.grant)
    /\ Live(x) /\ ~Live(w.grant) => w.delisted
    /\ w.ended <=> Live(x) /\ ~Live(w.grant)

LEMMA WorkProper ==
    ASSUME NEW g \in Grant, grants[g] \in GrantRecord, InOrder(grants[g])
    PROVE  Proper(grants[g], Work(g))
  BY DEF Proper, Work, WorkRecord, Candidates, BindingIDs

LEMMA ClearPendingProper ==
    ASSUME NEW x \in GrantRecord, NEW w, Proper(x, w)
    PROVE  /\ Proper(x, ClearPending(w))
           /\ ClearPending(w).grant.pending = None
           /\ ClearPending(w).grant.binding = w.grant.binding
           /\ ClearPending(w).grant.state = w.grant.state
<1> DEFINE v == ClearPending(w)
<1>1. CASE w.grant.pending = None
  BY <1>1 DEF ClearPending
<1>2. CASE w.grant.pending # None
  <2>1. /\ w \in WorkRecord /\ w.grant \in GrantRecord /\ w.grant.pending \in Challenge
        /\ w.grant.pending.candidate \in Candidate
    BY <1>2 DEF Proper, WorkRecord, GrantRecord, Challenge
  <2> DEFINE y == [w.grant EXCEPT !.pending = None,
                                  !.bindingState = IF w.grant.binding # None THEN "bound"
                                                   ELSE w.grant.bindingState]
  <2>2. /\ y \in GrantRecord
        /\ y.pending = None /\ y.recent = w.grant.recent /\ y.binding = w.grant.binding
        /\ y.state = w.grant.state /\ y.secret = w.grant.secret /\ y.generation = w.grant.generation
        /\ y.room = w.grant.room /\ y.deadline = w.grant.deadline
        /\ y.bindingState = IF w.grant.binding # None THEN "bound" ELSE w.grant.bindingState
    BY <2>1, ZenonT(60) DEF GrantRecord
  <2>3. /\ v \in WorkRecord
        /\ v.grant = y
        /\ v.candidates = w.candidates \cup {w.grant.pending.candidate}
        /\ v.bindings = w.bindings /\ v.delisted = w.delisted /\ v.ended = w.ended
    BY <1>2, <2>1, <2>2 DEF ClearPending, WorkRecord
  <2>4. InOrder(y)
    BY <2>2 DEF Proper, InOrder, Armed, Coherent, Nested, Live
  <2>5. /\ Candidates(y) = Candidates(w.grant) \ {w.grant.pending.candidate}
        /\ w.grant.pending.candidate \in Candidates(w.grant)
        /\ BindingIDs(y) = BindingIDs(w.grant)
    BY <1>2, <2>1, <2>2 DEF Proper, InOrder, Coherent, Candidates, BindingIDs
  <2> HIDE DEF y
  <2> QED
    BY <2>2, <2>3, <2>4, <2>5 DEF Proper, Live
<1> QED
  BY <1>1, <1>2

LEMMA ClearRecentProper ==
    ASSUME NEW x \in GrantRecord, NEW w, Proper(x, w)
    PROVE  /\ Proper(x, ClearRecent(w))
           /\ ClearRecent(w).grant.recent = None
           /\ ClearRecent(w).grant.pending = w.grant.pending
           /\ ClearRecent(w).grant.binding = w.grant.binding
           /\ ClearRecent(w).grant.state = w.grant.state
           /\ ClearRecent(w).bindings = w.bindings
<1> DEFINE v == ClearRecent(w)
<1>1. CASE w.grant.recent = None
  BY <1>1 DEF ClearRecent
<1>2. CASE w.grant.recent # None
  <2>1. /\ w \in WorkRecord /\ w.grant \in GrantRecord /\ w.grant.recent \in Completed
        /\ w.grant.recent.candidate \in Candidate
    BY <1>2 DEF Proper, WorkRecord, GrantRecord, Completed
  <2> DEFINE y == [w.grant EXCEPT !.recent = None]
  <2>2. /\ y \in GrantRecord
        /\ y.recent = None /\ y.pending = w.grant.pending /\ y.binding = w.grant.binding
        /\ y.state = w.grant.state /\ y.secret = w.grant.secret /\ y.generation = w.grant.generation
        /\ y.room = w.grant.room /\ y.deadline = w.grant.deadline
        /\ y.bindingState = w.grant.bindingState
    BY <2>1 DEF GrantRecord
  <2>3. /\ v \in WorkRecord
        /\ v.grant = y
        /\ v.candidates = w.candidates \cup {w.grant.recent.candidate}
        /\ v.bindings = w.bindings /\ v.delisted = w.delisted /\ v.ended = w.ended
    BY <1>2, <2>1, <2>2 DEF ClearRecent, WorkRecord
  <2>4. InOrder(y)
    BY <2>2 DEF Proper, InOrder, Armed, Coherent, Nested, Live
  <2>5. /\ Candidates(y) = Candidates(w.grant) \ {w.grant.recent.candidate}
        /\ w.grant.recent.candidate \in Candidates(w.grant)
        /\ BindingIDs(y) = BindingIDs(w.grant)
    BY <1>2, <2>1, <2>2 DEF Proper, InOrder, Coherent, Candidates, BindingIDs
  <2> HIDE DEF y
  <2> QED
    BY <2>2, <2>3, <2>4, <2>5 DEF Proper, Live
<1> QED
  BY <1>1, <1>2

LEMMA ClearBindingProper ==
    ASSUME NEW x \in GrantRecord, NEW w, Proper(x, w)
    PROVE  /\ Proper(x, ClearBinding(w))
           /\ ClearBinding(w).grant.binding = None
           /\ ClearBinding(w).grant.recent = None
           /\ ClearBinding(w).grant.pending = w.grant.pending
           /\ Live(ClearBinding(w).grant) <=> Live(w.grant)
<1>1. CASE w.grant.binding = None
  BY <1>1 DEF ClearBinding, Proper, InOrder, Coherent
<1>2. CASE w.grant.binding # None
  <2> DEFINE u == ClearRecent(w)
             y == [[u.grant EXCEPT !.binding = None] EXCEPT !.state = "issued", !.bindingState = "expired"]
             v == ClearBinding(w)
  <2>1. /\ w \in WorkRecord /\ w.grant \in GrantRecord /\ w.grant.binding \in Bound
        /\ w.grant.binding.id \in Binding
        /\ Live(w.grant) /\ w.grant.secret
    BY <1>2 DEF Proper, WorkRecord, GrantRecord, Bound, InOrder, Coherent, Armed, Live
  <2>2. /\ Proper(x, u) /\ u.grant.recent = None /\ u.grant.pending = w.grant.pending
        /\ u.grant.binding = w.grant.binding /\ u.grant.state = w.grant.state
        /\ u.bindings = w.bindings
    BY ClearRecentProper
  <2>3. u = w \/ w.grant.recent # None
    BY DEF ClearRecent
  <2>4. /\ u \in WorkRecord /\ u.grant \in GrantRecord /\ Live(u.grant) /\ u.grant.secret
    BY <2>1, <2>2 DEF Proper, WorkRecord, InOrder, Armed, Live
  <2>5. /\ y \in GrantRecord
        /\ y.recent = None /\ y.pending = u.grant.pending /\ y.binding = None
        /\ y.state = "issued" /\ y.secret = u.grant.secret /\ y.bindingState = "expired"
        /\ y.room = u.grant.room /\ y.deadline = u.grant.deadline
        /\ Live([u.grant EXCEPT !.binding = None])
    BY <2>2, <2>4, ZenonT(60) DEF GrantRecord, Live
  <2>6. v = [u EXCEPT !.bindings = @ \cup {w.grant.binding.id}, !.grant = y]
    BY <1>2, <2>3, <2>5 DEF ClearBinding, Proper, InOrder, Coherent
  <2> HIDE DEF u, y, v
  <2>7. /\ v \in WorkRecord
        /\ v.grant = y
        /\ v.candidates = u.candidates /\ v.bindings = u.bindings \cup {w.grant.binding.id}
        /\ v.delisted = u.delisted /\ v.ended = u.ended
    BY <2>1, <2>4, <2>5, <2>6 DEF WorkRecord
  <2>8. InOrder(y) /\ Live(y)
    BY <2>2, <2>4, <2>5 DEF Proper, InOrder, Armed, Coherent, Nested, Live
  <2>9. /\ Candidates(y) = Candidates(u.grant)
        /\ BindingIDs(y) = BindingIDs(u.grant) \ {w.grant.binding.id}
        /\ w.grant.binding.id \in BindingIDs(u.grant)
    BY <1>2, <2>1, <2>2, <2>5 DEF Candidates, BindingIDs
  <2>10. Proper(x, v)
    BY <2>2, <2>4, <2>5, <2>7, <2>8, <2>9 DEF Proper
  <2> QED
    BY <2>1, <2>2, <2>5, <2>7, <2>8, <2>10 DEF v
<1> QED
  BY <1>1, <1>2

LEMMA ExpireRelayProper ==
    ASSUME NEW x \in GrantRecord, NEW w, Proper(x, w)
    PROVE  /\ Proper(x, ExpireRelay(w))
           /\ ExpireRelay(w).grant.pending \in {None, w.grant.pending}
           /\ ExpireRelay(w).grant.binding \in {None, w.grant.binding}
           /\ Live(ExpireRelay(w).grant) <=> Live(w.grant)
<1> DEFINE due(handle) == handle # None /\ now >= handle.deadline
           u == IF due(w.grant.pending) THEN ClearPending(w) ELSE w
           v == IF due(u.grant.recent) THEN ClearRecent(u) ELSE u
<1>0. u \in {ClearPending(w), w} /\ v \in {ClearRecent(u), u}
  OBVIOUS
<1>1. /\ Proper(x, u) /\ u.grant.pending \in {None, w.grant.pending}
      /\ u.grant.binding = w.grant.binding /\ u.grant.state = w.grant.state
  <2> HIDE DEF u
  <2> QED
    BY <1>0, ClearPendingProper
<1>2. /\ Proper(x, v) /\ v.grant.pending = u.grant.pending /\ v.grant.binding = u.grant.binding
      /\ v.grant.state = u.grant.state
  <2> HIDE DEF u, v
  <2> QED
    BY <1>0, <1>1, ClearRecentProper
<1>3. ExpireRelay(w) \in {ClearBinding(v), v}
  BY DEF ExpireRelay
<1>4. /\ Proper(x, ClearBinding(v))
      /\ ClearBinding(v).grant.pending = v.grant.pending
      /\ ClearBinding(v).grant.binding = None
      /\ Live(ClearBinding(v).grant) <=> Live(v.grant)
  BY <1>2, ClearBindingProper
<1> HIDE DEF u, v
<1> QED
  BY <1>1, <1>2, <1>3, <1>4 DEF Live

LEMMA TerminalGrantProper ==
    ASSUME NEW x \in GrantRecord, NEW w, Proper(x, w), NEW terminal \in {"expired", "revoked"}
    PROVE  /\ Proper(x, TerminalGrant(w, terminal))
           /\ ~Live(TerminalGrant(w, terminal).grant)
<1> DEFINE u == ClearBinding(ClearRecent(ClearPending(w)))
           c == [u EXCEPT !.grant = [u.grant EXCEPT !.generation = 0]]
           y == [c.grant EXCEPT !.secret = FALSE]
           z == IF Live(y) THEN [y EXCEPT !.state = terminal, !.bindingState = terminal] ELSE y
           v == TerminalGrant(w, terminal)
<1>1. /\ Proper(x, u)
      /\ u.grant.pending = None /\ u.grant.recent = None /\ u.grant.binding = None
  BY ClearPendingProper, ClearRecentProper, ClearBindingProper
<1>2. v = [c EXCEPT !.delisted = TRUE, !.ended = c.ended \/ Live(y), !.grant = z]
  BY DEF TerminalGrant, ClearRelay
<1> HIDE DEF u, v
<1>3. /\ u \in WorkRecord /\ u.grant \in GrantRecord
      /\ c \in WorkRecord /\ c.grant = [u.grant EXCEPT !.generation = 0]
      /\ c.candidates = u.candidates /\ c.bindings = u.bindings
      /\ c.delisted = u.delisted /\ c.ended = u.ended
  BY <1>1 DEF Proper, WorkRecord, GrantRecord
<1>4. /\ y \in GrantRecord
      /\ y.pending = None /\ y.recent = None /\ y.binding = None /\ y.secret = FALSE
      /\ y.state = u.grant.state /\ y.bindingState = u.grant.bindingState
      /\ y.room = u.grant.room /\ y.deadline = u.grant.deadline
  <2>1. /\ c.grant \in GrantRecord
        /\ c.grant.pending = None /\ c.grant.recent = None /\ c.grant.binding = None
        /\ c.grant.state = u.grant.state /\ c.grant.bindingState = u.grant.bindingState
        /\ c.grant.room = u.grant.room /\ c.grant.deadline = u.grant.deadline
    BY <1>1, <1>3 DEF GrantRecord
  <2> HIDE DEF c
  <2> QED
    BY <2>1 DEF GrantRecord
<1> HIDE DEF c, y
<1>5. /\ z \in GrantRecord
      /\ z.pending = None /\ z.recent = None /\ z.binding = None /\ ~z.secret
      /\ z.room = u.grant.room /\ z.deadline = u.grant.deadline
      /\ ~Live(z)
      /\ z.state # "bound" /\ z.bindingState \notin {"bound", "rebind_pending"}
      /\ Live(y) <=> Live(u.grant)
  BY <1>1, <1>4, ZenonT(60) DEF GrantRecord, Live, Proper, InOrder, Coherent
<1> HIDE DEF z
<1>6. /\ v \in WorkRecord
      /\ v.grant = z
      /\ v.candidates = u.candidates /\ v.bindings = u.bindings
      /\ v.delisted = TRUE /\ v.ended = (u.ended \/ Live(u.grant))
  BY <1>2, <1>3, <1>5 DEF WorkRecord, Live
<1>7. InOrder(z)
  BY <1>5 DEF InOrder, Armed, Coherent, Nested
<1>8. /\ Candidates(z) = Candidates(u.grant)
      /\ BindingIDs(z) = BindingIDs(u.grant)
  BY <1>1, <1>5 DEF Candidates, BindingIDs
<1> QED
  BY <1>1, <1>5, <1>6, <1>7, <1>8 DEF Proper, v
-----------------------------------------------------------------------------
(***************************************************************************)
(* Settling proper work on some grants keeps indexes, records and the      *)
(* session counter in step.                                                *)
(***************************************************************************)
Listed(gs, ids, cs, bs) ==
    /\ \A g \in Grant : g \in ids <=> Live(gs[g])
    /\ \A c \in Candidate, g \in Grant : cs[c] = g <=> c \in Candidates(gs[g])
    /\ \A b \in Binding, g \in Grant : bs[b] = g <=> b \in BindingIDs(gs[g])

LEMMA ListedIsIntegrity ==
    IndexIntegrity <=> Listed(grants, grantsByID, candidatesByID, bindingsByID)
  BY DEF IndexIntegrity, Listed, BindingIDs

LEMMA SettledListed ==
    ASSUME IInv, NEW S \in SUBSET Grant, NEW work, DOMAIN work = S,
           \A g \in S : Proper(grants[g], work[g])
    PROVE  /\ SettledGrants(work) \in [Grant -> GrantRecord]
           /\ SettledIDs(work) \subseteq Grant
           /\ SettledCandidates(work) \in [Candidate -> Grant \cup {None}]
           /\ SettledBindings(work) \in [Binding -> Grant \cup {None}]
           /\ Listed(SettledGrants(work), SettledIDs(work),
                     SettledCandidates(work), SettledBindings(work))
<1> DEFINE gs == SettledGrants(work)
           ids == SettledIDs(work)
           cs == SettledCandidates(work)
           bs == SettledBindings(work)
<1> USE NoneAssumption
<1>1. /\ grants \in [Grant -> GrantRecord] /\ grantsByID \subseteq Grant
      /\ candidatesByID \in [Candidate -> Grant \cup {None}]
      /\ bindingsByID \in [Binding -> Grant \cup {None}]
      /\ Listed(grants, grantsByID, candidatesByID, bindingsByID)
  BY ListedIsIntegrity DEF IInv, TypeOK
<1>2. \A g \in S : work[g].grant \in GrantRecord
  BY DEF Proper, WorkRecord
<1>3. /\ gs \in [Grant -> GrantRecord]
      /\ \A g \in S : gs[g] = work[g].grant
      /\ \A g \in Grant \ S : gs[g] = grants[g]
  BY <1>1, <1>2 DEF SettledGrants
<1>4. \A g \in Grant : g \in ids <=> Live(gs[g])
  BY <1>1, <1>3 DEF SettledIDs, Listed, Proper
<1>5. /\ cs \in [Candidate -> Grant \cup {None}]
      /\ \A c \in Candidate : cs[c] = IF \E h \in S : c \in work[h].candidates
                                      THEN None ELSE candidatesByID[c]
  BY <1>1 DEF SettledCandidates, Unlisted
<1>6. ASSUME NEW c \in Candidate, NEW g \in Grant
      PROVE  cs[c] = g <=> c \in Candidates(gs[g])
  <2>1. ASSUME NEW h \in S, c \in work[h].candidates
        PROVE  cs[c] # g /\ c \notin Candidates(gs[g])
    <3>1. cs[c] = None
      BY <1>5, <2>1
    <3>2. candidatesByID[c] = h
      BY <1>1, <2>1 DEF Proper, Listed
    <3>3. g # h => c \notin Candidates(grants[g])
      BY <3>2, <1>1 DEF Listed
    <3>4. Candidates(gs[g]) \subseteq Candidates(grants[g])
      BY <1>3 DEF Proper
    <3>5. g = h => c \notin Candidates(gs[g])
      BY <2>1, <1>3 DEF Proper
    <3> QED
      BY <3>1, <3>3, <3>4, <3>5
  <2>2. ASSUME \A h \in S : c \notin work[h].candidates
        PROVE  cs[c] = g <=> c \in Candidates(gs[g])
    <3>1. cs[c] = candidatesByID[c]
      BY <1>5, <2>2
    <3>2. c \in Candidates(grants[g]) <=> c \in Candidates(gs[g])
      BY <2>2, <1>3 DEF Proper
    <3> QED
      BY <3>1, <3>2, <1>1 DEF Listed
  <2> QED
    BY <2>1, <2>2
<1>7. /\ bs \in [Binding -> Grant \cup {None}]
      /\ \A b \in Binding : bs[b] = IF \E h \in S : b \in work[h].bindings
                                    THEN None ELSE bindingsByID[b]
  BY <1>1 DEF SettledBindings, Unlisted
<1>8. ASSUME NEW b \in Binding, NEW g \in Grant
      PROVE  bs[b] = g <=> b \in BindingIDs(gs[g])
  <2>1. ASSUME NEW h \in S, b \in work[h].bindings
        PROVE  bs[b] # g /\ b \notin BindingIDs(gs[g])
    <3>1. bs[b] = None
      BY <1>7, <2>1
    <3>2. bindingsByID[b] = h
      BY <1>1, <2>1 DEF Proper, Listed
    <3>3. g # h => b \notin BindingIDs(grants[g])
      BY <3>2, <1>1 DEF Listed
    <3>4. BindingIDs(gs[g]) \subseteq BindingIDs(grants[g])
      BY <1>3 DEF Proper
    <3>5. g = h => b \notin BindingIDs(gs[g])
      BY <2>1, <1>3 DEF Proper
    <3> QED
      BY <3>1, <3>3, <3>4, <3>5
  <2>2. ASSUME \A h \in S : b \notin work[h].bindings
        PROVE  bs[b] = g <=> b \in BindingIDs(gs[g])
    <3>1. bs[b] = bindingsByID[b]
      BY <1>7, <2>2
    <3>2. b \in BindingIDs(grants[g]) <=> b \in BindingIDs(gs[g])
      BY <2>2, <1>3 DEF Proper
    <3> QED
      BY <3>1, <3>2, <1>1 DEF Listed
  <2> QED
    BY <2>1, <2>2
<1>9. ids \subseteq Grant
  BY <1>1 DEF SettledIDs
<1> HIDE DEF gs, ids, cs, bs
<1>10. Listed(gs, ids, cs, bs)
  BY <1>4, <1>6, <1>8 DEF Listed
<1> QED
  BY <1>3, <1>5, <1>7, <1>9, <1>10 DEF gs, ids, cs, bs

\* What settling does to the records, one grant at a time.
LEMMA SettledRecords ==
    ASSUME IInv, NEW S \in SUBSET Grant, NEW work, DOMAIN work = S,
           \A g \in S : Proper(grants[g], work[g]),
           NEW g \in Grant
    PROVE  /\ InOrder(SettledGrants(work)[g])
           /\ SettledGrants(work)[g].room = grants[g].room
           /\ SettledGrants(work)[g].deadline = grants[g].deadline
           /\ Live(SettledGrants(work)[g]) => Live(grants[g])
           /\ SettledGrants(work)[g] = IF g \in S THEN work[g].grant ELSE grants[g]
<1>1. SettledGrants(work)[g] = IF g \in S THEN work[g].grant ELSE grants[g]
  BY DEF SettledGrants
<1>2. InOrder(grants[g])
  BY DEF IInv, InOrder, GrantHome, HandshakeCoherence, DeadlineNesting
<1> QED
  BY <1>1, <1>2 DEF Proper

LEMMA SettledCount ==
    ASSUME IInv, NEW S \in SUBSET Grant, NEW work, DOMAIN work = S,
           \A g \in S : Proper(grants[g], work[g])
    PROVE  /\ SettledSessions(work) \in Int
           /\ SettledSessions(work) = Cardinality({g \in Grant : Live(SettledGrants(work)[g])})
           /\ SettledSessions(work) <= activeSessions
<1> DEFINE live == {g \in Grant : Live(grants[g])}
           kept == {g \in Grant : Live(SettledGrants(work)[g])}
           ended == {g \in DOMAIN work : work[g].ended}
<1>1. IsFiniteSet(live) /\ IsFiniteSet(ended) /\ ended \subseteq live
  <2>1. ended \subseteq live
    BY DEF Proper
  <2> QED
    BY <2>1, SetAssumption, FS_Subset
<1>2. kept = live \ ended
  BY SettledRecords DEF Proper
<1>3. Cardinality(live \ ended) = Cardinality(live) - Cardinality(live \cap ended)
  BY <1>1, FS_Difference
<1>4. live \cap ended = ended
  BY <1>1
<1>5. Cardinality(live) \in Nat /\ Cardinality(ended) \in Nat
  BY <1>1, FS_CardinalityType
<1>6. activeSessions = Cardinality(live)
  BY DEF IInv, CountersExact
<1> HIDE DEF live, kept, ended
<1>7. SettledSessions(work) = activeSessions - Cardinality(ended)
  BY DEF SettledSessions, ended
<1> QED
  BY <1>2, <1>3, <1>4, <1>5, <1>6, <1>7 DEF kept
-----------------------------------------------------------------------------
(***************************************************************************)
(* A step keeps the invariant when it fits: on the side of the grants      *)
(* (GrantsFit) and on the side of the rooms (RoomsFit).  CreateRoom is the *)
(* only action that brings a grant to life and is proved on its own.       *)
(***************************************************************************)
GrantsFit ==
    /\ grants' \in [Grant -> GrantRecord]
    /\ grantsByID' \subseteq Grant
    /\ candidatesByID' \in [Candidate -> Grant \cup {None}]
    /\ bindingsByID' \in [Binding -> Grant \cup {None}]
    /\ Listed(grants', grantsByID', candidatesByID', bindingsByID')
    /\ \A g \in Grant : /\ InOrder(grants'[g])
                        /\ grants'[g].room = grants[g].room
                        /\ grants'[g].deadline = grants[g].deadline
                        /\ Live(grants'[g]) => Live(grants[g])
    /\ activeSessions' \in Int
    /\ activeSessions' = Cardinality({g \in Grant : Live(grants'[g])})
    /\ activeSessions' <= activeSessions

RoomsFit ==
    /\ rooms' \in [Room -> RoomRecord]
    /\ \A g \in Grant : Live(grants'[g]) =>
          LET room == rooms'[grants[g].room]
          IN  room.state = "open" /\ g \in room.grants /\ grants[g].deadline <= room.deadline
    /\ \A r \in Room : rooms'[r].grants \subseteq rooms[r].grants
    /\ \A r \in Room : rooms'[r].state # "absent" => rooms[r].state # "absent"
    /\ openRooms' \in Int
    /\ openRooms' = Cardinality({r \in Room : rooms'[r].state = "open"})
    /\ openRooms' <= openRooms

LoopType == Admitted \cup Plan \cup {None}

LEMMA StepIInv ==
    ASSUME IInv, GrantsFit, RoomsFit, now' \in Nat, loop' \in LoopType
    PROVE  IInv'
<1>1. TypeOK'
  BY DEF TypeOK, GrantsFit, RoomsFit, LoopType
<1>2. IndexIntegrity'
  BY DEF IndexIntegrity, GrantsFit, Listed, BindingIDs
<1>3. GrantHome'
  <2>1. ASSUME NEW r \in Room, NEW g \in rooms'[r].grants
        PROVE  grants'[g].room = r
    <3>1. g \in rooms[r].grants /\ g \in Grant
      BY DEF IInv, TypeOK, RoomRecord, RoomsFit
    <3> QED
      BY <3>1 DEF IInv, GrantHome, GrantsFit
  <2>2. ASSUME NEW g \in Grant
        PROVE  /\ Armed(grants'[g])
               /\ Live(grants'[g]) =>
                     /\ grants'[g].room \in Room /\ rooms'[grants'[g].room].state = "open"
                     /\ g \in rooms'[grants'[g].room].grants
    BY DEF IInv, GrantHome, GrantsFit, RoomsFit, InOrder
  <2> QED
    BY <2>1, <2>2 DEF GrantHome
<1>4. DeadlineNesting'
  BY DEF DeadlineNesting, GrantsFit, RoomsFit, InOrder
<1>5. HandshakeCoherence'
  BY DEF HandshakeCoherence, GrantsFit, InOrder
<1>6. CountersExact'
  <2> DEFINE kept == {r \in Room : rooms'[r].state # "absent"}
             held == {r \in Room : rooms[r].state # "absent"}
  <2>1. Cardinality(kept) <= Cardinality(held) /\ Cardinality(kept) \in Nat /\ Cardinality(held) \in Nat
    <3>1. IsFiniteSet(held) /\ IsFiniteSet(kept) /\ kept \in SUBSET held
      BY SetAssumption, FS_Subset DEF RoomsFit
    <3> QED
      BY <3>1, FS_Subset, FS_CardinalityType
  <2>2. Cardinality(held) <= MaxRoomRecords /\ openRooms <= MaxOpenRooms
        /\ activeSessions <= MaxActiveSessions
        /\ openRooms \in Int /\ activeSessions \in Int
    BY DEF IInv, CountersExact, TypeOK
  <2> HIDE DEF kept, held
  <2>3. Cardinality(kept) <= MaxRoomRecords
    BY <2>1, <2>2, LimitAssumption
  <2>4. /\ openRooms' <= MaxOpenRooms /\ activeSessions' <= MaxActiveSessions
        /\ openRooms' = Cardinality({r \in Room : rooms'[r].state = "open"})
        /\ activeSessions' = Cardinality({g \in Grant : Live(grants'[g])})
    BY <2>2, LimitAssumption DEF RoomsFit, GrantsFit
  <2> QED
    BY <2>3, <2>4 DEF CountersExact, kept
<1> QED
  BY <1>1, <1>2, <1>3, <1>4, <1>5, <1>6 DEF IInv

LEMMA SettleFits ==
    ASSUME IInv, NEW S \in SUBSET Grant, NEW work, DOMAIN work = S,
           \A g \in S : Proper(grants[g], work[g]), Settle(work)
    PROVE  /\ GrantsFit
           /\ \A g \in Grant : grants'[g] = IF g \in S THEN work[g].grant ELSE grants[g]
<1>1. \A g \in Grant :
         /\ InOrder(grants'[g])
         /\ grants'[g].room = grants[g].room
         /\ grants'[g].deadline = grants[g].deadline
         /\ Live(grants'[g]) => Live(grants[g])
         /\ grants'[g] = IF g \in S THEN work[g].grant ELSE grants[g]
  BY SettledRecords DEF Settle
<1>2. /\ activeSessions' \in Int
      /\ activeSessions' = Cardinality({g \in Grant : Live(grants'[g])})
      /\ activeSessions' <= activeSessions
  BY SettledCount DEF Settle
<1>3. /\ grants' \in [Grant -> GrantRecord]
      /\ grantsByID' \subseteq Grant
      /\ candidatesByID' \in [Candidate -> Grant \cup {None}]
      /\ bindingsByID' \in [Binding -> Grant \cup {None}]
      /\ Listed(grants', grantsByID', candidatesByID', bindingsByID')
  BY SettledListed DEF Settle
<1> QED
  BY <1>1, <1>2, <1>3 DEF GrantsFit

LEMMA UnchangedGrantsFit ==
    ASSUME IInv, UNCHANGED <<grants, indexes, activeSessions>>
    PROVE  GrantsFit
  BY ListedIsIntegrity
     DEF GrantsFit, IInv, TypeOK, GrantHome, HandshakeCoherence, DeadlineNesting, InOrder,
         CountersExact, indexes

LEMMA UnchangedRoomsFit ==
    ASSUME IInv, GrantsFit, UNCHANGED <<rooms, openRooms>>
    PROVE  RoomsFit
  BY DEF GrantsFit, RoomsFit, IInv, TypeOK, GrantHome, DeadlineNesting, CountersExact

\* Work on one grant.
LEMMA OneFits ==
    ASSUME IInv, NEW g \in Grant, NEW w, Proper(grants[g], w), Settle(One(g, w)),
           UNCHANGED <<rooms, openRooms>>
    PROVE  GrantsFit /\ RoomsFit
<1>1. DOMAIN One(g, w) = {g} /\ One(g, w)[g] = w
  BY DEF One
<1>2. GrantsFit
  BY <1>1, SettleFits
<1> QED
  BY <1>2, UnchangedRoomsFit

\* What the invariant says of one grant.
LEMMA GrantInOrder ==
    ASSUME IInv, NEW g \in Grant
    PROVE  /\ grants[g] \in GrantRecord
           /\ InOrder(grants[g])
           /\ Proper(grants[g], Work(g))
<1>1. grants[g] \in GrantRecord /\ InOrder(grants[g])
  BY DEF IInv, TypeOK, InOrder, GrantHome, HandshakeCoherence, DeadlineNesting
<1> QED
  BY <1>1, WorkProper

LEMMA TombstoneFits ==
    ASSUME IInv, NEW r \in Room, Standing(r), NEW terminal \in {"expired", "revoked"},
           TombstoneRoom(r, terminal)
    PROVE  GrantsFit /\ RoomsFit
<1> DEFINE S == rooms[r].grants
           work == [g \in S |-> TerminalGrant(Work(g), terminal)]
<1>1. S \in SUBSET Grant /\ rooms \in [Room -> RoomRecord] /\ now \in Nat /\ openRooms \in Int
  BY DEF IInv, TypeOK, RoomRecord
<1>2. \A g \in S : Proper(grants[g], work[g]) /\ ~Live(work[g].grant)
  BY <1>1, GrantInOrder, TerminalGrantProper
<1>3. Settle(work)
  BY DEF TombstoneRoom
<1>4. DOMAIN work = S
  OBVIOUS
<1> HIDE DEF work
<1>5. /\ GrantsFit
      /\ \A g \in Grant : grants'[g] = IF g \in S THEN work[g].grant ELSE grants[g]
  BY <1>1, <1>2, <1>3, <1>4, SettleFits
<1>6. /\ rooms' \in [Room -> RoomRecord]
      /\ rooms'[r].state = "tombstone" /\ rooms'[r].grants = {}
      /\ \A q \in Room \ {r} : rooms'[q] = rooms[q]
  BY <1>1, LimitAssumption DEF TombstoneRoom, Tombstoned, RoomRecord
<1>7. ASSUME NEW g \in Grant, Live(grants'[g])
      PROVE  /\ grants[g].room \in Room \ {r}
             /\ rooms[grants[g].room].state = "open"
             /\ g \in rooms[grants[g].room].grants
             /\ grants[g].deadline <= rooms[grants[g].room].deadline
  <2>1. Live(grants[g]) /\ g \notin S
    BY <1>2, <1>5, <1>7 DEF GrantsFit
  <2> QED
    BY <2>1 DEF IInv, GrantHome, DeadlineNesting
<1>8. /\ openRooms' \in Int
      /\ openRooms' = Cardinality({q \in Room : rooms'[q].state = "open"})
      /\ openRooms' <= openRooms
  <2> DEFINE open == {q \in Room : rooms[q].state = "open"}
  <2>1. {q \in Room : rooms'[q].state = "open"} = open \ {r}
    BY <1>6
  <2>2. IsFiniteSet(open) /\ (r \in open <=> rooms[r].state = "open")
    BY SetAssumption, FS_Subset
  <2>3. openRooms = Cardinality(open)
    BY DEF IInv, CountersExact
  <2> HIDE DEF open
  <2>4. Cardinality(open \ {r}) = IF r \in open THEN Cardinality(open) - 1 ELSE Cardinality(open)
    BY <2>2, FS_RemoveElement
  <2>5. openRooms' = IF rooms[r].state = "open" THEN openRooms - 1 ELSE openRooms
    BY DEF TombstoneRoom
  <2>6. openRooms' = Cardinality(open \ {r}) /\ openRooms' \in Int /\ openRooms' <= openRooms
    BY <1>1, <2>2, <2>3, <2>4, <2>5
  <2> QED
    BY <2>1, <2>6
<1>9. ASSUME NEW g \in Grant, Live(grants'[g])
      PROVE  LET room == rooms'[grants[g].room]
             IN  room.state = "open" /\ g \in room.grants /\ grants[g].deadline <= room.deadline
  BY <1>6, <1>7, <1>9
<1>10. \A q \in Room : /\ rooms'[q].grants \subseteq rooms[q].grants
                       /\ rooms'[q].state # "absent" => rooms[q].state # "absent"
  BY <1>6 DEF Standing
<1> QED
  BY <1>5, <1>6, <1>8, <1>9, <1>10 DEF RoomsFit

LEMMA LapseFits ==
    ASSUME IInv, NEW g \in Grant, Authoritative(g), LapseAuthority(g)
    PROVE  GrantsFit /\ RoomsFit
<1>1. CASE now >= rooms[grants[g].room].deadline
  <2>1. grants[g].room \in Room
    BY DEF Authoritative, IInv, GrantHome
  <2> QED
    BY <1>1, <2>1, TombstoneFits DEF LapseAuthority, Authoritative
<1>2. CASE ~(now >= rooms[grants[g].room].deadline)
  BY <1>2, GrantInOrder, TerminalGrantProper, OneFits DEF LapseAuthority
<1> QED
  BY <1>1, <1>2

\* A live grant that stays live and takes the candidates C and the bindings B
\* on top of what the work w left it.
Adopts(g, w, y, C, B) ==
    LET cs == SettledCandidates(One(g, w))
        bs == SettledBindings(One(g, w))
    IN  /\ Live(grants[g]) /\ Proper(grants[g], w)
        /\ y \in GrantRecord /\ InOrder(y) /\ Live(y)
        /\ y.room = grants[g].room /\ y.deadline = grants[g].deadline
        /\ C \in SUBSET Candidate /\ Candidates(y) = Candidates(w.grant) \cup C
        /\ B \in SUBSET Binding /\ BindingIDs(y) = BindingIDs(w.grant) \cup B
        /\ \A c \in C : cs[c] \in {None, g}
        /\ \A b \in B : bs[b] \in {None, g}
        /\ grants' = [grants EXCEPT ![g] = y]
        /\ candidatesByID' = [c \in Candidate |-> IF c \in C THEN g ELSE cs[c]]
        /\ bindingsByID' = [b \in Binding |-> IF b \in B THEN g ELSE bs[b]]
        /\ UNCHANGED <<rooms, openRooms, grantsByID, activeSessions>>

LEMMA AdoptFits ==
    ASSUME IInv, NEW g \in Grant, NEW w, NEW y, NEW C, NEW B, Adopts(g, w, y, C, B)
    PROVE  GrantsFit /\ RoomsFit
<1> DEFINE gs == SettledGrants(One(g, w))
           cs == SettledCandidates(One(g, w))
           bs == SettledBindings(One(g, w))
<1> USE NoneAssumption
<1>0. /\ Live(grants[g]) /\ Proper(grants[g], w)
      /\ y \in GrantRecord /\ InOrder(y) /\ Live(y)
      /\ y.room = grants[g].room /\ y.deadline = grants[g].deadline
      /\ C \in SUBSET Candidate /\ Candidates(y) = Candidates(w.grant) \cup C
      /\ B \in SUBSET Binding /\ BindingIDs(y) = BindingIDs(w.grant) \cup B
      /\ \A c \in C : cs[c] \in {None, g}
      /\ \A b \in B : bs[b] \in {None, g}
      /\ grants' = [grants EXCEPT ![g] = y]
      /\ candidatesByID' = [c \in Candidate |-> IF c \in C THEN g ELSE cs[c]]
      /\ bindingsByID' = [b \in Binding |-> IF b \in B THEN g ELSE bs[b]]
      /\ UNCHANGED <<rooms, openRooms, grantsByID, activeSessions>>
  BY DEF Adopts
<1>1. DOMAIN One(g, w) = {g} /\ One(g, w)[g] = w
  BY DEF One
<1>2. /\ cs \in [Candidate -> Grant \cup {None}]
      /\ bs \in [Binding -> Grant \cup {None}]
      /\ Listed(gs, SettledIDs(One(g, w)), cs, bs)
  BY <1>0, <1>1, SettledListed
<1>3. gs[g] = w.grant /\ \A h \in Grant \ {g} : gs[h] = grants[h]
  BY <1>1 DEF SettledGrants
<1>4. /\ grants \in [Grant -> GrantRecord] /\ grants' \in [Grant -> GrantRecord]
      /\ grants'[g] = y /\ \A h \in Grant \ {g} : grants'[h] = grants[h]
  BY <1>0 DEF IInv, TypeOK
<1> HIDE DEF gs, cs, bs
<1>5. /\ candidatesByID' \in [Candidate -> Grant \cup {None}]
      /\ \A c \in Candidate : candidatesByID'[c] = IF c \in C THEN g ELSE cs[c]
      /\ bindingsByID' \in [Binding -> Grant \cup {None}]
      /\ \A b \in Binding : bindingsByID'[b] = IF b \in B THEN g ELSE bs[b]
  BY <1>0, <1>2
<1>6. ASSUME NEW c \in Candidate, NEW h \in Grant
      PROVE  candidatesByID'[c] = h <=> c \in Candidates(grants'[h])
  <2>1. cs[c] = h <=> c \in Candidates(gs[h])
    BY <1>2 DEF Listed
  <2>2. CASE h = g
    BY <2>1, <2>2, <1>0, <1>3, <1>4, <1>5
  <2>3. CASE h # g
    <3>1. c \in C => cs[c] # h
      BY <1>0, <2>3
    <3> QED
      BY <2>1, <2>3, <3>1, <1>0, <1>3, <1>4, <1>5
  <2> QED
    BY <2>2, <2>3
<1>7. ASSUME NEW b \in Binding, NEW h \in Grant
      PROVE  bindingsByID'[b] = h <=> b \in BindingIDs(grants'[h])
  <2>1. bs[b] = h <=> b \in BindingIDs(gs[h])
    BY <1>2 DEF Listed
  <2>2. CASE h = g
    BY <2>1, <2>2, <1>0, <1>3, <1>4, <1>5
  <2>3. CASE h # g
    <3>1. b \in B => bs[b] # h
      BY <1>0, <2>3
    <3> QED
      BY <2>1, <2>3, <3>1, <1>0, <1>3, <1>4, <1>5
  <2> QED
    BY <2>2, <2>3
<1>8. \A h \in Grant : Live(grants'[h]) <=> Live(grants[h])
  BY <1>0, <1>4
<1>9. \A h \in Grant : h \in grantsByID' <=> Live(grants'[h])
  BY <1>0, <1>8 DEF IInv, IndexIntegrity
<1>10. Listed(grants', grantsByID', candidatesByID', bindingsByID')
  BY <1>6, <1>7, <1>9 DEF Listed
<1>11. \A h \in Grant : /\ InOrder(grants'[h])
                        /\ grants'[h].room = grants[h].room
                        /\ grants'[h].deadline = grants[h].deadline
  BY <1>0, <1>4, GrantInOrder
<1>12. /\ activeSessions' \in Int
       /\ activeSessions' = Cardinality({h \in Grant : Live(grants'[h])})
       /\ activeSessions' <= activeSessions
  <2>1. {h \in Grant : Live(grants'[h])} = {h \in Grant : Live(grants[h])}
    BY <1>8
  <2>2. activeSessions' = activeSessions
    BY <1>0
  <2>3. activeSessions \in Int /\ activeSessions = Cardinality({h \in Grant : Live(grants[h])})
    BY DEF IInv, TypeOK, CountersExact
  <2>4. activeSessions' \in Int /\ activeSessions' <= activeSessions
    BY <2>2, <2>3
  <2> QED
    BY ONLY <2>1, <2>2, <2>3, <2>4
<1>13. GrantsFit
  BY <1>0, <1>4, <1>5, <1>8, <1>10, <1>11, <1>12 DEF GrantsFit, IInv, TypeOK
<1> QED
  BY <1>0, <1>13, UnchangedRoomsFit
-----------------------------------------------------------------------------
(***************************************************************************)
(* The control side.                                                       *)
(***************************************************************************)
LEMMA InitIInv == Init => IInv
<1> SUFFICES ASSUME Init PROVE IInv
  OBVIOUS
<1> USE NoneAssumption, LimitAssumption DEF Init, NoGrant, NoRoom
<1>1. TypeOK
  BY DEF TypeOK, RoomRecord, GrantRecord
<1>2. IndexIntegrity
  BY DEF IndexIntegrity, Live, Candidates
<1>3. GrantHome /\ DeadlineNesting /\ HandshakeCoherence
  BY DEF GrantHome, Armed, Live, DeadlineNesting, Nested, HandshakeCoherence, Coherent
<1>4. CountersExact
  <2>1. /\ {r \in Room : rooms[r].state = "open"} = {}
        /\ {g \in Grant : Live(grants[g])} = {}
        /\ {r \in Room : rooms[r].state # "absent"} = {}
    BY DEF Live
  <2>2. openRooms = 0 /\ activeSessions = 0
    OBVIOUS
  <2>3. Cardinality({}) = 0
    BY FS_EmptySet
  <2>4. 0 <= MaxOpenRooms /\ 0 <= MaxActiveSessions /\ 0 <= MaxRoomRecords
    OBVIOUS
  <2> HIDE DEF Init
  <2> QED
    BY ONLY <2>1, <2>2, <2>3, <2>4 DEF CountersExact
<1> QED
  BY <1>1, <1>2, <1>3, <1>4 DEF IInv

\* Dropping a tombstone that is due.
LEMMA PurgeFits ==
    ASSUME IInv, NEW r \in Room, rooms[r].state = "tombstone",
           rooms' = [rooms EXCEPT ![r] = NoRoom],
           UNCHANGED <<grants, indexes, openRooms, activeSessions>>
    PROVE  GrantsFit /\ RoomsFit
<1>1. GrantsFit
  BY UnchangedGrantsFit
<1>2. /\ rooms \in [Room -> RoomRecord] /\ rooms' \in [Room -> RoomRecord]
      /\ rooms'[r] = NoRoom /\ \A q \in Room \ {r} : rooms'[q] = rooms[q]
  BY DEF IInv, TypeOK, NoRoom, RoomRecord
<1>3. ASSUME NEW g \in Grant, Live(grants'[g])
      PROVE  LET room == rooms'[grants[g].room]
             IN  room.state = "open" /\ g \in room.grants /\ grants[g].deadline <= room.deadline
  <2>1. Live(grants[g])
    BY <1>3
  <2>2. grants[g].room \in Room \ {r}
    BY <2>1 DEF IInv, GrantHome
  <2> QED
    BY <1>2, <2>1, <2>2 DEF IInv, GrantHome, DeadlineNesting
<1>4. {q \in Room : rooms'[q].state = "open"} = {q \in Room : rooms[q].state = "open"}
  BY <1>2 DEF NoRoom
<1>5. \A q \in Room : /\ rooms'[q].grants \subseteq rooms[q].grants
                      /\ rooms'[q].state # "absent" => rooms[q].state # "absent"
  BY <1>2 DEF NoRoom
<1>6. /\ openRooms' \in Int /\ openRooms' <= openRooms
      /\ openRooms' = Cardinality({q \in Room : rooms'[q].state = "open"})
  <2>1. openRooms \in Int /\ openRooms = Cardinality({q \in Room : rooms[q].state = "open"})
    BY DEF IInv, TypeOK, CountersExact
  <2>2. openRooms' = openRooms
    OBVIOUS
  <2>3. openRooms' \in Int /\ openRooms' <= openRooms
    BY <2>1, <2>2
  <2> QED
    BY ONLY <1>4, <2>1, <2>2, <2>3
<1> QED
  BY <1>1, <1>2, <1>3, <1>5, <1>6 DEF RoomsFit

LEMMA CreateRoomFailsIInv ==
    ASSUME IInv, NEW r \in Room, CreateRoomFails(r)
    PROVE  IInv'
<1>1. GrantsFit /\ RoomsFit
  BY PurgeFits DEF CreateRoomFails
<1>2. now' \in Nat /\ loop' \in LoopType
  BY DEF IInv, TypeOK, CreateRoomFails, LoopType
<1> QED
  BY <1>1, <1>2, StepIInv

LEMMA EndRoomIInv ==
    ASSUME IInv, NEW r \in Room, EndRoom(r)
    PROVE  IInv'
<1>1. now' \in Nat /\ loop' \in LoopType
  BY DEF IInv, TypeOK, EndRoom, LoopType
<1>2. CASE Standing(r) /\ TombstoneRoom(r, "revoked")
  BY <1>1, <1>2, TombstoneFits, StepIInv
<1>3. CASE /\ rooms[r].state = "tombstone"
           /\ rooms' = [rooms EXCEPT ![r] = NoRoom]
           /\ UNCHANGED <<grants, indexes, openRooms, activeSessions>>
  BY <1>1, <1>3, PurgeFits, StepIInv
<1> QED
  BY <1>2, <1>3 DEF EndRoom

LEMMA SweptGrantProper ==
    ASSUME IInv, NEW g \in Grant
    PROVE  /\ Proper(grants[g], SweptGrant(g))
           /\ now >= grants[g].deadline => ~Live(SweptGrant(g).grant)
<1> DEFINE w == ExpireRelay(Work(g))
<1>1. Proper(grants[g], w)
  BY GrantInOrder, ExpireRelayProper
<1>2. w.grant.deadline = grants[g].deadline
  BY <1>1 DEF Proper
<1>3. /\ Proper(grants[g], TerminalGrant(w, "expired"))
      /\ ~Live(TerminalGrant(w, "expired").grant)
  BY <1>1, GrantInOrder, TerminalGrantProper
<1>4. SweptGrant(g) = IF Live(w.grant) /\ now >= w.grant.deadline
                      THEN TerminalGrant(w, "expired") ELSE w
  BY DEF SweptGrant
<1> HIDE DEF w
<1> QED
  BY <1>1, <1>2, <1>3, <1>4

LEMMA SweptRoomShape ==
    ASSUME IInv, NEW r \in Room
    PROVE  /\ SweptRoom(r) \in RoomRecord
           /\ SweptRoom(r).grants \subseteq rooms[r].grants
           /\ SweptRoom(r).state # "absent" => rooms[r].state # "absent"
           /\ SweptRoom(r).state = "open" => rooms[r].state = "open"
           /\ rooms[r].state = "open" /\ ~SweepEnds(r) /\ ~GrantsPast(r, 0) => SweptRoom(r) = rooms[r]
<1>1. rooms[r] \in RoomRecord /\ now + TombstoneTTL \in Nat
  BY LimitAssumption DEF IInv, TypeOK
<1>2. CASE rooms[r].state = "tombstone" /\ Vacant(r)
  <2>1. SweptRoom(r) = NoRoom
    BY <1>2 DEF SweptRoom, SweepEnds, Standing
  <2> QED
    BY <1>2, <2>1 DEF NoRoom, RoomRecord
<1>3. CASE SweepEnds(r)
  <2>1. SweptRoom(r) = Tombstoned
    BY <1>3 DEF SweptRoom, SweepEnds, Standing
  <2> QED
    BY <1>1, <1>3, <2>1 DEF Tombstoned, RoomRecord, SweepEnds, Standing
<1>4. CASE Standing(r) /\ ~SweepEnds(r) /\ GrantsPast(r, 0)
  <2>1. SweptRoom(r) = [rooms[r] EXCEPT !.state = "empty"]
    BY <1>4 DEF SweptRoom, Standing
  <2> QED
    BY <1>1, <1>4, <2>1 DEF RoomRecord, Standing
<1>5. CASE /\ ~(rooms[r].state = "tombstone" /\ Vacant(r))
           /\ ~SweepEnds(r)
           /\ ~(Standing(r) /\ ~SweepEnds(r) /\ GrantsPast(r, 0))
  BY <1>1, <1>5 DEF SweptRoom
<1> QED
  BY <1>2, <1>3, <1>4, <1>5

LEMMA ExpireIInv ==
    ASSUME IInv, Expire
    PROVE  IInv'
<1> DEFINE S == UNION {rooms[r].grants : r \in {q \in Room : Standing(q)}}
           work == [g \in S |-> IF SweepEnds(grants[g].room)
                                THEN TerminalGrant(SweptGrant(g), "expired") ELSE SweptGrant(g)]
<1>1. S \in SUBSET Grant /\ rooms \in [Room -> RoomRecord] /\ openRooms \in Int
  BY DEF IInv, TypeOK, RoomRecord
<1>2. ASSUME NEW g \in S
      PROVE  /\ Proper(grants[g], work[g])
             /\ SweepEnds(grants[g].room) \/ now >= grants[g].deadline => ~Live(work[g].grant)
  <2>1. /\ Proper(grants[g], SweptGrant(g))
        /\ now >= grants[g].deadline => ~Live(SweptGrant(g).grant)
    BY <1>1, SweptGrantProper
  <2>2. /\ Proper(grants[g], TerminalGrant(SweptGrant(g), "expired"))
        /\ ~Live(TerminalGrant(SweptGrant(g), "expired").grant)
    BY <1>1, <2>1, GrantInOrder, TerminalGrantProper
  <2>3. work[g] = IF SweepEnds(grants[g].room)
                  THEN TerminalGrant(SweptGrant(g), "expired") ELSE SweptGrant(g)
    OBVIOUS
  <2> HIDE DEF work
  <2> QED
    BY <2>1, <2>2, <2>3
<1>3. Settle(work) /\ DOMAIN work = S
  BY DEF Expire
<1> HIDE DEF work
<1>4. /\ GrantsFit
      /\ \A g \in Grant : grants'[g] = IF g \in S THEN work[g].grant ELSE grants[g]
  BY <1>1, <1>2, <1>3, SettleFits
<1>5. /\ rooms' \in [Room -> RoomRecord]
      /\ \A r \in Room : rooms'[r] = SweptRoom(r)
  BY SweptRoomShape DEF Expire
<1>6. ASSUME NEW g \in Grant, Live(grants'[g])
      PROVE  LET room == rooms'[grants[g].room]
             IN  room.state = "open" /\ g \in room.grants /\ grants[g].deadline <= room.deadline
  <2> DEFINE r == grants[g].room
  <2>1. /\ Live(grants[g]) /\ r \in Room /\ rooms[r].state = "open" /\ g \in rooms[r].grants
        /\ grants[g].deadline <= rooms[r].deadline
    BY <1>4, <1>6 DEF GrantsFit, IInv, GrantHome, DeadlineNesting
  <2>2. g \in S
    BY <2>1 DEF Standing
  <2>3. ~SweepEnds(r) /\ ~(now >= grants[g].deadline)
    BY <1>2, <1>4, <1>6, <2>2
  <2>4. grants[g].deadline \in Nat /\ now \in Nat
    BY DEF IInv, TypeOK, GrantRecord
  <2>5. ~GrantsPast(r, 0)
    BY <2>1, <2>3, <2>4 DEF GrantsPast
  <2>6. rooms'[r] = rooms[r]
    BY <1>5, <2>1, <2>3, <2>5, SweptRoomShape
  <2> QED
    BY <2>1, <2>6
<1>7. /\ openRooms' \in Int
      /\ openRooms' = Cardinality({r \in Room : rooms'[r].state = "open"})
      /\ openRooms' <= openRooms
  <2> DEFINE open == {r \in Room : rooms[r].state = "open"}
             shut == {r \in Room : rooms[r].state = "open" /\ SweptRoom(r).state # "open"}
  <2>1. {r \in Room : rooms'[r].state = "open"} = open \ shut
    BY <1>5, SweptRoomShape
  <2>2. IsFiniteSet(open) /\ IsFiniteSet(shut) /\ open \cap shut = shut
    BY SetAssumption, FS_Subset
  <2>3. openRooms = Cardinality(open)
    BY DEF IInv, CountersExact
  <2>4. openRooms' = openRooms - Cardinality(shut)
    BY DEF Expire
  <2> HIDE DEF open, shut
  <2>5. /\ Cardinality(open \ shut) = Cardinality(open) - Cardinality(shut)
        /\ Cardinality(shut) \in Nat
    BY <2>2, FS_Difference, FS_CardinalityType
  <2>6. /\ openRooms' = Cardinality(open \ shut)
        /\ openRooms' \in Int /\ openRooms' <= openRooms
    BY <1>1, <2>3, <2>4, <2>5
  <2> QED
    BY <2>1, <2>6
<1>8. RoomsFit
  BY <1>5, <1>6, <1>7, SweptRoomShape DEF RoomsFit
<1>9. now' \in Nat /\ loop' \in LoopType
  BY DEF IInv, TypeOK, Expire, LoopType
<1> QED
  BY <1>4, <1>8, <1>9, StepIInv

\* The record of a grant just issued.
Issued(r, p, d) == [NoGrant EXCEPT !.state = "issued", !.room = r, !.participant = p,
                                   !.deadline = d, !.secret = TRUE]

LEMMA IssuedShape ==
    ASSUME NEW r \in Room, NEW p \in Participant, NEW d \in Nat
    PROVE  LET x == Issued(r, p, d) IN
           /\ x \in GrantRecord
           /\ InOrder(x) /\ Live(x) /\ x.room = r /\ x.deadline = d
           /\ Candidates(x) = {} /\ BindingIDs(x) = {}
<1> DEFINE x == Issued(r, p, d)
<1>1. NoGrant \in GrantRecord
  BY DEF NoGrant, GrantRecord
<1>2. /\ NoGrant.pending = None /\ NoGrant.recent = None /\ NoGrant.binding = None
      /\ NoGrant.bindingState = "unbound"
  BY DEF NoGrant
<1>3. /\ x \in GrantRecord
      /\ x.state = "issued" /\ x.room = r /\ x.deadline = d /\ x.secret = TRUE
      /\ x.pending = NoGrant.pending /\ x.recent = NoGrant.recent
      /\ x.binding = NoGrant.binding /\ x.bindingState = NoGrant.bindingState
  BY <1>1 DEF Issued, GrantRecord
<1> HIDE DEF x
<1>4. InOrder(x) /\ Live(x)
  BY <1>2, <1>3 DEF InOrder, Armed, Coherent, Nested, Live
<1> QED
  BY <1>2, <1>3, <1>4 DEF Candidates, BindingIDs, x

LEMMA CreateRoomIInv ==
    ASSUME IInv, NEW r \in Room, NEW players \in Definition, NEW roomTTL \in RoomTTL,
           NEW grantTTL \in [players -> GrantTTL],
           CreateRoom(r, players, roomTTL, grantTTL)
    PROVE  IInv'
<1> USE SetAssumption, LimitAssumption, NoneAssumption
<1> DEFINE fresh(p) == [NoGrant EXCEPT !.state = "issued", !.room = r, !.participant = p,
                                       !.deadline = now + grantTTL[p], !.secret = TRUE]
           room == [NoRoom EXCEPT !.state = "open", !.deadline = now + roomTTL]
<1>1. PICK id \in [players -> Drawable] :
        /\ \A p, q \in players : p # q => id[p] # id[q]
        /\ LET issued == {id[p] : p \in players}
               owner(g) == CHOOSE p \in players : id[p] = g
           IN  /\ grants' = [g \in Grant |->
                      IF g \in issued
                      THEN [NoGrant EXCEPT !.state = "issued", !.room = r, !.participant = owner(g),
                                           !.deadline = now + grantTTL[owner(g)], !.secret = TRUE]
                      ELSE grants[g]]
               /\ grantsByID' = grantsByID \cup issued
               /\ rooms' = [rooms EXCEPT ![r] = [NoRoom EXCEPT !.state = "open",
                                                               !.deadline = now + roomTTL,
                                                               !.grants = issued]]
  BY DEF CreateRoom
<1> DEFINE issued == {id[p] : p \in players}
           owner(g) == CHOOSE p \in players : id[p] = g
<1>2. /\ rooms \in [Room -> RoomRecord] /\ grants \in [Grant -> GrantRecord]
      /\ now \in Nat /\ openRooms \in Int /\ activeSessions \in Int
      /\ \A p \in players : grantTTL[p] \in Nat /\ grantTTL[p] <= roomTTL
      /\ roomTTL \in Nat /\ players \subseteq Participant
  BY DEF IInv, TypeOK, CreateRoom
<1>3. ASSUME NEW g \in issued
      PROVE  /\ g \in Grant /\ ~Live(grants[g])
             /\ \A q \in Room : g \notin rooms[q].grants
             /\ owner(g) \in players
             /\ grants'[g] = fresh(owner(g))
  <2>1. g \in Drawable /\ g \in Grant
    BY DEF Drawable
  <2>2. \A q \in Room : g \notin rooms[q].grants
    BY <2>1 DEF Drawable
  <2>3. ~Live(grants[g])
    BY <2>1, <2>2 DEF IInv, GrantHome
  <2>4. \E p \in players : id[p] = g
    OBVIOUS
  <2>5. owner(g) \in players
    BY <2>4
  <2> QED
    BY <1>1, <2>1, <2>2, <2>3, <2>5
<1>4. \A g \in Grant \ issued : grants'[g] = grants[g]
  BY <1>1
<1>5. /\ rooms' = [rooms EXCEPT ![r] = [room EXCEPT !.grants = issued]]
      /\ grantsByID' = grantsByID \cup issued
  BY <1>1 DEF NoRoom
<1>6. /\ rooms' \in [Room -> RoomRecord]
      /\ rooms'[r].state = "open" /\ rooms'[r].deadline = now + roomTTL /\ rooms'[r].grants = issued
      /\ \A q \in Room \ {r} : rooms'[q] = rooms[q]
  <2>0. issued \subseteq Grant
    BY <1>3
  <2>1. issued \subseteq Grant /\ now + roomTTL \in Nat
    BY ONLY <1>2, <2>0
  <2>2. NoRoom \in RoomRecord
    BY DEF NoRoom, RoomRecord
  <2> HIDE DEF issued
  <2>3. [room EXCEPT !.grants = issued] \in RoomRecord
    BY <2>1, <2>2 DEF RoomRecord
  <2> QED
    BY <1>2, <1>5, <2>2, <2>3 DEF RoomRecord
<1>7. ASSUME NEW g \in issued
      PROVE  LET x == grants'[g]
             IN  /\ x \in GrantRecord
                 /\ InOrder(x) /\ Live(x) /\ x.room = r /\ x.deadline <= now + roomTTL
                 /\ Candidates(x) = {} /\ Candidates(grants[g]) = {}
                 /\ BindingIDs(x) = {} /\ BindingIDs(grants[g]) = {}
  <2>0. owner(g) \in players
    BY <1>3
  <2>1. owner(g) \in Participant /\ now + grantTTL[owner(g)] \in Nat
        /\ now + grantTTL[owner(g)] <= now + roomTTL
    BY ONLY <1>2, <2>0
  <2>2. grants'[g] = fresh(owner(g))
    BY <1>3
  <2> HIDE DEF owner
  <2>3. /\ grants'[g] \in GrantRecord
        /\ InOrder(grants'[g]) /\ Live(grants'[g]) /\ grants'[g].room = r
        /\ grants'[g].deadline = now + grantTTL[owner(g)]
        /\ Candidates(grants'[g]) = {} /\ BindingIDs(grants'[g]) = {}
    <3> DEFINE d == now + grantTTL[owner(g)]
    <3>1. grants'[g] = Issued(r, owner(g), d)
      BY <2>2 DEF Issued
    <3>2. d \in Nat /\ owner(g) \in Participant
      BY <2>1
    <3> HIDE DEF d
    <3>3. /\ grants'[g] \in GrantRecord
          /\ InOrder(grants'[g]) /\ Live(grants'[g]) /\ grants'[g].room = r
          /\ grants'[g].deadline = d
          /\ Candidates(grants'[g]) = {} /\ BindingIDs(grants'[g]) = {}
      BY <3>1, <3>2, IssuedShape
    <3> QED
      BY <3>3 DEF d
  <2>4. grants[g].pending = None /\ grants[g].recent = None /\ grants[g].binding = None
    BY <1>3, GrantInOrder DEF InOrder, Armed
  <2>5. Candidates(grants[g]) = {} /\ BindingIDs(grants[g]) = {}
    BY <2>4 DEF Candidates, BindingIDs
  <2> QED
    BY <2>1, <2>3, <2>5
<1>8. issued \subseteq Grant /\ IsFiniteSet(issued) /\ Cardinality(issued) = Cardinality(players)
  <2>1. issued \subseteq Grant
    BY <1>3
  <2>2. [p \in players |-> id[p]] \in Bijection(players, issued)
    BY <1>1, ZenonT(60) DEF Bijection, Injection, Surjection, IsInjective
  <2>3. IsFiniteSet(players) /\ ExistsBijection(players, issued)
    BY <2>2 DEF ExistsBijection
  <2> QED
    BY <2>1, <2>3, FS_Bijection, FS_Subset
<1>9. /\ UNCHANGED <<now, candidatesByID, bindingsByID, loop>>
      /\ openRooms' = openRooms + 1
      /\ activeSessions' = activeSessions + Cardinality(players)
      /\ Vacant(r) /\ openRooms < MaxOpenRooms /\ Cardinality(Records(r)) < MaxRoomRecords
      /\ activeSessions <= MaxActiveSessions - Cardinality(players)
  BY DEF CreateRoom
<1> HIDE DEF issued, owner, fresh, room
<1>10. TypeOK'
  <2>1. grants' \in [Grant -> GrantRecord]
    BY <1>1, <1>2, <1>4, <1>7 DEF issued
  <2>2. Cardinality(players) \in Nat
    BY FS_CardinalityType
  <2> QED
    BY <1>2, <1>5, <1>6, <1>8, <1>9, <2>1, <2>2 DEF IInv, TypeOK
<1>11. IndexIntegrity'
  <2>1. \A g \in Grant : g \in grantsByID' <=> Live(grants'[g])
    BY <1>4, <1>5, <1>7 DEF IInv, IndexIntegrity
  <2>2. \A c \in Candidate, g \in Grant : candidatesByID'[c] = g <=> c \in Candidates(grants'[g])
    BY <1>4, <1>7, <1>9 DEF IInv, IndexIntegrity
  <2>3. \A b \in Binding, g \in Grant : bindingsByID'[b] = g <=> b \in BindingIDs(grants'[g])
    BY <1>4, <1>7, <1>9, ListedIsIntegrity DEF IInv, Listed
  <2> QED
    BY <2>1, <2>2, <2>3 DEF IndexIntegrity, BindingIDs
<1>12. ASSUME NEW g \in Grant
       PROVE  /\ InOrder(grants'[g])
              /\ Live(grants'[g]) =>
                    /\ grants'[g].room \in Room /\ rooms'[grants'[g].room].state = "open"
                    /\ g \in rooms'[grants'[g].room].grants
                    /\ grants'[g].deadline <= rooms'[grants'[g].room].deadline
  <2>1. CASE g \in issued
    BY <1>6, <1>7, <2>1
  <2>2. CASE g \notin issued
    <3>1. InOrder(grants[g]) /\ grants'[g] = grants[g]
      BY <1>4, <2>2, GrantInOrder
    <3>2. ASSUME Live(grants[g])
          PROVE  /\ grants[g].room \in Room \ {r} /\ rooms[grants[g].room].state = "open"
                 /\ g \in rooms[grants[g].room].grants
                 /\ grants[g].deadline <= rooms[grants[g].room].deadline
      BY <1>9, <3>2 DEF IInv, GrantHome, DeadlineNesting, Vacant
    <3> QED
      BY <1>6, <3>1, <3>2
  <2> QED
    BY <2>1, <2>2
<1>13. ASSUME NEW q \in Room, NEW g \in rooms'[q].grants
       PROVE  grants'[g].room = q
  <2>1. CASE q = r
    BY <1>6, <1>7, <2>1
  <2>2. CASE q # r
    <3>1. g \in rooms[q].grants /\ g \in Grant /\ g \notin issued
      BY <1>2, <1>3, <1>6, <2>2 DEF RoomRecord
    <3> QED
      BY <1>4, <3>1 DEF IInv, GrantHome
  <2> QED
    BY <2>1, <2>2
<1>14. GrantHome' /\ DeadlineNesting' /\ HandshakeCoherence'
  BY <1>12, <1>13 DEF GrantHome, DeadlineNesting, HandshakeCoherence, InOrder
<1>15. CountersExact'
  <2>1. /\ openRooms' = Cardinality({q \in Room : rooms'[q].state = "open"})
        /\ openRooms' <= MaxOpenRooms
    <3> DEFINE open == {q \in Room : rooms[q].state = "open"}
    <3>1. {q \in Room : rooms'[q].state = "open"} = open \cup {r} /\ r \notin open
      BY <1>6, <1>9 DEF Vacant
    <3>2. IsFiniteSet(open) /\ openRooms = Cardinality(open)
      BY FS_Subset DEF IInv, CountersExact
    <3> HIDE DEF open
    <3>3. Cardinality(open \cup {r}) = Cardinality(open) + 1
      BY <3>1, <3>2, FS_AddElement
    <3>4. openRooms \in Int /\ openRooms' = openRooms + 1 /\ openRooms < MaxOpenRooms
          /\ MaxOpenRooms \in Nat
      BY <1>2, <1>9, LimitAssumption
    <3>5. openRooms' = Cardinality(open \cup {r}) /\ openRooms' <= MaxOpenRooms
      BY ONLY <3>2, <3>3, <3>4
    <3> QED
      BY ONLY <3>1, <3>5
  <2>2. /\ activeSessions' = Cardinality({g \in Grant : Live(grants'[g])})
        /\ activeSessions' <= MaxActiveSessions
    <3> DEFINE live == {g \in Grant : Live(grants[g])}
    <3>1. /\ {g \in Grant : Live(grants'[g])} = live \cup issued
          /\ live \cap issued = {}
      BY <1>3, <1>4, <1>7, <1>8
    <3>2. IsFiniteSet(live) /\ activeSessions = Cardinality(live)
      BY FS_Subset DEF IInv, CountersExact
    <3> HIDE DEF live
    <3>3. /\ Cardinality(live \cup issued) = Cardinality(live) + Cardinality(issued) - Cardinality({})
          /\ Cardinality({}) = 0
          /\ Cardinality(issued) \in Nat
      BY <1>8, <3>1, <3>2, FS_Union, FS_EmptySet, FS_CardinalityType
    <3>4. /\ activeSessions \in Int /\ MaxActiveSessions \in Nat
          /\ activeSessions' = activeSessions + Cardinality(issued)
          /\ activeSessions <= MaxActiveSessions - Cardinality(issued)
      BY <1>2, <1>8, <1>9, LimitAssumption
    <3>5. /\ activeSessions' = Cardinality(live \cup issued)
          /\ activeSessions' <= MaxActiveSessions
      BY ONLY <3>2, <3>3, <3>4
    <3> QED
      BY ONLY <3>1, <3>5
  <2>3. Cardinality({q \in Room : rooms'[q].state # "absent"}) <= MaxRoomRecords
    <3>1. {q \in Room : rooms'[q].state # "absent"} = Records(r) \cup {r} /\ r \notin Records(r)
      BY <1>6 DEF Records
    <3>2. IsFiniteSet(Records(r))
      BY FS_Subset DEF Records
    <3>3. /\ Cardinality(Records(r) \cup {r}) = Cardinality(Records(r)) + 1
          /\ Cardinality(Records(r)) \in Nat
      BY <3>1, <3>2, FS_AddElement, FS_CardinalityType
    <3>4. Cardinality(Records(r)) < MaxRoomRecords /\ MaxRoomRecords \in Nat
      BY <1>9, LimitAssumption
    <3>5. Cardinality(Records(r) \cup {r}) <= MaxRoomRecords
      BY ONLY <3>3, <3>4
    <3> QED
      BY ONLY <3>1, <3>5
  <2> QED
    BY <2>1, <2>2, <2>3 DEF CountersExact
<1> QED
  BY <1>10, <1>11, <1>14, <1>15 DEF IInv
-----------------------------------------------------------------------------
(***************************************************************************)
(* The relay side.                                                         *)
(***************************************************************************)
LEMMA DeadlineWithinBounds ==
    ASSUME IInv, NEW g \in Grant, Authoritative(g), NEW ttl \in Nat
    PROVE  /\ DeadlineWithin(g, ttl) \in Nat
           /\ DeadlineWithin(g, ttl) <= grants[g].deadline
<1>1. now \in Nat /\ grants[g].deadline \in Nat /\ rooms[grants[g].room].deadline \in Nat
  BY DEF IInv, TypeOK, GrantRecord, RoomRecord, GrantHome, Authoritative
<1> QED
  BY <1>1 DEF DeadlineWithin, Earlier

\* The indexes after the work on one grant still list its credentials.
LEMMA SettledOne ==
    ASSUME IInv, NEW g \in Grant, NEW w, Proper(grants[g], w)
    PROVE  /\ SettledCandidates(One(g, w)) \in [Candidate -> Grant \cup {None}]
           /\ SettledBindings(One(g, w)) \in [Binding -> Grant \cup {None}]
           /\ \A c \in Candidate :
                 SettledCandidates(One(g, w))[c] = g <=> c \in Candidates(w.grant)
           /\ \A b \in Binding :
                 SettledBindings(One(g, w))[b] = g <=> b \in BindingIDs(w.grant)
<1>1. DOMAIN One(g, w) = {g} /\ One(g, w)[g] = w
  BY DEF One
<1>2. SettledGrants(One(g, w))[g] = w.grant
  BY <1>1 DEF SettledGrants
<1> QED
  BY <1>1, <1>2, SettledListed DEF Listed

LEMMA NewWindowType == NewWindow \in Window
  BY DEF NewWindow, Window

LEMMA BeginChallengeFits ==
    ASSUME IInv, NEW g \in Grant, NEW named \in BOOLEAN, NEW e \in Endpoint, NEW n \in Nonce,
           NEW drawn \in Candidate \cup {None}, BeginChallenge(g, named, e, n, drawn)
    PROVE  GrantsFit /\ RoomsFit
<1> DEFINE w == ExpireRelay(Work(g))
           answered == \/ w.grant.pending # None
                       \/ w.grant.recent # None /\ w.grant.recent.nonce = n
           challenge == [candidate |-> drawn, nonce |-> n, endpoint |-> e,
                         deadline |-> DeadlineWithin(g, ChallengeTTL)]
           y == [w.grant EXCEPT !.pending = challenge,
                                !.bindingState = IF w.grant.binding # None THEN "rebind_pending"
                                                 ELSE w.grant.bindingState]
           cs == SettledCandidates(One(g, w))
           bs == SettledBindings(One(g, w))
<1>1. Authoritative(g) /\ Live(grants[g])
  BY DEF BeginChallenge, Authoritative
<1>2. /\ Proper(grants[g], w)
      /\ Live(w.grant)
  BY <1>1, GrantInOrder, ExpireRelayProper DEF Work
<1>3. CASE Lapsed(g) /\ LapseAuthority(g)
  BY <1>1, <1>3, LapseFits
<1>4. CASE Settle(One(g, w)) /\ UNCHANGED <<rooms, openRooms>>
  <2> HIDE DEF w
  <2> QED
    BY <1>2, <1>4, OneFits
<1>5. CASE /\ ~answered /\ drawn # None
           /\ cs[drawn] = None
           /\ grants' = [grants EXCEPT ![g] = y]
           /\ candidatesByID' = [cs EXCEPT ![drawn] = g]
           /\ bindingsByID' = bs
           /\ UNCHANGED <<grantsByID, activeSessions, rooms, openRooms>>
  <2> HIDE DEF w
  <2>1. /\ w.grant \in GrantRecord /\ InOrder(w.grant)
        /\ w.grant.room = grants[g].room /\ w.grant.deadline = grants[g].deadline
        /\ w.grant.pending = None /\ drawn \in Candidate
    BY <1>2, <1>5 DEF Proper, WorkRecord
  <2>2. /\ challenge \in Challenge /\ challenge.candidate = drawn
        /\ challenge.deadline <= grants[g].deadline
    BY <1>1, <2>1, DeadlineWithinBounds, LimitAssumption DEF Challenge
  <2>3. /\ cs \in [Candidate -> Grant \cup {None}] /\ bs \in [Binding -> Grant \cup {None}]
        /\ \A c \in Candidate : cs[c] = g <=> c \in Candidates(w.grant)
    BY <1>2, SettledOne
  <2>4. drawn \notin Candidates(w.grant)
    BY <1>5, <2>1, <2>3, NoneAssumption
  <2> HIDE DEF challenge
  <2>5. /\ y \in GrantRecord
        /\ y.pending = challenge /\ y.recent = w.grant.recent /\ y.binding = w.grant.binding
        /\ y.bindingState = IF w.grant.binding # None THEN "rebind_pending"
                            ELSE w.grant.bindingState
        /\ y.state = w.grant.state /\ y.secret = w.grant.secret /\ y.generation = w.grant.generation
        /\ y.room = w.grant.room /\ y.deadline = w.grant.deadline
    BY <2>1, <2>2, ZenonT(60) DEF GrantRecord
  <2> HIDE DEF y
  <2>6. challenge # None
    BY <2>2, NoneAssumption
  <2>7. w.grant.recent # None => w.grant.recent.candidate # drawn
    BY <2>1, <2>4 DEF Candidates
  <2>8. Live(y) /\ InOrder(y)
    BY <1>2, <2>1, <2>2, <2>5, <2>6, <2>7 DEF InOrder, Armed, Coherent, Nested, Live
  <2>9. Candidates(y) = Candidates(w.grant) \cup {drawn}
    BY <2>1, <2>2, <2>5, <2>6 DEF Candidates
  <2>10. BindingIDs(y) = BindingIDs(w.grant) \cup {}
    BY <2>5 DEF BindingIDs
  <2>11. /\ candidatesByID' = [c \in Candidate |-> IF c \in {drawn} THEN g ELSE cs[c]]
         /\ bindingsByID' = [b \in Binding |-> IF b \in {} THEN g ELSE bs[b]]
    BY <1>5, <2>3
  <2>12. Adopts(g, w, y, {drawn}, {})
    BY <1>1, <1>2, <1>5, <2>1, <2>5, <2>8, <2>9, <2>10, <2>11 DEF Adopts
  <2> QED
    BY <2>12, AdoptFits
<1> QED
  BY <1>3, <1>4, <1>5 DEF BeginChallenge

LEMMA StaleRetryFits ==
    ASSUME IInv, NEW g \in Grant, NEW e \in Endpoint, StaleRetry(g, e)
    PROVE  GrantsFit /\ RoomsFit
<1>1. PICK w \in {ClearBinding(Work(g)), ClearRecent(Work(g))} : Settle(One(g, w))
  BY DEF StaleRetry
<1>2. Proper(grants[g], w)
  BY GrantInOrder, ClearBindingProper, ClearRecentProper
<1>3. UNCHANGED <<rooms, openRooms>>
  BY DEF StaleRetry
<1> QED
  BY <1>1, <1>2, <1>3, OneFits

LEMMA BindFits ==
    ASSUME IInv, NEW g \in Grant, Authoritative(g), NEW e \in Endpoint, NEW b \in Binding,
           grants[g].pending # None, Bind(g, grants[g].pending.candidate, e, b)
    PROVE  GrantsFit /\ RoomsFit
<1> DEFINE c == grants[g].pending.candidate
           pending == grants[g].pending
           deadline == DeadlineWithin(g, BindingTTL)
           next == grants[g].generation + 1
           w == ClearBinding(ClearRecent(ClearPending(Work(g))))
           binding == [id |-> b, endpoint |-> e, deadline |-> deadline,
                       generation |-> next, replay |-> NewWindow]
           recent == [candidate |-> c, nonce |-> pending.nonce, endpoint |-> pending.endpoint,
                      deadline |-> Earlier(now + ChallengeTTL, deadline),
                      generation |-> next, binding |-> b]
           y == [w.grant EXCEPT !.state = "bound", !.bindingState = "bound", !.generation = next,
                                !.binding = binding, !.recent = recent]
           cs == SettledCandidates(One(g, w))
           bs == SettledBindings(One(g, w))
<1>1. /\ pending \in Challenge /\ c \in Candidate /\ next \in Nat /\ now \in Nat
      /\ grants[g] \in GrantRecord /\ Live(grants[g])
  BY GrantInOrder DEF IInv, TypeOK, GrantRecord, Challenge, Authoritative
<1>2. /\ Proper(grants[g], w)
      /\ w.grant.pending = None /\ w.grant.recent = None /\ w.grant.binding = None
      /\ Live(w.grant)
  <2> DEFINE u == ClearPending(Work(g))
             v == ClearRecent(u)
  <2>1. Proper(grants[g], u) /\ u.grant.pending = None /\ u.grant.state = grants[g].state
    BY GrantInOrder, ClearPendingProper DEF Work
  <2> HIDE DEF u
  <2>2. Proper(grants[g], v) /\ v.grant.pending = None /\ v.grant.state = grants[g].state
    BY <1>1, <2>1, ClearRecentProper
  <2> HIDE DEF v
  <2>3. /\ Proper(grants[g], ClearBinding(v))
        /\ ClearBinding(v).grant.pending = None
        /\ ClearBinding(v).grant.recent = None /\ ClearBinding(v).grant.binding = None
        /\ Live(ClearBinding(v).grant)
    BY <1>1, <2>2, ClearBindingProper DEF Live
  <2> QED
    BY <2>3 DEF u, v
<1>3. /\ bindingsByID[b] = None
      /\ One(g, w)[g] = w
      /\ grants' = [grants EXCEPT ![g] = y]
      /\ candidatesByID' = [cs EXCEPT ![c] = g]
      /\ bindingsByID' = [bs EXCEPT ![b] = g]
      /\ UNCHANGED <<rooms, openRooms, grantsByID, activeSessions>>
  BY DEF Bind, One
<1> HIDE DEF w
<1>4. /\ w.grant \in GrantRecord
      /\ w.grant.room = grants[g].room /\ w.grant.deadline = grants[g].deadline
      /\ w.grant.secret
      /\ w.candidates = Candidates(grants[g]) \ Candidates(w.grant)
  BY <1>2 DEF Proper, WorkRecord, InOrder, Armed
<1>5. /\ deadline \in Nat /\ deadline <= grants[g].deadline
      /\ recent.deadline \in Nat /\ recent.deadline <= deadline
  <2>1. deadline \in Nat /\ deadline <= grants[g].deadline
    BY DeadlineWithinBounds, LimitAssumption
  <2> HIDE DEF deadline
  <2>2. now + ChallengeTTL \in Nat
    BY <1>1, LimitAssumption
  <2> QED
    BY <2>1, <2>2 DEF Earlier
<1> HIDE DEF deadline
<1>6. /\ binding \in Bound /\ binding.id = b /\ binding.generation = next
      /\ binding.deadline = deadline
  BY <1>1, <1>5, NewWindowType DEF Bound
<1>7. /\ recent \in Completed /\ recent.candidate = c /\ recent.generation = next
      /\ recent.binding = b
  BY <1>1, <1>5 DEF Completed, Challenge
<1> HIDE DEF binding, recent
<1>8. binding # None /\ recent # None
  BY <1>6, <1>7, NoneAssumption
<1>9. /\ y \in GrantRecord
      /\ y.pending = None /\ y.recent = recent /\ y.binding = binding
      /\ y.bindingState = "bound" /\ y.state = "bound"
      /\ y.secret = w.grant.secret /\ y.generation = next
      /\ y.room = w.grant.room /\ y.deadline = w.grant.deadline
  BY <1>1, <1>2, <1>4, <1>6, <1>7 DEF GrantRecord
<1> HIDE DEF y
<1>10. Live(y) /\ InOrder(y)
  BY <1>4, <1>5, <1>6, <1>7, <1>8, <1>9 DEF InOrder, Armed, Coherent, Nested, Live
<1>11. Candidates(y) = Candidates(w.grant) \cup {c}
  BY <1>1, <1>2, <1>7, <1>8, <1>9 DEF Candidates
<1>12. BindingIDs(y) = BindingIDs(w.grant) \cup {b}
  BY <1>2, <1>6, <1>8, <1>9 DEF BindingIDs
<1>13. /\ cs \in [Candidate -> Grant \cup {None}] /\ bs \in [Binding -> Grant \cup {None}]
  BY <1>2, SettledOne
<1>14. cs[c] \in {None, g} /\ bs[b] = None
  <2>1. candidatesByID[c] = g
    BY <1>1 DEF IInv, IndexIntegrity, Candidates
  <2> QED
    BY <1>1, <1>3, <2>1
       DEF SettledCandidates, SettledBindings, Unlisted, IInv, TypeOK
<1>15. /\ candidatesByID' = [d \in Candidate |-> IF d \in {c} THEN g ELSE cs[d]]
       /\ bindingsByID' = [d \in Binding |-> IF d \in {b} THEN g ELSE bs[d]]
  BY <1>3, <1>13
<1>16. Adopts(g, w, y, {c}, {b})
  BY <1>1, <1>2, <1>3, <1>4, <1>9, <1>10, <1>11, <1>12, <1>14, <1>15 DEF Adopts
<1> QED
  BY <1>16, AdoptFits

LEMMA AuthenticateFits ==
    ASSUME IInv, NEW c \in Candidate, NEW named \in BOOLEAN, NEW e \in Endpoint,
           NEW genuine \in BOOLEAN, NEW b \in Binding, Authenticate(c, named, e, genuine, b)
    PROVE  GrantsFit /\ RoomsFit
<1> DEFINE g == candidatesByID[c]
<1>1. g \in Grant /\ Authoritative(g)
  BY DEF IInv, TypeOK, Authenticate
<1> HIDE DEF g
<1>2. CASE Lapsed(g) /\ LapseAuthority(g)
  BY <1>1, <1>2, LapseFits
<1>3. CASE StaleRetry(g, e)
  BY <1>1, <1>3, StaleRetryFits
<1>4. CASE Settle(One(g, ClearPending(Work(g)))) /\ UNCHANGED <<rooms, openRooms>>
  BY <1>1, <1>4, GrantInOrder, ClearPendingProper, OneFits
<1>5. CASE grants[g].pending # None /\ grants[g].pending.candidate = c /\ Bind(g, c, e, b)
  BY <1>1, <1>5, BindFits
<1> QED
  BY <1>2, <1>3, <1>4, <1>5 DEF Authenticate, g

LEMMA AcceptType ==
    ASSUME NEW w \in Window, NEW s \in Nat
    PROVE  Accept(w, s) \in Window
<1> USE WidthAssumption
<1>1. CASE ~Fresh(w, s)
  BY <1>1 DEF Accept
<1>2. CASE Fresh(w, s) /\ (~w.initialized \/ s > w.highest)
  <2>1. {0} \cup (IF w.initialized THEN ShiftLeft(w.bitmap, s - w.highest) ELSE {})
          \in SUBSET (0 .. Width - 1)
    BY DEF ShiftLeft
  <2> QED
    BY <1>2, <2>1 DEF Accept, Window
<1>3. CASE Fresh(w, s) /\ ~(~w.initialized \/ s > w.highest)
  <2>1. w.highest - s \in 0 .. Width - 1
    BY <1>3 DEF Fresh, Window
  <2> QED
    BY <1>3, <2>1 DEF Accept, Window
<1> QED
  BY <1>1, <1>2, <1>3

\* A binding ID that resolves leads to a grant with a live binding.
LEMMA ResolvedGrant ==
    ASSUME IInv, NEW b \in Binding, Resolves(b)
    PROVE  /\ bindingsByID[b] \in Grant
           /\ grants[bindingsByID[b]].binding \in Bound
           /\ Live(grants[bindingsByID[b]])
<1> DEFINE g == bindingsByID[b]
<1>1. g \in Grant /\ grants[g].binding # None
  BY DEF IInv, TypeOK, Resolves
<1> HIDE DEF g
<1>2. grants[g].binding \in Bound
  BY <1>1, GrantInOrder DEF GrantRecord
<1>3. Live(grants[g])
  BY <1>1, GrantInOrder DEF InOrder, Coherent, Live
<1> QED
  BY <1>1, <1>2, <1>3 DEF g

LEMMA IngressExpiresFits ==
    ASSUME IInv, NEW g \in Grant, Authoritative(g), NEW named \in BOOLEAN,
           IngressExpires(g, named)
    PROVE  GrantsFit /\ RoomsFit
<1>1. CASE Lapsed(g) /\ LapseAuthority(g)
  BY <1>1, LapseFits
<1>2. CASE Settle(One(g, ClearBinding(Work(g)))) /\ UNCHANGED <<rooms, openRooms>>
  BY <1>2, GrantInOrder, ClearBindingProper, OneFits
<1> QED
  BY <1>1, <1>2 DEF IngressExpires

LEMMA IngressSpendsFits ==
    ASSUME IInv, NEW g \in Grant, grants[g].binding \in Bound, Live(grants[g]),
           NEW named \in BOOLEAN, NEW e \in Endpoint,
           NEW s \in Sequence, NEW genuine \in BOOLEAN, IngressSpends(g, named, e, s, genuine)
    PROVE  GrantsFit /\ RoomsFit
<1> DEFINE old == grants[g].binding
           new == [old EXCEPT !.replay = Accept(old.replay, s)]
           y == [grants[g] EXCEPT !.binding = new]
           w == Work(g)
<1>1. grants[g] \in GrantRecord /\ InOrder(grants[g]) /\ Proper(grants[g], w)
  BY GrantInOrder
<1>2. w.grant = grants[g]
  BY DEF Work
<1>3. old.replay \in Window /\ s \in Nat
  BY SetAssumption DEF Bound
<1>4. Accept(old.replay, s) \in Window
  BY <1>3, AcceptType
<1>5. /\ new \in Bound /\ new.id = old.id /\ new.deadline = old.deadline
      /\ new.generation = old.generation
  BY <1>4 DEF Bound
<1>6. old # None /\ new # None
  BY <1>5, NoneAssumption
<1>7. grants' = [grants EXCEPT ![g] = y]
  BY DEF IngressSpends
<1>8. UNCHANGED <<rooms, indexes, openRooms, activeSessions>>
  BY DEF IngressSpends
<1> HIDE DEF new
<1>9. /\ y \in GrantRecord
      /\ y.binding = new /\ y.pending = grants[g].pending /\ y.recent = grants[g].recent
      /\ y.state = grants[g].state /\ y.bindingState = grants[g].bindingState
      /\ y.secret = grants[g].secret /\ y.generation = grants[g].generation
      /\ y.room = grants[g].room /\ y.deadline = grants[g].deadline
  BY <1>1, <1>5 DEF GrantRecord
<1> HIDE DEF y, w
<1>10. Live(y) /\ InOrder(y)
  BY <1>1, <1>5, <1>6, <1>9 DEF InOrder, Armed, Coherent, Nested, Live
<1>11. Candidates(y) = Candidates(w.grant) \cup {} /\ BindingIDs(y) = BindingIDs(w.grant) \cup {}
  BY <1>2, <1>5, <1>6, <1>9 DEF Candidates, BindingIDs
<1>12. /\ SettledCandidates(One(g, w)) = candidatesByID
       /\ SettledBindings(One(g, w)) = bindingsByID
       /\ candidatesByID \in [Candidate -> Grant \cup {None}]
       /\ bindingsByID \in [Binding -> Grant \cup {None}]
  BY DEF SettledCandidates, SettledBindings, Unlisted, One, Work, w, IInv, TypeOK
<1>13. /\ candidatesByID' = [c \in Candidate |-> IF c \in {} THEN g
                                               ELSE SettledCandidates(One(g, w))[c]]
       /\ bindingsByID' = [b \in Binding |-> IF b \in {} THEN g
                                           ELSE SettledBindings(One(g, w))[b]]
  BY <1>8, <1>12 DEF indexes
<1>14. Adopts(g, w, y, {}, {})
  BY <1>1, <1>7, <1>8, <1>9, <1>10, <1>11, <1>13 DEF Adopts, indexes
<1> QED
  BY <1>14, AdoptFits

LEMMA AdmitPingFits ==
    ASSUME IInv, NEW b \in Binding, NEW named \in BOOLEAN, NEW e \in Endpoint,
           NEW s \in Sequence, NEW genuine \in BOOLEAN, AdmitPing(b, named, e, s, genuine)
    PROVE  GrantsFit /\ RoomsFit
  BY ResolvedGrant, IngressExpiresFits, IngressSpendsFits DEF AdmitPing

LEMMA AdmitClientIngressFits ==
    ASSUME IInv, NEW b \in Binding, NEW named \in BOOLEAN, NEW e \in Endpoint,
           NEW s \in Sequence, NEW genuine \in BOOLEAN, NEW allowed \in BOOLEAN,
           AdmitClientIngress(b, named, e, s, genuine, allowed)
    PROVE  GrantsFit /\ RoomsFit /\ loop' \in LoopType
<1> DEFINE g == bindingsByID[b]
<1>1. g \in Grant /\ grants[g].binding \in Bound /\ Live(grants[g]) /\ Authoritative(g)
  BY ResolvedGrant DEF AdmitClientIngress
<1> HIDE DEF g
<1>2. CASE IngressExpires(g, named) /\ UNCHANGED loop
  BY <1>1, <1>2, IngressExpiresFits DEF IInv, TypeOK, LoopType
<1>3. CASE /\ IngressSpends(g, named, e, s, genuine)
           /\ loop' = IF allowed /\ Fresh(grants[g].binding.replay, s)
                      THEN [phase |-> "admitted", room |-> grants[g].room,
                            participant |-> grants[g].participant, binding |-> b,
                            generation |-> grants[g].binding.generation, sequence |-> s]
                      ELSE None
  <2>1. GrantsFit /\ RoomsFit
    BY <1>1, <1>3, IngressSpendsFits
  <2>2. grants[g].room \in Room /\ grants[g].participant \in Participant \cup {None}
    BY <1>1 DEF IInv, TypeOK, GrantHome, GrantRecord
  <2>3. grants[g].binding.generation \in Nat
    BY <1>1 DEF Bound
  <2>4. loop' \in Admitted \cup {None}
    BY <1>3, <2>2, <2>3 DEF Admitted
  <2> QED
    BY <2>1, <2>4 DEF LoopType
<1> QED
  BY <1>2, <1>3 DEF AdmitClientIngress, g

LEMMA FanoutWorkProper ==
    ASSUME IInv, NEW g \in Grant, NEW h \in Audience(g), Authoritative(g)
    PROVE  /\ h \in Grant
           /\ Proper(grants[h], FanoutWork(g)[h])
<1>1. h \in Grant /\ h \in Audience(g)
  BY DEF Audience, Authoritative, IInv, TypeOK, RoomRecord, GrantHome
<1>2. FanoutWork(g)[h] \in {TerminalGrant(Work(h), "expired"), ExpireRelay(Work(h))}
  BY <1>1 DEF FanoutWork
<1> QED
  BY <1>1, <1>2, GrantInOrder, ExpireRelayProper, TerminalGrantProper

LEMMA AdmitFanoutFits ==
    ASSUME IInv, NEW allowed \in BOOLEAN, AdmitFanout(allowed)
    PROVE  GrantsFit /\ RoomsFit /\ loop' \in LoopType
<1> DEFINE g == bindingsByID[loop.binding]
           work == FanoutWork(g)
<1>1. loop \in Admitted \cup Plan /\ loop.phase = "admitted"
  BY DEF IInv, TypeOK, AdmitFanout
<1>2. loop.binding \in Binding
  BY <1>1 DEF Admitted, Plan
<1>3. Current(loop) => g \in Grant /\ grants[g].binding \in Bound /\ Live(grants[g])
  BY <1>2, ResolvedGrant DEF Current
<1>4. None \in LoopType
  BY DEF LoopType
<1> HIDE DEF g
<1>5. CASE loop' = None /\ UNCHANGED <<rooms, grants, indexes, openRooms, activeSessions>>
  <2>1. GrantsFit
    BY <1>5, UnchangedGrantsFit
  <2> QED
    BY <1>4, <1>5, <2>1, UnchangedRoomsFit
<1>6. CASE Current(loop) /\ Authoritative(g) /\ LapseAuthority(g) /\ loop' = None
  BY <1>3, <1>4, <1>6, LapseFits
<1>7. CASE /\ Current(loop) /\ loop' = None
           /\ Settle(One(g, ClearBinding(Work(g)))) /\ UNCHANGED <<rooms, openRooms>>
  BY <1>3, <1>4, <1>7, GrantInOrder, ClearBindingProper, OneFits
<1>8. CASE /\ Current(loop) /\ Authoritative(g)
           /\ Settle(work) /\ UNCHANGED <<rooms, openRooms>>
           /\ loop' = IF allowed \/ Recipients(work) = {}
                      THEN [phase |-> "planned", sender |-> g, binding |-> loop.binding,
                            recipients |-> Recipients(work)]
                      ELSE None
  <2>1. DOMAIN work = Audience(g)
    BY DEF FanoutWork
  <2>2. /\ Audience(g) \in SUBSET Grant
        /\ \A h \in Audience(g) : Proper(grants[h], work[h])
    BY <1>3, <1>8, FanoutWorkProper
  <2> HIDE DEF work
  <2>3. GrantsFit
    BY <1>8, <2>1, <2>2, SettleFits
  <2>4. RoomsFit
    BY <1>8, <2>3, UnchangedRoomsFit
  <2>5. \A h \in Audience(g) : work[h].grant.binding # None => work[h].grant.binding \in Bound
    BY <2>2 DEF Proper, WorkRecord, GrantRecord
  <2>6. Recipients(work) \in SUBSET (Grant \X Endpoint)
    BY <2>1, <2>2, <2>5 DEF Recipients, Bound
  <2>7. loop' \in Plan \cup {None}
    BY <1>2, <1>3, <1>8, <2>6 DEF Plan
  <2> QED
    BY <2>3, <2>4, <2>7 DEF LoopType
<1> QED
  BY <1>5, <1>6, <1>7, <1>8 DEF AdmitFanout, g
-----------------------------------------------------------------------------
\* Every step keeps the invariant.
LEMMA NextIInv ==
    ASSUME IInv, [Next]_vars
    PROVE  IInv'
<1>0. now \in Nat /\ loop \in LoopType
  BY DEF IInv, TypeOK, LoopType
<1>1. CASE UNCHANGED <<rooms, grants, indexes, openRooms, activeSessions>>
           /\ now' \in Nat /\ loop' \in LoopType
  <2>1. GrantsFit
    BY <1>1, UnchangedGrantsFit
  <2>2. RoomsFit
    BY <1>1, <2>1, UnchangedRoomsFit
  <2> QED
    BY <1>1, <2>1, <2>2, StepIInv
<1>2. CASE UNCHANGED vars
  BY <1>0, <1>1, <1>2 DEF vars
<1>3. CASE Control
  BY <1>3, CreateRoomIInv, CreateRoomFailsIInv, EndRoomIInv, ExpireIInv DEF Control
<1>4. CASE Handshake
  <2>1. GrantsFit /\ RoomsFit
    BY <1>4, BeginChallengeFits, AuthenticateFits DEF Handshake
  <2>2. UNCHANGED <<now, loop>>
    <3>1. ASSUME NEW g \in Grant, NEW named \in BOOLEAN, NEW e \in Endpoint, NEW n \in Nonce,
                 NEW drawn \in Candidate \cup {None}, BeginChallenge(g, named, e, n, drawn)
          PROVE  UNCHANGED <<now, loop>>
      BY <3>1 DEF BeginChallenge
    <3>2. ASSUME NEW c \in Candidate, NEW named \in BOOLEAN, NEW e \in Endpoint,
                 NEW genuine \in BOOLEAN, NEW b \in Binding, Authenticate(c, named, e, genuine, b)
          PROVE  UNCHANGED <<now, loop>>
      BY <3>2 DEF Authenticate
    <3> QED
      BY <1>4, <3>1, <3>2 DEF Handshake
  <2> QED
    BY <1>0, <2>1, <2>2, StepIInv
<1>5. CASE Traffic
  <2>1. CASE LoopDone
    BY <1>0, <1>1, <2>1 DEF LoopDone, LoopType
  <2>2. CASE ~LoopDone
    <3>1. CASE \E allowed \in BOOLEAN : AdmitFanout(allowed)
      <4>1. GrantsFit /\ RoomsFit /\ loop' \in LoopType
        BY <3>1, AdmitFanoutFits
      <4>2. UNCHANGED now
        BY <3>1 DEF AdmitFanout
      <4> QED
        BY <1>0, <4>1, <4>2, StepIInv
    <3>2. ASSUME NEW b \in Binding, NEW named \in BOOLEAN, NEW genuine \in BOOLEAN,
                 NEW allowed \in BOOLEAN, NEW e \in Endpoint, NEW s \in Sequence,
                 AdmitClientIngress(b, named, e, s, genuine, allowed)
          PROVE  IInv'
      <4>1. GrantsFit /\ RoomsFit /\ loop' \in LoopType
        BY <3>2, AdmitClientIngressFits
      <4>2. UNCHANGED now
        BY <3>2 DEF AdmitClientIngress
      <4> QED
        BY <1>0, <4>1, <4>2, StepIInv
    <3>3. ASSUME NEW b \in Binding, NEW named \in BOOLEAN, NEW genuine \in BOOLEAN,
                 NEW e \in Endpoint, NEW s \in Sequence,
                 AdmitPing(b, named, e, s, genuine)
          PROVE  IInv'
      <4>1. GrantsFit /\ RoomsFit
        BY <3>3, AdmitPingFits
      <4>2. UNCHANGED <<now, loop>>
        BY <3>3 DEF AdmitPing
      <4> QED
        BY <1>0, <4>1, <4>2, StepIInv
    <3> QED
      BY <1>5, <2>2, <3>1, <3>2, <3>3 DEF Traffic
  <2> QED
    BY <2>1, <2>2
<1>6. CASE Tick
  BY <1>0, <1>1, <1>6 DEF Tick
<1> QED
  BY <1>2, <1>3, <1>4, <1>5, <1>6 DEF Next

\* In every reachable state of any instance the three indexes list exactly the
\* credentials the grants carry (removeGrantLocked, clearPending, clearRecent
\* and clearBinding), each live grant has its open room, deadlines nest, the
\* handshake states agree and the two running counters are exact.
THEOREM RelayStoreInvariant ==
    Spec => [](/\ TypeOK /\ IndexIntegrity /\ GrantHome /\ DeadlineNesting
               /\ HandshakeCoherence /\ CountersExact)
<1>1. Init => IInv
  BY InitIInv
<1>2. IInv /\ [Next]_vars => IInv'
  BY NextIInv
<1>3. IInv => /\ TypeOK /\ IndexIntegrity /\ GrantHome /\ DeadlineNesting
              /\ HandshakeCoherence /\ CountersExact
  BY DEF IInv
<1> QED
  BY <1>1, <1>2, <1>3, PTL DEF Spec
\* Every credential ends no later than what it was derived from: the deadlines that
\* BeginChallenge, Authenticate and CreateRoom cut are never stretched again.
THEOREM RelayDeadlinesNest == Spec => []DeadlineNesting
  BY RelayStoreInvariant, PTL

\* The states a grant shows agree with the credentials it carries, through every rebind,
\* expiry and revocation; the mismatch tested for at relay.go:471 cannot arise.
THEOREM RelayHandshakeCoherent == Spec => []HandshakeCoherence
  BY RelayStoreInvariant, PTL

\* openRooms and activeSessions are exact and within their limits, so that CreateRoom's
\* capacity checks neither leak nor admit too much.
THEOREM RelayCountersExact == Spec => []CountersExact
  BY RelayStoreInvariant, PTL
=============================================================================
