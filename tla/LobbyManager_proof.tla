------------------------ MODULE LobbyManager_proof ------------------------
(***************************************************************************)
(* The lobbies and Quick Match of LobbyManager for any number of players,  *)
(* lobbies, matches and queues, and the registry of rooms that LobbyRelay  *)
(* has the manager share with the operator.                                *)
(*                                                                         *)
(* The argument.  IInv speaks of the manager's state in five parts         *)
(* (lobbies, tickets, seats, queues, matches).  Every call sweeps first,   *)
(* so the sweep is dealt with once: it keeps the five parts (SweptSound),  *)
(* and every call is then a small change of a sound state in which nothing *)
(* is due.  Each change is followed through the parts it disturbs by       *)
(* lemmas about one lobby, one seat, one line; the last of them about a    *)
(* line of which the first k groups of s players are placed in k matches.  *)
(*                                                                         *)
(* SharedInv adds what the registry has of each match.  All who hold a     *)
(* match hold it until one time (HeldUntil), so the sweep forgets it, the  *)
(* room expires and the tombstone is made at that time, and the tombstone, *)
(* which lasts longer than the sweeper's interval, keeps the ID from the   *)
(* operator until the match is forgotten (MatchTombstoneHolds).            *)
(***************************************************************************)
EXTENDS LobbyRelay, FiniteSetTheorems, SequenceTheorems, TLAPS

-----------------------------------------------------------------------------
(***************************************************************************)
(* The places of a line that are kept, and their ranks among themselves.   *)
(***************************************************************************)
Chosen(line, who) == {i \in DOMAIN line : line[i] \in who}

Rank(at, i) == Cardinality({j \in at : j <= i})

\* Ranks number a finite set of places from 1, without a gap and in order.
LEMMA RankIsOnto ==
    ASSUME NEW n \in Nat, NEW at \in SUBSET (1 .. n)
    PROVE  /\ IsFiniteSet(at) /\ Cardinality(at) \in Nat
           /\ \A i \in at : Rank(at, i) \in 1 .. Cardinality(at)
           /\ \A i, j \in at : i < j => Rank(at, i) < Rank(at, j)
           /\ \A k \in 1 .. Cardinality(at) : \E i \in at : Rank(at, i) = k
<1> DEFINE upto(i) == {j \in at : j <= i}
           r == [i \in at |-> Rank(at, i)]
<1>0. \A i \in at : i \in Nat
  OBVIOUS
<1>1. IsFiniteSet(at)
  <2>1. IsFiniteSet(1 .. n)
    BY FS_Interval
  <2> QED
    BY <2>1, FS_Subset
<1>2. Cardinality(at) \in Nat
  BY <1>1, FS_CardinalityType
<1>3. ASSUME NEW i \in at
      PROVE  IsFiniteSet(upto(i)) /\ Rank(at, i) \in Nat /\ Rank(at, i) \in 1 .. Cardinality(at)
  <2>1. upto(i) \in SUBSET at /\ i \in upto(i)
    OBVIOUS
  <2>2. IsFiniteSet(upto(i)) /\ Cardinality(upto(i)) <= Cardinality(at)
    BY <1>1, <2>1, FS_Subset
  <2>3. Cardinality(upto(i)) \in Nat /\ Cardinality(upto(i)) # 0
    BY <2>1, <2>2, FS_CardinalityType, FS_EmptySet
  <2> QED
    BY <1>2, <2>2, <2>3 DEF Rank
<1>4. ASSUME NEW i \in at, NEW j \in at, i < j
      PROVE  Rank(at, i) < Rank(at, j)
  <2>1. upto(i) \in SUBSET upto(j) /\ upto(i) # upto(j)
    <3>1. j \in upto(j) /\ j \notin upto(i)
      BY <1>0, <1>4
    <3>2. ASSUME NEW x \in upto(i)
          PROVE  x \in upto(j)
      <4>1. x \in at /\ x <= i /\ x \in Nat /\ i \in Nat /\ j \in Nat
        BY <1>0
      <4>2. x <= j
        BY <1>4, <4>1
      <4> QED
        BY <4>1, <4>2
    <3> QED
      BY <3>1, <3>2
  <2>2. Cardinality(upto(i)) <= Cardinality(upto(j)) /\ Cardinality(upto(i)) # Cardinality(upto(j))
    BY <1>3, <2>1, FS_Subset
  <2> QED
    BY <1>3, <2>2 DEF Rank
<1>5. r \in Injection(at, 1 .. Cardinality(at))
  <2>1. r \in [at -> 1 .. Cardinality(at)]
    BY <1>3
  <2>2. ASSUME NEW i \in at, NEW j \in at, r[i] = r[j]
        PROVE  i = j
    <3>1. Rank(at, i) = Rank(at, j) /\ Rank(at, i) \in Nat
      BY <1>3, <2>2
    <3>2. ~(i < j) /\ ~(j < i)
      BY <1>4, <3>1
    <3> QED
      BY <1>0, <3>2
  <2> QED
    BY <2>1, <2>2 DEF Injection, IsInjective
<1>6. IsFiniteSet(1 .. Cardinality(at)) /\ Cardinality(1 .. Cardinality(at)) = Cardinality(at)
  BY <1>2, FS_Interval
<1>7. r \in Surjection(at, 1 .. Cardinality(at))
  BY <1>5, <1>6, FS_Injection
<1> QED
  BY <1>1, <1>2, <1>3, <1>4, <1>7 DEF Surjection

\* What is kept of a line are its chosen places, in their order.
LEMMA KeptPicks ==
    ASSUME NEW S, NEW line \in Seq(S), NEW who
    PROVE  LET at == Chosen(line, who)
               n == Cardinality(at)
           IN  /\ n \in Nat /\ Kept(line, who) \in Seq(S) /\ Len(Kept(line, who)) = n
               /\ \E f \in [1 .. n -> at] :
                     /\ \A k \in 1 .. n : Kept(line, who)[k] = line[f[k]]
                     /\ \A k, m \in 1 .. n : k < m => f[k] < f[m]
                     /\ \A i \in at : \E k \in 1 .. n : f[k] = i
<1> DEFINE at == Chosen(line, who)
           n == Cardinality(at)
           f == [k \in 1 .. n |-> CHOOSE i \in at : Rank(at, i) = k]
<1>1. Len(line) \in Nat /\ DOMAIN line = 1 .. Len(line) /\ \A i \in DOMAIN line : line[i] \in S
  OBVIOUS
<1>2. at \in SUBSET (1 .. Len(line))
  BY <1>1 DEF Chosen
<1>3. /\ n \in Nat
      /\ \A i \in at : Rank(at, i) \in 1 .. n
      /\ \A i, j \in at : i < j => Rank(at, i) < Rank(at, j)
      /\ \A k \in 1 .. n : \E i \in at : Rank(at, i) = k
  BY <1>1, <1>2, RankIsOnto
<1>4. f \in [1 .. n -> at] /\ \A k \in 1 .. n : Rank(at, f[k]) = k
  BY <1>3
<1>5. Kept(line, who) = [k \in 1 .. n |-> line[f[k]]]
  BY DEF Kept, Chosen, Rank
<1> HIDE DEF f
<1>6. \A k \in 1 .. n : line[f[k]] \in S
  BY <1>1, <1>2, <1>4
<1>7. Kept(line, who) \in Seq(S) /\ Len(Kept(line, who)) = n
  BY <1>3, <1>5, <1>6
<1>8. \A k, m \in 1 .. n : k < m => f[k] < f[m]
  <2> SUFFICES ASSUME NEW k \in 1 .. n, NEW m \in 1 .. n, k < m, ~(f[k] < f[m])
               PROVE  FALSE
    OBVIOUS
  <2>1. f[k] \in Nat /\ f[m] \in Nat /\ f[k] \in at /\ f[m] \in at
    BY <1>1, <1>2, <1>4
  <2>2. f[m] < f[k] \/ f[m] = f[k]
    BY <2>1
  <2> QED
    BY <1>3, <1>4, <2>1, <2>2
<1>9. \A i \in at : \E k \in 1 .. n : f[k] = i
  <2> SUFFICES ASSUME NEW i \in at
               PROVE  f[Rank(at, i)] = i
    BY <1>3
  <2>1. Rank(at, i) \in 1 .. n
    BY <1>3
  <2>2. f[Rank(at, i)] \in at /\ Rank(at, f[Rank(at, i)]) = Rank(at, i)
    BY <1>4, <2>1
  <2>3. i \in Nat /\ f[Rank(at, i)] \in Nat
    BY <1>1, <1>2, <2>2
  <2> QED
    BY <1>3, <2>2, <2>3
<1> QED
  BY <1>3, <1>4, <1>5, <1>7, <1>8, <1>9

(***************************************************************************)
(* The inductive invariant, in parts that each speak of some of the state. *)
(***************************************************************************)

\* A lobby on its own, when the numbers below n have been given out.
LobbyGood(b, n) ==
    /\ b \in Lobby
    /\ b.sequence < n
    /\ IsFiniteSet(Members(b)) /\ Cardinality(Members(b)) <= b.capacity
    /\ b.owner \in Members(b)
    /\ \A p \in Members(b) : b.joined[p] < n
    /\ \A p, o \in Members(b) : b.joined[p] = b.joined[o] => p = o
    /\ \A p \in Members(b) : b.joined[b.owner] <= b.joined[p]
    /\ b.ready \subseteq Members(b)
    /\ b.state = "open" <=> b.match = None
    /\ b.state = "matched" => b.ready = Members(b) /\ Cardinality(Members(b)) = b.capacity

\* Whoever is ready in it declared it to its present members.
Agreed(b, c) == \A p \in b.ready : c[p] = Members(b)

LobbiesGood(L, n, c) ==
    /\ L \in [LobbyID -> Lobby \cup {None}]
    /\ \A l \in LobbyID : L[l] # None => LobbyGood(L[l], n) /\ Agreed(L[l], c)

TicketGood(t, n) ==
    /\ t \in Ticket
    /\ t.sequence < n
    /\ t.state = "queued" <=> t.match = None

TicketsGood(T, n) ==
    /\ T \in [Player -> Ticket \cup {None}]
    /\ \A p \in Player : T[p] # None => TicketGood(T[p], n)

SeatsGood(L, O, T) ==
    /\ O \in [Player -> LobbyID \cup {None}]
    /\ \A p \in Player, l \in LobbyID :
          O[p] = l <=> L[l] # None /\ p \in Members(L[l])
    /\ \A p \in Player : O[p] # None => T[p] = None

QueuedIn(T, q) == {p \in Player : T[p] # None /\ T[p].state = "queued" /\ T[p].queue = q}

InOrder(T, line) ==
    \A i, j \in DOMAIN line : i < j => T[line[i]].sequence < T[line[j]].sequence

QueuesGood(T, Q) ==
    /\ Q \in [Queue -> Seq(Player)]
    /\ \A q \in Queue : ToSet(Q[q]) = QueuedIn(T, q) /\ InOrder(T, Q[q])

HoldersIn(L, O, T, m) ==
    {p \in Player : \/ T[p] # None /\ T[p].match = m
                    \/ O[p] # None /\ L[O[p]].match = m}

\* A match that is remembered.
Remembered(L, O, T, room, m) ==
    /\ HoldersIn(L, O, T, m) = room.players /\ room.players # {}
    /\ room.state # "unused"
    /\ \A l \in LobbyID : L[l] # None /\ L[l].match = m =>
          /\ Cardinality(room.players) = L[l].capacity
          /\ Members(L[l]) = room.players
    /\ \A p \in Player : T[p] # None /\ T[p].match = m =>
          /\ Cardinality(room.players) = T[p].queue[2]
          /\ \A o \in room.players :
                T[o] # None /\ T[o].queue = T[p].queue /\ T[o].deadline = T[p].deadline

\* A match that is not, or no longer.
Forgotten(L, O, T, room, m) == HoldersIn(L, O, T, m) = {} /\ room.state # "open"

RoomState == {"unused", "open", "ended"}

MatchesGood(L, O, T, M, R) ==
    /\ M \subseteq Match
    /\ R \in [Match -> [state : RoomState, players : SUBSET Player]]
    /\ \A m \in M : Remembered(L, O, T, R[m], m)
    /\ \A m \in Match \ M : Forgotten(L, O, T, R[m], m)

Sound(L, O, T, Q, M, R, n, c) ==
    /\ LobbiesGood(L, n, c)
    /\ TicketsGood(T, n)
    /\ SeatsGood(L, O, T)
    /\ QueuesGood(T, Q)
    /\ MatchesGood(L, O, T, M, R)

IInv ==
    /\ now \in Nat
    /\ nextSequence \in 1 .. MaxSequence
    /\ consent \in [Player -> SUBSET Player]
    /\ Sound(lobbies, lobbyOf, tickets, queues, matchIDs, rooms, nextSequence, consent)

-----------------------------------------------------------------------------
(***************************************************************************)
(* Records.                                                                *)
(***************************************************************************)
LEMMA ConstantTypes ==
    /\ LobbyTTL \in Nat /\ LobbyTTL > 0
    /\ TicketTTL \in Nat /\ TicketTTL > 0
    /\ MatchTTL \in Nat /\ MatchTTL > 0
    /\ MaxSequence \in Nat /\ MaxSequence > 0
    /\ \A c \in Capacity : c \in Nat /\ c > 1
    /\ None \notin Player /\ None \notin LobbyID /\ None \notin Match
    /\ None \notin Lobby /\ None \notin Ticket
BY NoneAssumption, CapacityAssumption, LimitAssumption, RecordAssumption

\* The fields of a lobby, and its members as a function's domain.
LEMMA LobbyFields ==
    ASSUME NEW b \in Lobby
    PROVE  /\ b.owner \in Player /\ b.capacity \in Capacity /\ b.capacity \in Nat
           /\ b.state \in {"open", "matched"}
           /\ b.revision \in Nat /\ b.sequence \in Nat /\ b.deadline \in Nat
           /\ Members(b) \in SUBSET Player
           /\ b.joined \in [Members(b) -> 1 .. MaxSequence]
           /\ b.ready \in SUBSET Player
           /\ b.match \in Match \cup {None}
<1>1. /\ b.owner \in Player /\ b.capacity \in Capacity
      /\ b.state \in {"open", "matched"}
      /\ b.revision \in Nat /\ b.sequence \in Nat /\ b.deadline \in Nat
      /\ b.joined \in UNION {[members -> 1 .. MaxSequence] : members \in SUBSET Player}
      /\ b.ready \in SUBSET Player
      /\ b.match \in Match \cup {None}
  BY DEF Lobby
<1>2. PICK members \in SUBSET Player : b.joined \in [members -> 1 .. MaxSequence]
  BY <1>1
<1>3. Members(b) = members
  BY <1>2 DEF Members
<1> QED
  BY <1>1, <1>2, <1>3, ConstantTypes

\* The lobbies, with the numbers of their members left open.
LobbyWith(numbers) ==
    [owner : Player, capacity : Capacity, state : {"open", "matched"},
     revision : Nat, sequence : Nat, deadline : Nat,
     joined : numbers, ready : SUBSET Player, match : Match \cup {None}]

Numbers == UNION {[members -> 1 .. MaxSequence] : members \in SUBSET Player}

LEMMA LobbyIsWith == Lobby = LobbyWith(Numbers)
BY DEF Lobby, LobbyWith, Numbers

LEMMA NumbersOf ==
    ASSUME NEW members \in SUBSET Player, NEW joined \in [members -> 1 .. MaxSequence]
    PROVE  joined \in Numbers /\ DOMAIN joined = members
BY DEF Numbers

WithMembers(b, j, y, r) ==
    [b EXCEPT !.joined = j, !.ready = y, !.revision = r]

\* Other members, flags and revision leave the rest of a lobby as it is.
LEMMA LobbyRejoined ==
    ASSUME NEW numbers, NEW b \in LobbyWith(numbers), NEW j \in numbers,
           NEW y \in SUBSET Player, NEW r \in Nat
    PROVE  LET x == WithMembers(b, j, y, r)
           IN  /\ x \in LobbyWith(numbers)
               /\ x.owner = b.owner /\ x.capacity = b.capacity /\ x.state = b.state
               /\ x.revision = r /\ x.sequence = b.sequence /\ x.deadline = b.deadline
               /\ x.joined = j /\ x.ready = y /\ x.match = b.match
BY DEF LobbyWith, WithMembers

WithOwner(b, j, y, o, r) ==
    [b EXCEPT !.joined = j, !.ready = y, !.owner = o, !.revision = r]

\* The same, with another owner.
LEMMA LobbyPassedOn ==
    ASSUME NEW numbers, NEW b \in LobbyWith(numbers), NEW j \in numbers,
           NEW y \in SUBSET Player, NEW o \in Player, NEW r \in Nat
    PROVE  LET x == WithOwner(b, j, y, o, r)
           IN  /\ x \in LobbyWith(numbers)
               /\ x.owner = o /\ x.capacity = b.capacity /\ x.state = b.state
               /\ x.revision = r /\ x.sequence = b.sequence /\ x.deadline = b.deadline
               /\ x.joined = j /\ x.ready = y /\ x.match = b.match
BY DEF LobbyWith, WithOwner

WithReady(b, y, r) ==
    [b EXCEPT !.ready = y, !.revision = r]

\* Other flags and another revision leave the rest of a lobby as it is.
LEMMA LobbyReadied ==
    ASSUME NEW numbers, NEW b \in LobbyWith(numbers),
           NEW y \in SUBSET Player, NEW r \in Nat
    PROVE  LET x == WithReady(b, y, r)
           IN  /\ x \in LobbyWith(numbers)
               /\ x.owner = b.owner /\ x.capacity = b.capacity /\ x.state = b.state
               /\ x.revision = r /\ x.sequence = b.sequence /\ x.deadline = b.deadline
               /\ x.joined = b.joined /\ x.ready = y /\ x.match = b.match
BY DEF LobbyWith, WithReady

WithMatch(b, r, d, m) ==
    [b EXCEPT !.state = "matched", !.revision = r, !.deadline = d, !.match = m]

\* A match leaves the members and the flags of a lobby as they are.
LEMMA LobbyMatched ==
    ASSUME NEW numbers, NEW b \in LobbyWith(numbers),
           NEW r \in Nat, NEW d \in Nat, NEW m \in Match
    PROVE  LET x == WithMatch(b, r, d, m)
           IN  /\ x \in LobbyWith(numbers)
               /\ x.owner = b.owner /\ x.capacity = b.capacity /\ x.state = "matched"
               /\ x.revision = r /\ x.sequence = b.sequence /\ x.deadline = d
               /\ x.joined = b.joined /\ x.ready = b.ready /\ x.match = m
BY DEF LobbyWith, WithMatch

\* The fields of a ticket.
LEMMA TicketFields ==
    ASSUME NEW t \in Ticket
    PROVE  /\ t.queue \in Queue /\ t.queue[2] \in Capacity
           /\ t.state \in {"queued", "matched"}
           /\ t.revision \in Nat /\ t.sequence \in Nat /\ t.deadline \in Nat
           /\ t.match \in Match \cup {None}
<1>1. t.queue \in Queue /\ t.state \in {"queued", "matched"}
      /\ t.revision \in Nat /\ t.sequence \in Nat /\ t.deadline \in Nat
      /\ t.match \in Match \cup {None}
  BY DEF Ticket
<1> QED
  BY <1>1 DEF Queue
-----------------------------------------------------------------------------
(***************************************************************************)
(* The sweep.                                                              *)
(***************************************************************************)
SweptLobbies == Swept.lobbies

SweptMatches == Swept.matchIDs

\* The fields of the swept state.
LEMMA SweptFields ==
    /\ SweptLobbies = [l \in LobbyID |-> IF Due(lobbies[l]) THEN None ELSE lobbies[l]]
    /\ Swept.lobbies = SweptLobbies
    /\ Swept.lobbyOf = SweptLobbyOf
    /\ Swept.tickets = SweptTickets
    /\ Swept.queues = SweptQueues
    /\ Swept.matchIDs = SweptMatches
    /\ Swept.rooms = SweptRooms
    /\ SweptMatches = matchIDs \ OverMatches
BY DEF SweptLobbies, SweptMatches, Swept

LEMMA SweptLobbiesGood ==
    ASSUME LobbiesGood(lobbies, nextSequence, consent)
    PROVE  LobbiesGood(SweptLobbies, nextSequence, consent)
BY SweptFields DEF LobbiesGood

LEMMA SweptTicketsGood ==
    ASSUME TicketsGood(tickets, nextSequence)
    PROVE  TicketsGood(SweptTickets, nextSequence)
BY DEF TicketsGood, SweptTickets

\* Whose lobby is swept loses the seat, and nobody else does.
LEMMA SweptSeat ==
    ASSUME SeatsGood(lobbies, lobbyOf, tickets), NEW p \in Player
    PROVE  /\ SweptLobbyOf[p] = IF lobbyOf[p] # None /\ Due(lobbies[lobbyOf[p]])
                                THEN None ELSE lobbyOf[p]
           /\ lobbyOf[p] # None => /\ lobbyOf[p] \in LobbyID /\ lobbies[lobbyOf[p]] # None
                                   /\ p \in Members(lobbies[lobbyOf[p]])
<1>1. ASSUME lobbyOf[p] # None
      PROVE  /\ lobbyOf[p] \in LobbyID /\ lobbies[lobbyOf[p]] # None
             /\ p \in Members(lobbies[lobbyOf[p]])
  BY <1>1 DEF SeatsGood
<1>2. (\E l \in LobbyID : Due(lobbies[l]) /\ p \in Members(lobbies[l]))
      <=> lobbyOf[p] # None /\ Due(lobbies[lobbyOf[p]])
  <2>1. ASSUME NEW l \in LobbyID, Due(lobbies[l]), p \in Members(lobbies[l])
        PROVE  lobbyOf[p] = l /\ l # None
    BY <2>1, ConstantTypes DEF SeatsGood, Due
  <2> QED
    BY <1>1, <2>1
<1> QED
  BY <1>1, <1>2 DEF SweptLobbyOf

\* Lobbies and seats are swept together.
LEMMA SweptSeatsGood ==
    ASSUME SeatsGood(lobbies, lobbyOf, tickets)
    PROVE  SeatsGood(SweptLobbies, SweptLobbyOf, SweptTickets)
<1>1. SweptLobbyOf \in [Player -> LobbyID \cup {None}]
  BY DEF SeatsGood, SweptLobbyOf
<1>2. ASSUME NEW p \in Player, NEW l \in LobbyID
      PROVE  SweptLobbyOf[p] = l <=> SweptLobbies[l] # None /\ p \in Members(SweptLobbies[l])
  <2>1. lobbyOf[p] = l <=> lobbies[l] # None /\ p \in Members(lobbies[l])
    BY DEF SeatsGood
  <2>2. SweptLobbies[l] = IF Due(lobbies[l]) THEN None ELSE lobbies[l]
    BY SweptFields
  <2>3. CASE Due(lobbies[l])
    BY <2>1, <2>2, <2>3, SweptSeat, ConstantTypes
  <2>4. CASE ~Due(lobbies[l])
    BY <2>1, <2>2, <2>4, SweptSeat, ConstantTypes
  <2> QED
    BY <2>3, <2>4
<1>3. ASSUME NEW p \in Player, SweptLobbyOf[p] # None
      PROVE  SweptTickets[p] = None
  <2>1. lobbyOf[p] # None
    BY <1>3, SweptSeat
  <2>2. tickets[p] = None
    BY <2>1 DEF SeatsGood
  <2> QED
    BY <2>2 DEF SweptTickets
<1> QED
  BY <1>1, <1>2, <1>3 DEF SeatsGood

\* Whatever match is named by a lobby or a ticket is remembered.
LEMMA NamedIsRemembered ==
    ASSUME NEW L, NEW O, NEW T, NEW M, NEW R, NEW n, NEW c,
           LobbiesGood(L, n, c), TicketsGood(T, n), SeatsGood(L, O, T),
           MatchesGood(L, O, T, M, R)
    PROVE  /\ \A l \in LobbyID : L[l] # None /\ L[l].match # None => L[l].match \in M
           /\ \A p \in Player : T[p] # None /\ T[p].match # None => T[p].match \in M
<1>1. \A m \in Match \ M : HoldersIn(L, O, T, m) = {}
  BY DEF MatchesGood, Forgotten
<1>2. ASSUME NEW l \in LobbyID, L[l] # None, L[l].match # None
      PROVE  L[l].match \in M
  <2>1. L[l] \in Lobby /\ L[l].owner \in Members(L[l]) /\ L[l].owner \in Player
        /\ L[l].match \in Match
    BY <1>2, LobbyFields DEF LobbiesGood, LobbyGood
  <2>2. O[L[l].owner] = l /\ l # None
    BY <1>2, <2>1, ConstantTypes DEF SeatsGood
  <2>3. L[l].owner \in HoldersIn(L, O, T, L[l].match)
    BY <2>1, <2>2 DEF HoldersIn
  <2> QED
    BY <1>1, <2>1, <2>3
<1>3. ASSUME NEW p \in Player, T[p] # None, T[p].match # None
      PROVE  T[p].match \in M
  <2>1. T[p].match \in Match
    BY <1>3, TicketFields DEF TicketsGood, TicketGood
  <2>2. p \in HoldersIn(L, O, T, T[p].match)
    BY <1>3 DEF HoldersIn
  <2> QED
    BY <1>1, <2>1, <2>2
<1> QED
  BY <1>2, <1>3

\* What is over when something is due that names it.
LEMMA OverFacts ==
    ASSUME LobbiesGood(lobbies, nextSequence, consent), TicketsGood(tickets, nextSequence),
           NEW m \in Match
    PROVE  m \in OverMatches <=>
              \/ \E l \in LobbyID : Due(lobbies[l]) /\ lobbies[l].match = m
              \/ \E p \in Player : Due(tickets[p]) /\ tickets[p].match = m
<1>1. ASSUME NEW l \in LobbyID, Due(lobbies[l])
      PROVE  lobbies[l].match = m => lobbies[l].state = "matched"
  <2>1. lobbies[l] \in Lobby /\ (lobbies[l].state = "open" <=> lobbies[l].match = None)
    BY <1>1 DEF Due, LobbiesGood, LobbyGood
  <2> QED
    BY <2>1, LobbyFields, ConstantTypes
<1>2. ASSUME NEW p \in Player, Due(tickets[p])
      PROVE  tickets[p].match = m => tickets[p].state = "matched"
  <2>1. tickets[p] \in Ticket /\ (tickets[p].state = "queued" <=> tickets[p].match = None)
    BY <1>2 DEF Due, TicketsGood, TicketGood
  <2> QED
    BY <2>1, TicketFields, ConstantTypes
<1> QED
  BY <1>1, <1>2 DEF OverMatches

\* A match that is not over keeps its holders; one that is over has none left.
LEMMA SweptHolders ==
    ASSUME LobbiesGood(lobbies, nextSequence, consent), TicketsGood(tickets, nextSequence),
           SeatsGood(lobbies, lobbyOf, tickets),
           MatchesGood(lobbies, lobbyOf, tickets, matchIDs, rooms),
           NEW m \in Match
    PROVE  /\ HoldersIn(SweptLobbies, SweptLobbyOf, SweptTickets, m)
                \subseteq HoldersIn(lobbies, lobbyOf, tickets, m)
           /\ m \notin OverMatches =>
                HoldersIn(SweptLobbies, SweptLobbyOf, SweptTickets, m)
                   = HoldersIn(lobbies, lobbyOf, tickets, m)
           /\ m \in OverMatches =>
                HoldersIn(SweptLobbies, SweptLobbyOf, SweptTickets, m) = {}
<1> DEFINE H == HoldersIn(lobbies, lobbyOf, tickets, m)
           HS == HoldersIn(SweptLobbies, SweptLobbyOf, SweptTickets, m)
<1>0. /\ \A l \in LobbyID : SweptLobbies[l] = IF Due(lobbies[l]) THEN None ELSE lobbies[l]
      /\ \A p \in Player : SweptTickets[p] = IF Due(tickets[p]) THEN None ELSE tickets[p]
  BY SweptFields DEF SweptTickets
<1>1. \A p \in Player : p \in H <=> \/ tickets[p] # None /\ tickets[p].match = m
                                    \/ lobbyOf[p] # None /\ lobbies[lobbyOf[p]].match = m
  BY DEF HoldersIn
<1>2. ASSUME NEW p \in Player
      PROVE  p \in HS <=> \/ tickets[p] # None /\ ~Due(tickets[p]) /\ tickets[p].match = m
                          \/ /\ lobbyOf[p] # None /\ ~Due(lobbies[lobbyOf[p]])
                             /\ lobbies[lobbyOf[p]].match = m
  <2>1. p \in HS <=> \/ SweptTickets[p] # None /\ SweptTickets[p].match = m
                     \/ SweptLobbyOf[p] # None /\ SweptLobbies[SweptLobbyOf[p]].match = m
    BY DEF HoldersIn
  <2>2. SweptTickets[p] # None /\ SweptTickets[p].match = m
        <=> tickets[p] # None /\ ~Due(tickets[p]) /\ tickets[p].match = m
    BY <1>0
  <2>3. SweptLobbyOf[p] # None /\ SweptLobbies[SweptLobbyOf[p]].match = m
        <=> lobbyOf[p] # None /\ ~Due(lobbies[lobbyOf[p]]) /\ lobbies[lobbyOf[p]].match = m
    BY <1>0, SweptSeat
  <2> QED
    BY <2>1, <2>2, <2>3
<1>3. H \subseteq Player /\ HS \subseteq Player
  BY DEF HoldersIn
<1>4. HS \subseteq H
  BY <1>1, <1>2, <1>3
<1>5. ASSUME m \notin OverMatches
      PROVE  H \subseteq HS
  <2> SUFFICES ASSUME NEW p \in Player, p \in H
               PROVE  p \in HS
    BY <1>3
  <2>1. ~(\E l \in LobbyID : Due(lobbies[l]) /\ lobbies[l].match = m)
    BY <1>5, OverFacts
  <2>2. ~(Due(tickets[p]) /\ tickets[p].match = m)
    BY <1>5, OverFacts
  <2>3. lobbyOf[p] # None => lobbyOf[p] \in LobbyID
    BY SweptSeat
  <2> QED
    BY <1>1, <1>2, <2>1, <2>2, <2>3
<1>6. ASSUME m \in OverMatches
      PROVE  HS = {}
  <2>1. CASE \E l \in LobbyID : Due(lobbies[l]) /\ lobbies[l].match = m
    <3>1. PICK l \in LobbyID : Due(lobbies[l]) /\ lobbies[l].match = m
      BY <2>1
    <3>2. lobbies[l] # None /\ m \in matchIDs
      BY <3>1, NamedIsRemembered, ConstantTypes DEF Due
    <3>3. H = Members(lobbies[l])
      BY <3>1, <3>2 DEF MatchesGood, Remembered
    <3>4. ASSUME NEW p \in H
          PROVE  p \in Player /\ lobbyOf[p] = l /\ tickets[p] = None /\ lobbyOf[p] # None
      BY <1>3, <3>2, <3>3, ConstantTypes DEF SeatsGood
    <3> QED
      BY <1>2, <1>4, <3>1, <3>4
  <2>2. CASE \E o \in Player : Due(tickets[o]) /\ tickets[o].match = m
    <3>1. PICK o \in Player : Due(tickets[o]) /\ tickets[o].match = m
      BY <2>2
    <3>2. tickets[o] # None /\ m \in matchIDs
      BY <3>1, NamedIsRemembered, ConstantTypes DEF Due
    <3>3. H = rooms[m].players /\ \A p \in rooms[m].players :
             tickets[p] # None /\ tickets[p].deadline = tickets[o].deadline
      BY <3>1, <3>2 DEF MatchesGood, Remembered
    <3>4. ASSUME NEW p \in H
          PROVE  p \in Player /\ Due(tickets[p]) /\ lobbyOf[p] = None
      BY <1>3, <3>1, <3>2, <3>3 DEF SeatsGood, Due
    <3> QED
      BY <1>2, <1>4, <3>4
  <2> QED
    BY <1>6, <2>1, <2>2, OverFacts
<1> QED
  BY <1>4, <1>5, <1>6

\* Matches are forgotten exactly when their holders are swept.
LEMMA SweptMatchesGood ==
    ASSUME LobbiesGood(lobbies, nextSequence, consent), TicketsGood(tickets, nextSequence),
           SeatsGood(lobbies, lobbyOf, tickets),
           MatchesGood(lobbies, lobbyOf, tickets, matchIDs, rooms)
    PROVE  MatchesGood(SweptLobbies, SweptLobbyOf, SweptTickets, SweptMatches, SweptRooms)
<1>0. /\ \A l \in LobbyID : SweptLobbies[l] = IF Due(lobbies[l]) THEN None ELSE lobbies[l]
      /\ \A p \in Player : SweptTickets[p] = IF Due(tickets[p]) THEN None ELSE tickets[p]
      /\ SweptMatches = matchIDs \ OverMatches
  BY SweptFields DEF SweptTickets
<1>1. /\ matchIDs \subseteq Match
      /\ \A m \in Match : rooms[m] \in [state : RoomState, players : SUBSET Player]
  BY DEF MatchesGood
<1>2. ASSUME NEW m \in Match
      PROVE  SweptRooms[m] \in [state : RoomState, players : SUBSET Player]
             /\ (m \notin OverMatches => SweptRooms[m] = rooms[m])
             /\ (m \in OverMatches => SweptRooms[m].state = "ended")
  <2>1. [rooms[m] EXCEPT !.state = "ended"] \in [state : RoomState, players : SUBSET Player]
        /\ [rooms[m] EXCEPT !.state = "ended"].state = "ended"
    BY <1>1 DEF RoomState
  <2> QED
    BY <1>1, <2>1 DEF SweptRooms
<1>3. SweptRooms \in [Match -> [state : RoomState, players : SUBSET Player]]
  BY <1>2 DEF SweptRooms
<1>4. ASSUME NEW m \in SweptMatches
      PROVE  Remembered(SweptLobbies, SweptLobbyOf, SweptTickets, SweptRooms[m], m)
  <2>1. m \in matchIDs /\ m \in Match /\ m \notin OverMatches
    BY <1>0, <1>1
  <2>2. SweptRooms[m] = rooms[m]
    BY <1>2, <2>1
  <2>3. Remembered(lobbies, lobbyOf, tickets, rooms[m], m)
    BY <2>1 DEF MatchesGood
  <2>4. HoldersIn(SweptLobbies, SweptLobbyOf, SweptTickets, m) = rooms[m].players
        /\ rooms[m].state # "unused" /\ rooms[m].players # {}
    BY <2>1, <2>3, SweptHolders DEF Remembered
  <2>5. ASSUME NEW l \in LobbyID, SweptLobbies[l] # None, SweptLobbies[l].match = m
        PROVE  /\ Cardinality(rooms[m].players) = SweptLobbies[l].capacity
               /\ Members(SweptLobbies[l]) = rooms[m].players
    <3>1. SweptLobbies[l] = lobbies[l]
      BY <1>0, <2>5
    <3> QED
      BY <2>3, <2>5, <3>1 DEF Remembered
  <2>6. ASSUME NEW p \in Player, SweptTickets[p] # None, SweptTickets[p].match = m
        PROVE  /\ Cardinality(rooms[m].players) = SweptTickets[p].queue[2]
               /\ \A o \in rooms[m].players :
                     /\ SweptTickets[o] # None
                     /\ SweptTickets[o].queue = SweptTickets[p].queue
                     /\ SweptTickets[o].deadline = SweptTickets[p].deadline
    <3>1. SweptTickets[p] = tickets[p] /\ ~Due(tickets[p])
      BY <1>0, <2>6
    <3>2. /\ Cardinality(rooms[m].players) = tickets[p].queue[2]
          /\ \A o \in rooms[m].players :
                tickets[o] # None /\ tickets[o].queue = tickets[p].queue
                /\ tickets[o].deadline = tickets[p].deadline
      BY <2>3, <2>6, <3>1 DEF Remembered
    <3>3. \A o \in rooms[m].players : o \in Player /\ ~Due(tickets[o])
      BY <1>1, <2>1, <2>6, <3>1, <3>2 DEF Due
    <3> QED
      BY <1>0, <3>1, <3>2, <3>3
  <2> QED
    BY <2>2, <2>4, <2>5, <2>6 DEF Remembered
<1>5. ASSUME NEW m \in Match \ SweptMatches
      PROVE  Forgotten(SweptLobbies, SweptLobbyOf, SweptTickets, SweptRooms[m], m)
  <2>1. CASE m \in OverMatches
    BY <1>2, <2>1, SweptHolders DEF Forgotten
  <2>2. CASE m \notin OverMatches
    <3>1. m \notin matchIDs
      BY <1>0, <2>2
    <3>2. Forgotten(lobbies, lobbyOf, tickets, rooms[m], m)
      BY <3>1 DEF MatchesGood
    <3> QED
      BY <1>2, <2>2, <3>2, SweptHolders DEF Forgotten
  <2> QED
    BY <2>1, <2>2
<1> QED
  BY <1>0, <1>1, <1>3, <1>4, <1>5 DEF MatchesGood

-----------------------------------------------------------------------------
(***************************************************************************)
(* Lines.                                                                  *)
(***************************************************************************)
LEMMA KeptFacts ==
    ASSUME NEW S, NEW line \in Seq(S), NEW who
    PROVE  /\ Kept(line, who) \in Seq(S)
           /\ ToSet(Kept(line, who)) = ToSet(line) \cap who
           /\ \A T : InOrder(T, line) => InOrder(T, Kept(line, who))
<1> DEFINE at == Chosen(line, who)
           n == Cardinality(at)
           kept == Kept(line, who)
<1>1. n \in Nat /\ kept \in Seq(S) /\ Len(kept) = n
  BY KeptPicks
<1>2. PICK f \in [1 .. n -> at] :
         /\ \A k \in 1 .. n : kept[k] = line[f[k]]
         /\ \A k, m \in 1 .. n : k < m => f[k] < f[m]
         /\ \A i \in at : \E k \in 1 .. n : f[k] = i
  BY KeptPicks
<1>3. DOMAIN kept = 1 .. n
  BY <1>1
<1>4. \A i \in at : i \in DOMAIN line /\ line[i] \in who
  BY DEF Chosen
<1> HIDE DEF kept, n
<1>5. \A x \in ToSet(kept) : x \in ToSet(line) \cap who
  BY <1>2, <1>3, <1>4 DEF ToSet
<1>6. ASSUME NEW x \in ToSet(line) \cap who
      PROVE  x \in ToSet(kept)
  <2>1. PICK i \in DOMAIN line : line[i] = x
    BY DEF ToSet
  <2>2. i \in at
    BY <2>1 DEF Chosen
  <2>3. PICK k \in 1 .. n : f[k] = i
    BY <1>2, <2>2
  <2> QED
    BY <1>2, <1>3, <2>1, <2>3 DEF ToSet
<1>7. ASSUME NEW T, InOrder(T, line)
      PROVE  InOrder(T, kept)
  BY <1>2, <1>3, <1>4, <1>7 DEF InOrder
<1> QED
  BY <1>1, <1>5, <1>6, <1>7 DEF kept

\* An order is one of sequence numbers alone.
LEMMA OrderKept ==
    ASSUME NEW T, NEW U, NEW line, InOrder(T, line),
           \A x \in ToSet(line) : U[x].sequence = T[x].sequence
    PROVE  InOrder(U, line)
BY DEF InOrder, ToSet

\* Nobody is twice in a line that is in order.
LEMMA OrderedOnce ==
    ASSUME NEW S, NEW line \in Seq(S), NEW T, InOrder(T, line),
           \A x \in ToSet(line) : T[x].sequence \in Nat,
           NEW i \in DOMAIN line, NEW j \in DOMAIN line, line[i] = line[j]
    PROVE  i = j
<1>1. i \in Nat /\ j \in Nat /\ T[line[i]].sequence \in Nat
  BY DEF ToSet
<1>2. ~(i < j) /\ ~(j < i)
  BY <1>1 DEF InOrder
<1> QED
  BY <1>1, <1>2

\* Queues lose exactly those whose tickets are swept.
LEMMA SweptQueuesGood ==
    ASSUME QueuesGood(tickets, queues)
    PROVE  QueuesGood(SweptTickets, SweptQueues)
<1> DEFINE still(q) ==
             {p \in Player : ~(Due(tickets[p]) /\ tickets[p].state = "queued" /\ tickets[p].queue = q)}
<1>1. \A p \in Player : SweptTickets[p] = IF Due(tickets[p]) THEN None ELSE tickets[p]
  BY DEF SweptTickets
<1>2. ASSUME NEW q \in Queue
      PROVE  /\ SweptQueues[q] \in Seq(Player)
             /\ ToSet(SweptQueues[q]) = QueuedIn(SweptTickets, q)
             /\ InOrder(SweptTickets, SweptQueues[q])
  <2>1. queues[q] \in Seq(Player) /\ ToSet(queues[q]) = QueuedIn(tickets, q)
        /\ InOrder(tickets, queues[q])
    BY DEF QueuesGood
  <2>2. SweptQueues[q] = Kept(queues[q], still(q))
    BY DEF SweptQueues
  <2>3. /\ SweptQueues[q] \in Seq(Player)
        /\ ToSet(SweptQueues[q]) = QueuedIn(tickets, q) \cap still(q)
        /\ InOrder(tickets, SweptQueues[q])
    BY <2>1, <2>2, KeptFacts
  <2>4. QueuedIn(tickets, q) \cap still(q) = QueuedIn(SweptTickets, q)
    BY <1>1 DEF QueuedIn
  <2>5. \A p \in ToSet(SweptQueues[q]) : SweptTickets[p].sequence = tickets[p].sequence
    BY <1>1, <2>3, <2>4 DEF QueuedIn
  <2> QED
    BY <2>3, <2>4, <2>5, OrderKept
<1>3. SweptQueues = [q \in Queue |-> SweptQueues[q]]
  BY DEF SweptQueues
<1>4. SweptQueues \in [Queue -> Seq(Player)]
  BY <1>2, <1>3
<1> QED
  BY <1>2, <1>4 DEF QueuesGood

\* The sweep keeps all five parts, and what it leaves is not due.
LEMMA SweptSound ==
    ASSUME IInv
    PROVE  /\ Sound(SweptLobbies, SweptLobbyOf, SweptTickets, SweptQueues, SweptMatches,
                    SweptRooms, nextSequence, consent)
           /\ \A l \in LobbyID : SweptLobbies[l] # None =>
                 SweptLobbies[l] = lobbies[l] /\ now < SweptLobbies[l].deadline
           /\ \A p \in Player : SweptTickets[p] # None =>
                 SweptTickets[p] = tickets[p] /\ now < SweptTickets[p].deadline
<1>1. Sound(lobbies, lobbyOf, tickets, queues, matchIDs, rooms, nextSequence, consent)
  BY DEF IInv
<1>2. Sound(SweptLobbies, SweptLobbyOf, SweptTickets, SweptQueues, SweptMatches,
            SweptRooms, nextSequence, consent)
  BY <1>1, SweptLobbiesGood, SweptTicketsGood, SweptSeatsGood, SweptQueuesGood, SweptMatchesGood
     DEF Sound
<1>3. ASSUME NEW l \in LobbyID, SweptLobbies[l] # None
      PROVE  SweptLobbies[l] = lobbies[l] /\ now < SweptLobbies[l].deadline
  <2>1. SweptLobbies[l] = lobbies[l] /\ ~Due(lobbies[l]) /\ lobbies[l] # None
    BY <1>3, SweptFields
  <2>2. lobbies[l] \in Lobby
    BY <1>1, <2>1 DEF Sound, LobbiesGood, LobbyGood
  <2>3. lobbies[l].deadline \in Nat /\ now \in Nat
    BY <2>2, LobbyFields DEF IInv
  <2> QED
    BY <2>1, <2>3 DEF Due
<1>4. ASSUME NEW p \in Player, SweptTickets[p] # None
      PROVE  SweptTickets[p] = tickets[p] /\ now < SweptTickets[p].deadline
  <2>1. SweptTickets[p] = tickets[p] /\ ~Due(tickets[p]) /\ tickets[p] # None
    BY <1>4 DEF SweptTickets
  <2>2. tickets[p] \in Ticket
    BY <1>1, <2>1 DEF Sound, TicketsGood, TicketGood
  <2>3. tickets[p].deadline \in Nat /\ now \in Nat
    BY <2>2, TicketFields DEF IInv
  <2> QED
    BY <2>1, <2>3 DEF Due
<1> QED
  BY <1>2, <1>3, <1>4

-----------------------------------------------------------------------------
(***************************************************************************)
(* What each action makes of the swept state.                              *)
(***************************************************************************)
NewLobby(p, capacity) ==
    [owner |-> p, capacity |-> capacity, state |-> "open", revision |-> 1,
     sequence |-> nextSequence, deadline |-> now + LobbyTTL,
     joined |-> [o \in {p} |-> nextSequence], ready |-> {}, match |-> None]

Readied(lobby, p, ready, revision) ==
    [lobby EXCEPT !.ready = IF ready THEN lobby.ready \cup {p} ELSE lobby.ready \ {p},
                  !.revision = revision + 1]

Started(lobby, revision, m) ==
    [lobby EXCEPT !.state = "matched", !.revision = revision + 1,
                  !.deadline = now + MatchTTL, !.match = m]

Consented(c, p, ready, members) == IF ready THEN [c EXCEPT ![p] = members] ELSE c

LEMMA SweptRecord ==
    Swept = [lobbies  |-> SweptLobbies,
             lobbyOf  |-> SweptLobbyOf,
             tickets  |-> SweptTickets,
             queues   |-> SweptQueues,
             matchIDs |-> SweptMatches,
             rooms    |-> SweptRooms]
BY DEF SweptLobbies, SweptMatches, Swept

\* Create.
LEMMA CreateEffect ==
    ASSUME NEW p \in Player, NEW l \in LobbyID, NEW capacity \in Capacity, Create(p, l, capacity)
    PROVE  /\ SweptLobbyOf[p] = None /\ SweptTickets[p] = None /\ SweptLobbies[l] = None
           /\ nextSequence < MaxSequence
           /\ lobbies' = [SweptLobbies EXCEPT ![l] = NewLobby(p, capacity)]
           /\ lobbyOf' = [SweptLobbyOf EXCEPT ![p] = l]
           /\ tickets' = SweptTickets /\ queues' = SweptQueues
           /\ matchIDs' = SweptMatches /\ rooms' = SweptRooms
           /\ nextSequence' = nextSequence + 1 /\ now' = now /\ consent' = consent
BY SweptRecord DEF Create, Become, Unplaced, NewLobby

\* Join.
LEMMA JoinEffect ==
    ASSUME NEW p \in Player, NEW l \in LobbyID, NEW revision \in Nat, Join(p, l, revision)
    PROVE  /\ SweptLobbyOf[p] = None /\ SweptTickets[p] = None
           /\ Current(SweptLobbies[l], revision)
           /\ Cardinality(Members(SweptLobbies[l])) < SweptLobbies[l].capacity
           /\ nextSequence < MaxSequence
           /\ lobbies' = [SweptLobbies EXCEPT ![l] = Joined(SweptLobbies[l], p)]
           /\ lobbyOf' = [SweptLobbyOf EXCEPT ![p] = l]
           /\ tickets' = SweptTickets /\ queues' = SweptQueues
           /\ matchIDs' = SweptMatches /\ rooms' = SweptRooms
           /\ nextSequence' = nextSequence + 1 /\ now' = now /\ consent' = consent
BY SweptRecord DEF Join, Become, Unplaced

\* Leave.
LEMMA LeaveEffect ==
    ASSUME NEW p \in Player, NEW l \in LobbyID, NEW revision \in Nat, Leave(p, l, revision)
    PROVE  /\ Current(SweptLobbies[l], revision) /\ p \in Members(SweptLobbies[l])
           /\ lobbies' = [SweptLobbies EXCEPT ![l] = Left(SweptLobbies[l], p)]
           /\ lobbyOf' = [SweptLobbyOf EXCEPT ![p] = None]
           /\ tickets' = SweptTickets /\ queues' = SweptQueues
           /\ matchIDs' = SweptMatches /\ rooms' = SweptRooms
           /\ nextSequence' = nextSequence /\ now' = now /\ consent' = consent
BY SweptRecord DEF Leave, Become

\* SetReady.
LEMMA SetReadyEffect ==
    ASSUME NEW p \in Player, NEW l \in LobbyID, NEW revision \in Nat, NEW ready \in BOOLEAN,
           SetReady(p, l, revision, ready)
    PROVE  /\ Current(SweptLobbies[l], revision) /\ p \in Members(SweptLobbies[l])
           /\ lobbies' = [SweptLobbies EXCEPT ![l] = Readied(SweptLobbies[l], p, ready, revision)]
           /\ consent' = IF ready THEN [consent EXCEPT ![p] = Members(SweptLobbies[l])] ELSE consent
           /\ lobbyOf' = SweptLobbyOf
           /\ tickets' = SweptTickets /\ queues' = SweptQueues
           /\ matchIDs' = SweptMatches /\ rooms' = SweptRooms
           /\ nextSequence' = nextSequence /\ now' = now
BY SweptRecord DEF SetReady, Become, Readied

\* Start.
LEMMA StartEffect ==
    ASSUME NEW p \in Player, NEW l \in LobbyID, NEW revision \in Nat, NEW m \in Match,
           Start(p, l, revision, m)
    PROVE  /\ Current(SweptLobbies[l], revision) /\ Startable(SweptLobbies[l], p)
           /\ m \notin SweptMatches /\ SweptRooms[m].state = "unused"
           /\ lobbies' = [SweptLobbies EXCEPT ![l] = Started(SweptLobbies[l], revision, m)]
           /\ lobbyOf' = SweptLobbyOf
           /\ tickets' = SweptTickets /\ queues' = SweptQueues
           /\ matchIDs' = SweptMatches \cup {m}
           /\ rooms' = [SweptRooms EXCEPT ![m] = Allocated(Members(SweptLobbies[l]))]
           /\ nextSequence' = nextSequence /\ now' = now /\ consent' = consent
BY SweptRecord DEF Start, Become, Started, Fresh

\* CancelTicket.
LEMMA CancelEffect ==
    ASSUME NEW p \in Player, NEW revision \in Nat, CancelTicket(p, revision)
    PROVE  LET q == SweptTickets[p].queue
           IN  /\ SweptTickets[p] # None /\ SweptTickets[p].state = "queued"
               /\ tickets' = [SweptTickets EXCEPT ![p] = None]
               /\ queues' = [SweptQueues EXCEPT ![q] = RemoveFirst(SweptQueues[q], p)]
               /\ lobbies' = SweptLobbies /\ lobbyOf' = SweptLobbyOf
               /\ matchIDs' = SweptMatches /\ rooms' = SweptRooms
               /\ nextSequence' = nextSequence /\ now' = now /\ consent' = consent
BY SweptRecord DEF CancelTicket, Become

\* Expire.
LEMMA ExpireEffect ==
    ASSUME Expire
    PROVE  /\ lobbies' = SweptLobbies /\ lobbyOf' = SweptLobbyOf
           /\ tickets' = SweptTickets /\ queues' = SweptQueues
           /\ matchIDs' = SweptMatches /\ rooms' = SweptRooms
           /\ nextSequence' = nextSequence /\ now' = now /\ consent' = consent
BY SweptRecord DEF Expire, Become

-----------------------------------------------------------------------------
(***************************************************************************)
(* One lobby.                                                              *)
(***************************************************************************)

\* The member with the least number exists, so FirstMember is one.
LEMMA EarliestMember ==
    ASSUME NEW members, members # {}, NEW joined \in [members -> 1 .. MaxSequence]
    PROVE  /\ FirstMember(joined) \in members
           /\ \A o \in members : joined[FirstMember(joined)] <= joined[o]
<1> DEFINE at == {joined[o] : o \in members}
<1>1. at \in SUBSET (1 .. MaxSequence) /\ at # {}
  OBVIOUS
<1>2. /\ IsFiniteSet(at) /\ Cardinality(at) \in Nat
      /\ \A i \in at : Rank(at, i) \in 1 .. Cardinality(at)
      /\ \A i, j \in at : i < j => Rank(at, i) < Rank(at, j)
      /\ \A k \in 1 .. Cardinality(at) : \E i \in at : Rank(at, i) = k
  BY <1>1, RankIsOnto, ConstantTypes
<1>3. 1 \in 1 .. Cardinality(at)
  <2>1. PICK i \in at : TRUE
    BY <1>1
  <2>2. Rank(at, i) \in 1 .. Cardinality(at)
    BY <1>2, <2>1
  <2> QED
    BY <1>2, <2>2
<1>4. PICK i \in at : Rank(at, i) = 1
  BY <1>2, <1>3
<1>5. \A j \in at : i <= j
  <2> SUFFICES ASSUME NEW j \in at, ~(i <= j)
               PROVE  FALSE
    OBVIOUS
  <2>1. j < i
    BY <1>1, ConstantTypes
  <2> QED
    BY <1>2, <1>4, <2>1
<1>6. \E p \in members : \A o \in members : joined[p] <= joined[o]
  BY <1>4, <1>5
<1> HIDE DEF at
<1>7. DOMAIN joined = members
  OBVIOUS
<1> QED
  BY <1>6, <1>7 DEF FirstMember

\* A lobby as Create makes it.
LEMMA NewLobbyGood ==
    ASSUME nextSequence \in 1 .. MaxSequence, now \in Nat,
           NEW p \in Player, NEW capacity \in Capacity
    PROVE  LET x == NewLobby(p, capacity)
           IN  /\ LobbyGood(x, nextSequence + 1) /\ Members(x) = {p} /\ x # None
               /\ Agreed(x, consent)
               /\ x.match = None /\ x.sequence = nextSequence /\ x.deadline = now + LobbyTTL
<1> DEFINE joined == [o \in {p} |-> nextSequence]
           x == NewLobby(p, capacity)
<1>1. joined \in [{p} -> 1 .. MaxSequence] /\ joined[p] = nextSequence
  OBVIOUS
<1>2. joined \in Numbers /\ DOMAIN joined = {p}
  BY <1>1, NumbersOf
<1>3. IsFiniteSet({p}) /\ Cardinality({p}) = 1
  BY FS_Singleton
<1>4. now + LobbyTTL \in Nat /\ capacity \in Nat /\ capacity > 1 /\ nextSequence \in Nat
  BY ConstantTypes
<1>5. x = [owner |-> p, capacity |-> capacity, state |-> "open", revision |-> 1,
           sequence |-> nextSequence, deadline |-> now + LobbyTTL,
           joined |-> joined, ready |-> {}, match |-> None]
  BY DEF NewLobby
<1> HIDE DEF joined, x
<1>6. /\ x.owner = p /\ x.capacity = capacity /\ x.state = "open" /\ x.sequence = nextSequence
      /\ x.joined = joined /\ x.ready = {} /\ x.match = None /\ x.deadline = now + LobbyTTL
  BY <1>5
<1>7. x \in LobbyWith(Numbers)
  BY <1>2, <1>4, <1>5 DEF LobbyWith
<1>8. x \in Lobby /\ x # None
  BY <1>7, LobbyIsWith, ConstantTypes
<1>9. Members(x) = {p}
  BY <1>2, <1>6 DEF Members
<1>10. LobbyGood(x, nextSequence + 1)
  BY <1>1, <1>3, <1>4, <1>6, <1>8, <1>9 DEF LobbyGood
<1> QED
  BY <1>6, <1>8, <1>9, <1>10 DEF Agreed, x

\* A lobby that a player joins: nobody in it is ready any more.
LEMMA JoinedGood ==
    ASSUME nextSequence \in 1 .. MaxSequence, NEW b, LobbyGood(b, nextSequence),
           b.state = "open", NEW p \in Player, p \notin Members(b),
           Cardinality(Members(b)) < b.capacity
    PROVE  LET x == Joined(b, p)
           IN  /\ LobbyGood(x, nextSequence + 1) /\ Members(x) = Members(b) \cup {p} /\ x # None
               /\ Agreed(x, consent)
               /\ x.match = None /\ x.sequence = b.sequence /\ x.deadline = b.deadline
               /\ x.revision = b.revision + 1
<1> DEFINE members == Members(b) \cup {p}
           joined == [o \in members |-> IF o = p THEN nextSequence ELSE b.joined[o]]
           n == nextSequence + 1
           x == Joined(b, p)
<1>1. b \in Lobby /\ b \in LobbyWith(Numbers)
  BY LobbyIsWith DEF LobbyGood
<1>2. /\ b.owner \in Player /\ b.capacity \in Capacity /\ b.capacity \in Nat
      /\ b.revision \in Nat /\ b.sequence \in Nat /\ b.deadline \in Nat
      /\ Members(b) \in SUBSET Player /\ b.joined \in [Members(b) -> 1 .. MaxSequence]
  BY <1>1, LobbyFields
<1>3. /\ members \in SUBSET Player /\ joined \in [members -> 1 .. MaxSequence]
      /\ joined[p] = nextSequence /\ \A o \in Members(b) : joined[o] = b.joined[o]
  BY <1>2
<1>4. joined \in Numbers /\ DOMAIN joined = members
  BY <1>3, NumbersOf
<1>5. IsFiniteSet(members) /\ Cardinality(members) = Cardinality(Members(b)) + 1
      /\ Cardinality(Members(b)) \in Nat
  BY FS_AddElement, FS_CardinalityType DEF LobbyGood
<1>6. Cardinality(members) <= b.capacity
  BY <1>2, <1>5
<1>7. /\ b.owner \in Members(b) /\ b.sequence < nextSequence /\ b.match = None
      /\ \A o \in Members(b) : b.joined[o] < nextSequence /\ b.joined[b.owner] <= b.joined[o]
      /\ \A o, k \in Members(b) : b.joined[o] = b.joined[k] => o = k
  BY DEF LobbyGood
<1>8. x = WithMembers(b, joined, {}, b.revision + 1)
  BY DEF Joined, WithMembers
<1> HIDE DEF joined, x
<1>9. /\ x \in LobbyWith(Numbers)
      /\ x.owner = b.owner /\ x.capacity = b.capacity /\ x.state = b.state
      /\ x.sequence = b.sequence /\ x.revision = b.revision + 1 /\ x.deadline = b.deadline
      /\ x.joined = joined /\ x.ready = {} /\ x.match = b.match
  <2>1. b.revision + 1 \in Nat /\ {} \in SUBSET Player
    BY <1>2
  <2> QED
    BY <1>1, <1>4, <1>8, <2>1, LobbyRejoined
<1>10. x \in Lobby /\ x # None /\ Members(x) = members
  BY <1>4, <1>9, LobbyIsWith, ConstantTypes DEF Members
<1>11. \A o \in members : joined[o] < n
  BY <1>2, <1>3, <1>7
<1>12. \A o, k \in members : joined[o] = joined[k] => o = k
  BY <1>2, <1>3, <1>7
<1>13. \A o \in members : joined[b.owner] <= joined[o]
  BY <1>2, <1>3, <1>7
<1>14. b.sequence < n /\ b.owner \in members
  BY <1>2, <1>7
<1> HIDE DEF members, n
<1>15. LobbyGood(x, n)
  BY <1>5, <1>6, <1>7, <1>9, <1>10, <1>11, <1>12, <1>13, <1>14 DEF LobbyGood
<1> QED
  BY <1>7, <1>9, <1>10, <1>15 DEF Agreed, members, n, x

\* A lobby that a player leaves: its first member owns it, nobody is ready.
LEMMA LeftGood ==
    ASSUME NEW n \in Nat, NEW b, LobbyGood(b, n), b.state = "open",
           NEW p \in Members(b), Members(b) # {p}
    PROVE  LET x == Left(b, p)
           IN  /\ LobbyGood(x, n) /\ Members(x) = Members(b) \ {p} /\ x # None
               /\ \A c : Agreed(x, c)
               /\ x.match = None /\ x.sequence = b.sequence /\ x.deadline = b.deadline
               /\ x.revision = b.revision + 1
<1> DEFINE members == Members(b) \ {p}
           joined == [o \in members |-> b.joined[o]]
           owner == IF b.owner = p THEN FirstMember(joined) ELSE b.owner
           x == Left(b, p)
<1>1. b \in Lobby /\ b \in LobbyWith(Numbers)
  BY LobbyIsWith DEF LobbyGood
<1>2. /\ b.owner \in Player /\ b.capacity \in Capacity /\ b.capacity \in Nat
      /\ b.revision \in Nat /\ b.sequence \in Nat /\ b.deadline \in Nat
      /\ Members(b) \in SUBSET Player /\ b.joined \in [Members(b) -> 1 .. MaxSequence]
  BY <1>1, LobbyFields
<1>3. /\ members \in SUBSET Player /\ members # {} /\ joined \in [members -> 1 .. MaxSequence]
      /\ \A o \in members : joined[o] = b.joined[o]
  BY <1>2
<1>4. joined \in Numbers /\ DOMAIN joined = members
  BY <1>3, NumbersOf
<1>5. IsFiniteSet(members) /\ Cardinality(members) <= b.capacity
  <2>1. IsFiniteSet(Members(b)) /\ Cardinality(Members(b)) <= b.capacity
        /\ Cardinality(Members(b)) \in Nat
    BY FS_CardinalityType DEF LobbyGood
  <2>2. IsFiniteSet(members) /\ Cardinality(members) = Cardinality(Members(b)) - 1
    BY <2>1, FS_RemoveElement
  <2> QED
    BY <1>2, <2>1, <2>2
<1>6. /\ b.owner \in Members(b) /\ b.sequence < n /\ b.match = None
      /\ \A o \in Members(b) : b.joined[o] < n /\ b.joined[b.owner] <= b.joined[o]
      /\ \A o, k \in Members(b) : b.joined[o] = b.joined[k] => o = k
  BY DEF LobbyGood
<1>7. FirstMember(joined) \in members /\ \A o \in members : joined[FirstMember(joined)] <= joined[o]
  BY <1>3, EarliestMember
<1> HIDE DEF joined
<1>8. owner \in members /\ owner \in Player /\ \A o \in members : joined[owner] <= joined[o]
  BY <1>3, <1>6, <1>7
<1>9. x = WithOwner(b, joined, {}, owner, b.revision + 1)
  BY <1>3, <1>4 DEF Left, WithOwner, joined
<1> HIDE DEF x, owner
<1>10. /\ x \in LobbyWith(Numbers)
       /\ x.owner = owner /\ x.capacity = b.capacity /\ x.state = b.state
       /\ x.sequence = b.sequence /\ x.revision = b.revision + 1 /\ x.deadline = b.deadline
       /\ x.joined = joined /\ x.ready = {} /\ x.match = b.match
  <2>1. b.revision + 1 \in Nat /\ {} \in SUBSET Player
    BY <1>2
  <2> QED
    BY <1>1, <1>4, <1>8, <1>9, <2>1, LobbyPassedOn
<1>11. x \in Lobby /\ x # None /\ Members(x) = members
  BY <1>4, <1>10, LobbyIsWith, ConstantTypes DEF Members
<1>12. /\ \A o \in members : joined[o] < n
       /\ \A o, k \in members : joined[o] = joined[k] => o = k
  BY <1>3, <1>6
<1> HIDE DEF members
<1>13. LobbyGood(x, n)
  BY <1>5, <1>6, <1>8, <1>10, <1>11, <1>12 DEF LobbyGood
<1> QED
  BY <1>6, <1>10, <1>11, <1>13 DEF Agreed, members, x

\* A lobby closes with its last member.
LEMMA LastLeaves ==
    ASSUME NEW b, NEW p, Members(b) = {p}
    PROVE  Left(b, p) = None
BY DEF Left

\* A lobby in which a player changes its flag, and the group consented to.
LEMMA ReadiedGood ==
    ASSUME NEW n \in Nat, NEW b, LobbyGood(b, n), b.state = "open", NEW c, Agreed(b, c),
           c \in [Player -> SUBSET Player],
           NEW p \in Members(b), NEW ready \in BOOLEAN, NEW revision \in Nat
    PROVE  LET x == Readied(b, p, ready, revision)
               d == Consented(c, p, ready, Members(b))
           IN  /\ LobbyGood(x, n) /\ Members(x) = Members(b) /\ x # None
               /\ Agreed(x, d)
               /\ x.match = None /\ x.sequence = b.sequence /\ x.deadline = b.deadline
               /\ x.revision = revision + 1
<1> DEFINE flags == IF ready THEN b.ready \cup {p} ELSE b.ready \ {p}
           x == Readied(b, p, ready, revision)
           d == Consented(c, p, ready, Members(b))
<1>1. b \in Lobby /\ b \in LobbyWith(Numbers)
  BY LobbyIsWith DEF LobbyGood
<1>2. Members(b) \in SUBSET Player /\ b.ready \in SUBSET Player /\ b.ready \subseteq Members(b)
      /\ b.match = None
  BY <1>1, LobbyFields DEF LobbyGood
<1>3. flags \in SUBSET Player /\ flags \subseteq Members(b)
  BY <1>2
<1>4. \A o \in flags : d[o] = Members(b)
  BY <1>2, <1>3 DEF Agreed, Consented
<1>5. x = WithReady(b, flags, revision + 1)
  BY DEF Readied, WithReady
<1> HIDE DEF x, flags, d
<1>6. /\ x \in LobbyWith(Numbers)
      /\ x.owner = b.owner /\ x.capacity = b.capacity /\ x.state = b.state
      /\ x.sequence = b.sequence /\ x.revision = revision + 1 /\ x.deadline = b.deadline
      /\ x.joined = b.joined /\ x.ready = flags /\ x.match = b.match
  <2>1. revision + 1 \in Nat
    OBVIOUS
  <2> QED
    BY <1>1, <1>3, <1>5, <2>1, LobbyReadied
<1>7. x \in Lobby /\ x # None /\ Members(x) = Members(b)
  BY <1>6, LobbyIsWith, ConstantTypes DEF Members
<1>8. LobbyGood(x, n)
  BY <1>2, <1>3, <1>6, <1>7 DEF LobbyGood
<1> QED
  BY <1>2, <1>4, <1>6, <1>7, <1>8 DEF Agreed, x, d

\* A lobby that is matched has all its members, all ready.
LEMMA StartedGood ==
    ASSUME NEW n \in Nat, now \in Nat, NEW b, LobbyGood(b, n), NEW c, Agreed(b, c),
           NEW p, Startable(b, p), NEW revision \in Nat, NEW m \in Match
    PROVE  LET x == Started(b, revision, m)
           IN  /\ LobbyGood(x, n) /\ Members(x) = Members(b) /\ x # None
               /\ Agreed(x, c)
               /\ x.match = m /\ x.sequence = b.sequence /\ x.deadline = now + MatchTTL
               /\ x.revision = revision + 1
               /\ x.capacity = Cardinality(Members(b))
<1> DEFINE x == Started(b, revision, m)
           until == now + MatchTTL
           next == revision + 1
<1>1. b \in Lobby /\ b \in LobbyWith(Numbers)
  BY LobbyIsWith DEF LobbyGood
<1>2. until \in Nat /\ next \in Nat /\ m # None
  BY ConstantTypes
<1>3. x = WithMatch(b, next, until, m)
  BY DEF Started, WithMatch
<1> HIDE DEF x, until, next
<1>4. /\ x \in LobbyWith(Numbers)
      /\ x.owner = b.owner /\ x.capacity = b.capacity /\ x.state = "matched"
      /\ x.revision = next /\ x.sequence = b.sequence /\ x.deadline = until
      /\ x.joined = b.joined /\ x.ready = b.ready /\ x.match = m
  BY <1>1, <1>2, <1>3, LobbyMatched
<1>5. x \in Lobby /\ x # None /\ Members(x) = Members(b)
  BY <1>4, LobbyIsWith, ConstantTypes DEF Members
<1>6. LobbyGood(x, n)
  BY <1>2, <1>4, <1>5 DEF LobbyGood, Startable
<1> QED
  BY <1>4, <1>5, <1>6 DEF Agreed, Startable, x, until, next

-----------------------------------------------------------------------------
(***************************************************************************)
(* One lobby of them all, and one seat.                                    *)
(***************************************************************************)
LEMMA LobbyStaysGood ==
    ASSUME NEW n \in Nat, NEW m \in Nat, n <= m, NEW b, LobbyGood(b, n)
    PROVE  LobbyGood(b, m)
<1>1. b \in Lobby
  BY DEF LobbyGood
<1>2. b.sequence \in Nat /\ b.joined \in [Members(b) -> 1 .. MaxSequence]
  BY <1>1, LobbyFields
<1>3. /\ b.sequence < n
      /\ \A p \in Members(b) : b.joined[p] < n
  BY DEF LobbyGood
<1>4. \A p \in Members(b) : b.joined[p] \in Nat
  BY <1>2
<1>5. /\ b.sequence < m
      /\ \A p \in Members(b) : b.joined[p] < m
  BY <1>2, <1>3, <1>4
<1> QED
  BY <1>5 DEF LobbyGood

\* One lobby is set; what was agreed in the others still is.
LEMMA LobbiesSet ==
    ASSUME NEW n \in Nat, NEW m \in Nat, n <= m, NEW L, NEW c, NEW d, LobbiesGood(L, n, c),
           NEW l \in LobbyID, NEW x,
           x = None \/ (LobbyGood(x, m) /\ Agreed(x, d)),
           \A k \in LobbyID \ {l} : L[k] # None => Agreed(L[k], d)
    PROVE  LobbiesGood([L EXCEPT ![l] = x], m, d)
<1> DEFINE K == [L EXCEPT ![l] = x]
<1>1. L \in [LobbyID -> Lobby \cup {None}]
  BY DEF LobbiesGood
<1>2. x \in Lobby \cup {None}
  BY DEF LobbyGood
<1>3. K \in [LobbyID -> Lobby \cup {None}] /\ K[l] = x /\ \A k \in LobbyID \ {l} : K[k] = L[k]
  BY <1>1, <1>2
<1> HIDE DEF K
<1>4. ASSUME NEW k \in LobbyID, K[k] # None
      PROVE  LobbyGood(K[k], m) /\ Agreed(K[k], d)
  <2>1. CASE k = l
    BY <1>3, <1>4, <2>1
  <2>2. CASE k # l
    BY <1>3, <1>4, <2>2, LobbyStaysGood DEF LobbiesGood
  <2> QED
    BY <2>1, <2>2
<1>5. LobbiesGood(K, m, d)
  BY <1>3, <1>4 DEF LobbiesGood
<1> QED
  BY <1>5 DEF K

MembersIn(L, l) == IF L[l] = None THEN {} ELSE Members(L[l])

\* A player takes a seat in a lobby or leaves it.
LEMMA SeatsMove ==
    ASSUME NEW L \in [LobbyID -> Lobby \cup {None}], NEW O, NEW T, SeatsGood(L, O, T),
           NEW p \in Player, NEW l \in LobbyID, NEW x, NEW seat,
           O[p] \in {None, l}, seat \in {None, l}, seat = l => T[p] = None,
           (IF x = None THEN {} ELSE Members(x))
              = (MembersIn(L, l) \ {p}) \cup (IF seat = l THEN {p} ELSE {})
    PROVE  SeatsGood([L EXCEPT ![l] = x], [O EXCEPT ![p] = seat], T)
<1> DEFINE K == [L EXCEPT ![l] = x]
           N == [O EXCEPT ![p] = seat]
<1>1. /\ O \in [Player -> LobbyID \cup {None}]
      /\ \A o \in Player, k \in LobbyID : O[o] = k <=> L[k] # None /\ o \in Members(L[k])
      /\ \A o \in Player : O[o] # None => T[o] = None
  BY DEF SeatsGood
<1>2. K[l] = x /\ \A k \in LobbyID \ {l} : K[k] = L[k]
  OBVIOUS
<1>3. N \in [Player -> LobbyID \cup {None}] /\ N[p] = seat /\ \A o \in Player \ {p} : N[o] = O[o]
  BY <1>1
<1>4. l # None
  BY ConstantTypes
<1> HIDE DEF K, N
<1>5. ASSUME NEW o \in Player, NEW k \in LobbyID
      PROVE  N[o] = k <=> K[k] # None /\ o \in Members(K[k])
  <2>1. CASE k = l
    <3>1. K[k] # None /\ o \in Members(K[k])
          <=> o \in (MembersIn(L, l) \ {p}) \cup (IF seat = l THEN {p} ELSE {})
      BY <1>2, <2>1
    <3>2. o \in MembersIn(L, l) <=> O[o] = l
      BY <1>1 DEF MembersIn
    <3> QED
      BY <1>3, <1>4, <2>1, <3>1, <3>2
  <2>2. CASE k # l
    BY <1>1, <1>2, <1>3, <2>2, ConstantTypes
  <2> QED
    BY <2>1, <2>2
<1>6. \A o \in Player : N[o] # None => T[o] = None
  BY <1>1, <1>3
<1>7. SeatsGood(K, N, T)
  BY <1>3, <1>5, <1>6 DEF SeatsGood
<1> QED
  BY <1>7 DEF K, N

\* While a lobby is not matched, who is in it is nothing to the matches.
LEMMA MatchesMove ==
    ASSUME NEW L \in [LobbyID -> Lobby \cup {None}], NEW O, NEW T, NEW M, NEW R,
           NEW p \in Player, NEW l \in LobbyID, NEW x, NEW seat, NEW K, NEW N,
           K = [L EXCEPT ![l] = x], N = [O EXCEPT ![p] = seat],
           SeatsGood(L, O, T), SeatsGood(K, N, T), MatchesGood(L, O, T, M, R),
           O[p] \in {None, l}, seat \in {None, l},
           L[l] = None \/ L[l].match = None, x = None \/ x.match = None
    PROVE  MatchesGood(K, N, T, M, R)
<1>1. K[l] = x /\ \A k \in LobbyID \ {l} : K[k] = L[k]
  OBVIOUS
<1>2. O \in [Player -> LobbyID \cup {None}]
  BY DEF SeatsGood
<1>3. N \in [Player -> LobbyID \cup {None}] /\ N[p] = seat /\ \A o \in Player \ {p} : N[o] = O[o]
  BY <1>2 DEF SeatsGood
<1>4. ASSUME NEW m \in Match
      PROVE  HoldersIn(K, N, T, m) = HoldersIn(L, O, T, m)
  <2>1. m # None
    BY ConstantTypes
  <2>2. ASSUME NEW o \in Player
        PROVE  N[o] # None /\ K[N[o]].match = m <=> O[o] # None /\ L[O[o]].match = m
    <3>1. O[o] = l => L[l] # None
      BY DEF SeatsGood
    <3>2. N[o] = l => K[l] # None
      BY DEF SeatsGood
    <3>3. ~(O[o] = l /\ L[l].match = m) /\ ~(N[o] = l /\ K[l].match = m)
      BY <1>1, <2>1, <3>1, <3>2
    <3>4. (O[o] = N[o]) \/ (O[o] \in {None, l} /\ N[o] \in {None, l})
      BY <1>3
    <3> QED
      BY <1>1, <1>2, <1>3, <3>3, <3>4
  <2> QED
    BY <2>2 DEF HoldersIn
<1>5. ASSUME NEW m \in M
      PROVE  Remembered(K, N, T, R[m], m)
  <2>1. m \in Match /\ Remembered(L, O, T, R[m], m) /\ m # None
    BY ConstantTypes DEF MatchesGood
  <2>2. ASSUME NEW k \in LobbyID, K[k] # None, K[k].match = m
        PROVE  L[k] # None /\ L[k].match = m /\ K[k] = L[k]
    BY <1>1, <2>1, <2>2
  <2> QED
    BY <1>4, <2>1, <2>2 DEF Remembered
<1>6. ASSUME NEW m \in Match \ M
      PROVE  Forgotten(K, N, T, R[m], m)
  BY <1>4 DEF MatchesGood, Forgotten
<1> QED
  BY <1>5, <1>6 DEF MatchesGood

\* A lobby is matched: its members hold the new match, and nobody else.
LEMMA MatchesStarted ==
    ASSUME NEW L \in [LobbyID -> Lobby \cup {None}], NEW O, NEW T, NEW M, NEW R,
           NEW l \in LobbyID, NEW x, NEW K, K = [L EXCEPT ![l] = x],
           SeatsGood(L, O, T), MatchesGood(L, O, T, M, R),
           L[l] \in Lobby, L[l] # None, L[l].match = None, Members(L[l]) # {},
           NEW m \in Match \ M, x # None, x.match = m, Members(x) = Members(L[l]),
           x.capacity = Cardinality(Members(L[l])),
           \A k \in LobbyID : L[k] # None /\ L[k].match # None => L[k].match \in M,
           \A o \in Player : T[o] # None /\ T[o].match # None => T[o].match \in M
    PROVE  MatchesGood(K, O, T, M \cup {m}, [R EXCEPT ![m] = Allocated(Members(L[l]))])
<1> DEFINE S == [R EXCEPT ![m] = Allocated(Members(L[l]))]
<1>1. K[l] = x /\ \A k \in LobbyID \ {l} : K[k] = L[k]
  OBVIOUS
<1>2. /\ O \in [Player -> LobbyID \cup {None}] /\ l # None /\ m # None
      /\ \A o \in Player, k \in LobbyID : O[o] = k <=> L[k] # None /\ o \in Members(L[k])
  BY ConstantTypes DEF SeatsGood
<1>3. M \subseteq Match /\ R \in [Match -> [state : RoomState, players : SUBSET Player]]
  BY DEF MatchesGood
<1>4. Members(L[l]) \in SUBSET Player
  BY LobbyFields
<1>5. /\ Allocated(Members(L[l])) \in [state : RoomState, players : SUBSET Player]
      /\ Allocated(Members(L[l])).players = Members(L[l])
      /\ Allocated(Members(L[l])).state = "open"
  BY <1>4 DEF Allocated, RoomState
<1>6. S \in [Match -> [state : RoomState, players : SUBSET Player]]
      /\ S[m] = Allocated(Members(L[l])) /\ \A k \in Match \ {m} : S[k] = R[k]
  BY <1>3, <1>5
<1> HIDE DEF S
<1>7. ASSUME NEW k \in Match, k # m
      PROVE  HoldersIn(K, O, T, k) = HoldersIn(L, O, T, k)
  <2>1. k # None
    BY ConstantTypes
  <2>2. ASSUME NEW o \in Player, O[o] # None
        PROVE  K[O[o]].match = k <=> L[O[o]].match = k
    BY <1>1, <1>2, <1>7, <2>1, <2>2
  <2> QED
    BY <2>2 DEF HoldersIn
<1>8. HoldersIn(K, O, T, m) = Members(L[l])
  <2>1. \A o \in Player : ~(T[o] # None /\ T[o].match = m)
    BY <1>2
  <2>2. ASSUME NEW o \in Player
        PROVE  O[o] # None /\ K[O[o]].match = m <=> O[o] = l
    <3>1. O[o] # None /\ O[o] # l => L[O[o]] # None /\ L[O[o]].match # m
      BY <1>2
    <3> QED
      BY <1>1, <1>2, <3>1
  <2>3. \A o \in Player : O[o] = l <=> o \in Members(L[l])
    BY <1>2
  <2> QED
    BY <1>4, <2>1, <2>2, <2>3 DEF HoldersIn
<1>9. Remembered(K, O, T, S[m], m)
  <2>1. ASSUME NEW k \in LobbyID, K[k] # None, K[k].match = m
        PROVE  k = l
    BY <1>1, <1>2, <2>1
  <2>2. ASSUME NEW o \in Player, T[o] # None, T[o].match = m
        PROVE  FALSE
    BY <1>2, <2>2
  <2> QED
    BY <1>1, <1>5, <1>6, <1>8, <2>1, <2>2 DEF Remembered
<1>10. ASSUME NEW k \in M
       PROVE  Remembered(K, O, T, S[k], k)
  <2>1. k \in Match /\ k # m /\ S[k] = R[k] /\ Remembered(L, O, T, R[k], k)
    BY <1>3, <1>6 DEF MatchesGood
  <2>2. HoldersIn(K, O, T, k) = R[k].players
    BY <1>7, <2>1 DEF Remembered
  <2>3. ASSUME NEW j \in LobbyID, K[j] # None, K[j].match = k
        PROVE  Cardinality(R[k].players) = K[j].capacity /\ Members(K[j]) = R[k].players
    <3>1. L[j] # None /\ L[j].match = k /\ K[j] = L[j]
      BY <1>1, <2>1, <2>3
    <3> QED
      BY <2>1, <3>1 DEF Remembered
  <2> QED
    BY <2>1, <2>2, <2>3 DEF Remembered
<1>11. ASSUME NEW k \in Match \ (M \cup {m})
       PROVE  Forgotten(K, O, T, S[k], k)
  BY <1>6, <1>7 DEF MatchesGood, Forgotten
<1>12. MatchesGood(K, O, T, M \cup {m}, S)
  BY <1>3, <1>6, <1>9, <1>10, <1>11 DEF MatchesGood
<1> QED
  BY <1>12 DEF S

\* The end of a room is nothing to those who hold its match.
LEMMA MatchesRoomEnds ==
    ASSUME NEW L, NEW O, NEW T, NEW M, NEW R, MatchesGood(L, O, T, M, R),
           NEW m \in Match
    PROVE  MatchesGood(L, O, T, M, [R EXCEPT ![m].state = "ended"])
<1> DEFINE S == [R EXCEPT ![m].state = "ended"]
<1>1. R \in [Match -> [state : RoomState, players : SUBSET Player]]
  BY DEF MatchesGood
<1>2. R[m] \in [state : RoomState, players : SUBSET Player]
  BY <1>1
<1>3. [R[m] EXCEPT !.state = "ended"] \in [state : RoomState, players : SUBSET Player]
      /\ [R[m] EXCEPT !.state = "ended"].state = "ended"
      /\ [R[m] EXCEPT !.state = "ended"].players = R[m].players
  BY <1>2 DEF RoomState
<1>4. S \in [Match -> [state : RoomState, players : SUBSET Player]]
      /\ S[m].state = "ended" /\ (\A k \in Match : S[k].players = R[k].players)
      /\ (\A k \in Match \ {m} : S[k] = R[k])
  BY <1>1, <1>3
<1> HIDE DEF S
<1>5. ASSUME NEW k \in M
      PROVE  Remembered(L, O, T, S[k], k)
  <2>1. k \in Match /\ Remembered(L, O, T, R[k], k)
    BY DEF MatchesGood
  <2>2. S[k].players = R[k].players /\ S[k].state # "unused"
    BY <1>4, <2>1 DEF Remembered
  <2> QED
    BY <2>1, <2>2 DEF Remembered
<1>6. ASSUME NEW k \in Match \ M
      PROVE  Forgotten(L, O, T, S[k], k)
  BY <1>4 DEF MatchesGood, Forgotten
<1>7. MatchesGood(L, O, T, M, S)
  BY <1>4, <1>5, <1>6 DEF MatchesGood
<1> QED
  BY <1>7 DEF S

-----------------------------------------------------------------------------
(***************************************************************************)
(* Every action keeps the invariant.                                       *)
(***************************************************************************)
LEMMA TicketsStayGood ==
    ASSUME NEW n \in Nat, NEW m \in Nat, n <= m, NEW T, TicketsGood(T, n)
    PROVE  TicketsGood(T, m)
<1>1. ASSUME NEW p \in Player, T[p] # None
      PROVE  T[p].sequence < m
  <2>1. T[p] \in Ticket /\ T[p].sequence < n
    BY <1>1 DEF TicketsGood, TicketGood
  <2> QED
    BY <2>1, TicketFields
<1> QED
  BY <1>1 DEF TicketsGood, TicketGood

\* Create keeps the invariant.
LEMMA CreateKeeps ==
    ASSUME IInv, NEW p \in Player, NEW l \in LobbyID, NEW capacity \in Capacity,
           Create(p, l, capacity)
    PROVE  IInv'
<1> DEFINE x == NewLobby(p, capacity)
<1>1. /\ SweptLobbyOf[p] = None /\ SweptTickets[p] = None /\ SweptLobbies[l] = None
      /\ nextSequence < MaxSequence
      /\ lobbies' = [SweptLobbies EXCEPT ![l] = x]
      /\ lobbyOf' = [SweptLobbyOf EXCEPT ![p] = l]
      /\ tickets' = SweptTickets /\ queues' = SweptQueues
      /\ matchIDs' = SweptMatches /\ rooms' = SweptRooms
      /\ nextSequence' = nextSequence + 1 /\ now' = now /\ consent' = consent
  BY CreateEffect
<1>2. /\ now \in Nat /\ nextSequence \in 1 .. MaxSequence /\ MaxSequence \in Nat
      /\ consent \in [Player -> SUBSET Player]
  BY ConstantTypes DEF IInv
<1>3. /\ LobbiesGood(SweptLobbies, nextSequence, consent)
      /\ TicketsGood(SweptTickets, nextSequence)
      /\ SeatsGood(SweptLobbies, SweptLobbyOf, SweptTickets)
      /\ QueuesGood(SweptTickets, SweptQueues)
      /\ MatchesGood(SweptLobbies, SweptLobbyOf, SweptTickets, SweptMatches, SweptRooms)
  BY SweptSound DEF Sound
<1>4. /\ LobbyGood(x, nextSequence + 1) /\ Members(x) = {p} /\ x # None
      /\ Agreed(x, consent) /\ x.match = None
  BY <1>2, NewLobbyGood
<1>5. SweptLobbies \in [LobbyID -> Lobby \cup {None}]
      /\ \A k \in LobbyID : SweptLobbies[k] # None => Agreed(SweptLobbies[k], consent)
  BY <1>3 DEF LobbiesGood
<1> HIDE DEF x
<1>6. nextSequence + 1 \in 1 .. MaxSequence /\ nextSequence \in Nat /\ nextSequence + 1 \in Nat
      /\ nextSequence <= nextSequence + 1
  BY <1>1, <1>2
<1>7. LobbiesGood(lobbies', nextSequence', consent')
  BY <1>1, <1>3, <1>4, <1>5, <1>6, LobbiesSet
<1>8. TicketsGood(tickets', nextSequence')
  BY <1>1, <1>3, <1>6, TicketsStayGood
<1>9. SeatsGood(lobbies', lobbyOf', tickets')
  <2>1. (IF x = None THEN {} ELSE Members(x))
           = (MembersIn(SweptLobbies, l) \ {p}) \cup (IF l = l THEN {p} ELSE {})
    BY <1>1, <1>4 DEF MembersIn
  <2> QED
    BY <1>1, <1>3, <1>5, <2>1, SeatsMove
<1>10. QueuesGood(tickets', queues')
  BY <1>1, <1>3
<1>11. MatchesGood(lobbies', lobbyOf', tickets', matchIDs', rooms')
  <2>1. /\ SweptLobbies \in [LobbyID -> Lobby \cup {None}]
        /\ SeatsGood(SweptLobbies, SweptLobbyOf, SweptTickets)
        /\ MatchesGood(SweptLobbies, SweptLobbyOf, SweptTickets, SweptMatches, SweptRooms)
        /\ SweptLobbyOf[p] \in {None, l} /\ l \in {None, l}
    BY <1>1, <1>3, <1>5
  <2>2. /\ SweptLobbies[l] = None \/ SweptLobbies[l].match = None
        /\ x = None \/ x.match = None
    BY <1>1, <1>4
  <2>3. SeatsGood([SweptLobbies EXCEPT ![l] = x], [SweptLobbyOf EXCEPT ![p] = l], SweptTickets)
    BY <1>1, <1>9
  <2>4. MatchesGood([SweptLobbies EXCEPT ![l] = x], [SweptLobbyOf EXCEPT ![p] = l],
                    SweptTickets, SweptMatches, SweptRooms)
    BY <2>1, <2>2, <2>3, MatchesMove
  <2> QED
    BY <1>1, <2>4
<1> QED
  BY <1>1, <1>2, <1>6, <1>7, <1>8, <1>9, <1>10, <1>11 DEF IInv, Sound

\* Join keeps it.
LEMMA JoinKeeps ==
    ASSUME IInv, NEW p \in Player, NEW l \in LobbyID, NEW revision \in Nat, Join(p, l, revision)
    PROVE  IInv'
<1> DEFINE b == SweptLobbies[l]
           x == Joined(b, p)
<1>1. /\ SweptLobbyOf[p] = None /\ SweptTickets[p] = None
      /\ b # None /\ b.state = "open" /\ Cardinality(Members(b)) < b.capacity
      /\ nextSequence < MaxSequence
      /\ lobbies' = [SweptLobbies EXCEPT ![l] = x]
      /\ lobbyOf' = [SweptLobbyOf EXCEPT ![p] = l]
      /\ tickets' = SweptTickets /\ queues' = SweptQueues
      /\ matchIDs' = SweptMatches /\ rooms' = SweptRooms
      /\ nextSequence' = nextSequence + 1 /\ now' = now /\ consent' = consent
  BY JoinEffect DEF Current
<1>2. /\ now \in Nat /\ nextSequence \in 1 .. MaxSequence /\ MaxSequence \in Nat
      /\ consent \in [Player -> SUBSET Player]
  BY ConstantTypes DEF IInv
<1>3. /\ LobbiesGood(SweptLobbies, nextSequence, consent)
      /\ TicketsGood(SweptTickets, nextSequence)
      /\ SeatsGood(SweptLobbies, SweptLobbyOf, SweptTickets)
      /\ QueuesGood(SweptTickets, SweptQueues)
      /\ MatchesGood(SweptLobbies, SweptLobbyOf, SweptTickets, SweptMatches, SweptRooms)
  BY SweptSound DEF Sound
<1>4. LobbyGood(b, nextSequence) /\ b.match = None /\ p \notin Members(b)
  BY <1>1, <1>3, ConstantTypes DEF LobbiesGood, LobbyGood, SeatsGood
<1>5. SweptLobbies \in [LobbyID -> Lobby \cup {None}]
      /\ \A k \in LobbyID : SweptLobbies[k] # None => Agreed(SweptLobbies[k], consent)
  BY <1>3 DEF LobbiesGood
<1> HIDE DEF b
<1>6. /\ LobbyGood(x, nextSequence + 1) /\ Members(x) = Members(b) \cup {p} /\ x # None
      /\ Agreed(x, consent) /\ x.match = None
  BY <1>1, <1>2, <1>4, JoinedGood
<1> HIDE DEF x
<1>7. nextSequence + 1 \in 1 .. MaxSequence /\ nextSequence \in Nat /\ nextSequence + 1 \in Nat
      /\ nextSequence <= nextSequence + 1
  BY <1>1, <1>2
<1>8. LobbiesGood(lobbies', nextSequence', consent')
  BY <1>1, <1>3, <1>5, <1>6, <1>7, LobbiesSet
<1>9. TicketsGood(tickets', nextSequence')
  BY <1>1, <1>3, <1>7, TicketsStayGood
<1>10. SeatsGood(lobbies', lobbyOf', tickets')
  <2>1. (IF x = None THEN {} ELSE Members(x))
           = (MembersIn(SweptLobbies, l) \ {p}) \cup (IF l = l THEN {p} ELSE {})
    BY <1>1, <1>4, <1>6 DEF MembersIn, b
  <2> QED
    BY <1>1, <1>3, <1>5, <2>1, SeatsMove
<1>11. QueuesGood(tickets', queues')
  BY <1>1, <1>3
<1>12. MatchesGood(lobbies', lobbyOf', tickets', matchIDs', rooms')
  <2>1. /\ SweptLobbies \in [LobbyID -> Lobby \cup {None}]
        /\ SeatsGood(SweptLobbies, SweptLobbyOf, SweptTickets)
        /\ MatchesGood(SweptLobbies, SweptLobbyOf, SweptTickets, SweptMatches, SweptRooms)
        /\ SweptLobbyOf[p] \in {None, l} /\ l \in {None, l}
    BY <1>1, <1>3, <1>5
  <2>2. /\ SweptLobbies[l] = None \/ SweptLobbies[l].match = None
        /\ x = None \/ x.match = None
    BY <1>4, <1>6 DEF b
  <2>3. SeatsGood([SweptLobbies EXCEPT ![l] = x], [SweptLobbyOf EXCEPT ![p] = l], SweptTickets)
    BY <1>1, <1>10
  <2>4. MatchesGood([SweptLobbies EXCEPT ![l] = x], [SweptLobbyOf EXCEPT ![p] = l],
                    SweptTickets, SweptMatches, SweptRooms)
    BY <2>1, <2>2, <2>3, MatchesMove
  <2> QED
    BY <1>1, <2>4
<1> QED
  BY <1>1, <1>2, <1>7, <1>8, <1>9, <1>10, <1>11, <1>12 DEF IInv, Sound

\* Leave keeps it.
LEMMA LeaveKeeps ==
    ASSUME IInv, NEW p \in Player, NEW l \in LobbyID, NEW revision \in Nat, Leave(p, l, revision)
    PROVE  IInv'
<1> DEFINE b == SweptLobbies[l]
           x == Left(b, p)
<1>1. /\ b # None /\ b.state = "open" /\ p \in Members(b)
      /\ lobbies' = [SweptLobbies EXCEPT ![l] = x]
      /\ lobbyOf' = [SweptLobbyOf EXCEPT ![p] = None]
      /\ tickets' = SweptTickets /\ queues' = SweptQueues
      /\ matchIDs' = SweptMatches /\ rooms' = SweptRooms
      /\ nextSequence' = nextSequence /\ now' = now /\ consent' = consent
  BY LeaveEffect DEF Current
<1>2. /\ now \in Nat /\ nextSequence \in 1 .. MaxSequence /\ nextSequence \in Nat
      /\ nextSequence <= nextSequence
      /\ consent \in [Player -> SUBSET Player]
  BY ConstantTypes DEF IInv
<1>3. /\ LobbiesGood(SweptLobbies, nextSequence, consent)
      /\ TicketsGood(SweptTickets, nextSequence)
      /\ SeatsGood(SweptLobbies, SweptLobbyOf, SweptTickets)
      /\ QueuesGood(SweptTickets, SweptQueues)
      /\ MatchesGood(SweptLobbies, SweptLobbyOf, SweptTickets, SweptMatches, SweptRooms)
  BY SweptSound DEF Sound
<1>4. LobbyGood(b, nextSequence) /\ b.match = None /\ SweptLobbyOf[p] = l
  BY <1>1, <1>3 DEF LobbiesGood, LobbyGood, SeatsGood
<1>5. SweptLobbies \in [LobbyID -> Lobby \cup {None}]
      /\ \A k \in LobbyID : SweptLobbies[k] # None => Agreed(SweptLobbies[k], consent)
  BY <1>3 DEF LobbiesGood
<1> HIDE DEF b
<1>6. \/ x = None /\ Members(b) = {p}
      \/ /\ LobbyGood(x, nextSequence) /\ Members(x) = Members(b) \ {p} /\ x # None
         /\ Agreed(x, consent) /\ x.match = None
  BY <1>1, <1>2, <1>4, LeftGood, LastLeaves
<1> HIDE DEF x
<1>7. LobbiesGood(lobbies', nextSequence', consent')
  BY <1>1, <1>2, <1>3, <1>5, <1>6, LobbiesSet
<1>8. SeatsGood(lobbies', lobbyOf', tickets')
  <2>1. (IF x = None THEN {} ELSE Members(x))
           = (MembersIn(SweptLobbies, l) \ {p}) \cup (IF None = l THEN {p} ELSE {})
    BY <1>1, <1>6, ConstantTypes DEF MembersIn, b
  <2>2. /\ SweptLobbies \in [LobbyID -> Lobby \cup {None}]
        /\ SeatsGood(SweptLobbies, SweptLobbyOf, SweptTickets)
        /\ SweptLobbyOf[p] \in {None, l} /\ None \in {None, l} /\ None # l
    BY <1>3, <1>4, <1>5, ConstantTypes
  <2>3. SeatsGood([SweptLobbies EXCEPT ![l] = x], [SweptLobbyOf EXCEPT ![p] = None], SweptTickets)
    BY <2>1, <2>2, SeatsMove
  <2> QED
    BY <1>1, <2>3
<1>9. MatchesGood(lobbies', lobbyOf', tickets', matchIDs', rooms')
  <2>1. /\ SweptLobbies \in [LobbyID -> Lobby \cup {None}]
        /\ SeatsGood(SweptLobbies, SweptLobbyOf, SweptTickets)
        /\ MatchesGood(SweptLobbies, SweptLobbyOf, SweptTickets, SweptMatches, SweptRooms)
        /\ SweptLobbyOf[p] \in {None, l} /\ None \in {None, l}
    BY <1>3, <1>4, <1>5
  <2>2. /\ SweptLobbies[l] = None \/ SweptLobbies[l].match = None
        /\ x = None \/ x.match = None
    BY <1>4, <1>6 DEF b
  <2>3. SeatsGood([SweptLobbies EXCEPT ![l] = x], [SweptLobbyOf EXCEPT ![p] = None], SweptTickets)
    BY <1>1, <1>8
  <2>4. MatchesGood([SweptLobbies EXCEPT ![l] = x], [SweptLobbyOf EXCEPT ![p] = None],
                    SweptTickets, SweptMatches, SweptRooms)
    BY <2>1, <2>2, <2>3, MatchesMove
  <2> QED
    BY <1>1, <2>4
<1> QED
  BY <1>1, <1>2, <1>3, <1>7, <1>8, <1>9 DEF IInv, Sound

\* SetReady keeps it: who declares itself elsewhere is not ready here.
LEMMA SetReadyKeeps ==
    ASSUME IInv, NEW p \in Player, NEW l \in LobbyID, NEW revision \in Nat, NEW ready \in BOOLEAN,
           SetReady(p, l, revision, ready)
    PROVE  IInv'
<1> DEFINE b == SweptLobbies[l]
           x == Readied(b, p, ready, revision)
           d == Consented(consent, p, ready, Members(b))
<1>1. /\ b # None /\ b.state = "open" /\ p \in Members(b)
      /\ lobbies' = [SweptLobbies EXCEPT ![l] = x]
      /\ lobbyOf' = SweptLobbyOf
      /\ tickets' = SweptTickets /\ queues' = SweptQueues
      /\ matchIDs' = SweptMatches /\ rooms' = SweptRooms
      /\ nextSequence' = nextSequence /\ now' = now /\ consent' = d
  BY SetReadyEffect DEF Current, Consented
<1>2. /\ now \in Nat /\ nextSequence \in 1 .. MaxSequence /\ nextSequence \in Nat
      /\ nextSequence <= nextSequence
      /\ consent \in [Player -> SUBSET Player]
  BY ConstantTypes DEF IInv
<1>3. /\ LobbiesGood(SweptLobbies, nextSequence, consent)
      /\ TicketsGood(SweptTickets, nextSequence)
      /\ SeatsGood(SweptLobbies, SweptLobbyOf, SweptTickets)
      /\ QueuesGood(SweptTickets, SweptQueues)
      /\ MatchesGood(SweptLobbies, SweptLobbyOf, SweptTickets, SweptMatches, SweptRooms)
  BY SweptSound DEF Sound
<1>4. LobbyGood(b, nextSequence) /\ b.match = None /\ Agreed(b, consent) /\ b \in Lobby
      /\ SweptLobbyOf[p] = l /\ SweptTickets[p] = None
  BY <1>1, <1>3, ConstantTypes DEF LobbiesGood, LobbyGood, SeatsGood
<1>5. SweptLobbies \in [LobbyID -> Lobby \cup {None}]
      /\ \A k \in LobbyID : SweptLobbies[k] # None =>
            Agreed(SweptLobbies[k], consent) /\ SweptLobbies[k].ready \subseteq Members(SweptLobbies[k])
  BY <1>3 DEF LobbiesGood, LobbyGood
<1>6. Members(b) \in SUBSET Player
  BY <1>4, LobbyFields
<1>7. d \in [Player -> SUBSET Player] /\ \A o \in Player \ {p} : d[o] = consent[o]
  BY <1>2, <1>6 DEF Consented
<1>8. ASSUME NEW k \in LobbyID \ {l}, SweptLobbies[k] # None
      PROVE  Agreed(SweptLobbies[k], d)
  <2>1. p \notin Members(SweptLobbies[k])
    BY <1>3, <1>4, <1>8 DEF SeatsGood
  <2>2. SweptLobbies[k].ready \subseteq Members(SweptLobbies[k]) /\ Agreed(SweptLobbies[k], consent)
    BY <1>5, <1>8
  <2>3. \A o \in SweptLobbies[k].ready : o \in Player
    <3>1. SweptLobbies[k] \in Lobby
      BY <1>5, <1>8
    <3> QED
      BY <3>1, LobbyFields
  <2> QED
    BY <1>7, <2>1, <2>2, <2>3 DEF Agreed
<1> HIDE DEF b
<1>9. /\ LobbyGood(x, nextSequence) /\ Members(x) = Members(b) /\ x # None
      /\ Agreed(x, d) /\ x.match = None
  BY <1>1, <1>2, <1>4, ReadiedGood
<1> HIDE DEF x, d
<1>10. LobbiesGood(lobbies', nextSequence', consent')
  BY <1>1, <1>2, <1>3, <1>8, <1>9, LobbiesSet
<1>11. /\ lobbies' = [SweptLobbies EXCEPT ![l] = x]
       /\ lobbyOf' = [SweptLobbyOf EXCEPT ![p] = l]
       /\ tickets' = SweptTickets /\ matchIDs' = SweptMatches /\ rooms' = SweptRooms
       /\ SweptLobbies[l] # None /\ SweptLobbies[l].match = None
  BY <1>1, <1>3, <1>4 DEF SeatsGood, b
<1>12. SeatsGood(lobbies', lobbyOf', tickets')
  <2>1. (IF x = None THEN {} ELSE Members(x))
           = (MembersIn(SweptLobbies, l) \ {p}) \cup (IF l = l THEN {p} ELSE {})
    BY <1>1, <1>9 DEF MembersIn, b
  <2> QED
    BY <1>3, <1>4, <1>5, <1>11, <2>1, SeatsMove
<1>13. MatchesGood(lobbies', lobbyOf', tickets', matchIDs', rooms')
  BY <1>3, <1>4, <1>5, <1>9, <1>11, <1>12, MatchesMove
<1> QED
  BY <1>1, <1>2, <1>3, <1>7, <1>10, <1>12, <1>13 DEF IInv, Sound

\* Start keeps it.
LEMMA StartKeeps ==
    ASSUME IInv, NEW p \in Player, NEW l \in LobbyID, NEW revision \in Nat, NEW m \in Match,
           Start(p, l, revision, m)
    PROVE  IInv'
<1> DEFINE b == SweptLobbies[l]
           x == Started(b, revision, m)
<1>1. /\ b # None /\ b.state = "open" /\ Startable(b, p) /\ m \notin SweptMatches
      /\ lobbies' = [SweptLobbies EXCEPT ![l] = x]
      /\ lobbyOf' = SweptLobbyOf
      /\ tickets' = SweptTickets /\ queues' = SweptQueues
      /\ matchIDs' = SweptMatches \cup {m}
      /\ rooms' = [SweptRooms EXCEPT ![m] = Allocated(Members(b))]
      /\ nextSequence' = nextSequence /\ now' = now /\ consent' = consent
  BY StartEffect DEF Current
<1>2. /\ now \in Nat /\ nextSequence \in 1 .. MaxSequence /\ nextSequence \in Nat
      /\ nextSequence <= nextSequence
      /\ consent \in [Player -> SUBSET Player]
  BY ConstantTypes DEF IInv
<1>3. /\ LobbiesGood(SweptLobbies, nextSequence, consent)
      /\ TicketsGood(SweptTickets, nextSequence)
      /\ SeatsGood(SweptLobbies, SweptLobbyOf, SweptTickets)
      /\ QueuesGood(SweptTickets, SweptQueues)
      /\ MatchesGood(SweptLobbies, SweptLobbyOf, SweptTickets, SweptMatches, SweptRooms)
  BY SweptSound DEF Sound
<1>4. LobbyGood(b, nextSequence) /\ b.match = None /\ b \in Lobby /\ Agreed(b, consent)
      /\ b.owner \in Members(b) /\ b.owner \in Player
  BY <1>1, <1>3, LobbyFields DEF LobbiesGood, LobbyGood
<1>5. SweptLobbies \in [LobbyID -> Lobby \cup {None}]
      /\ \A k \in LobbyID : SweptLobbies[k] # None => Agreed(SweptLobbies[k], consent)
  BY <1>3 DEF LobbiesGood
<1>6. SweptLobbyOf[b.owner] = l /\ SweptTickets[b.owner] = None
  BY <1>1, <1>3, <1>4, ConstantTypes DEF SeatsGood
<1>7. /\ \A k \in LobbyID : SweptLobbies[k] # None /\ SweptLobbies[k].match # None =>
            SweptLobbies[k].match \in SweptMatches
      /\ \A o \in Player : SweptTickets[o] # None /\ SweptTickets[o].match # None =>
            SweptTickets[o].match \in SweptMatches
  BY <1>3, NamedIsRemembered
<1> HIDE DEF b
<1>8. /\ LobbyGood(x, nextSequence) /\ Members(x) = Members(b) /\ x # None
      /\ Agreed(x, consent) /\ x.match = m /\ x.capacity = Cardinality(Members(b))
  BY <1>1, <1>2, <1>4, StartedGood
<1> HIDE DEF x
<1>9. LobbiesGood(lobbies', nextSequence', consent')
  BY <1>1, <1>2, <1>3, <1>5, <1>8, LobbiesSet
<1>10. SeatsGood(lobbies', lobbyOf', tickets')
  <2> DEFINE o == b.owner
  <2>1. /\ lobbies' = [SweptLobbies EXCEPT ![l] = x]
        /\ lobbyOf' = [SweptLobbyOf EXCEPT ![o] = l]
        /\ tickets' = SweptTickets /\ o \in Player
        /\ SweptLobbyOf[o] = l /\ SweptTickets[o] = None
    BY <1>1, <1>3, <1>4, <1>6 DEF SeatsGood
  <2>2. (IF x = None THEN {} ELSE Members(x))
           = (MembersIn(SweptLobbies, l) \ {o}) \cup (IF l = l THEN {o} ELSE {})
    BY <1>1, <1>4, <1>8 DEF MembersIn, b
  <2> HIDE DEF o
  <2> QED
    BY <1>3, <1>5, <2>1, <2>2, SeatsMove
<1>11. MatchesGood(lobbies', lobbyOf', tickets', matchIDs', rooms')
  BY <1>1, <1>3, <1>4, <1>5, <1>7, <1>8, MatchesStarted DEF b
<1> QED
  BY <1>1, <1>2, <1>3, <1>9, <1>10, <1>11 DEF IInv, Sound

\* Expire keeps it.
LEMMA ExpireKeeps ==
    ASSUME IInv, Expire
    PROVE  IInv'
<1>1. /\ lobbies' = SweptLobbies /\ lobbyOf' = SweptLobbyOf
      /\ tickets' = SweptTickets /\ queues' = SweptQueues
      /\ matchIDs' = SweptMatches /\ rooms' = SweptRooms
      /\ nextSequence' = nextSequence /\ now' = now /\ consent' = consent
  BY ExpireEffect
<1>2. Sound(SweptLobbies, SweptLobbyOf, SweptTickets, SweptQueues, SweptMatches, SweptRooms,
            nextSequence, consent)
  BY SweptSound
<1> QED
  BY <1>1, <1>2 DEF IInv

\* RoomEnds keeps it.
LEMMA RoomEndsKeeps ==
    ASSUME IInv, NEW m \in Match, RoomEnds(m)
    PROVE  IInv'
<1>1. MatchesGood(lobbies, lobbyOf, tickets, matchIDs, rooms)
  BY DEF IInv, Sound
<1>2. MatchesGood(lobbies', lobbyOf', tickets', matchIDs', rooms')
  BY <1>1, MatchesRoomEnds DEF RoomEnds
<1> QED
  BY <1>2 DEF IInv, Sound, RoomEnds

\* Time alone changes nothing IInv speaks of.
LEMMA TickKeeps ==
    ASSUME IInv, Tick
    PROVE  IInv'
BY DEF IInv, Tick

-----------------------------------------------------------------------------
(***************************************************************************)
(* Groups of a line.                                                       *)
(***************************************************************************)
LEMMA Multiples ==
    ASSUME NEW a \in Nat, NEW b \in Nat, NEW s \in Nat, a <= b
    PROVE  a * s <= b * s
OBVIOUS

LEMMA NextMultiple ==
    ASSUME NEW i \in Nat, NEW s \in Nat
    PROVE  i * s = (i - 1) * s + s
OBVIOUS

LEMMA Quotient ==
    ASSUME NEW n \in Nat, NEW s \in Nat \ {0}
    PROVE  n \div s \in Nat /\ (n \div s) * s <= n /\ n < (n \div s) * s + s
OBVIOUS

LEMMA Swapped ==
    ASSUME NEW a \in Nat, NEW s \in Nat
    PROVE  a * s = s * a /\ a * s \in Nat
OBVIOUS

\* The group of a place in the line.
LEMMA GroupAt ==
    ASSUME NEW s \in Nat \ {0}, NEW k \in Nat, NEW j \in 1 .. s * k
    PROVE  \E i \in 1 .. k : j \in (i - 1) * s + 1 .. i * s
<1> DEFINE d == (j - 1) \div s
<1>1. s * k = k * s /\ k * s \in Nat /\ j \in Nat /\ j >= 1 /\ j - 1 \in Nat
  BY Swapped
<1>2. d \in Nat /\ d * s <= j - 1 /\ j - 1 < d * s + s
  BY <1>1, Quotient
<1> HIDE DEF d
<1>3. (d + 1) * s = d * s + s /\ d * s \in Nat
  BY <1>2, Swapped, NextMultiple
<1>4. d + 1 <= k
  <2> SUFFICES ASSUME ~(d + 1 <= k)
               PROVE  FALSE
    OBVIOUS
  <2>1. k * s <= d * s
    BY <1>2, Multiples
  <2>2. j <= k * s
    BY <1>1
  <2> QED
    BY <1>1, <1>2, <1>3, <2>1, <2>2
<1>5. d + 1 \in 1 .. k /\ (d + 1) - 1 = d
  BY <1>2, <1>4
<1>6. j \in ((d + 1) - 1) * s + 1 .. (d + 1) * s
  BY <1>1, <1>2, <1>3, <1>5
<1> QED
  BY <1>5, <1>6

\* The places of two groups lie apart, and within the first s * k.
LEMMA GroupsApart ==
    ASSUME NEW s \in Nat \ {0}, NEW k \in Nat, NEW i \in 1 .. k
    PROVE  /\ (i - 1) * s \in Nat /\ i * s = (i - 1) * s + s /\ i * s <= s * k
           /\ \A h \in 1 .. k : h < i => h * s <= (i - 1) * s
<1>1. i \in Nat /\ i - 1 \in Nat /\ i <= k
  OBVIOUS
<1>2. i * s <= k * s /\ k * s = s * k /\ (i - 1) * s \in Nat
  BY <1>1, Multiples, Swapped
<1>3. \A h \in 1 .. k : h < i => h * s <= (i - 1) * s
  <2> SUFFICES ASSUME NEW h \in 1 .. k, h < i
               PROVE  h * s <= (i - 1) * s
    OBVIOUS
  <2>1. h \in Nat /\ h <= i - 1
    BY <1>1
  <2> QED
    BY <1>1, <2>1, Multiples
<1> QED
  BY <1>1, <1>2, <1>3, NextMultiple

Distinct(line) == \A i, j \in DOMAIN line : line[i] = line[j] => i = j

\* Groups are disjoint, have s players each and make up the first s * k places.
LEMMA GroupFacts ==
    ASSUME NEW line \in Seq(Player), Distinct(line), NEW s \in Nat \ {0}, NEW k \in Nat,
           s * k <= Len(line)
    PROVE  /\ \A i \in 1 .. k : /\ Group(line, s, i) \subseteq {line[j] : j \in 1 .. s * k}
                                /\ Group(line, s, i) \subseteq ToSet(line)
                                /\ Cardinality(Group(line, s, i)) = s
           /\ \A i, h \in 1 .. k : \A o : o \in Group(line, s, i) /\ o \in Group(line, s, h) => i = h
           /\ \A o \in {line[j] : j \in 1 .. s * k} : \E i \in 1 .. k : o \in Group(line, s, i)
           /\ {line[j] : j \in 1 .. s * k} \subseteq ToSet(line)
<1> DEFINE all == {line[j] : j \in 1 .. s * k}
<1>1. Len(line) \in Nat /\ DOMAIN line = 1 .. Len(line) /\ s * k \in Nat
  BY Swapped
<1>2. \A j \in 1 .. s * k : j \in DOMAIN line
  BY <1>1
<1>3. all \subseteq ToSet(line)
  BY <1>2 DEF ToSet
<1>4. ASSUME NEW i \in 1 .. k
      PROVE  /\ \A j \in (i - 1) * s + 1 .. i * s : j \in 1 .. s * k
             /\ Group(line, s, i) \subseteq all
             /\ Cardinality(Group(line, s, i)) = s
  <2> DEFINE places == (i - 1) * s + 1 .. i * s
  <2>1. (i - 1) * s \in Nat /\ i * s = (i - 1) * s + s /\ i * s <= s * k
    BY GroupsApart
  <2>2. \A j \in places : j \in 1 .. s * k
    BY <1>1, <2>1
  <2>3. Group(line, s, i) \subseteq all
    BY <2>2 DEF Group
  <2>4. IsFiniteSet(places) /\ Cardinality(places) = s
    BY <2>1, FS_Interval
  <2> DEFINE f == [j \in places |-> line[j]]
  <2>5. Group(line, s, i) = {line[j] : j \in places}
    BY DEF Group
  <2> HIDE DEF places
  <2>6. f \in Injection(places, Group(line, s, i)) /\ f \in Surjection(places, Group(line, s, i))
    <3>1. f \in [places -> Group(line, s, i)]
      BY <2>5
    <3>2. \A a, b \in places : f[a] = f[b] => a = b
      BY <1>2, <2>2 DEF Distinct
    <3>3. \A o \in Group(line, s, i) : \E a \in places : f[a] = o
      BY <2>5
    <3> QED
      BY <3>1, <3>2, <3>3 DEF Injection, Surjection, IsInjective
  <2>7. Cardinality(Group(line, s, i)) = s
    BY <2>4, <2>6, FS_Surjection
  <2> QED
    BY <2>2, <2>3, <2>7 DEF places
<1>5. ASSUME NEW i \in 1 .. k, NEW h \in 1 .. k, NEW o,
             o \in Group(line, s, i), o \in Group(line, s, h)
      PROVE  i = h
  <2>1. PICK a \in (i - 1) * s + 1 .. i * s : line[a] = o
    BY <1>5 DEF Group
  <2>2. PICK b \in (h - 1) * s + 1 .. h * s : line[b] = o
    BY <1>5 DEF Group
  <2>3. a = b
    BY <1>2, <1>4, <2>1, <2>2 DEF Distinct
  <2>4. /\ (i - 1) * s \in Nat /\ i * s = (i - 1) * s + s
        /\ (h - 1) * s \in Nat /\ h * s = (h - 1) * s + s
        /\ (h < i => h * s <= (i - 1) * s) /\ (i < h => i * s <= (h - 1) * s)
    BY GroupsApart
  <2>5. ~(h < i) /\ ~(i < h)
    BY <2>1, <2>2, <2>3, <2>4
  <2> QED
    BY <2>5
<1>6. ASSUME NEW o \in all
      PROVE  \E i \in 1 .. k : o \in Group(line, s, i)
  <2>1. PICK j \in 1 .. s * k : line[j] = o
    OBVIOUS
  <2>2. PICK i \in 1 .. k : j \in (i - 1) * s + 1 .. i * s
    BY GroupAt
  <2> QED
    BY <2>1, <2>2 DEF Group
<1> QED
  BY <1>3, <1>4, <1>5, <1>6

-----------------------------------------------------------------------------
(***************************************************************************)
(* A player joins a queue.                                                 *)
(***************************************************************************)
Own(q) ==
    [queue |-> q, state |-> "queued", revision |-> 1, sequence |-> nextSequence,
     deadline |-> now + TicketTTL, match |-> None]

WithOwn(p, q) == [SweptTickets EXCEPT ![p] = Own(q)]

NewLine(p, q) == Kept(Append(SweptQueues[q], p), {p} \cup QueuedIn(SweptTickets, q))

\* A ticket whose player is placed in the match m until d.
PlacedTicket(t, m, d) ==
    [t EXCEPT !.state = "matched", !.revision = t.revision + 1, !.deadline = d, !.match = m]

TicketsDrawn(W, line, size, drawn, d) ==
    [o \in Player |-> IF o \in Placed(line, size, drawn)
                      THEN PlacedTicket(W[o], MatchOf(line, size, drawn, o), d) ELSE W[o]]

RoomsDrawn(R, line, size, drawn) ==
    [m \in Match |-> IF m \in ToSet(drawn)
                     THEN Allocated(Group(line, size, CHOOSE i \in DOMAIN drawn : drawn[i] = m))
                     ELSE R[m]]

\* What a call of Enqueue makes of the swept state.
LEMMA QueuedEffect ==
    ASSUME NEW p \in Player, NEW q \in Queue, NEW drawn, Queued(p, q, drawn)
    PROVE  LET line == NewLine(p, q)
               size == q[2]
           IN  /\ SweptLobbyOf[p] = None /\ SweptTickets[p] = None
               /\ nextSequence < MaxSequence
               /\ IsInjective(drawn) /\ ToSet(drawn) \subseteq Match \ SweptMatches
               /\ \A m \in ToSet(drawn) : SweptRooms[m].state = "unused"
               /\ tickets' = TicketsDrawn(WithOwn(p, q), line, size, drawn, now + MatchTTL)
               /\ queues' = [SweptQueues EXCEPT ![q] =
                                 SubSeq(line, size * Len(drawn) + 1, Len(line))]
               /\ matchIDs' = SweptMatches \cup ToSet(drawn)
               /\ rooms' = RoomsDrawn(SweptRooms, line, size, drawn)
               /\ lobbies' = SweptLobbies /\ lobbyOf' = SweptLobbyOf
               /\ nextSequence' = nextSequence + 1 /\ now' = now /\ consent' = consent
<1>1. Waiting(Swept, q) = QueuedIn(SweptTickets, q)
  BY SweptFields DEF Waiting, QueuedIn
<1>2. Line(Swept, p, q) = NewLine(p, q)
  BY <1>1, SweptFields DEF Line, NewLine
<1>3. /\ SweptLobbyOf[p] = None /\ SweptTickets[p] = None
      /\ nextSequence < MaxSequence
      /\ IsInjective(drawn) /\ ToSet(drawn) \subseteq Match \ SweptMatches
      /\ \A m \in ToSet(drawn) : SweptRooms[m].state = "unused"
  BY SweptFields DEF Queued, Unplaced, Fresh
<1>4. nextSequence' = nextSequence + 1 /\ now' = now /\ consent' = consent
  BY DEF Queued
<1> DEFINE t == TicketsDrawn(WithOwn(p, q), NewLine(p, q), q[2], drawn, now + MatchTTL)
           r == RoomsDrawn(SweptRooms, NewLine(p, q), q[2], drawn)
           rest == SubSeq(NewLine(p, q), q[2] * Len(drawn) + 1, Len(NewLine(p, q)))
<1>5. Become([Swept EXCEPT !.tickets = t, !.queues[q] = rest,
                           !.matchIDs = SweptMatches \cup ToSet(drawn), !.rooms = r])
  BY <1>2, SweptFields DEF Queued, TicketsDrawn, WithOwn, Own, PlacedTicket, RoomsDrawn
<1> HIDE DEF t, r, rest
<1>6. /\ tickets' = t /\ queues' = [SweptQueues EXCEPT ![q] = rest]
      /\ matchIDs' = SweptMatches \cup ToSet(drawn) /\ rooms' = r
      /\ lobbies' = SweptLobbies /\ lobbyOf' = SweptLobbyOf
  BY <1>5, SweptRecord DEF Become
<1> QED
  BY <1>3, <1>4, <1>6 DEF t, r, rest

\* The newcomer's ticket.
LEMMA OwnGood ==
    ASSUME nextSequence \in Nat, now \in Nat, NEW q \in Queue
    PROVE  LET t == Own(q)
           IN  /\ TicketGood(t, nextSequence + 1) /\ t # None
               /\ t.queue = q /\ t.state = "queued" /\ t.match = None
               /\ t.sequence = nextSequence /\ t.deadline = now + TicketTTL
<1> DEFINE t == Own(q)
<1>1. now + TicketTTL \in Nat
  BY ConstantTypes
<1>2. /\ t.queue = q /\ t.state = "queued" /\ t.match = None
      /\ t.sequence = nextSequence /\ t.deadline = now + TicketTTL
  BY DEF Own
<1>3. t \in Ticket
  BY <1>1 DEF Own, Ticket
<1> HIDE DEF t
<1>4. t # None
  BY <1>3, ConstantTypes
<1>5. TicketGood(t, nextSequence + 1)
  BY <1>2, <1>3 DEF TicketGood
<1> QED
  BY <1>2, <1>4, <1>5 DEF t

\* The ticket of a player who is placed.
LEMMA PlacedTicketFields ==
    ASSUME NEW t \in Ticket, NEW m \in Match, NEW d \in Nat
    PROVE  LET x == PlacedTicket(t, m, d)
           IN  /\ x \in Ticket /\ x # None
               /\ x.queue = t.queue /\ x.state = "matched" /\ x.match = m
               /\ x.sequence = t.sequence /\ x.deadline = d /\ x.revision = t.revision + 1
<1>1. t.revision + 1 \in Nat
  BY TicketFields
<1> DEFINE r == t.revision + 1
<1> HIDE DEF r
<1>2. PlacedTicket(t, m, d)
         = [t EXCEPT !.state = "matched", !.revision = r, !.deadline = d, !.match = m]
  BY DEF PlacedTicket, r
<1>3. r \in Nat
  BY <1>1 DEF r
<1> DEFINE x == PlacedTicket(t, m, d)
<1> HIDE DEF x
<1>4. /\ x \in Ticket
      /\ x.queue = t.queue /\ x.state = "matched" /\ x.match = m
      /\ x.sequence = t.sequence /\ x.deadline = d /\ x.revision = r
  BY <1>2, <1>3 DEF x, Ticket
<1>5. x # None
  BY <1>4, ConstantTypes
<1> QED
  BY <1>4, <1>5 DEF x, r

\* The line that a newcomer joins at its end.
LEMMA NewLineFacts ==
    ASSUME now \in Nat, nextSequence \in 1 .. MaxSequence,
           TicketsGood(SweptTickets, nextSequence), QueuesGood(SweptTickets, SweptQueues),
           NEW p \in Player, NEW q \in Queue, SweptTickets[p] = None
    PROVE  LET line == NewLine(p, q)
               W == WithOwn(p, q)
           IN  /\ W \in [Player -> Ticket \cup {None}]
               /\ W[p] = Own(q) /\ \A o \in Player \ {p} : W[o] = SweptTickets[o]
               /\ TicketsGood(W, nextSequence + 1)
               /\ line \in Seq(Player) /\ ToSet(line) = QueuedIn(W, q)
               /\ InOrder(W, line) /\ Distinct(line)
<1> DEFINE line == NewLine(p, q)
           W == WithOwn(p, q)
           old == SweptQueues[q]
           long == Append(old, p)
<1>1. nextSequence \in Nat /\ nextSequence + 1 \in Nat /\ nextSequence <= nextSequence + 1
  BY ConstantTypes
<1>2. /\ TicketGood(Own(q), nextSequence + 1) /\ Own(q) # None
      /\ Own(q).queue = q /\ Own(q).state = "queued"
      /\ Own(q).sequence = nextSequence
  BY <1>1, OwnGood
<1>3. SweptTickets \in [Player -> Ticket \cup {None}] /\ Own(q) \in Ticket
  BY <1>2 DEF TicketsGood, TicketGood
<1>4. W \in [Player -> Ticket \cup {None}]
      /\ W[p] = Own(q) /\ \A o \in Player \ {p} : W[o] = SweptTickets[o]
  BY <1>3 DEF WithOwn
<1>5. TicketsGood(SweptTickets, nextSequence + 1)
  BY <1>1, TicketsStayGood
<1> HIDE DEF W
<1>6. TicketsGood(W, nextSequence + 1)
  BY <1>2, <1>4, <1>5 DEF TicketsGood
<1>7. old \in Seq(Player) /\ ToSet(old) = QueuedIn(SweptTickets, q) /\ InOrder(SweptTickets, old)
  BY DEF QueuesGood
<1>8. p \notin ToSet(old)
  BY <1>7 DEF QueuedIn
<1> HIDE DEF old
<1>9. /\ long \in Seq(Player) /\ DOMAIN long = 1 .. Len(old) + 1 /\ DOMAIN old = 1 .. Len(old)
      /\ long[Len(old) + 1] = p /\ \A i \in 1 .. Len(old) : long[i] = old[i]
      /\ Len(old) \in Nat
  BY <1>7
<1> HIDE DEF long
<1>10. ToSet(long) = ToSet(old) \cup {p}
  <2>1. ASSUME NEW o \in ToSet(long)
        PROVE  o \in ToSet(old) \cup {p}
    <3>1. PICK i \in 1 .. Len(old) + 1 : long[i] = o
      BY <1>9 DEF ToSet
    <3>2. i \in 1 .. Len(old) \/ i = Len(old) + 1
      BY <1>9
    <3> QED
      BY <1>9, <3>1, <3>2 DEF ToSet
  <2>2. ASSUME NEW o \in ToSet(old)
        PROVE  o \in ToSet(long)
    <3>1. PICK i \in 1 .. Len(old) : old[i] = o
      BY <1>9 DEF ToSet
    <3>2. i \in DOMAIN long /\ long[i] = o
      BY <1>9, <3>1
    <3> QED
      BY <3>2 DEF ToSet
  <2>3. p \in ToSet(long)
    <3>1. Len(old) + 1 \in DOMAIN long
      BY <1>9
    <3> QED
      BY <1>9, <3>1 DEF ToSet
  <2> QED
    BY <2>1, <2>2, <2>3
<1>11. \A o \in ToSet(old) : /\ o \in Player \ {p} /\ W[o] = SweptTickets[o]
                             /\ W[o].sequence \in Nat /\ W[o].sequence < nextSequence
  <2> TAKE o \in ToSet(old)
  <2>1. o \in Player \ {p} /\ SweptTickets[o] # None
    BY <1>7, <1>8 DEF QueuedIn
  <2>2. TicketGood(SweptTickets[o], nextSequence)
    BY <2>1 DEF TicketsGood
  <2> QED
    BY <1>4, <2>1, <2>2, TicketFields DEF TicketGood
<1>12. InOrder(W, long)
  <2> SUFFICES ASSUME NEW i \in 1 .. Len(old) + 1, NEW j \in 1 .. Len(old) + 1, i < j
               PROVE  W[long[i]].sequence < W[long[j]].sequence
    BY <1>9 DEF InOrder
  <2>1. i \in 1 .. Len(old) /\ long[i] = old[i] /\ old[i] \in ToSet(old)
    BY <1>9 DEF ToSet
  <2>2. CASE j = Len(old) + 1
    BY <1>2, <1>4, <1>9, <1>11, <2>1, <2>2
  <2>3. CASE j # Len(old) + 1
    <3>1. j \in 1 .. Len(old) /\ long[j] = old[j] /\ old[j] \in ToSet(old)
      BY <1>9, <2>3 DEF ToSet
    <3>2. SweptTickets[old[i]].sequence < SweptTickets[old[j]].sequence
      BY <1>7, <1>9, <2>1, <3>1 DEF InOrder
    <3> QED
      BY <1>11, <2>1, <3>1, <3>2
  <2> QED
    BY <2>2, <2>3
<1>13. /\ line \in Seq(Player)
       /\ ToSet(line) = ToSet(long) \cap ({p} \cup QueuedIn(SweptTickets, q))
       /\ InOrder(W, line)
  BY <1>9, <1>12, KeptFacts DEF NewLine, long, old
<1> HIDE DEF line
<1>14. QueuedIn(W, q) = {p} \cup QueuedIn(SweptTickets, q)
  BY <1>2, <1>4 DEF QueuedIn
<1>15. ToSet(line) = QueuedIn(W, q)
  BY <1>7, <1>10, <1>13, <1>14
<1>16. \A o \in ToSet(line) : W[o].sequence \in Nat
  BY <1>1, <1>2, <1>4, <1>7, <1>10, <1>11, <1>13
<1>17. Distinct(line)
  BY <1>13, <1>16, OrderedOnce DEF Distinct
<1> QED
  BY <1>4, <1>6, <1>13, <1>15, <1>17 DEF line, W

\* The line behind its first a places.
LEMMA RestFacts ==
    ASSUME NEW line \in Seq(Player), Distinct(line), NEW a \in Nat, a <= Len(line)
    PROVE  LET rest == SubSeq(line, a + 1, Len(line))
               front == {line[j] : j \in 1 .. a}
           IN  /\ rest \in Seq(Player)
               /\ ToSet(rest) = ToSet(line) \ front
               /\ \A T : InOrder(T, line) =>
                     /\ InOrder(T, rest)
                     /\ \A o \in front, r \in ToSet(rest) : T[o].sequence < T[r].sequence
<1> DEFINE rest == SubSeq(line, a + 1, Len(line))
           front == {line[j] : j \in 1 .. a}
           n == Len(line)
<1>1. n \in Nat /\ DOMAIN line = 1 .. n /\ \A i \in 1 .. n : line[i] \in Player
  OBVIOUS
<1>2. /\ rest \in Seq(Player) /\ Len(rest) = n - a
      /\ \A i \in 1 .. n - a : rest[i] = line[i + a]
  <2>1. n - a \in Nat /\ a + 1 \in 1 .. n + 1
    BY <1>1
  <2>2. /\ rest \in Seq(Player)
        /\ Len(rest) = IF a + 1 <= n THEN n - (a + 1) + 1 ELSE 0
        /\ \A i \in 1 .. n - (a + 1) + 1 : rest[i] = line[a + 1 + i - 1]
    BY <1>1, <2>1, SubSeqProperties
  <2> HIDE DEF rest, n
  <2>3. Len(rest) = n - a
    <3>1. (n - (a + 1)) + 1 = n - a
      BY <1>1
    <3>2. a + 1 <= n \/ n - a = 0
      BY <1>1, <2>1
    <3> QED
      BY <2>2, <3>1, <3>2
  <2>4. \A i \in 1 .. n - a : rest[i] = line[i + a]
    BY <1>1, <2>1, <2>2
  <2> QED
    BY <2>2, <2>3, <2>4
<1> HIDE DEF rest
<1>3. DOMAIN rest = 1 .. n - a
  BY <1>2
<1> HIDE DEF n
<1>4. \A i \in 1 .. n - a : i + a \in 1 .. n /\ i + a > a
  BY <1>1
<1>5. \A j \in 1 .. a : j \in 1 .. n /\ j <= a
  BY <1>1 DEF n
<1>6. ASSUME NEW x \in ToSet(rest)
      PROVE  x \in ToSet(line) /\ x \notin front /\ \E i \in 1 .. n - a : x = line[i + a]
  <2>1. PICK i \in 1 .. n - a : rest[i] = x
    BY <1>3 DEF ToSet
  <2>2. x = line[i + a] /\ i + a \in DOMAIN line /\ i + a > a
    BY <1>1, <1>2, <1>4, <2>1
  <2>3. x \notin front
    <3> SUFFICES ASSUME NEW j \in 1 .. a, line[j] = x
                 PROVE  FALSE
      OBVIOUS
    <3>1. j = i + a
      BY <1>1, <1>5, <2>2 DEF Distinct
    <3> QED
      BY <1>5, <2>2, <3>1
  <2> QED
    BY <2>2, <2>3 DEF ToSet
<1>7. ASSUME NEW x \in ToSet(line) \ front
      PROVE  x \in ToSet(rest)
  <2>1. PICK i \in 1 .. n : line[i] = x
    BY <1>1 DEF ToSet
  <2>2. i \notin 1 .. a
    BY <2>1
  <2>3. i - a \in 1 .. n - a /\ (i - a) + a = i
    BY <1>1, <2>2
  <2>4. rest[i - a] = x
    BY <1>2, <2>1, <2>3
  <2> QED
    BY <1>3, <2>3, <2>4 DEF ToSet
<1>8. ASSUME NEW T, InOrder(T, line)
      PROVE  /\ InOrder(T, rest)
             /\ \A o \in front, r \in ToSet(rest) : T[o].sequence < T[r].sequence
  <2>1. \A i, j \in 1 .. n : i < j => T[line[i]].sequence < T[line[j]].sequence
    BY <1>1, <1>8 DEF InOrder
  <2>2. ASSUME NEW i \in 1 .. n - a, NEW j \in 1 .. n - a, i < j
        PROVE  T[rest[i]].sequence < T[rest[j]].sequence
    <3>1. i + a < j + a
      BY <1>1, <2>2
    <3> QED
      BY <1>2, <1>4, <2>1, <3>1
  <2>3. ASSUME NEW o \in front, NEW r \in ToSet(rest)
        PROVE  T[o].sequence < T[r].sequence
    <3>1. PICK j \in 1 .. a : o = line[j]
      OBVIOUS
    <3>2. PICK i \in 1 .. n - a : r = line[i + a]
      BY <1>6
    <3>3. j < i + a
      BY <1>1, <1>4, <1>5
    <3> QED
      BY <1>4, <1>5, <2>1, <3>1, <3>2, <3>3
  <2> QED
    BY <1>3, <2>2, <2>3 DEF InOrder
<1> QED
  BY <1>2, <1>6, <1>7, <1>8 DEF rest, n

-----------------------------------------------------------------------------
(***************************************************************************)
(* Matches are drawn for the first groups of a line.                       *)
(***************************************************************************)
LEMMA PlacedFacts ==
    ASSUME NEW line \in Seq(Player), Distinct(line), NEW s \in Nat \ {0}, NEW k \in Nat,
           s * k <= Len(line), NEW drawn \in [1 .. k -> Match]
    PROVE  /\ Len(drawn) = k /\ DOMAIN drawn = 1 .. k /\ s * k \in Nat
           /\ ToSet(drawn) = {drawn[i] : i \in 1 .. k} /\ ToSet(drawn) \subseteq Match
           /\ Placed(line, s, drawn) = {line[j] : j \in 1 .. s * k}
           /\ Placed(line, s, drawn) \subseteq ToSet(line) /\ ToSet(line) \subseteq Player
           /\ \A o \in Placed(line, s, drawn) : \E i \in 1 .. k : o \in Group(line, s, i)
           /\ \A i \in 1 .. k : /\ Group(line, s, i) \subseteq Placed(line, s, drawn)
                                /\ Cardinality(Group(line, s, i)) = s
                                /\ \A o \in Group(line, s, i) : MatchOf(line, s, drawn, o) = drawn[i]
           /\ \A i, h \in 1 .. k : \A o : o \in Group(line, s, i) /\ o \in Group(line, s, h) => i = h
<1>1. Len(drawn) = k /\ DOMAIN drawn = 1 .. k /\ s * k \in Nat
  BY Swapped
<1>2. ToSet(drawn) = {drawn[i] : i \in 1 .. k} /\ ToSet(drawn) \subseteq Match
  BY <1>1 DEF ToSet
<1>3. Placed(line, s, drawn) = {line[j] : j \in 1 .. s * k}
  BY <1>1 DEF Placed
<1>4. ToSet(line) \subseteq Player
  BY DEF ToSet
<1>5. /\ \A i \in 1 .. k : /\ Group(line, s, i) \subseteq Placed(line, s, drawn)
                           /\ Cardinality(Group(line, s, i)) = s
      /\ \A i, h \in 1 .. k : \A o : o \in Group(line, s, i) /\ o \in Group(line, s, h) => i = h
      /\ \A o \in Placed(line, s, drawn) : \E i \in 1 .. k : o \in Group(line, s, i)
      /\ Placed(line, s, drawn) \subseteq ToSet(line)
  BY <1>3, GroupFacts, ZenonT(60)
<1>6. ASSUME NEW i \in 1 .. k, NEW o \in Group(line, s, i)
      PROVE  MatchOf(line, s, drawn, o) = drawn[i]
  <2>1. (CHOOSE h \in DOMAIN drawn : o \in Group(line, s, h)) = i
    BY <1>1, <1>5
  <2> QED
    BY <2>1 DEF MatchOf
<1> QED
  BY <1>1, <1>2, <1>3, <1>4, <1>5, <1>6

\* The matches drawn are for the first k groups of s players in the line of the
\* queue q, given the tickets W.
Drawing(W, n, q, line, s, k, drawn) ==
    /\ n \in Nat /\ TicketsGood(W, n)
    /\ q \in Queue /\ s = q[2] /\ s \in Nat \ {0}
    /\ line \in Seq(Player) /\ ToSet(line) = QueuedIn(W, q)
    /\ InOrder(W, line) /\ Distinct(line)
    /\ k \in Nat /\ s * k <= Len(line)
    /\ drawn \in [1 .. k -> Match] /\ IsInjective(drawn)

\* The tickets of those who are placed name the match of their group; the others stay.
LEMMA TicketsDrawnGood ==
    ASSUME NEW W, NEW n, NEW q, NEW line, NEW s, NEW k, NEW drawn,
           Drawing(W, n, q, line, s, k, drawn), NEW d \in Nat
    PROVE  LET X == TicketsDrawn(W, line, s, drawn, d)
               placed == Placed(line, s, drawn)
           IN  /\ TicketsGood(X, n)
               /\ placed \subseteq Player
               /\ \A o \in Player \ placed : X[o] = W[o]
               /\ \A o \in placed :
                     /\ W[o] # None /\ W[o].state = "queued" /\ W[o].queue = q
                     /\ X[o] # None /\ X[o].queue = q /\ X[o].state = "matched"
                     /\ X[o].sequence = W[o].sequence /\ X[o].deadline = d
                     /\ X[o].revision = W[o].revision + 1
               /\ \A i \in 1 .. k : \A o \in Group(line, s, i) : X[o].match = drawn[i]
<1> DEFINE X == TicketsDrawn(W, line, s, drawn, d)
           placed == Placed(line, s, drawn)
<1>0. /\ n \in Nat /\ TicketsGood(W, n)
      /\ q \in Queue /\ s \in Nat \ {0}
      /\ line \in Seq(Player) /\ ToSet(line) = QueuedIn(W, q) /\ Distinct(line)
      /\ k \in Nat /\ s * k <= Len(line) /\ drawn \in [1 .. k -> Match]
  BY DEF Drawing
<1>1. /\ placed \subseteq ToSet(line) /\ ToSet(line) \subseteq Player
      /\ \A o \in placed : \E i \in 1 .. k : o \in Group(line, s, i)
      /\ \A i \in 1 .. k : /\ Group(line, s, i) \subseteq placed
                           /\ \A o \in Group(line, s, i) : MatchOf(line, s, drawn, o) = drawn[i]
  BY <1>0, PlacedFacts
<1>2. /\ X = [o \in Player |-> X[o]]
      /\ \A o \in Player \ placed : X[o] = W[o]
      /\ \A o \in placed : X[o] = PlacedTicket(W[o], MatchOf(line, s, drawn, o), d)
  BY <1>1 DEF TicketsDrawn
<1> HIDE DEF X, placed
<1>3. ASSUME NEW o \in placed
      PROVE  /\ W[o] # None /\ W[o].state = "queued" /\ W[o].queue = q
             /\ TicketGood(X[o], n)
             /\ X[o] # None /\ X[o].queue = q /\ X[o].state = "matched"
             /\ X[o].sequence = W[o].sequence /\ X[o].deadline = d
             /\ X[o].revision = W[o].revision + 1
             /\ X[o].match = MatchOf(line, s, drawn, o)
  <2>1. o \in Player /\ W[o] # None /\ W[o].state = "queued" /\ W[o].queue = q
    BY <1>0, <1>1 DEF QueuedIn
  <2>2. W[o] \in Ticket /\ W[o].sequence < n
    BY <1>0, <2>1 DEF TicketsGood, TicketGood
  <2> DEFINE m == MatchOf(line, s, drawn, o)
  <2>3. m \in Match
    BY <1>0, <1>1
  <2>4. X[o] = PlacedTicket(W[o], m, d)
    BY <1>2
  <2>5. m \in Match /\ m # None
    BY <2>3, ConstantTypes
  <2> HIDE DEF m
  <2>6. LET x == PlacedTicket(W[o], m, d)
        IN  /\ x \in Ticket /\ x # None
            /\ x.queue = W[o].queue /\ x.state = "matched" /\ x.match = m
            /\ x.sequence = W[o].sequence /\ x.deadline = d
            /\ x.revision = W[o].revision + 1
    BY <2>2, <2>5, PlacedTicketFields
  <2> QED
    BY <2>1, <2>2, <2>4, <2>5, <2>6 DEF TicketGood, m
<1>4. W \in [Player -> Ticket \cup {None}] /\ \A o \in Player : W[o] # None => TicketGood(W[o], n)
  BY <1>0 DEF TicketsGood
<1>5. \A o \in Player : X[o] \in Ticket \cup {None}
  BY <1>2, <1>3, <1>4 DEF TicketGood
<1>6. X \in [Player -> Ticket \cup {None}]
  BY <1>2, <1>5
<1>7. TicketsGood(X, n)
  BY <1>2, <1>3, <1>4, <1>6 DEF TicketsGood
<1> QED
  BY <1>1, <1>2, <1>3, <1>7 DEF X, placed

\* Each match drawn gets a room for its group; the other rooms stay.
LEMMA RoomsDrawnFacts ==
    ASSUME NEW R \in [Match -> [state : RoomState, players : SUBSET Player]],
           NEW W, NEW n, NEW q, NEW line, NEW s, NEW k, NEW drawn,
           Drawing(W, n, q, line, s, k, drawn)
    PROVE  LET S == RoomsDrawn(R, line, s, drawn)
           IN  /\ S \in [Match -> [state : RoomState, players : SUBSET Player]]
               /\ \A i \in 1 .. k : S[drawn[i]].state = "open"
                                    /\ S[drawn[i]].players = Group(line, s, i)
               /\ \A m \in Match \ ToSet(drawn) : S[m] = R[m]
<1> DEFINE S == RoomsDrawn(R, line, s, drawn)
<1>0. /\ s \in Nat \ {0} /\ line \in Seq(Player) /\ Distinct(line)
      /\ k \in Nat /\ s * k <= Len(line)
      /\ drawn \in [1 .. k -> Match] /\ IsInjective(drawn)
  BY DEF Drawing
<1>1. /\ DOMAIN drawn = 1 .. k
      /\ ToSet(drawn) = {drawn[i] : i \in 1 .. k} /\ ToSet(drawn) \subseteq Match
      /\ Placed(line, s, drawn) \subseteq ToSet(line) /\ ToSet(line) \subseteq Player
      /\ \A i \in 1 .. k : Group(line, s, i) \subseteq Placed(line, s, drawn)
  BY <1>0, PlacedFacts
<1>2. /\ S = [m \in Match |-> S[m]]
      /\ \A m \in Match \ ToSet(drawn) : S[m] = R[m]
      /\ \A m \in ToSet(drawn) :
            S[m] = Allocated(Group(line, s, CHOOSE i \in DOMAIN drawn : drawn[i] = m))
  BY <1>1 DEF RoomsDrawn
<1> HIDE DEF S
<1>3. ASSUME NEW i \in 1 .. k
      PROVE  S[drawn[i]] = Allocated(Group(line, s, i))
  <2>1. (CHOOSE h \in DOMAIN drawn : drawn[h] = drawn[i]) = i
    BY <1>0, <1>1 DEF IsInjective
  <2>2. drawn[i] \in ToSet(drawn)
    BY <1>1
  <2> QED
    BY <1>2, <2>1, <2>2
<1>4. ASSUME NEW i \in 1 .. k
      PROVE  /\ S[drawn[i]] \in [state : RoomState, players : SUBSET Player]
             /\ S[drawn[i]].state = "open" /\ S[drawn[i]].players = Group(line, s, i)
  <2> DEFINE group == Group(line, s, i)
  <2>1. group \in SUBSET Player
    BY <1>1
  <2>2. S[drawn[i]] = [state |-> "open", players |-> group]
    BY <1>3 DEF Allocated
  <2> HIDE DEF group
  <2>3. /\ S[drawn[i]] \in [state : RoomState, players : SUBSET Player]
        /\ S[drawn[i]].state = "open" /\ S[drawn[i]].players = group
    BY <2>1, <2>2 DEF RoomState
  <2> QED
    BY <2>3 DEF group
<1>5. ASSUME NEW m \in Match
      PROVE  S[m] \in [state : RoomState, players : SUBSET Player]
  <2>1. CASE m \in ToSet(drawn)
    BY <1>1, <1>4, <2>1
  <2>2. CASE m \notin ToSet(drawn)
    BY <1>2, <2>2
  <2> QED
    BY <2>1, <2>2
<1>6. S \in [Match -> [state : RoomState, players : SUBSET Player]]
  BY <1>2, <1>5
<1> QED
  BY <1>2, <1>4, <1>6 DEF S

\* The groups that are placed hold the matches drawn for them.
LEMMA MatchesDrawn ==
    ASSUME NEW W, NEW n, NEW q, NEW line, NEW s, NEW k, NEW drawn,
           Drawing(W, n, q, line, s, k, drawn),
           NEW L, NEW O, NEW M, NEW R, SeatsGood(L, O, W), MatchesGood(L, O, W, M, R),
           \A l \in LobbyID : L[l] # None /\ L[l].match # None => L[l].match \in M,
           ToSet(drawn) \subseteq Match \ M, NEW d \in Nat
    PROVE  MatchesGood(L, O, TicketsDrawn(W, line, s, drawn, d), M \cup ToSet(drawn),
                       RoomsDrawn(R, line, s, drawn))
<1> DEFINE X == TicketsDrawn(W, line, s, drawn, d)
           S == RoomsDrawn(R, line, s, drawn)
           placed == Placed(line, s, drawn)
<1>0. /\ n \in Nat /\ TicketsGood(W, n)
      /\ q \in Queue /\ s = q[2] /\ s \in Nat \ {0}
      /\ line \in Seq(Player) /\ ToSet(line) = QueuedIn(W, q) /\ Distinct(line)
      /\ k \in Nat /\ s * k <= Len(line)
      /\ drawn \in [1 .. k -> Match] /\ IsInjective(drawn)
  BY DEF Drawing
<1>1. /\ ToSet(drawn) = {drawn[i] : i \in 1 .. k} /\ DOMAIN drawn = 1 .. k
      /\ \A o \in placed : \E i \in 1 .. k : o \in Group(line, s, i)
      /\ \A i \in 1 .. k : /\ Group(line, s, i) \subseteq placed
                           /\ Cardinality(Group(line, s, i)) = s
  BY <1>0, PlacedFacts
<1>2. /\ TicketsGood(X, n)
      /\ placed \subseteq Player
      /\ \A o \in Player \ placed : X[o] = W[o]
      /\ \A o \in placed :
            /\ W[o] # None /\ W[o].state = "queued" /\ W[o].queue = q
            /\ X[o] # None /\ X[o].queue = q /\ X[o].state = "matched"
            /\ X[o].sequence = W[o].sequence /\ X[o].deadline = d
      /\ \A i \in 1 .. k : \A o \in Group(line, s, i) : X[o].match = drawn[i]
  BY TicketsDrawnGood
<1>3. M \subseteq Match /\ R \in [Match -> [state : RoomState, players : SUBSET Player]]
  BY DEF MatchesGood
<1>4. /\ S \in [Match -> [state : RoomState, players : SUBSET Player]]
      /\ \A i \in 1 .. k : S[drawn[i]].state = "open" /\ S[drawn[i]].players = Group(line, s, i)
      /\ \A m \in Match \ ToSet(drawn) : S[m] = R[m]
  BY <1>3, RoomsDrawnFacts
<1> HIDE DEF X, S, placed
<1>5. \A o \in placed : W[o].match = None
  BY <1>0, <1>2 DEF TicketsGood, TicketGood
<1>6. \A o \in placed : X[o].match \in ToSet(drawn)
  BY <1>1, <1>2
<1>7. None \notin Match
  BY ConstantTypes
<1>8. ASSUME NEW m \in Match \ ToSet(drawn)
      PROVE  /\ HoldersIn(L, O, X, m) = HoldersIn(L, O, W, m)
             /\ \A o \in Player : X[o] # None /\ X[o].match = m => X[o] = W[o] /\ o \notin placed
  <2>1. ASSUME NEW o \in Player
        PROVE  /\ X[o] # None /\ X[o].match = m <=> W[o] # None /\ W[o].match = m
               /\ X[o] # None /\ X[o].match = m => X[o] = W[o] /\ o \notin placed
    <3>1. CASE o \in placed
      BY <1>5, <1>6, <1>7, <3>1
    <3>2. CASE o \notin placed
      BY <1>2, <3>2
    <3> QED
      BY <3>1, <3>2
  <2> QED
    BY <2>1 DEF HoldersIn
<1>9. ASSUME NEW m \in M
      PROVE  Remembered(L, O, X, S[m], m)
  <2>1. m \in Match \ ToSet(drawn) /\ m # None /\ Remembered(L, O, W, R[m], m)
    BY <1>3, <1>7 DEF MatchesGood
  <2>2. S[m] = R[m] /\ HoldersIn(L, O, X, m) = R[m].players /\ R[m].state # "unused"
        /\ HoldersIn(L, O, W, m) = R[m].players /\ R[m].players # {}
    BY <1>4, <1>8, <2>1 DEF Remembered
  <2>3. \A l \in LobbyID : L[l] # None /\ L[l].match = m =>
           /\ Cardinality(R[m].players) = L[l].capacity
           /\ Members(L[l]) = R[m].players
    BY <2>1 DEF Remembered
  <2>4. ASSUME NEW o \in Player, X[o] # None, X[o].match = m
        PROVE  /\ Cardinality(R[m].players) = X[o].queue[2]
               /\ \A u \in R[m].players :
                     X[u] # None /\ X[u].queue = X[o].queue /\ X[u].deadline = X[o].deadline
    <3>1. X[o] = W[o]
      BY <1>8, <2>1, <2>4
    <3>2. /\ Cardinality(R[m].players) = W[o].queue[2]
          /\ \A u \in R[m].players :
                W[u] # None /\ W[u].queue = W[o].queue /\ W[u].deadline = W[o].deadline
      BY <2>1, <2>4, <3>1 DEF Remembered
    <3>3. ASSUME NEW u \in R[m].players
          PROVE  X[u] = W[u]
      <4>1. W[u] # None /\ u \in Player /\ u \in HoldersIn(L, O, W, m)
        BY <2>2, <3>2 DEF HoldersIn
      <4>2. O[u] = None
        BY <4>1 DEF SeatsGood
      <4>3. W[u].match = m
        BY <4>1, <4>2 DEF HoldersIn
      <4>4. u \notin placed
        BY <1>5, <2>1, <4>3
      <4> QED
        BY <1>2, <4>1, <4>4
    <3> QED
      BY <3>1, <3>2, <3>3
  <2> QED
    BY <2>2, <2>3, <2>4 DEF Remembered
<1>10. ASSUME NEW m \in Match \ (M \cup ToSet(drawn))
       PROVE  Forgotten(L, O, X, S[m], m)
  BY <1>4, <1>8 DEF MatchesGood, Forgotten
<1>11. ASSUME NEW i \in 1 .. k
       PROVE  Remembered(L, O, X, S[drawn[i]], drawn[i])
  <2> DEFINE m == drawn[i]
             group == Group(line, s, i)
  <2>1. m \in ToSet(drawn) /\ m \in Match \ M /\ m # None
    BY <1>1, <1>7
  <2>2. HoldersIn(L, O, W, m) = {}
    BY <2>1 DEF MatchesGood, Forgotten
  <2>3. S[m].state = "open" /\ S[m].players = group /\ Cardinality(group) = s
        /\ group \subseteq placed
    BY <1>1, <1>4
  <2>4. \A o \in group : X[o].match = m
    BY <1>2
  <2>5. \A h \in 1 .. k : drawn[h] = m => h = i
    BY <1>0, <1>1 DEF IsInjective
  <2> HIDE DEF m
  <2>6. ASSUME NEW o \in Player, X[o] # None, X[o].match = m
        PROVE  o \in group
    <3>1. o \in placed
      BY <1>2, <2>2, <2>6 DEF HoldersIn
    <3>2. PICK h \in 1 .. k : o \in Group(line, s, h)
      BY <1>1, <3>1
    <3>3. X[o].match = drawn[h]
      BY <1>2, <3>2
    <3> QED
      BY <2>5, <2>6, <3>2, <3>3
  <2> HIDE DEF group
  <2>7. HoldersIn(L, O, X, m) = group
    <3>1. \A o \in Player : ~(O[o] # None /\ L[O[o]].match = m)
      BY <2>2 DEF HoldersIn
    <3>2. \A o \in group : o \in Player /\ X[o] # None /\ X[o].match = m
      BY <1>2, <2>3, <2>4
    <3> QED
      BY <2>6, <3>1, <3>2 DEF HoldersIn
  <2>8. ASSUME NEW l \in LobbyID, L[l] # None, L[l].match = m
        PROVE  FALSE
    BY <2>1, <2>8
  <2>9. ASSUME NEW o \in Player, X[o] # None, X[o].match = m
        PROVE  /\ Cardinality(group) = X[o].queue[2]
               /\ \A u \in group :
                     X[u] # None /\ X[u].queue = X[o].queue /\ X[u].deadline = X[o].deadline
    BY <1>0, <1>2, <2>3, <2>6, <2>9
  <2>10. S[m].state # "unused" /\ group # {}
    BY <1>0, <2>3, FS_EmptySet
  <2>11. Remembered(L, O, X, S[m], m)
    BY <2>3, <2>7, <2>8, <2>9, <2>10 DEF Remembered
  <2> QED
    BY <2>11 DEF m
<1>12. \A m \in ToSet(drawn) : Remembered(L, O, X, S[m], m)
  BY <1>1, <1>11
<1>13. MatchesGood(L, O, X, M \cup ToSet(drawn), S)
  BY <1>3, <1>4, <1>9, <1>10, <1>12 DEF MatchesGood
<1> QED
  BY <1>13 DEF X, S

\* A ticket that waits is nothing to seats and matches.
LEMMA WaitingIsNothing ==
    ASSUME NEW L, NEW O, NEW T, NEW M, NEW R, NEW W, NEW p \in Player,
           SeatsGood(L, O, T), MatchesGood(L, O, T, M, R),
           O[p] = None, T[p] = None \/ T[p].match = None, W[p] = None \/ W[p].match = None,
           \A o \in Player \ {p} : W[o] = T[o]
    PROVE  SeatsGood(L, O, W) /\ MatchesGood(L, O, W, M, R)
<1>1. SeatsGood(L, O, W)
  BY DEF SeatsGood
<1>2. None \notin Match
  BY ConstantTypes
<1>3. ASSUME NEW m \in Match
      PROVE  HoldersIn(L, O, W, m) = HoldersIn(L, O, T, m)
  <2>1. \A o \in Player : T[o] # None /\ T[o].match = m <=> W[o] # None /\ W[o].match = m
    BY <1>2
  <2> QED
    BY <2>1 DEF HoldersIn
<1>4. ASSUME NEW m \in M
      PROVE  Remembered(L, O, W, R[m], m)
  <2>1. m \in Match /\ Remembered(L, O, T, R[m], m)
    BY DEF MatchesGood
  <2>2. ASSUME NEW o \in Player, W[o] # None, W[o].match = m
        PROVE  /\ Cardinality(R[m].players) = W[o].queue[2]
               /\ \A u \in R[m].players :
                     W[u] # None /\ W[u].queue = W[o].queue /\ W[u].deadline = W[o].deadline
    <3>1. o # p /\ W[o] = T[o]
      BY <1>2, <2>1, <2>2
    <3>2. /\ Cardinality(R[m].players) = T[o].queue[2]
          /\ \A u \in R[m].players :
                T[u] # None /\ T[u].queue = T[o].queue /\ T[u].deadline = T[o].deadline
      BY <2>1, <2>2, <3>1 DEF Remembered
    <3>3. R[m].players \subseteq Player /\ p \notin R[m].players
      BY <1>2, <2>1 DEF Remembered, HoldersIn
    <3>4. \A u \in R[m].players : W[u] = T[u]
      BY <3>2, <3>3
    <3> QED
      BY <3>1, <3>2, <3>4
  <2> QED
    BY <1>3, <2>1, <2>2 DEF Remembered
<1>5. \A m \in Match \ M : Forgotten(L, O, W, R[m], m)
  BY <1>3 DEF MatchesGood, Forgotten
<1> QED
  BY <1>1, <1>4, <1>5 DEF MatchesGood

\* The queue loses those who are placed; nothing moves in the others.
LEMMA QueuesDrawnGood ==
    ASSUME NEW W, NEW n, NEW q, NEW line, NEW s, NEW k, NEW drawn,
           Drawing(W, n, q, line, s, k, drawn), NEW d \in Nat,
           NEW Q \in [Queue -> Seq(Player)],
           \A r \in Queue \ {q} : ToSet(Q[r]) = QueuedIn(W, r) /\ InOrder(W, Q[r])
    PROVE  LET X == TicketsDrawn(W, line, s, drawn, d)
               rest == SubSeq(line, s * k + 1, Len(line))
           IN  /\ QueuesGood(X, [Q EXCEPT ![q] = rest])
               /\ \A o \in Placed(line, s, drawn), u \in Player :
                     X[u] # None /\ X[u].state = "queued" /\ X[u].queue = q
                        => X[o].sequence < X[u].sequence
<1> DEFINE X == TicketsDrawn(W, line, s, drawn, d)
           placed == Placed(line, s, drawn)
           rest == SubSeq(line, s * k + 1, Len(line))
           K == [Q EXCEPT ![q] = rest]
<1>0. /\ q \in Queue /\ s \in Nat \ {0}
      /\ line \in Seq(Player) /\ ToSet(line) = QueuedIn(W, q) /\ InOrder(W, line)
      /\ Distinct(line)
      /\ k \in Nat /\ s * k <= Len(line) /\ drawn \in [1 .. k -> Match]
  BY DEF Drawing
<1>1. /\ placed \subseteq Player
      /\ \A o \in Player \ placed : X[o] = W[o]
      /\ \A o \in placed :
            /\ W[o] # None /\ W[o].state = "queued" /\ W[o].queue = q
            /\ X[o] # None /\ X[o].queue = q /\ X[o].state = "matched"
            /\ X[o].sequence = W[o].sequence
  BY TicketsDrawnGood
<1>2. s * k \in Nat /\ placed = {line[j] : j \in 1 .. s * k}
  BY <1>0, PlacedFacts
<1>3. /\ rest \in Seq(Player) /\ ToSet(rest) = ToSet(line) \ placed
      /\ InOrder(W, rest)
      /\ \A o \in placed, u \in ToSet(rest) : W[o].sequence < W[u].sequence
  <2> DEFINE a == s * k
  <2>1. a \in Nat /\ a <= Len(line) /\ placed = {line[j] : j \in 1 .. a}
    BY <1>0, <1>2
  <2>2. rest = SubSeq(line, a + 1, Len(line))
    OBVIOUS
  <2> HIDE DEF a, rest, placed
  <2> QED
    BY <1>0, <2>1, <2>2, RestFacts
<1> HIDE DEF X, placed, rest
<1>4. K \in [Queue -> Seq(Player)] /\ K[q] = rest /\ \A r \in Queue \ {q} : K[r] = Q[r]
  BY <1>0, <1>3
<1> HIDE DEF K
<1>5. ToSet(rest) = QueuedIn(X, q)
  BY <1>0, <1>1, <1>3 DEF QueuedIn
<1>6. \A r \in Queue \ {q} : QueuedIn(X, r) = QueuedIn(W, r)
  BY <1>1 DEF QueuedIn
<1>7. \A o \in Player : W[o] # None => X[o].sequence = W[o].sequence
  BY <1>1
<1>8. InOrder(X, rest)
  <2>1. \A o \in ToSet(rest) : o \in Player /\ W[o] # None
    BY <1>0, <1>3 DEF QueuedIn
  <2> QED
    BY <1>3, <1>7, <2>1, OrderKept
<1>9. ASSUME NEW r \in Queue, r # q
      PROVE  ToSet(K[r]) = QueuedIn(X, r) /\ InOrder(X, K[r])
  <2>1. ToSet(K[r]) = QueuedIn(W, r) /\ InOrder(W, K[r])
    BY <1>4, <1>9
  <2>2. \A o \in ToSet(K[r]) : X[o].sequence = W[o].sequence
    BY <1>7, <2>1 DEF QueuedIn
  <2> QED
    BY <1>6, <1>9, <2>1, <2>2, OrderKept
<1>10. QueuesGood(X, K)
  BY <1>4, <1>5, <1>8, <1>9 DEF QueuesGood
<1>11. ASSUME NEW o \in placed, NEW u \in Player,
              X[u] # None, X[u].state = "queued", X[u].queue = q
       PROVE  X[o].sequence < X[u].sequence
  <2>1. u \in ToSet(rest) /\ u \notin placed
    BY <1>3, <1>5, <1>11 DEF QueuedIn
  <2> QED
    BY <1>1, <1>3, <2>1
<1> QED
  BY <1>10, <1>11 DEF X, placed, rest, K

\* A call of Enqueue draws for groups its line really has.
LEMMA DrawingHere ==
    ASSUME IInv, NEW p \in Player, NEW q \in Queue, NEW k \in Nat, k <= FullGroups(p, q),
           NEW drawn \in [1 .. k -> Match], Queued(p, q, drawn)
    PROVE  /\ Drawing(WithOwn(p, q), nextSequence + 1, q, NewLine(p, q), q[2], k, drawn)
           /\ Len(drawn) = k
           /\ WithOwn(p, q)[p] = Own(q)
           /\ \A o \in Player \ {p} : WithOwn(p, q)[o] = SweptTickets[o]
<1> DEFINE line == NewLine(p, q)
           W == WithOwn(p, q)
           s == q[2]
<1>1. /\ SweptTickets[p] = None /\ IsInjective(drawn)
  BY QueuedEffect
<1>2. now \in Nat /\ nextSequence \in 1 .. MaxSequence /\ nextSequence + 1 \in Nat
  BY ConstantTypes DEF IInv
<1>3. TicketsGood(SweptTickets, nextSequence) /\ QueuesGood(SweptTickets, SweptQueues)
  BY SweptSound DEF Sound
<1>4. /\ W[p] = Own(q) /\ \A o \in Player \ {p} : W[o] = SweptTickets[o]
      /\ TicketsGood(W, nextSequence + 1)
      /\ line \in Seq(Player) /\ ToSet(line) = QueuedIn(W, q)
      /\ InOrder(W, line) /\ Distinct(line)
  BY <1>1, <1>2, <1>3, NewLineFacts
<1>5. s \in Nat \ {0}
  BY ConstantTypes DEF Queue
<1>6. FullGroups(p, q) = Len(line) \div s
  <2>1. Waiting(Swept, q) = QueuedIn(SweptTickets, q)
    BY SweptFields DEF Waiting, QueuedIn
  <2>2. Line(Swept, p, q) = line
    BY <2>1, SweptFields DEF Line, NewLine
  <2> QED
    BY <2>2 DEF FullGroups
<1> HIDE DEF line, W, s
<1>7. Len(line) \in Nat
  BY <1>4
<1>8. s * k <= Len(line)
  <2> DEFINE g == Len(line) \div s
             n == Len(line)
  <2>1. n \in Nat
    BY <1>7
  <2>2. g \in Nat /\ g * s <= n /\ k <= g
    <3> HIDE DEF n
    <3>1. n \div s \in Nat /\ (n \div s) * s <= n
      BY <1>5, <2>1, Quotient
    <3> QED
      BY <1>6, <3>1 DEF n
  <2> HIDE DEF g
  <2>3. k * s <= g * s
    BY <1>5, <2>2, Multiples
  <2>4. k * s = s * k /\ k * s \in Nat /\ g * s \in Nat
    BY <1>5, <2>2, Swapped
  <2> HIDE DEF n
  <2>5. s * k <= n
    BY <2>1, <2>2, <2>3, <2>4
  <2> QED
    BY <2>5 DEF n
<1>9. Len(drawn) = k
  OBVIOUS
<1>10. Drawing(W, nextSequence + 1, q, line, s, k, drawn)
  BY <1>1, <1>2, <1>4, <1>5, <1>8 DEF Drawing, s
<1> QED
  BY <1>4, <1>9, <1>10 DEF W, line, s

\* A newcomer's ticket changes nothing in the other queues.
LEMMA OtherQueues ==
    ASSUME QueuesGood(SweptTickets, SweptQueues), NEW p \in Player, NEW q \in Queue,
           SweptTickets[p] = None, WithOwn(p, q)[p] = Own(q), Own(q).queue = q,
           \A o \in Player \ {p} : WithOwn(p, q)[o] = SweptTickets[o]
    PROVE  /\ SweptQueues \in [Queue -> Seq(Player)]
           /\ \A r \in Queue \ {q} :
                 /\ ToSet(SweptQueues[r]) = QueuedIn(WithOwn(p, q), r)
                 /\ InOrder(WithOwn(p, q), SweptQueues[r])
<1> DEFINE W == WithOwn(p, q)
<1> HIDE DEF W
<1>1. W[p] = Own(q) /\ \A o \in Player \ {p} : W[o] = SweptTickets[o]
  BY DEF W
<1>2. ASSUME NEW r \in Queue \ {q}
      PROVE  ToSet(SweptQueues[r]) = QueuedIn(W, r) /\ InOrder(W, SweptQueues[r])
  <2>1. ToSet(SweptQueues[r]) = QueuedIn(SweptTickets, r) /\ InOrder(SweptTickets, SweptQueues[r])
    BY DEF QueuesGood
  <2>2. QueuedIn(W, r) = QueuedIn(SweptTickets, r)
    BY <1>1 DEF QueuedIn
  <2>3. \A o \in QueuedIn(SweptTickets, r) : W[o].sequence = SweptTickets[o].sequence
    BY <1>1 DEF QueuedIn
  <2> QED
    BY <2>1, <2>2, <2>3, OrderKept
<1> QED
  BY <1>2 DEF QueuesGood, W

\* Enqueue keeps the invariant, however many groups it places.
LEMMA QueuedKeeps ==
    ASSUME IInv, NEW p \in Player, NEW q \in Queue, NEW k \in Nat, k <= FullGroups(p, q),
           NEW drawn \in [1 .. k -> Match], Queued(p, q, drawn)
    PROVE  IInv'
<1> DEFINE W == WithOwn(p, q)
           line == NewLine(p, q)
           s == q[2]
           d == now + MatchTTL
           X == TicketsDrawn(W, line, s, drawn, d)
           n == nextSequence + 1
<1>1. /\ Drawing(W, n, q, line, s, k, drawn) /\ Len(drawn) = k
      /\ W[p] = Own(q) /\ \A o \in Player \ {p} : W[o] = SweptTickets[o]
  BY DrawingHere
<1>2. /\ SweptLobbyOf[p] = None /\ SweptTickets[p] = None
      /\ nextSequence < MaxSequence
      /\ ToSet(drawn) \subseteq Match \ SweptMatches
      /\ tickets' = X
      /\ queues' = [SweptQueues EXCEPT ![q] = SubSeq(line, s * k + 1, Len(line))]
      /\ matchIDs' = SweptMatches \cup ToSet(drawn)
      /\ rooms' = RoomsDrawn(SweptRooms, line, s, drawn)
      /\ lobbies' = SweptLobbies /\ lobbyOf' = SweptLobbyOf
      /\ nextSequence' = n /\ now' = now /\ consent' = consent
  BY <1>1, QueuedEffect
<1>3. /\ now \in Nat /\ d \in Nat /\ nextSequence \in Nat /\ n \in 1 .. MaxSequence /\ n \in Nat
      /\ nextSequence <= n /\ consent \in [Player -> SUBSET Player]
  BY <1>2, ConstantTypes DEF IInv
<1>4. /\ LobbiesGood(SweptLobbies, nextSequence, consent)
      /\ TicketsGood(SweptTickets, nextSequence)
      /\ SeatsGood(SweptLobbies, SweptLobbyOf, SweptTickets)
      /\ QueuesGood(SweptTickets, SweptQueues)
      /\ MatchesGood(SweptLobbies, SweptLobbyOf, SweptTickets, SweptMatches, SweptRooms)
  BY SweptSound DEF Sound
<1>5. Own(q) # None /\ Own(q).match = None /\ Own(q).queue = q
  BY <1>3, OwnGood
<1>6. \A l \in LobbyID : SweptLobbies[l] # None /\ SweptLobbies[l].match # None =>
         SweptLobbies[l].match \in SweptMatches
  BY <1>4, NamedIsRemembered
<1> HIDE DEF W, line, s, d, n
<1>7. SeatsGood(SweptLobbies, SweptLobbyOf, W)
      /\ MatchesGood(SweptLobbies, SweptLobbyOf, W, SweptMatches, SweptRooms)
  BY <1>1, <1>2, <1>4, <1>5, WaitingIsNothing
<1>8. TicketsGood(X, n)
  BY <1>1, <1>3, TicketsDrawnGood
<1>9. MatchesGood(SweptLobbies, SweptLobbyOf, X, SweptMatches \cup ToSet(drawn),
                  RoomsDrawn(SweptRooms, line, s, drawn))
  BY <1>1, <1>2, <1>3, <1>6, <1>7, MatchesDrawn
<1>10. QueuesGood(X, [SweptQueues EXCEPT ![q] = SubSeq(line, s * k + 1, Len(line))])
  <2>1. /\ SweptQueues \in [Queue -> Seq(Player)]
        /\ \A r \in Queue \ {q} :
              ToSet(SweptQueues[r]) = QueuedIn(W, r) /\ InOrder(W, SweptQueues[r])
    BY <1>1, <1>2, <1>4, <1>5, OtherQueues DEF W
  <2> QED
    BY <1>1, <1>3, <2>1, QueuesDrawnGood
<1>11. SeatsGood(SweptLobbies, SweptLobbyOf, X)
  <2>1. /\ Placed(line, s, drawn) \subseteq Player
        /\ \A o \in Player \ Placed(line, s, drawn) : X[o] = W[o]
        /\ \A o \in Placed(line, s, drawn) : W[o] # None
    BY <1>1, <1>3, TicketsDrawnGood
  <2> HIDE DEF X
  <2>2. \A o \in Player : SweptLobbyOf[o] # None => X[o] = None
    BY <1>7, <2>1 DEF SeatsGood
  <2> QED
    BY <1>4, <2>2 DEF SeatsGood
<1>12. LobbiesGood(SweptLobbies, n, consent)
  <2>1. \A l \in LobbyID : SweptLobbies[l] # None => LobbyGood(SweptLobbies[l], n)
    BY <1>3, <1>4, LobbyStaysGood DEF LobbiesGood
  <2> QED
    BY <1>4, <2>1 DEF LobbiesGood
<1> HIDE DEF X
<1>13. /\ LobbiesGood(lobbies', nextSequence', consent')
       /\ TicketsGood(tickets', nextSequence')
       /\ SeatsGood(lobbies', lobbyOf', tickets')
       /\ QueuesGood(tickets', queues')
       /\ MatchesGood(lobbies', lobbyOf', tickets', matchIDs', rooms')
  BY <1>2, <1>8, <1>9, <1>10, <1>11, <1>12
<1>14. now' \in Nat /\ nextSequence' \in 1 .. MaxSequence /\ consent' \in [Player -> SUBSET Player]
  BY <1>2, <1>3
<1> QED
  BY <1>13, <1>14 DEF IInv, Sound

\* A line holds some number of full groups.
LEMMA FullGroupsType ==
    ASSUME IInv, NEW p \in Player, NEW q \in Queue
    PROVE  FullGroups(p, q) \in Nat
<1>1. SweptQueues[q] \in Seq(Player)
  BY SweptSound DEF Sound, QueuesGood
<1>2. Append(SweptQueues[q], p) \in Seq(Player)
  BY <1>1
<1>3. Line(Swept, p, q) \in Seq(Player)
  BY <1>2, SweptFields, KeptFacts DEF Line
<1> DEFINE n == Len(Line(Swept, p, q))
           s == q[2]
<1>4. n \in Nat /\ s \in Nat \ {0}
  BY <1>3, ConstantTypes DEF Queue
<1>5. FullGroups(p, q) = n \div s
  BY DEF FullGroups
<1> HIDE DEF n, s
<1> QED
  BY <1>4, <1>5, Quotient

\* A call of Enqueue matches some number of groups, all of them full.
LEMMA EnqueueDraws ==
    ASSUME IInv, NEW p \in Player, NEW q \in Queue, Enqueue(p, q) \/ EnqueueFails(p, q)
    PROVE  \E k \in Nat : /\ k <= FullGroups(p, q)
                          /\ \E drawn \in [1 .. k -> Match] : Queued(p, q, drawn)
<1>1. FullGroups(p, q) \in Nat
  BY FullGroupsType
<1>2. CASE Enqueue(p, q)
  <2>1. FullGroups(p, q) <= FullGroups(p, q)
    BY <1>1
  <2> QED
    BY <1>1, <1>2, <2>1 DEF Enqueue
<1>3. CASE EnqueueFails(p, q)
  <2>1. PICK n \in 0 .. FullGroups(p, q) - 1 :
           \E drawn \in [1 .. n -> Match] : Queued(p, q, drawn)
    BY <1>3 DEF EnqueueFails
  <2>2. n \in Nat /\ n <= FullGroups(p, q)
    BY <1>1
  <2> QED
    BY <2>1, <2>2
<1> QED
  BY <1>2, <1>3

\* Both outcomes of Enqueue.
LEMMA EnqueueKeeps ==
    ASSUME IInv, NEW p \in Player, NEW q \in Queue, Enqueue(p, q) \/ EnqueueFails(p, q)
    PROVE  IInv'
<1>1. PICK k \in Nat : /\ k <= FullGroups(p, q)
                       /\ \E drawn \in [1 .. k -> Match] : Queued(p, q, drawn)
  BY EnqueueDraws
<1>2. PICK drawn \in [1 .. k -> Match] : Queued(p, q, drawn)
  BY <1>1
<1> QED
  BY <1>1, <1>2, QueuedKeeps

-----------------------------------------------------------------------------
(***************************************************************************)
(* A player cancels.                                                       *)
(***************************************************************************)
LEMMA RemovedAt ==
    ASSUME NEW line \in Seq(Player), NEW i \in 1 .. Len(line)
    PROVE  LET cut == RemoveAt(line, i)
           IN  /\ cut \in Seq(Player) /\ Len(cut) = Len(line) - 1
               /\ \A j \in 1 .. Len(line) - 1 : cut[j] = IF j < i THEN line[j] ELSE line[j + 1]
<1> DEFINE n == Len(line)
           front == SubSeq(line, 1, i - 1)
           back == SubSeq(line, i + 1, n)
<1>1. n \in Nat /\ i \in Nat /\ i <= n /\ \A j \in 1 .. n : line[j] \in Player
  OBVIOUS
<1>2. i - 1 \in Int /\ i + 1 \in Int
      /\ (\A j \in 1 .. i - 1 : line[j] \in Player) /\ (\A j \in i + 1 .. n : line[j] \in Player)
  BY <1>1
<1>3. /\ front \in Seq(Player)
      /\ Len(front) = IF 1 <= i - 1 THEN (i - 1) - 1 + 1 ELSE 0
      /\ \A j \in 1 .. (i - 1) - 1 + 1 : front[j] = line[1 + j - 1]
  BY <1>2, SubSeqProperties
<1>4. /\ back \in Seq(Player)
      /\ Len(back) = IF i + 1 <= n THEN n - (i + 1) + 1 ELSE 0
      /\ \A j \in 1 .. n - (i + 1) + 1 : back[j] = line[i + 1 + j - 1]
  BY <1>1, <1>2, SubSeqProperties
<1> HIDE DEF front, back, n
<1>5. Len(front) = i - 1 /\ \A j \in 1 .. i - 1 : front[j] = line[j]
  <2>1. (i - 1) - 1 + 1 = i - 1
    BY <1>1
  <2>2. 1 <= i - 1 \/ i - 1 = 0
    BY <1>1
  <2> QED
    BY <1>1, <1>3, <2>1, <2>2
<1>6. Len(back) = n - i /\ \A j \in 1 .. n - i : back[j] = line[i + j]
  <2>1. n - (i + 1) + 1 = n - i
    BY <1>1
  <2>2. i + 1 <= n \/ n - i = 0
    BY <1>1
  <2> QED
    BY <1>1, <1>4, <2>1, <2>2
<1>7. RemoveAt(line, i) = front \o back
  BY DEF RemoveAt, front, back, n
<1>8. /\ front \o back \in Seq(Player) /\ Len(front \o back) = Len(front) + Len(back)
      /\ \A j \in 1 .. Len(front) + Len(back) :
            (front \o back)[j] = IF j <= Len(front) THEN front[j] ELSE back[j - Len(front)]
  BY <1>3, <1>4, ConcatProperties
<1>9. Len(front) + Len(back) = n - 1
  BY <1>1, <1>5, <1>6
<1>10. ASSUME NEW j \in 1 .. n - 1
       PROVE  (front \o back)[j] = IF j < i THEN line[j] ELSE line[j + 1]
  <2>1. CASE j < i
    <3>1. j <= Len(front) /\ j \in 1 .. i - 1 /\ j \in 1 .. Len(front) + Len(back)
      BY <1>1, <1>5, <1>9, <2>1
    <3> QED
      BY <1>5, <1>8, <2>1, <3>1
  <2>2. CASE ~(j < i)
    <3>1. ~(j <= Len(front)) /\ j - (i - 1) \in 1 .. n - i /\ i + (j - (i - 1)) = j + 1
          /\ j \in 1 .. Len(front) + Len(back)
      BY <1>1, <1>5, <1>9, <2>2
    <3> QED
      BY <1>5, <1>6, <1>8, <2>2, <3>1
  <2> QED
    BY <2>1, <2>2
<1> QED
  BY <1>7, <1>8, <1>9, <1>10 DEF n

\* In a line without repetition the first place of a player is its only one.
LEMMA RemovedFirst ==
    ASSUME NEW line \in Seq(Player), Distinct(line), NEW i \in 1 .. Len(line)
    PROVE  RemoveFirst(line, line[i]) = RemoveAt(line, i)
<1>1. {j \in 1 .. Len(line) : line[j] = line[i]} = {i}
  BY DEF Distinct
<1>2. Min({i}) = i
  BY DEF Min
<1> QED
  BY <1>1, <1>2 DEF RemoveFirst, SelectInSeq

\* A line without one of its players.
LEMMA CutFacts ==
    ASSUME NEW line \in Seq(Player), Distinct(line), NEW p \in ToSet(line)
    PROVE  LET cut == RemoveFirst(line, p)
           IN  /\ cut \in Seq(Player)
               /\ ToSet(cut) = ToSet(line) \ {p}
               /\ \A T : InOrder(T, line) => InOrder(T, cut)
<1> DEFINE n == Len(line)
<1>1. n \in Nat /\ DOMAIN line = 1 .. n
  OBVIOUS
<1>2. PICK i \in 1 .. n : line[i] = p
  BY <1>1 DEF ToSet
<1> DEFINE cut == RemoveFirst(line, p)
           at(j) == IF j < i THEN j ELSE j + 1
<1>3. cut = RemoveAt(line, i)
  BY <1>2, RemovedFirst
<1>4. /\ cut \in Seq(Player) /\ Len(cut) = n - 1
      /\ \A j \in 1 .. n - 1 : cut[j] = IF j < i THEN line[j] ELSE line[j + 1]
  BY <1>3, RemovedAt
<1> HIDE DEF cut, n
<1>5. DOMAIN cut = 1 .. n - 1 /\ i \in Nat /\ i <= n
  BY <1>1, <1>4
<1>6. \A j \in 1 .. n - 1 : at(j) \in 1 .. n /\ at(j) # i /\ cut[j] = line[at(j)]
  BY <1>1, <1>4, <1>5
<1>7. \A j, h \in 1 .. n - 1 : j < h => at(j) < at(h)
  BY <1>1, <1>5
<1>8. \A h \in 1 .. n : h # i => \E j \in 1 .. n - 1 : at(j) = h
  <2> SUFFICES ASSUME NEW h \in 1 .. n, h # i
               PROVE  \E j \in 1 .. n - 1 : at(j) = h
    OBVIOUS
  <2>1. CASE h < i
    <3>1. h \in 1 .. n - 1 /\ at(h) = h
      BY <1>1, <1>5, <2>1
    <3> QED
      BY <3>1
  <2>2. CASE ~(h < i)
    <3>1. h - 1 \in 1 .. n - 1 /\ at(h - 1) = h
      BY <1>1, <1>5, <2>2
    <3> QED
      BY <3>1
  <2> QED
    BY <2>1, <2>2
<1> HIDE DEF at
<1>9. ASSUME NEW x \in ToSet(cut)
      PROVE  x \in ToSet(line) /\ x # p
  <2>1. PICK j \in 1 .. n - 1 : cut[j] = x
    BY <1>5 DEF ToSet
  <2>2. x = line[at(j)] /\ at(j) \in 1 .. n /\ at(j) # i
    BY <1>6, <2>1
  <2> QED
    BY <1>1, <1>2, <2>2 DEF ToSet, Distinct
<1>10. ASSUME NEW x \in ToSet(line), x # p
       PROVE  x \in ToSet(cut)
  <2>1. PICK h \in 1 .. n : line[h] = x
    BY <1>1 DEF ToSet
  <2>2. PICK j \in 1 .. n - 1 : at(j) = h
    BY <1>2, <1>8, <1>10, <2>1
  <2>3. cut[j] = x
    BY <1>6, <2>1, <2>2
  <2> QED
    BY <1>5, <2>3 DEF ToSet
<1>11. ASSUME NEW T, InOrder(T, line)
       PROVE  InOrder(T, cut)
  BY <1>1, <1>5, <1>6, <1>7, <1>11 DEF InOrder
<1> QED
  BY <1>4, <1>9, <1>10, <1>11 DEF cut

\* CancelTicket keeps the invariant.
LEMMA CancelKeeps ==
    ASSUME IInv, NEW p \in Player, NEW revision \in Nat, CancelTicket(p, revision)
    PROVE  IInv'
<1> DEFINE q == SweptTickets[p].queue
           cut == RemoveFirst(SweptQueues[q], p)
           T == [SweptTickets EXCEPT ![p] = None]
           Q == [SweptQueues EXCEPT ![q] = cut]
<1>1. /\ SweptTickets[p] # None /\ SweptTickets[p].state = "queued"
      /\ tickets' = T /\ queues' = Q
      /\ lobbies' = SweptLobbies /\ lobbyOf' = SweptLobbyOf
      /\ matchIDs' = SweptMatches /\ rooms' = SweptRooms
      /\ nextSequence' = nextSequence /\ now' = now /\ consent' = consent
  BY CancelEffect
<1>2. /\ LobbiesGood(SweptLobbies, nextSequence, consent)
      /\ TicketsGood(SweptTickets, nextSequence)
      /\ SeatsGood(SweptLobbies, SweptLobbyOf, SweptTickets)
      /\ QueuesGood(SweptTickets, SweptQueues)
      /\ MatchesGood(SweptLobbies, SweptLobbyOf, SweptTickets, SweptMatches, SweptRooms)
  BY SweptSound DEF Sound
<1>3. /\ SweptTickets \in [Player -> Ticket \cup {None}]
      /\ \A o \in Player : SweptTickets[o] # None => TicketGood(SweptTickets[o], nextSequence)
  BY <1>2 DEF TicketsGood
<1>4. q \in Queue /\ SweptTickets[p].match = None /\ SweptLobbyOf[p] = None
  <2>1. SweptTickets[p] \in Ticket /\ SweptTickets[p].match = None
    BY <1>1, <1>3 DEF TicketGood
  <2>2. SweptLobbyOf[p] = None
    BY <1>1, <1>2 DEF SeatsGood
  <2> QED
    BY <2>1, <2>2, TicketFields
<1>5. T \in [Player -> Ticket \cup {None}] /\ T[p] = None
      /\ \A o \in Player \ {p} : T[o] = SweptTickets[o]
  BY <1>3
<1> HIDE DEF T
<1>6. TicketsGood(T, nextSequence)
  BY <1>3, <1>5 DEF TicketsGood
<1>7. SeatsGood(SweptLobbies, SweptLobbyOf, T)
      /\ MatchesGood(SweptLobbies, SweptLobbyOf, T, SweptMatches, SweptRooms)
  BY <1>2, <1>4, <1>5, WaitingIsNothing
<1>8. /\ SweptQueues \in [Queue -> Seq(Player)]
      /\ \A r \in Queue : /\ SweptQueues[r] \in Seq(Player)
                          /\ ToSet(SweptQueues[r]) = QueuedIn(SweptTickets, r)
                          /\ InOrder(SweptTickets, SweptQueues[r])
  BY <1>2 DEF QueuesGood
<1>9. p \in ToSet(SweptQueues[q])
  BY <1>1, <1>4, <1>8 DEF QueuedIn
<1>10. Distinct(SweptQueues[q])
  <2>1. \A o \in ToSet(SweptQueues[q]) : SweptTickets[o].sequence \in Nat
    BY <1>3, <1>4, <1>8, TicketFields DEF QueuedIn, TicketGood
  <2> QED
    BY <1>4, <1>8, <2>1, OrderedOnce DEF Distinct
<1>11. /\ cut \in Seq(Player) /\ ToSet(cut) = ToSet(SweptQueues[q]) \ {p}
       /\ InOrder(SweptTickets, cut)
  <2> HIDE DEF q
  <2>1. SweptQueues[q] \in Seq(Player) /\ InOrder(SweptTickets, SweptQueues[q])
    BY <1>4, <1>8
  <2>2. /\ cut \in Seq(Player) /\ ToSet(cut) = ToSet(SweptQueues[q]) \ {p}
        /\ \A U : InOrder(U, SweptQueues[q]) => InOrder(U, cut)
    BY <1>9, <1>10, <2>1, CutFacts
  <2> QED
    BY <2>1, <2>2
<1> HIDE DEF cut
<1>12. Q \in [Queue -> Seq(Player)] /\ Q[q] = cut /\ \A r \in Queue \ {q} : Q[r] = SweptQueues[r]
  BY <1>4, <1>8, <1>11
<1> HIDE DEF Q
<1>13. ASSUME NEW r \in Queue
       PROVE  ToSet(Q[r]) = QueuedIn(T, r) /\ InOrder(T, Q[r])
  <2>1. ToSet(Q[r]) = QueuedIn(T, r)
    <3>1. CASE r = q
      <4>1. QueuedIn(T, q) = QueuedIn(SweptTickets, q) \ {p}
        BY <1>5 DEF QueuedIn
      <4>2. ToSet(Q[q]) = QueuedIn(SweptTickets, q) \ {p}
        BY <1>4, <1>8, <1>11, <1>12
      <4> QED
        BY <3>1, <4>1, <4>2
    <3>2. CASE r # q
      <4>1. QueuedIn(T, r) = QueuedIn(SweptTickets, r)
        BY <1>5, <3>2 DEF QueuedIn
      <4>2. Q[r] = SweptQueues[r]
        BY <1>12, <3>2
      <4> QED
        BY <1>8, <4>1, <4>2
    <3> QED
      BY <3>1, <3>2
  <2>2. InOrder(SweptTickets, Q[r])
    BY <1>8, <1>11, <1>12
  <2>3. \A o \in ToSet(Q[r]) : T[o].sequence = SweptTickets[o].sequence
    BY <1>5, <2>1 DEF QueuedIn
  <2> QED
    BY <2>1, <2>2, <2>3, OrderKept
<1>14. QueuesGood(T, Q)
  BY <1>12, <1>13 DEF QueuesGood
<1>15. /\ LobbiesGood(lobbies', nextSequence', consent')
       /\ TicketsGood(tickets', nextSequence')
       /\ SeatsGood(lobbies', lobbyOf', tickets')
       /\ QueuesGood(tickets', queues')
       /\ MatchesGood(lobbies', lobbyOf', tickets', matchIDs', rooms')
  BY <1>1, <1>2, <1>6, <1>7, <1>14
<1>16. now' \in Nat /\ nextSequence' \in 1 .. MaxSequence /\ consent' \in [Player -> SUBSET Player]
  BY <1>1 DEF IInv
<1> QED
  BY <1>15, <1>16 DEF IInv, Sound

\* The manager starts with nothing in it.
LEMMA InitHolds == Init => IInv
<1> SUFFICES ASSUME Init
             PROVE  IInv
  OBVIOUS
<1>1. /\ now \in Nat /\ nextSequence = 1 /\ nextSequence \in 1 .. MaxSequence
      /\ consent \in [Player -> SUBSET Player]
  BY ConstantTypes DEF Init
<1>2. /\ \A l \in LobbyID : lobbies[l] = None
      /\ \A p \in Player : lobbyOf[p] = None /\ tickets[p] = None
      /\ \A q \in Queue : queues[q] = <<>>
      /\ matchIDs = {}
      /\ lobbies \in [LobbyID -> Lobby \cup {None}]
      /\ lobbyOf \in [Player -> LobbyID \cup {None}]
      /\ tickets \in [Player -> Ticket \cup {None}]
      /\ queues \in [Queue -> Seq(Player)]
  BY DEF Init
<1>3. LobbiesGood(lobbies, nextSequence, consent) /\ TicketsGood(tickets, nextSequence)
  BY <1>2 DEF LobbiesGood, TicketsGood
<1>4. SeatsGood(lobbies, lobbyOf, tickets)
  BY <1>2, ConstantTypes DEF SeatsGood
<1>5. QueuesGood(tickets, queues)
  <2>1. \A q \in Queue : DOMAIN queues[q] = {}
    BY <1>2
  <2>2. \A q \in Queue : ToSet(queues[q]) = {} /\ QueuedIn(tickets, q) = {}
    BY <1>2, <2>1 DEF ToSet, QueuedIn
  <2>3. \A q \in Queue : InOrder(tickets, queues[q])
    BY <2>1 DEF InOrder
  <2> QED
    BY <1>2, <2>2, <2>3 DEF QueuesGood
<1>6. MatchesGood(lobbies, lobbyOf, tickets, matchIDs, rooms)
  <2>1. /\ rooms \in [Match -> [state : RoomState, players : SUBSET Player]]
        /\ \A m \in Match : rooms[m].state = "unused"
    BY DEF Init, RoomState
  <2>2. \A m \in Match : HoldersIn(lobbies, lobbyOf, tickets, m) = {}
    BY <1>2 DEF HoldersIn
  <2> QED
    BY <1>2, <2>1, <2>2 DEF MatchesGood, Forgotten
<1> QED
  BY <1>1, <1>3, <1>4, <1>5, <1>6 DEF IInv, Sound

\* Every step keeps the invariant.
LEMMA NextKeeps == IInv /\ [Next]_vars => IInv'
<1> SUFFICES ASSUME IInv, [Next]_vars
             PROVE  IInv'
  OBVIOUS
<1>0. \A revision \in 1 .. MaxRevision : revision \in Nat
  BY LimitAssumption
<1>1. CASE LobbyCall
  <2> PICK p \in Player, l \in LobbyID :
        \/ \E capacity \in Capacity : Create(p, l, capacity)
        \/ \E revision \in 1 .. MaxRevision :
              \/ Join(p, l, revision)
              \/ Leave(p, l, revision)
              \/ \E ready \in BOOLEAN : SetReady(p, l, revision, ready)
              \/ \E m \in Match : Start(p, l, revision, m)
    BY <1>1 DEF LobbyCall
  <2>1. CASE \E capacity \in Capacity : Create(p, l, capacity)
    BY <2>1, CreateKeeps
  <2>2. ASSUME NEW revision \in 1 .. MaxRevision,
               \/ Join(p, l, revision)
               \/ Leave(p, l, revision)
               \/ \E ready \in BOOLEAN : SetReady(p, l, revision, ready)
               \/ \E m \in Match : Start(p, l, revision, m)
        PROVE  IInv'
    <3>1. CASE Join(p, l, revision)
      BY <1>0, <3>1, JoinKeeps
    <3>2. CASE Leave(p, l, revision)
      BY <1>0, <3>2, LeaveKeeps
    <3>3. CASE \E ready \in BOOLEAN : SetReady(p, l, revision, ready)
      BY <1>0, <3>3, SetReadyKeeps
    <3>4. CASE \E m \in Match : Start(p, l, revision, m)
      BY <1>0, <3>4, StartKeeps
    <3> QED
      BY <2>2, <3>1, <3>2, <3>3, <3>4
  <2> QED
    BY <2>1, <2>2
<1>2. CASE TicketCall
  <2> PICK p \in Player :
        \/ \E q \in Queue : Enqueue(p, q) \/ EnqueueFails(p, q)
        \/ \E revision \in 1 .. MaxRevision : CancelTicket(p, revision)
    BY <1>2 DEF TicketCall
  <2>1. CASE \E q \in Queue : Enqueue(p, q) \/ EnqueueFails(p, q)
    BY <2>1, EnqueueKeeps
  <2>2. CASE \E revision \in 1 .. MaxRevision : CancelTicket(p, revision)
    BY <1>0, <2>2, CancelKeeps
  <2> QED
    BY <2>1, <2>2
<1>3. CASE Expire
  BY <1>3, ExpireKeeps
<1>4. CASE \E m \in Match : RoomEnds(m)
  BY <1>4, RoomEndsKeeps
<1>5. CASE Tick
  BY <1>5, TickKeeps
<1>6. CASE UNCHANGED vars
  BY <1>6 DEF IInv, vars
<1> QED
  BY <1>1, <1>2, <1>3, <1>4, <1>5, <1>6 DEF Next

-----------------------------------------------------------------------------
(***************************************************************************)
(* The invariants.                                                         *)
(***************************************************************************)

\* Through every history of calls, expiries and ends of rooms, IInv holds:
\* each method of the manager leaves the state it found sound.
THEOREM ManagerStaysSound == Spec => []IInv
BY InitHolds, NextKeeps, PTL DEF Spec

\* Each player has at most one seat, in the lobby that lists the player, or one
\* ticket (Create, Join, Leave, Enqueue and expireLocked keep the two indexes
\* and the records in step).
THEOREM OneSeatEach == Spec => []SeatIntegrity
<1>1. IInv => SeatIntegrity
  BY DEF IInv, Sound, SeatsGood, SeatIntegrity
<1> QED
  BY <1>1, ManagerStaysSound, PTL

\* Each queue lists exactly the players who wait in it, in the order of their
\* insertion (matchQueueLocked, compactQueueLocked, CancelTicket, expireLocked).
THEOREM QueuesListWaiters == Spec => []QueueIntegrity
<1>1. IInv => QueueIntegrity
  BY DEF IInv, Sound, QueuesGood, QueuedIn, InOrder, QueueIntegrity
<1> QED
  BY <1>1, ManagerStaysSound, PTL

\* A ready flag was declared to the present members, and a matched lobby is a
\* full lobby of them (Join and Leave clear the flags, Start checks them).
THEOREM ReadyFlagsCurrent == Spec => []ReadyMeansThisGroup
<1>1. IInv => ReadyMeansThisGroup
  BY DEF IInv, Sound, LobbiesGood, LobbyGood, Agreed, ReadyMeansThisGroup
<1> QED
  BY <1>1, ManagerStaysSound, PTL

\* A remembered match is held by the players of its room, a forgotten one by
\* nobody (Start and matchQueueLocked allocate, expireLocked forgets and ends).
THEOREM MatchesHeldTogether == Spec => []MatchIntegrity
<1>1. IInv => MatchIntegrity
  <2> SUFFICES ASSUME IInv, NEW m \in Match
               PROVE  IF m \in matchIDs
                      THEN /\ Holders(m) = rooms[m].players
                           /\ rooms[m].state # "unused"
                           /\ \A l \in LobbyID : lobbies[l] # None /\ lobbies[l].match = m =>
                                 /\ Cardinality(rooms[m].players) = lobbies[l].capacity
                                 /\ Members(lobbies[l]) = rooms[m].players
                           /\ \A p \in Player : tickets[p] # None /\ tickets[p].match = m =>
                                 /\ Cardinality(rooms[m].players) = tickets[p].queue[2]
                                 /\ \A o \in rooms[m].players :
                                       /\ tickets[o] # None /\ tickets[o].queue = tickets[p].queue
                                       /\ tickets[o].deadline = tickets[p].deadline
                      ELSE Holders(m) = {} /\ rooms[m].state # "open"
    BY DEF MatchIntegrity
  <2>1. Holders(m) = HoldersIn(lobbies, lobbyOf, tickets, m)
    BY DEF Holders, HoldersIn
  <2>2. MatchesGood(lobbies, lobbyOf, tickets, matchIDs, rooms)
    BY DEF IInv, Sound
  <2>3. CASE m \in matchIDs
    BY <2>1, <2>2, <2>3 DEF MatchesGood, Remembered
  <2>4. CASE m \notin matchIDs
    BY <2>1, <2>2, <2>4 DEF MatchesGood, Forgotten
  <2> QED
    BY <2>3, <2>4
<1> QED
  BY <1>1, ManagerStaysSound, PTL

\* Every lobby has its longest-present member as owner and no more members than
\* places, and all of the state has its type (Left passes ownership on).
THEOREM LobbiesShaped == Spec => []LobbyShape
<1>1. IInv => LobbyShape
  <2> SUFFICES ASSUME IInv
               PROVE  LobbyShape
    OBVIOUS
  <2>1. /\ LobbiesGood(lobbies, nextSequence, consent) /\ TicketsGood(tickets, nextSequence)
        /\ SeatsGood(lobbies, lobbyOf, tickets) /\ QueuesGood(tickets, queues)
        /\ MatchesGood(lobbies, lobbyOf, tickets, matchIDs, rooms)
    BY DEF IInv, Sound
  <2>2. TypeOK
    BY <2>1 DEF IInv, LobbiesGood, TicketsGood, SeatsGood, QueuesGood, MatchesGood, RoomState, TypeOK
  <2>3. ASSUME NEW l \in LobbyID, lobbies[l] # None
        PROVE  LET joined == lobbies[l].joined
               IN  /\ lobbies[l].owner \in DOMAIN joined
                   /\ \A p \in DOMAIN joined \ {lobbies[l].owner} :
                         joined[lobbies[l].owner] < joined[p]
                   /\ Cardinality(DOMAIN joined) <= lobbies[l].capacity
    <3> DEFINE b == lobbies[l]
    <3>1. LobbyGood(b, nextSequence)
      BY <2>1, <2>3 DEF LobbiesGood
    <3> HIDE DEF b
    <3>2. /\ b \in Lobby /\ b.owner \in Members(b)
          /\ \A p, o \in Members(b) : b.joined[p] = b.joined[o] => p = o
          /\ \A p \in Members(b) : b.joined[b.owner] <= b.joined[p]
          /\ Cardinality(Members(b)) <= b.capacity
      BY <3>1 DEF LobbyGood
    <3>3. b.joined \in [Members(b) -> 1 .. MaxSequence]
      BY <3>2, LobbyFields
    <3>4. \A p \in Members(b) : b.joined[p] \in Nat
      BY <3>3, ConstantTypes
    <3>5. \A p \in Members(b) \ {b.owner} : b.joined[b.owner] < b.joined[p]
      BY <3>2, <3>4
    <3> QED
      BY <3>2, <3>5 DEF Members, b
  <2> QED
    BY <2>2, <2>3 DEF LobbyShape
<1> QED
  BY <1>1, ManagerStaysSound, PTL

-----------------------------------------------------------------------------
(***************************************************************************)
(* What a call may do to a lobby and to a ticket.                          *)
(***************************************************************************)

\* A call leaves a record as the sweep left it, changes it, or makes it.
Moved(before, after) ==
    after # None =>
        \/ after = before
        \/ /\ before # None /\ now < after.deadline
           /\ after.revision = before.revision + 1
        \/ before = None /\ after.sequence = nextSequence /\ now < after.deadline

LobbiesMove == \A l \in LobbyID : Moved(SweptLobbies[l], lobbies'[l])

TicketsMove == \A p \in Player : Moved(SweptTickets[p], tickets'[p])

\* Whoever is placed came before whoever waits on in the same queue.
InTurn ==
    \A p, o \in Player :
        LET placed == tickets'[p]
            waits  == tickets'[o]
        IN  (/\ placed # None /\ placed.state = "matched"
             /\ tickets[p] = None \/ tickets[p].state = "queued"
             /\ waits # None /\ waits.state = "queued" /\ waits.queue = placed.queue)
            => placed.sequence < waits.sequence

\* A call that sets one lobby moves no other.
LEMMA OneLobbyMoves ==
    ASSUME IInv, NEW l \in LobbyID, NEW x, Moved(SweptLobbies[l], x),
           lobbies' = [SweptLobbies EXCEPT ![l] = x]
    PROVE  LobbiesMove
<1>1. SweptLobbies \in [LobbyID -> Lobby \cup {None}]
  BY SweptSound DEF Sound, LobbiesGood
<1>2. lobbies'[l] = x /\ \A k \in LobbyID \ {l} : lobbies'[k] = SweptLobbies[k]
  BY <1>1
<1> QED
  BY <1>2 DEF LobbiesMove, Moved

\* No ticket is placed where none changes.
LEMMA QuietTickets ==
    ASSUME IInv, \A p \in Player : tickets'[p] # None => tickets'[p] = SweptTickets[p]
    PROVE  TicketsMove /\ InTurn
<1>1. \A p \in Player : SweptTickets[p] # None => SweptTickets[p] = tickets[p]
  BY SweptSound
<1>2. TicketsMove
  BY DEF TicketsMove, Moved
<1>3. InTurn
  BY <1>1 DEF InTurn
<1> QED
  BY <1>2, <1>3

\* The calls on lobbies change one lobby by one revision and place nobody.
LEMMA LobbyCallMoves ==
    ASSUME IInv, LobbyCall
    PROVE  LobbiesMove /\ TicketsMove /\ InTurn
<1>1. /\ now \in Nat /\ nextSequence \in 1 .. MaxSequence /\ nextSequence \in Nat
      /\ consent \in [Player -> SUBSET Player]
      /\ now < now + LobbyTTL /\ now < now + MatchTTL
  BY ConstantTypes DEF IInv
<1>2. /\ LobbiesGood(SweptLobbies, nextSequence, consent)
      /\ SeatsGood(SweptLobbies, SweptLobbyOf, SweptTickets)
      /\ \A l \in LobbyID : SweptLobbies[l] # None => now < SweptLobbies[l].deadline
  BY SweptSound DEF Sound
<1>3. \A revision \in 1 .. MaxRevision : revision \in Nat
  BY LimitAssumption
<1> PICK p \in Player, l \in LobbyID :
      \/ \E capacity \in Capacity : Create(p, l, capacity)
      \/ \E revision \in 1 .. MaxRevision :
            \/ Join(p, l, revision)
            \/ Leave(p, l, revision)
            \/ \E ready \in BOOLEAN : SetReady(p, l, revision, ready)
            \/ \E m \in Match : Start(p, l, revision, m)
  BY DEF LobbyCall
<1> DEFINE b == SweptLobbies[l]
<1>4. b # None => /\ LobbyGood(b, nextSequence) /\ Agreed(b, consent) /\ now < b.deadline
  BY <1>2 DEF LobbiesGood
<1>5. SweptLobbyOf[p] = None /\ b # None => p \notin Members(b)
  BY <1>2, ConstantTypes DEF SeatsGood
<1> HIDE DEF b
<1>6. ASSUME NEW capacity \in Capacity, Create(p, l, capacity)
      PROVE  LobbiesMove /\ tickets' = SweptTickets
  <2> DEFINE x == NewLobby(p, capacity)
  <2>1. b = None /\ lobbies' = [SweptLobbies EXCEPT ![l] = x] /\ tickets' = SweptTickets
    BY <1>6, CreateEffect DEF b
  <2>2. x.sequence = nextSequence /\ x.deadline = now + LobbyTTL
    BY <1>1, NewLobbyGood
  <2> HIDE DEF x
  <2>3. Moved(b, x)
    BY <1>1, <2>1, <2>2 DEF Moved
  <2> QED
    BY <2>1, <2>3, OneLobbyMoves DEF b
<1>7. ASSUME NEW revision \in Nat, Join(p, l, revision)
      PROVE  LobbiesMove /\ tickets' = SweptTickets
  <2> DEFINE x == Joined(b, p)
  <2>1. /\ b # None /\ b.state = "open" /\ SweptLobbyOf[p] = None
        /\ Cardinality(Members(b)) < b.capacity
        /\ lobbies' = [SweptLobbies EXCEPT ![l] = x] /\ tickets' = SweptTickets
    BY <1>7, JoinEffect DEF b, Current
  <2>2. x.deadline = b.deadline /\ x.revision = b.revision + 1
    BY <1>1, <1>4, <1>5, <2>1, JoinedGood
  <2> HIDE DEF x
  <2>3. Moved(b, x)
    BY <1>4, <2>1, <2>2 DEF Moved
  <2> QED
    BY <2>1, <2>3, OneLobbyMoves DEF b
<1>8. ASSUME NEW revision \in Nat, Leave(p, l, revision)
      PROVE  LobbiesMove /\ tickets' = SweptTickets
  <2> DEFINE x == Left(b, p)
  <2>1. /\ b # None /\ b.state = "open" /\ p \in Members(b)
        /\ lobbies' = [SweptLobbies EXCEPT ![l] = x] /\ tickets' = SweptTickets
    BY <1>8, LeaveEffect DEF b, Current
  <2>2. x = None \/ (x.deadline = b.deadline /\ x.revision = b.revision + 1)
    BY <1>1, <1>4, <2>1, LeftGood, LastLeaves
  <2> HIDE DEF x
  <2>3. Moved(b, x)
    BY <1>4, <2>1, <2>2 DEF Moved
  <2> QED
    BY <2>1, <2>3, OneLobbyMoves DEF b
<1>9. ASSUME NEW revision \in Nat, NEW ready \in BOOLEAN, SetReady(p, l, revision, ready)
      PROVE  LobbiesMove /\ tickets' = SweptTickets
  <2> DEFINE x == Readied(b, p, ready, revision)
  <2>1. /\ b # None /\ b.state = "open" /\ p \in Members(b) /\ b.revision = revision
        /\ lobbies' = [SweptLobbies EXCEPT ![l] = x] /\ tickets' = SweptTickets
    BY <1>9, SetReadyEffect DEF b, Current
  <2>2. x.deadline = b.deadline /\ x.revision = revision + 1
    BY <1>1, <1>4, <2>1, ReadiedGood
  <2> HIDE DEF x
  <2>3. Moved(b, x)
    BY <1>4, <2>1, <2>2 DEF Moved
  <2> QED
    BY <2>1, <2>3, OneLobbyMoves DEF b
<1>10. ASSUME NEW revision \in Nat, NEW m \in Match, Start(p, l, revision, m)
       PROVE  LobbiesMove /\ tickets' = SweptTickets
  <2> DEFINE x == Started(b, revision, m)
  <2>1. /\ b # None /\ Startable(b, p) /\ b.revision = revision
        /\ lobbies' = [SweptLobbies EXCEPT ![l] = x] /\ tickets' = SweptTickets
    BY <1>10, StartEffect DEF b, Current
  <2>2. x.deadline = now + MatchTTL /\ x.revision = revision + 1
    BY <1>1, <1>4, <2>1, StartedGood
  <2> HIDE DEF x
  <2>3. Moved(b, x)
    BY <1>1, <2>1, <2>2 DEF Moved
  <2> QED
    BY <2>1, <2>3, OneLobbyMoves DEF b
<1>11. LobbiesMove /\ tickets' = SweptTickets
  BY <1>3, <1>6, <1>7, <1>8, <1>9, <1>10
<1> QED
  BY <1>11, QuietTickets

\* Where the lobbies are as the sweep left them.
LEMMA QuietLobbies ==
    ASSUME lobbies' = SweptLobbies
    PROVE  LobbiesMove
BY DEF LobbiesMove, Moved

\* Enqueue makes one ticket and places the first of the line.
LEMMA EnqueueMoves ==
    ASSUME IInv, NEW p \in Player, NEW q \in Queue, Enqueue(p, q) \/ EnqueueFails(p, q)
    PROVE  LobbiesMove /\ TicketsMove /\ InTurn
<1>1. PICK k \in Nat : /\ k <= FullGroups(p, q)
                       /\ \E drawn \in [1 .. k -> Match] : Queued(p, q, drawn)
  BY EnqueueDraws
<1>2. PICK drawn \in [1 .. k -> Match] : Queued(p, q, drawn)
  BY <1>1
<1> DEFINE W == WithOwn(p, q)
           line == NewLine(p, q)
           s == q[2]
           d == now + MatchTTL
           X == TicketsDrawn(W, line, s, drawn, d)
           placed == Placed(line, s, drawn)
           n == nextSequence + 1
<1>3. /\ Drawing(W, n, q, line, s, k, drawn) /\ Len(drawn) = k
      /\ W[p] = Own(q) /\ \A o \in Player \ {p} : W[o] = SweptTickets[o]
  BY <1>1, <1>2, DrawingHere
<1>4. tickets' = X /\ lobbies' = SweptLobbies /\ SweptTickets[p] = None
  BY <1>2, QueuedEffect
<1>5. /\ d \in Nat /\ now < d /\ now < now + TicketTTL /\ nextSequence \in Nat /\ now \in Nat
  BY ConstantTypes DEF IInv
<1>6. /\ Own(q).sequence = nextSequence /\ Own(q).deadline = now + TicketTTL
      /\ Own(q).state = "queued" /\ Own(q).queue = q
  BY <1>5, OwnGood
<1>7. \A o \in Player : SweptTickets[o] # None => SweptTickets[o] = tickets[o]
  BY SweptSound
<1>8. QueuesGood(SweptTickets, SweptQueues)
  BY SweptSound DEF Sound
<1> HIDE DEF W, line, d, n, placed
<1>9. /\ placed \subseteq Player
      /\ \A o \in Player \ placed : X[o] = W[o]
      /\ \A o \in placed :
            /\ W[o] # None
            /\ X[o].queue = q /\ X[o].sequence = W[o].sequence /\ X[o].deadline = d
            /\ X[o].revision = W[o].revision + 1
  BY <1>3, <1>5, TicketsDrawnGood DEF placed
<1>10. \A o \in placed, u \in Player :
          X[u] # None /\ X[u].state = "queued" /\ X[u].queue = q
             => X[o].sequence < X[u].sequence
  <2>1. /\ SweptQueues \in [Queue -> Seq(Player)]
        /\ \A r \in Queue \ {q} :
              ToSet(SweptQueues[r]) = QueuedIn(W, r) /\ InOrder(W, SweptQueues[r])
    BY <1>3, <1>4, <1>6, <1>8, OtherQueues DEF W
  <2> QED
    <3>1. Drawing(W, n, q, line, s, k, drawn) /\ d \in Nat
      BY <1>3, <1>5
    <3>2. /\ QueuesGood(X, [SweptQueues EXCEPT ![q] = SubSeq(line, s * k + 1, Len(line))])
          /\ \A o \in Placed(line, s, drawn), u \in Player :
                X[u] # None /\ X[u].state = "queued" /\ X[u].queue = q
                   => X[o].sequence < X[u].sequence
      BY <2>1, <3>1, QueuesDrawnGood
    <3> QED
      BY <3>2 DEF placed
<1> HIDE DEF X
<1>11. ASSUME NEW o \in Player
       PROVE  Moved(SweptTickets[o], X[o])
  <2>1. CASE o = p /\ o \in placed
    BY <1>3, <1>4, <1>5, <1>6, <1>9, <2>1 DEF Moved
  <2>2. CASE o = p /\ o \notin placed
    BY <1>3, <1>4, <1>5, <1>6, <1>9, <2>2 DEF Moved
  <2>3. CASE o # p /\ o \in placed
    BY <1>3, <1>5, <1>9, <2>3 DEF Moved
  <2>4. CASE o # p /\ o \notin placed
    BY <1>3, <1>9, <2>4 DEF Moved
  <2> QED
    BY <2>1, <2>2, <2>3, <2>4
<1>12. InTurn
  BY <1>3, <1>4, <1>6, <1>7, <1>9, <1>10 DEF InTurn
<1>13. TicketsMove
  BY <1>4, <1>11 DEF TicketsMove
<1> QED
  BY <1>4, <1>12, <1>13, QuietLobbies

\* Every call of the manager.
LEMMA CallMoves ==
    ASSUME IInv, LobbyCall \/ TicketCall \/ Expire
    PROVE  LobbiesMove /\ TicketsMove /\ InTurn
<1>1. CASE LobbyCall
  BY <1>1, LobbyCallMoves
<1>2. CASE TicketCall
  <2> PICK p \in Player :
        \/ \E q \in Queue : Enqueue(p, q) \/ EnqueueFails(p, q)
        \/ \E revision \in 1 .. MaxRevision : CancelTicket(p, revision)
    BY <1>2 DEF TicketCall
  <2>1. CASE \E q \in Queue : Enqueue(p, q) \/ EnqueueFails(p, q)
    BY <2>1, EnqueueMoves
  <2>2. ASSUME NEW revision \in 1 .. MaxRevision, CancelTicket(p, revision)
        PROVE  LobbiesMove /\ TicketsMove /\ InTurn
    <3>1. revision \in Nat
      BY LimitAssumption
    <3>2. tickets' = [SweptTickets EXCEPT ![p] = None] /\ lobbies' = SweptLobbies
      BY <2>2, <3>1, CancelEffect
    <3>3. SweptTickets \in [Player -> Ticket \cup {None}]
      BY SweptSound DEF Sound, TicketsGood
    <3>4. \A o \in Player : tickets'[o] # None => tickets'[o] = SweptTickets[o]
      BY <3>2, <3>3
    <3> QED
      BY <3>2, <3>4, QuietLobbies, QuietTickets
  <2> QED
    BY <2>1, <2>2
<1>3. CASE Expire
  <2>1. lobbies' = SweptLobbies /\ tickets' = SweptTickets
    BY <1>3, ExpireEffect
  <2> QED
    BY <2>1, QuietLobbies, QuietTickets
<1> QED
  BY <1>1, <1>2, <1>3

\* Records that live, in the types their deadlines and sequences have.
LEMMA LiveRecords ==
    ASSUME IInv
    PROVE  /\ now \in Nat /\ nextSequence \in Nat
           /\ \A l \in LobbyID : lobbies[l] # None =>
                 /\ lobbies[l].sequence \in Nat /\ lobbies[l].sequence < nextSequence
           /\ \A p \in Player : tickets[p] # None =>
                 /\ tickets[p].sequence \in Nat /\ tickets[p].sequence < nextSequence
           /\ \A l \in LobbyID : SweptLobbies[l] # None =>
                 /\ SweptLobbies[l] = lobbies[l] /\ now < lobbies[l].deadline
                 /\ lobbies[l].deadline \in Nat
           /\ \A p \in Player : SweptTickets[p] # None =>
                 /\ SweptTickets[p] = tickets[p] /\ now < tickets[p].deadline
                 /\ tickets[p].deadline \in Nat
<1>1. now \in Nat /\ nextSequence \in Nat
  BY ConstantTypes DEF IInv
<1>2. LobbiesGood(lobbies, nextSequence, consent) /\ TicketsGood(tickets, nextSequence)
  BY DEF IInv, Sound
<1>3. ASSUME NEW l \in LobbyID, lobbies[l] # None
      PROVE  lobbies[l].sequence \in Nat /\ lobbies[l].sequence < nextSequence
             /\ lobbies[l].deadline \in Nat
  BY <1>2, <1>3, LobbyFields DEF LobbiesGood, LobbyGood
<1>4. ASSUME NEW p \in Player, tickets[p] # None
      PROVE  tickets[p].sequence \in Nat /\ tickets[p].sequence < nextSequence
             /\ tickets[p].deadline \in Nat
  BY <1>2, <1>4, TicketFields DEF TicketsGood, TicketGood
<1> QED
  BY <1>1, <1>3, <1>4, SweptSound

\* A call never acts on what is due.
LEMMA MovedRespects ==
    ASSUME now \in Nat, NEW before, NEW swept, NEW after, Moved(swept, after),
           swept # None => swept = before /\ now < before.deadline /\ before.deadline \in Nat
    PROVE  Respected(before, after)
BY DEF Moved, Respected, Over

\* A lobby that changes shows the next revision (Join, Leave, SetReady, Start;
\* a lobby created in the place of an expired one has a sequence of its own).
THEOREM ChangesShowInRevision == Spec => RevisionWitness
<1> DEFINE A == \A l \in LobbyID :
                   (/\ lobbies[l] # None /\ lobbies'[l] # None /\ lobbies'[l].sequence = lobbies[l].sequence
                    /\ lobbies'[l] # lobbies[l])
                   => lobbies'[l].revision = lobbies[l].revision + 1
<1>1. IInv /\ [Next]_vars => A
  <2> SUFFICES ASSUME IInv, [Next]_vars
               PROVE  A
    OBVIOUS
  <2>1. CASE LobbyCall \/ TicketCall \/ Expire
    <3>1. LobbiesMove
      BY <2>1, CallMoves
    <3> QED
      BY <3>1, LiveRecords DEF LobbiesMove, Moved
  <2>2. CASE (\E m \in Match : RoomEnds(m)) \/ Tick \/ UNCHANGED vars
    BY <2>2 DEF RoomEnds, Tick, vars
  <2> QED
    BY <2>1, <2>2 DEF Next
<1>2. IInv /\ [Next]_vars => [A]_vars
  BY <1>1
<1> HIDE DEF A
<1>3. Spec => [][A]_vars
  BY <1>2, ManagerStaysSound, PTL DEF Spec
<1> QED
  BY <1>3 DEF RevisionWitness, A

\* No call leaves behind, or acts on, a lobby or a ticket that is due
\* (expireLocked comes first in every method).
THEOREM DeadlinesAreExact == Spec => ExactDeadline
<1> DEFINE A == \/ UNCHANGED <<lobbies, tickets>>
                \/ /\ \A l \in LobbyID : Respected(lobbies[l], lobbies'[l])
                   /\ \A p \in Player : Respected(tickets[p], tickets'[p])
<1>1. IInv /\ [Next]_vars => A
  <2> SUFFICES ASSUME IInv, [Next]_vars
               PROVE  A
    OBVIOUS
  <2>1. CASE LobbyCall \/ TicketCall \/ Expire
    <3>1. LobbiesMove /\ TicketsMove
      BY <2>1, CallMoves
    <3>2. \A l \in LobbyID : Respected(lobbies[l], lobbies'[l])
      BY <3>1, LiveRecords, MovedRespects DEF LobbiesMove
    <3>3. \A p \in Player : Respected(tickets[p], tickets'[p])
      BY <3>1, LiveRecords, MovedRespects DEF TicketsMove
    <3> QED
      BY <3>2, <3>3
  <2>2. CASE (\E m \in Match : RoomEnds(m)) \/ Tick \/ UNCHANGED vars
    BY <2>2 DEF RoomEnds, Tick, vars
  <2> QED
    BY <2>1, <2>2 DEF Next
<1>2. IInv /\ [Next]_vars => [A]_vars
  BY <1>1
<1> HIDE DEF A
<1>3. Spec => [][A]_vars
  BY <1>2, ManagerStaysSound, PTL DEF Spec
<1> QED
  BY <1>3 DEF ExactDeadline, A

\* Quick Match is first come, first served (matchQueueLocked takes its groups
\* from the head of a line in the order of insertion).
THEOREM FirstComeFirstServed == Spec => FifoMatching
<1>1. IInv /\ [Next]_vars => InTurn
  <2> SUFFICES ASSUME IInv, [Next]_vars
               PROVE  InTurn
    OBVIOUS
  <2>1. CASE LobbyCall \/ TicketCall \/ Expire
    BY <2>1, CallMoves
  <2>2. CASE (\E m \in Match : RoomEnds(m)) \/ Tick \/ UNCHANGED vars
    BY <2>2 DEF RoomEnds, Tick, vars, InTurn
  <2> QED
    BY <2>1, <2>2 DEF Next
<1>2. IInv /\ [Next]_vars => [InTurn]_vars
  BY <1>1
<1>3. Spec => [][InTurn]_vars
  BY <1>2, ManagerStaysSound, PTL DEF Spec
<1> QED
  BY <1>3 DEF FifoMatching, InTurn

-----------------------------------------------------------------------------
(***************************************************************************)
(* The manager over the registry it shares with the operator.              *)
(***************************************************************************)

\* The room of a match is there for the match alone.
KeptFor(m) ==
    records[m].by = "match" =>
        m \in matchIDs /\ rooms[m].state = "open" /\ records[m].deadline = MatchDeadline(m)

\* A match that is remembered has its room, or at least the tombstone of it.
Traced(m) ==
    m \in matchIDs /\ m \notin deleted =>
        \/ records[m].by = "match"
        \/ /\ records[m].state = "tombstone" /\ MatchDeadline(m) <= now
           /\ records[m].deadline >= MatchDeadline(m) + TombstoneTTL

Untouched(m) == rooms[m].state = "unused" => records[m] = Absent /\ m \notin deleted

\* The sweeper has let nothing be overdue for its whole interval.
Prompt(record) == record # None => now < record.deadline + SweepInterval

RegistryGood ==
    /\ records \in [RoomID -> Record]
    /\ IsFiniteSet({r \in RoomID : records[r].state # "absent"})
    /\ \A r \in RoomID : records[r].by # "nobody" => records[r].state = "open"
    /\ \A r \in OwnRoom : records[r].by # "match"

SharedInv ==
    /\ IInv
    /\ RegistryGood
    /\ \A m \in Match : KeptFor(m) /\ Traced(m) /\ Untouched(m)
    /\ \A l \in LobbyID : Prompt(lobbies[l])
    /\ \A p \in Player : Prompt(tickets[p])

\* Until when the players of the match m hold it, in the lobbies L, the seats O
\* and the tickets T.
UntilIn(L, O, T, m) ==
    LET p == CHOOSE o \in HoldersIn(L, O, T, m) : TRUE
    IN  IF T[p] # None THEN T[p].deadline ELSE L[O[p]].deadline

\* All who hold a match hold it until the same time.
LEMMA HeldUntil ==
    ASSUME NEW L, NEW O, NEW T, NEW room, NEW m \in Match,
           room.players \subseteq Player, SeatsGood(L, O, T), Remembered(L, O, T, room, m)
    PROVE  /\ \A l \in LobbyID : L[l] # None /\ L[l].match = m => L[l].deadline = UntilIn(L, O, T, m)
           /\ \A p \in Player : T[p] # None /\ T[p].match = m => T[p].deadline = UntilIn(L, O, T, m)
           /\ \/ \E l \in LobbyID : L[l] # None /\ L[l].match = m
              \/ \E p \in Player : T[p] # None /\ T[p].match = m
<1> DEFINE h == CHOOSE o \in HoldersIn(L, O, T, m) : TRUE
<1>1. h \in room.players /\ h \in Player /\ h \in HoldersIn(L, O, T, m)
  BY DEF Remembered
<1>2. UntilIn(L, O, T, m) = IF T[h] # None THEN T[h].deadline ELSE L[O[h]].deadline
  BY DEF UntilIn
<1> HIDE DEF h
<1>3. ASSUME NEW l \in LobbyID, L[l] # None, L[l].match = m
      PROVE  L[l].deadline = UntilIn(L, O, T, m)
  <2>1. h \in Members(L[l])
    BY <1>1, <1>3 DEF Remembered
  <2>2. O[h] = l /\ l # None
    BY <1>1, <1>3, <2>1, ConstantTypes DEF SeatsGood
  <2>3. T[h] = None
    BY <1>1, <2>2 DEF SeatsGood
  <2> QED
    BY <1>2, <2>2, <2>3
<1>4. ASSUME NEW p \in Player, T[p] # None, T[p].match = m
      PROVE  T[p].deadline = UntilIn(L, O, T, m)
  <2>1. T[h] # None /\ T[h].deadline = T[p].deadline
    BY <1>1, <1>4 DEF Remembered
  <2> QED
    BY <1>2, <2>1
<1>5. \/ \E l \in LobbyID : L[l] # None /\ L[l].match = m
      \/ \E p \in Player : T[p] # None /\ T[p].match = m
  <2>1. \/ T[h] # None /\ T[h].match = m
        \/ O[h] # None /\ L[O[h]].match = m
    BY <1>1 DEF HoldersIn
  <2>2. O[h] # None => O[h] \in LobbyID /\ L[O[h]] # None
    BY <1>1 DEF SeatsGood
  <2> QED
    BY <1>1, <2>1, <2>2
<1> QED
  BY <1>3, <1>4, <1>5

\* A remembered match is over once its deadline has come, and not before.
LEMMA OverAtDeadline ==
    ASSUME IInv
    PROVE  /\ OverMatches \subseteq matchIDs
           /\ \A m \in matchIDs : /\ m \in Match /\ MatchDeadline(m) \in Nat
                                  /\ m \in OverMatches <=> now >= MatchDeadline(m)
           /\ \A m \in Match : MatchDeadline(m) = UntilIn(lobbies, lobbyOf, tickets, m)
<1>1. /\ LobbiesGood(lobbies, nextSequence, consent) /\ TicketsGood(tickets, nextSequence)
      /\ SeatsGood(lobbies, lobbyOf, tickets)
      /\ MatchesGood(lobbies, lobbyOf, tickets, matchIDs, rooms) /\ now \in Nat
  BY DEF IInv, Sound
<1>2. /\ matchIDs \subseteq Match /\ None \notin Match
      /\ \A l \in LobbyID : lobbies[l] # None /\ lobbies[l].match # None => lobbies[l].match \in matchIDs
      /\ \A p \in Player : tickets[p] # None /\ tickets[p].match # None => tickets[p].match \in matchIDs
  <2>1. matchIDs \subseteq Match /\ None \notin Match
    BY <1>1, ConstantTypes DEF MatchesGood
  <2> QED
    BY <1>1, <2>1, NamedIsRemembered
<1>3. ASSUME NEW m \in OverMatches
      PROVE  m \in matchIDs
  <2>1. CASE \E l \in LobbyID : Due(lobbies[l]) /\ lobbies[l].state = "matched" /\ lobbies[l].match = m
    <3>1. PICK l \in LobbyID : Due(lobbies[l]) /\ lobbies[l].state = "matched" /\ lobbies[l].match = m
      BY <2>1
    <3>2. lobbies[l] # None /\ LobbyGood(lobbies[l], nextSequence)
      BY <1>1, <3>1 DEF Due, LobbiesGood
    <3>3. lobbies[l].match # None
      BY <3>1, <3>2 DEF LobbyGood
    <3> QED
      BY <1>2, <3>1, <3>2, <3>3
  <2>2. CASE \E p \in Player : Due(tickets[p]) /\ tickets[p].state = "matched" /\ tickets[p].match = m
    <3>1. PICK p \in Player : Due(tickets[p]) /\ tickets[p].state = "matched" /\ tickets[p].match = m
      BY <2>2
    <3>2. tickets[p] # None /\ TicketGood(tickets[p], nextSequence)
      BY <1>1, <3>1 DEF Due, TicketsGood
    <3>3. tickets[p].match # None
      BY <3>1, <3>2 DEF TicketGood
    <3> QED
      BY <1>2, <3>1, <3>2, <3>3
  <2> QED
    BY <2>1, <2>2 DEF OverMatches
<1>4. \A m \in Match : MatchDeadline(m) = UntilIn(lobbies, lobbyOf, tickets, m)
  BY DEF MatchDeadline, UntilIn, Holders, HoldersIn
<1>5. ASSUME NEW m \in matchIDs
      PROVE  /\ m \in Match /\ MatchDeadline(m) \in Nat
             /\ m \in OverMatches <=> now >= MatchDeadline(m)
  <2> DEFINE d == MatchDeadline(m)
  <2>1. m \in Match /\ Remembered(lobbies, lobbyOf, tickets, rooms[m], m)
        /\ rooms[m] \in [state : RoomState, players : SUBSET Player]
    BY <1>1, <1>2 DEF MatchesGood
  <2>2. rooms[m].players \subseteq Player /\ d = UntilIn(lobbies, lobbyOf, tickets, m)
    BY <1>4, <2>1
  <2> HIDE DEF d
  <2>3. /\ \A l \in LobbyID : lobbies[l] # None /\ lobbies[l].match = m => lobbies[l].deadline = d
        /\ \A p \in Player : tickets[p] # None /\ tickets[p].match = m => tickets[p].deadline = d
        /\ \/ \E l \in LobbyID : lobbies[l] # None /\ lobbies[l].match = m
           \/ \E p \in Player : tickets[p] # None /\ tickets[p].match = m
    BY <1>1, <2>1, <2>2, HeldUntil
  <2>4. d \in Nat
    <3>1. \A l \in LobbyID : lobbies[l] # None => lobbies[l].deadline \in Nat
      BY <1>1, LobbyFields DEF LobbiesGood, LobbyGood
    <3>2. \A p \in Player : tickets[p] # None => tickets[p].deadline \in Nat
      BY <1>1, TicketFields DEF TicketsGood, TicketGood
    <3> QED
      BY <2>3, <3>1, <3>2
  <2>5. m \in OverMatches <=>
              \/ \E l \in LobbyID : Due(lobbies[l]) /\ lobbies[l].match = m
              \/ \E p \in Player : Due(tickets[p]) /\ tickets[p].match = m
    BY <1>1, <2>1, OverFacts
  <2>6. m \in OverMatches <=> now >= d
    BY <2>3, <2>5 DEF Due
  <2> QED
    BY <2>1, <2>4, <2>6 DEF d
<1> QED
  BY <1>3, <1>4, <1>5

\* The lobby or the ticket of someone who holds the match m until d.
NamedUntil(L, T, m, d) ==
    \/ \E l \in LobbyID : L[l] # None /\ L[l].match = m /\ L[l].deadline = d
    \/ \E p \in Player : T[p] # None /\ T[p].match = m /\ T[p].deadline = d

\* A call leaves the matches that are not over as they are, and gives a room
\* and its full time to each match it adds.
Settled ==
    /\ now' = now
    /\ \A l \in LobbyID : SweptLobbies[l] # None /\ SweptLobbies[l].match # None =>
          lobbies'[l] = SweptLobbies[l]
    /\ \A p \in Player : SweptTickets[p] # None /\ SweptTickets[p].match # None =>
          tickets'[p] = SweptTickets[p]
    /\ SweptMatches \subseteq matchIDs'
    /\ \A m \in Match : m \notin matchIDs' \ SweptMatches => rooms'[m] = SweptRooms[m]
    /\ \A m \in matchIDs' \ SweptMatches :
          /\ SweptRooms[m].state = "unused" /\ rooms'[m].state = "open"
          /\ NamedUntil(lobbies', tickets', m, now + MatchTTL)
    /\ IsFiniteSet(matchIDs' \ SweptMatches)

\* A call that touches no match and at most one lobby, an open one.
LEMMA QuietSettles ==
    ASSUME IInv, now' = now, tickets' = SweptTickets,
           matchIDs' = SweptMatches, rooms' = SweptRooms, NEW l \in LobbyID, NEW x,
           SweptLobbies[l] = None \/ SweptLobbies[l].match = None,
           lobbies' = [SweptLobbies EXCEPT ![l] = x]
    PROVE  Settled
<1>1. SweptLobbies \in [LobbyID -> Lobby \cup {None}]
  BY SweptSound DEF Sound, LobbiesGood
<1>2. \A k \in LobbyID \ {l} : lobbies'[k] = SweptLobbies[k]
  BY <1>1
<1>3. matchIDs' \ SweptMatches = {}
  OBVIOUS
<1> QED
  BY <1>2, <1>3, FS_EmptySet DEF Settled

\* The calls on lobbies.
LEMMA LobbyCallSettles ==
    ASSUME IInv, LobbyCall
    PROVE  Settled
<1>1. now \in Nat /\ MatchTTL \in Nat
  BY ConstantTypes DEF IInv
<1>2. LobbiesGood(SweptLobbies, nextSequence, consent)
      /\ MatchesGood(SweptLobbies, SweptLobbyOf, SweptTickets, SweptMatches, SweptRooms)
  BY SweptSound DEF Sound
<1>3. \A revision \in 1 .. MaxRevision : revision \in Nat
  BY LimitAssumption
<1> PICK p \in Player, l \in LobbyID :
      \/ \E capacity \in Capacity : Create(p, l, capacity)
      \/ \E revision \in 1 .. MaxRevision :
            \/ Join(p, l, revision)
            \/ Leave(p, l, revision)
            \/ \E ready \in BOOLEAN : SetReady(p, l, revision, ready)
            \/ \E m \in Match : Start(p, l, revision, m)
  BY DEF LobbyCall
<1> DEFINE b == SweptLobbies[l]
<1>4. b # None /\ b.state = "open" => b.match = None
  BY <1>2 DEF LobbiesGood, LobbyGood
<1>5. ASSUME NEW capacity \in Capacity, Create(p, l, capacity)
      PROVE  Settled
  BY <1>5, CreateEffect, QuietSettles
<1>6. ASSUME NEW revision \in Nat, Join(p, l, revision)
      PROVE  Settled
  <2>1. b # None /\ b.state = "open"
    BY <1>6, JoinEffect DEF Current
  <2> QED
    BY <1>4, <1>6, <2>1, JoinEffect, QuietSettles
<1>7. ASSUME NEW revision \in Nat, Leave(p, l, revision)
      PROVE  Settled
  <2>1. b # None /\ b.state = "open"
    BY <1>7, LeaveEffect DEF Current
  <2> QED
    BY <1>4, <1>7, <2>1, LeaveEffect, QuietSettles
<1>8. ASSUME NEW revision \in Nat, NEW ready \in BOOLEAN, SetReady(p, l, revision, ready)
      PROVE  Settled
  <2>1. b # None /\ b.state = "open"
    BY <1>8, SetReadyEffect DEF Current
  <2> QED
    BY <1>4, <1>8, <2>1, SetReadyEffect, QuietSettles
<1>9. ASSUME NEW revision \in Nat, NEW m \in Match, Start(p, l, revision, m)
      PROVE  Settled
  <2> DEFINE x == Started(b, revision, m)
  <2>1. /\ b # None /\ b.state = "open" /\ Startable(b, p) /\ b.revision = revision
        /\ m \notin SweptMatches /\ SweptRooms[m].state = "unused"
        /\ lobbies' = [SweptLobbies EXCEPT ![l] = x] /\ tickets' = SweptTickets
        /\ matchIDs' = SweptMatches \cup {m}
        /\ rooms' = [SweptRooms EXCEPT ![m] = Allocated(Members(b))]
        /\ now' = now
    BY <1>9, StartEffect DEF Current
  <2>2. b \in Lobby /\ b.match = None
    BY <1>2, <1>4, <2>1 DEF LobbiesGood, LobbyGood
  <2>3. x.deadline = now + MatchTTL /\ x.match = m /\ x # None
    <3>1. nextSequence \in Nat
      BY ConstantTypes DEF IInv
    <3>2. LobbyGood(b, nextSequence) /\ Agreed(b, consent)
      BY <1>2, <2>1 DEF LobbiesGood
    <3> HIDE DEF b
    <3> QED
      BY <1>1, <2>1, <3>1, <3>2, StartedGood
  <2> HIDE DEF x, b
  <2>4. SweptLobbies \in [LobbyID -> Lobby \cup {None}]
    BY <1>2 DEF LobbiesGood
  <2>5. lobbies'[l] = x /\ \A k \in LobbyID \ {l} : lobbies'[k] = SweptLobbies[k]
    BY <2>1, <2>4
  <2>6. SweptRooms \in [Match -> [state : RoomState, players : SUBSET Player]]
    BY <1>2 DEF MatchesGood
  <2>7. /\ rooms'[m] = Allocated(Members(b)) /\ Allocated(Members(b)).state = "open"
        /\ \A k \in Match \ {m} : rooms'[k] = SweptRooms[k]
    BY <2>1, <2>6 DEF Allocated
  <2>8. matchIDs' \ SweptMatches = {m} /\ IsFiniteSet({m})
    BY <2>1, FS_Singleton
  <2>9. NamedUntil(lobbies', tickets', m, now + MatchTTL)
    BY <2>3, <2>5 DEF NamedUntil
  <2>10. \A k \in LobbyID : SweptLobbies[k] # None /\ SweptLobbies[k].match # None =>
            lobbies'[k] = SweptLobbies[k]
    BY <2>2, <2>5 DEF b
  <2>11. matchIDs' = SweptMatches \cup {m} /\ SweptMatches \subseteq matchIDs'
    BY <2>1
  <2>12. \A k \in Match : k \notin matchIDs' \ SweptMatches => rooms'[k] = SweptRooms[k]
    BY <2>7, <2>8
  <2>13. \A k \in matchIDs' \ SweptMatches :
          /\ SweptRooms[k].state = "unused" /\ rooms'[k].state = "open"
          /\ NamedUntil(lobbies', tickets', k, now + MatchTTL)
    BY <2>1, <2>7, <2>8, <2>9
  <2> QED
    BY <2>1, <2>8, <2>10, <2>11, <2>12, <2>13 DEF Settled
<1> QED
  BY <1>3, <1>5, <1>6, <1>7, <1>8, <1>9

\* Enqueue.
LEMMA EnqueueSettles ==
    ASSUME IInv, NEW p \in Player, NEW q \in Queue, NEW k \in Nat, k <= FullGroups(p, q),
           NEW drawn \in [1 .. k -> Match], Queued(p, q, drawn)
    PROVE  /\ Settled /\ matchIDs' \ SweptMatches = ToSet(drawn)
           /\ Cardinality(ToSet(drawn)) = k
<1> DEFINE W == WithOwn(p, q)
           line == NewLine(p, q)
           s == q[2]
           d == now + MatchTTL
           X == TicketsDrawn(W, line, s, drawn, d)
           n == nextSequence + 1
<1>1. /\ Drawing(W, n, q, line, s, k, drawn) /\ Len(drawn) = k
      /\ W[p] = Own(q) /\ \A o \in Player \ {p} : W[o] = SweptTickets[o]
  BY DrawingHere
<1>2. /\ SweptTickets[p] = None
      /\ ToSet(drawn) \subseteq Match \ SweptMatches
      /\ \A m \in ToSet(drawn) : SweptRooms[m].state = "unused"
      /\ tickets' = X
      /\ matchIDs' = SweptMatches \cup ToSet(drawn)
      /\ rooms' = RoomsDrawn(SweptRooms, line, s, drawn)
      /\ lobbies' = SweptLobbies /\ now' = now
  BY QueuedEffect
<1>3. d \in Nat /\ now \in Nat
  BY ConstantTypes DEF IInv
<1>4. SweptRooms \in [Match -> [state : RoomState, players : SUBSET Player]]
      /\ TicketsGood(SweptTickets, nextSequence)
  BY SweptSound DEF Sound, MatchesGood
<1> HIDE DEF W, line, n, d
<1>5. /\ Placed(line, s, drawn) \subseteq Player
      /\ \A o \in Player \ Placed(line, s, drawn) : X[o] = W[o]
      /\ \A o \in Placed(line, s, drawn) : /\ W[o] # None /\ W[o].state = "queued"
                                           /\ X[o] # None /\ X[o].deadline = d
      /\ \A i \in 1 .. k : \A o \in Group(line, s, i) : X[o].match = drawn[i]
  BY <1>1, <1>3, TicketsDrawnGood
<1>6. /\ s \in Nat \ {0} /\ line \in Seq(Player) /\ Distinct(line) /\ s * k <= Len(line)
      /\ IsInjective(drawn)
  BY <1>1 DEF Drawing
<1>7. /\ DOMAIN drawn = 1 .. k
      /\ ToSet(drawn) = {drawn[i] : i \in 1 .. k}
      /\ \A i \in 1 .. k : /\ Group(line, s, i) \subseteq Placed(line, s, drawn)
                           /\ Cardinality(Group(line, s, i)) = s
  BY <1>6, PlacedFacts
<1> HIDE DEF X, s
<1>8. /\ \A i \in 1 .. k : rooms'[drawn[i]].state = "open"
      /\ \A m \in Match \ ToSet(drawn) : rooms'[m] = SweptRooms[m]
  <2> DEFINE S == RoomsDrawn(SweptRooms, line, s, drawn)
  <2>1. Drawing(W, n, q, line, s, k, drawn)
    BY <1>1
  <2>2. rooms' = S
    BY <1>2
  <2>3. /\ S \in [Match -> [state : RoomState, players : SUBSET Player]]
        /\ \A i \in 1 .. k : S[drawn[i]].state = "open" /\ S[drawn[i]].players = Group(line, s, i)
        /\ \A m \in Match \ ToSet(drawn) : S[m] = SweptRooms[m]
    <3>1. SweptRooms \in [Match -> [state : RoomState, players : SUBSET Player]]
      BY <1>4
    <3> QED
      BY <2>1, <3>1, RoomsDrawnFacts
  <2> HIDE DEF S
  <2> QED
    BY <2>2, <2>3
<1>9. ASSUME NEW o \in Player, SweptTickets[o] # None, SweptTickets[o].match # None
      PROVE  tickets'[o] = SweptTickets[o]
  <2>1. o # p /\ W[o] = SweptTickets[o]
    BY <1>1, <1>2, <1>9
  <2>2. SweptTickets[o].state # "queued"
    BY <1>4, <1>9 DEF TicketsGood, TicketGood
  <2>3. o \notin Placed(line, s, drawn)
    BY <1>5, <2>1, <2>2
  <2> QED
    BY <1>2, <1>5, <2>1, <2>3
<1>10. ASSUME NEW i \in 1 .. k
       PROVE  NamedUntil(lobbies', tickets', drawn[i], d)
  <2>1. PICK o \in Group(line, s, i) : TRUE
    <3>1. Group(line, s, i) # {}
      BY <1>6, <1>7, FS_EmptySet
    <3> QED
      BY <3>1
  <2>2. o \in Player /\ X[o] # None /\ X[o].match = drawn[i] /\ X[o].deadline = d
    BY <1>5, <1>7
  <2> QED
    BY <1>2, <2>2 DEF NamedUntil
<1>11. IsFiniteSet(ToSet(drawn)) /\ Cardinality(ToSet(drawn)) = k
  <2>1. drawn \in Surjection(1 .. k, ToSet(drawn)) /\ drawn \in Injection(1 .. k, ToSet(drawn))
    BY <1>6, <1>7 DEF Surjection, Injection, IsInjective
  <2>2. IsFiniteSet(1 .. k) /\ Cardinality(1 .. k) = k
    BY FS_Interval
  <2>3. IsFiniteSet(ToSet(drawn)) /\ Cardinality(ToSet(drawn)) = Cardinality(1 .. k)
    BY <2>1, <2>2, FS_Surjection
  <2> QED
    BY <2>2, <2>3
<1>12. matchIDs' \ SweptMatches = ToSet(drawn) /\ SweptMatches \subseteq matchIDs'
  BY <1>2
<1>13. \A m \in ToSet(drawn) : /\ rooms'[m].state = "open"
                               /\ NamedUntil(lobbies', tickets', m, now + MatchTTL)
  BY <1>7, <1>8, <1>10 DEF d
<1>14. Settled
  BY <1>2, <1>8, <1>9, <1>11, <1>12, <1>13 DEF Settled
<1> QED
  BY <1>11, <1>12, <1>14

\* Every call of the manager.
LEMMA CallSettles ==
    ASSUME IInv, LobbyCall \/ TicketCall \/ Expire
    PROVE  Settled
<1>1. CASE LobbyCall
  BY <1>1, LobbyCallSettles
<1>2. CASE TicketCall
  <2> PICK p \in Player :
        \/ \E q \in Queue : Enqueue(p, q) \/ EnqueueFails(p, q)
        \/ \E revision \in 1 .. MaxRevision : CancelTicket(p, revision)
    BY <1>2 DEF TicketCall
  <2>1. ASSUME NEW q \in Queue, Enqueue(p, q) \/ EnqueueFails(p, q)
        PROVE  Settled
    <3>1. PICK k \in Nat : /\ k <= FullGroups(p, q)
                           /\ \E drawn \in [1 .. k -> Match] : Queued(p, q, drawn)
      BY <2>1, EnqueueDraws
    <3>2. PICK drawn \in [1 .. k -> Match] : Queued(p, q, drawn)
      BY <3>1
    <3> QED
      BY <3>1, <3>2, EnqueueSettles
  <2>2. ASSUME NEW revision \in 1 .. MaxRevision, CancelTicket(p, revision)
        PROVE  Settled
    <3>1. revision \in Nat
      BY LimitAssumption
    <3>2. /\ SweptTickets[p] # None /\ SweptTickets[p].state = "queued"
          /\ tickets' = [SweptTickets EXCEPT ![p] = None] /\ lobbies' = SweptLobbies
          /\ matchIDs' = SweptMatches /\ rooms' = SweptRooms /\ now' = now
      BY <2>2, <3>1, CancelEffect
    <3>3. TicketsGood(SweptTickets, nextSequence)
      BY SweptSound DEF Sound
    <3>4. \A o \in Player \ {p} : tickets'[o] = SweptTickets[o]
      BY <3>2, <3>3 DEF TicketsGood
    <3>5. SweptTickets[p].match = None
      BY <3>2, <3>3 DEF TicketsGood, TicketGood
    <3>6. matchIDs' \ SweptMatches = {}
      BY <3>2
    <3> QED
      BY <3>2, <3>4, <3>5, <3>6, FS_EmptySet DEF Settled
  <2> QED
    BY <2>1, <2>2
<1>3. CASE Expire
  <2>1. /\ lobbies' = SweptLobbies /\ tickets' = SweptTickets
        /\ matchIDs' = SweptMatches /\ rooms' = SweptRooms /\ now' = now
    BY <1>3, ExpireEffect
  <2>2. matchIDs' \ SweptMatches = {}
    BY <2>1
  <2> QED
    BY <2>1, <2>2, FS_EmptySet DEF Settled
<1> QED
  BY <1>1, <1>2, <1>3

\* What a call does to the matches: those that are over are forgotten, those
\* drawn last their time from now, and the others stay as they are.
LEMMA MatchesAfter ==
    ASSUME IInv, IInv', Settled
    PROVE  /\ now' = now /\ Drawn = matchIDs' \ SweptMatches /\ IsFiniteSet(Drawn)
           /\ Drawn \subseteq Match /\ Drawn \cap OverMatches = {}
           /\ \A m \in Drawn : /\ m \in matchIDs' /\ rooms[m].state = "unused"
                               /\ rooms'[m].state = "open"
                               /\ UntilIn(lobbies', lobbyOf', tickets', m) = now + MatchTTL
           /\ \A m \in OverMatches : m \notin matchIDs' /\ rooms'[m].state = "ended"
           /\ \A m \in Match \ (Drawn \cup OverMatches) :
                 /\ rooms'[m] = rooms[m] /\ (m \in matchIDs' <=> m \in matchIDs)
                 /\ m \in matchIDs => UntilIn(lobbies', lobbyOf', tickets', m) = MatchDeadline(m)
<1>1. /\ SeatsGood(lobbies', lobbyOf', tickets')
      /\ MatchesGood(lobbies', lobbyOf', tickets', matchIDs', rooms')
      /\ MatchesGood(lobbies, lobbyOf, tickets, matchIDs, rooms)
      /\ SeatsGood(lobbies, lobbyOf, tickets)
      /\ LobbiesGood(lobbies, nextSequence, consent) /\ TicketsGood(tickets, nextSequence)
  BY DEF IInv, Sound
<1>2. /\ OverMatches \subseteq matchIDs /\ matchIDs \subseteq Match /\ matchIDs' \subseteq Match
      /\ SweptMatches = matchIDs \ OverMatches
  BY <1>1, OverAtDeadline, SweptFields DEF MatchesGood
<1>3. ASSUME NEW m \in Match
      PROVE  /\ m \notin OverMatches => SweptRooms[m] = rooms[m]
             /\ m \in OverMatches => SweptRooms[m].state = "ended"
  <2>1. rooms[m] \in [state : RoomState, players : SUBSET Player]
    BY <1>1 DEF MatchesGood
  <2>2. [rooms[m] EXCEPT !.state = "ended"].state = "ended"
    BY <2>1
  <2> QED
    BY <2>2 DEF SweptRooms
<1> DEFINE new == matchIDs' \ SweptMatches
<1>4. /\ now' = now /\ SweptMatches \subseteq matchIDs' /\ IsFiniteSet(new)
      /\ \A m \in Match : m \notin new => rooms'[m] = SweptRooms[m]
      /\ \A m \in new : /\ SweptRooms[m].state = "unused" /\ rooms'[m].state = "open"
                        /\ NamedUntil(lobbies', tickets', m, now + MatchTTL)
  BY DEF Settled
<1> HIDE DEF new
<1>5. new \subseteq Match /\ \A m \in new : m \notin OverMatches /\ rooms[m].state = "unused"
  BY <1>2, <1>3, <1>4 DEF new
<1>6. Drawn = new
  <2>1. ASSUME NEW m \in Match, rooms[m].state = "unused", rooms'[m].state = "open"
        PROVE  m \in new
    BY <1>3, <1>4, <2>1
  <2> QED
    BY <1>4, <1>5, <2>1 DEF Drawn
<1>7. ASSUME NEW m \in matchIDs'
      PROVE  /\ \A l \in LobbyID : lobbies'[l] # None /\ lobbies'[l].match = m =>
                   lobbies'[l].deadline = UntilIn(lobbies', lobbyOf', tickets', m)
             /\ \A p \in Player : tickets'[p] # None /\ tickets'[p].match = m =>
                   tickets'[p].deadline = UntilIn(lobbies', lobbyOf', tickets', m)
  <2> DEFINE room == rooms'[m]
  <2>1. m \in Match /\ Remembered(lobbies', lobbyOf', tickets', room, m)
        /\ room \in [state : RoomState, players : SUBSET Player]
    BY <1>1 DEF MatchesGood
  <2>2. room.players \subseteq Player
    BY <2>1
  <2> HIDE DEF room
  <2> QED
    BY <1>1, <2>1, <2>2, HeldUntil
<1>8. ASSUME NEW m \in new
      PROVE  m \in matchIDs' /\ UntilIn(lobbies', lobbyOf', tickets', m) = now + MatchTTL
  <2>1. m \in matchIDs' /\ NamedUntil(lobbies', tickets', m, now + MatchTTL)
    BY <1>4 DEF new
  <2> QED
    BY <1>7, <2>1 DEF NamedUntil
<1>9. ASSUME NEW m \in matchIDs, m \notin OverMatches
      PROVE  UntilIn(lobbies', lobbyOf', tickets', m) = MatchDeadline(m)
  <2>1. m \in Match /\ m \in matchIDs' /\ m # None
    BY <1>2, <1>4, <1>9, ConstantTypes
  <2>2. Remembered(lobbies, lobbyOf, tickets, rooms[m], m) /\ rooms[m].players \subseteq Player
    BY <1>1, <2>1 DEF MatchesGood
  <2>3. MatchDeadline(m) = UntilIn(lobbies, lobbyOf, tickets, m)
    BY <2>1, OverAtDeadline
  <2>4. /\ \A l \in LobbyID : lobbies[l] # None /\ lobbies[l].match = m =>
              lobbies[l].deadline = MatchDeadline(m)
        /\ \A p \in Player : tickets[p] # None /\ tickets[p].match = m =>
              tickets[p].deadline = MatchDeadline(m)
        /\ \/ \E l \in LobbyID : lobbies[l] # None /\ lobbies[l].match = m
           \/ \E p \in Player : tickets[p] # None /\ tickets[p].match = m
    BY <1>1, <2>1, <2>2, <2>3, HeldUntil
  <2>5. /\ \A l \in LobbyID : ~(Due(lobbies[l]) /\ lobbies[l].match = m)
        /\ \A p \in Player : ~(Due(tickets[p]) /\ tickets[p].match = m)
    BY <1>1, <1>9, <2>1, OverFacts
  <2>6. ASSUME NEW l \in LobbyID, lobbies[l] # None, lobbies[l].match = m
        PROVE  lobbies'[l] = lobbies[l]
    <3>1. SweptLobbies[l] = lobbies[l]
      BY <2>5, <2>6, SweptFields
    <3> QED
      BY <2>1, <2>6, <3>1 DEF Settled
  <2>7. ASSUME NEW p \in Player, tickets[p] # None, tickets[p].match = m
        PROVE  tickets'[p] = tickets[p]
    <3>1. SweptTickets[p] = tickets[p]
      BY <2>5, <2>7 DEF SweptTickets
    <3> QED
      BY <2>1, <2>7, <3>1 DEF Settled
  <2>8. CASE \E l \in LobbyID : lobbies[l] # None /\ lobbies[l].match = m
    <3>1. PICK l \in LobbyID : lobbies[l] # None /\ lobbies[l].match = m
      BY <2>8
    <3>2. lobbies'[l] = lobbies[l] /\ lobbies[l].deadline = MatchDeadline(m)
      BY <2>4, <2>6, <3>1
    <3>3. lobbies'[l].deadline = UntilIn(lobbies', lobbyOf', tickets', m)
      BY <1>7, <2>1, <3>1, <3>2
    <3> QED
      BY <3>2, <3>3
  <2>9. CASE \E p \in Player : tickets[p] # None /\ tickets[p].match = m
    <3>1. PICK p \in Player : tickets[p] # None /\ tickets[p].match = m
      BY <2>9
    <3>2. tickets'[p] = tickets[p] /\ tickets[p].deadline = MatchDeadline(m)
      BY <2>4, <2>7, <3>1
    <3>3. tickets'[p].deadline = UntilIn(lobbies', lobbyOf', tickets', m)
      BY <1>7, <2>1, <3>1, <3>2
    <3> QED
      BY <3>2, <3>3
  <2> QED
    BY <2>4, <2>8, <2>9
<1>10. ASSUME NEW m \in OverMatches
       PROVE  m \notin matchIDs' /\ rooms'[m].state = "ended"
  <2>1. m \in Match /\ m \notin new
    BY <1>2, <1>5
  <2> QED
    BY <1>2, <1>3, <1>4, <2>1 DEF new
<1>11. ASSUME NEW m \in Match, m \notin new, m \notin OverMatches
       PROVE  rooms'[m] = rooms[m] /\ (m \in matchIDs' <=> m \in matchIDs)
  BY <1>2, <1>3, <1>4, <1>11 DEF new
<1>12. Drawn = matchIDs' \ SweptMatches
  BY <1>6 DEF new
<1>13. /\ IsFiniteSet(Drawn) /\ Drawn \subseteq Match /\ Drawn \cap OverMatches = {}
       /\ \A m \in Drawn : rooms[m].state = "unused" /\ rooms'[m].state = "open"
  BY <1>4, <1>5, <1>6
<1>14. \A m \in Drawn : m \in matchIDs' /\ UntilIn(lobbies', lobbyOf', tickets', m) = now + MatchTTL
  BY <1>6, <1>8
<1>15. \A m \in Match \ (Drawn \cup OverMatches) :
                 /\ rooms'[m] = rooms[m] /\ (m \in matchIDs' <=> m \in matchIDs)
                 /\ m \in matchIDs => UntilIn(lobbies', lobbyOf', tickets', m) = MatchDeadline(m)
  BY <1>6, <1>9, <1>11
<1> QED
  BY <1>4, <1>10, <1>12, <1>13, <1>14, <1>15

-----------------------------------------------------------------------------
(***************************************************************************)
(* The registry.                                                           *)
(***************************************************************************)
LEMMA StoreTypes ==
    /\ TombstoneTTL \in Nat /\ SweepInterval \in Nat
    /\ 0 < SweepInterval /\ SweepInterval <= TombstoneTTL
    /\ OwnRoom \cap Match = {} /\ MaxOpenRooms \in Nat /\ MaxRoomRecords \in Nat
    /\ \A ttl \in OperatorTTL : ttl \in Nat
BY StoreAssumption

\* The records that calls of the store make.
LEMMA RecordsMade ==
    ASSUME now \in Nat
    PROVE  /\ Absent \in Record /\ Absent.state = "absent" /\ Absent.by = "nobody"
           /\ Ended \in Record /\ Ended.state = "tombstone" /\ Ended.by = "nobody"
           /\ Ended.deadline = now + TombstoneTTL
           /\ \A by \in {"match", "operator"}, ttl \in Nat :
                 /\ Opened(by, ttl) \in Record /\ Opened(by, ttl).state = "open"
                 /\ Opened(by, ttl).by = by /\ Opened(by, ttl).deadline = now + ttl
<1>1. now + TombstoneTTL \in Nat /\ 0 \in Nat
  BY StoreTypes
<1>2. Absent \in Record /\ Absent.state = "absent" /\ Absent.by = "nobody"
  BY DEF Absent, Record
<1>3. /\ Ended \in Record /\ Ended.state = "tombstone" /\ Ended.by = "nobody"
      /\ Ended.deadline = now + TombstoneTTL
  BY <1>1 DEF Ended, Record
<1>4. ASSUME NEW by \in {"match", "operator"}, NEW ttl \in Nat
      PROVE  /\ Opened(by, ttl) \in Record /\ Opened(by, ttl).state = "open"
             /\ Opened(by, ttl).by = by /\ Opened(by, ttl).deadline = now + ttl
  <2> DEFINE until == now + ttl
  <2>1. until \in Nat /\ by \in {"nobody", "match", "operator"}
    OBVIOUS
  <2>2. Opened(by, ttl) = [state |-> "open", by |-> by, deadline |-> until]
    BY DEF Opened
  <2> HIDE DEF until
  <2>3. /\ Opened(by, ttl) \in Record /\ Opened(by, ttl).state = "open"
        /\ Opened(by, ttl).by = by /\ Opened(by, ttl).deadline = until
    BY <2>1, <2>2 DEF Record
  <2> QED
    BY <2>3 DEF until
<1> QED
  BY <1>2, <1>3, <1>4

\* Ending rooms leaves them closed, and the others as they are.
LEMMA RoomsEnded ==
    ASSUME now \in Nat, RegistryGood, NEW ids
    PROVE  /\ EndRooms(ids) \in [RoomID -> Record]
           /\ \A r \in RoomID :
                 /\ r \notin ids => EndRooms(ids)[r] = records[r]
                 /\ r \in ids => /\ EndRooms(ids)[r].by = "nobody"
                                 /\ EndRooms(ids)[r].state # "open"
                 /\ EndRooms(ids)[r].by # "nobody" => EndRooms(ids)[r].state = "open"
                 /\ records[r].state = "absent" => EndRooms(ids)[r] = records[r]
                 /\ records[r].state = "tombstone" /\ ~Passed(records[r]) =>
                       EndRooms(ids)[r] = records[r]
<1>1. ASSUME NEW r \in RoomID
      PROVE  records[r] \in Record /\ (records[r].by # "nobody" => records[r].state = "open")
             /\ records[r].state \in {"absent", "open", "tombstone"}
  BY DEF RegistryGood, Record
<1>2. ASSUME NEW r \in RoomID
      PROVE  EndRooms(ids)[r] = IF r \notin ids \/ records[r].state = "absent" THEN records[r]
                                ELSE IF records[r].state = "open" THEN Ended
                                ELSE IF Passed(records[r]) THEN Absent ELSE records[r]
  BY DEF EndRooms
<1>3. EndRooms(ids) = [r \in RoomID |-> EndRooms(ids)[r]]
  BY DEF EndRooms
<1>4. \A r \in RoomID : EndRooms(ids)[r] \in Record
  BY <1>1, <1>2, RecordsMade
<1>5. EndRooms(ids) \in [RoomID -> Record]
  BY <1>3, <1>4
<1> QED
  BY <1>1, <1>2, <1>5, RecordsMade

\* One record is replaced.
LEMMA RegistryStays ==
    ASSUME RegistryGood, NEW s, s \in [RoomID -> Record], NEW D, IsFiniteSet(D),
           \A r \in RoomID : s[r].state # "absent" => records[r].state # "absent" \/ r \in D,
           \A r \in RoomID : s[r].by # "nobody" => s[r].state = "open",
           \A r \in OwnRoom : s[r].by # "match", records' = s
    PROVE  RegistryGood'
<1> DEFINE used == {r \in RoomID : records[r].state # "absent"}
           now_used == {r \in RoomID : s[r].state # "absent"}
<1>1. IsFiniteSet(used)
  BY DEF RegistryGood
<1>2. IsFiniteSet(used \cup D)
  BY <1>1, FS_Union
<1>3. now_used \in SUBSET (used \cup D)
  OBVIOUS
<1>4. IsFiniteSet(now_used)
  BY <1>2, <1>3, FS_Subset
<1> QED
  BY <1>4 DEF RegistryGood, RoomID

\* The next deadlines of the matches.
LEMMA DeadlineAfter ==
    /\ \A m \in Match : MatchDeadline(m)' = UntilIn(lobbies', lobbyOf', tickets', m)
    /\ UNCHANGED <<lobbies, lobbyOf, tickets>> =>
          \A m \in Match : MatchDeadline(m)' = MatchDeadline(m)
<1>1. ASSUME NEW m \in Match
      PROVE  MatchDeadline(m)' = UntilIn(lobbies', lobbyOf', tickets', m)
  BY DEF MatchDeadline, UntilIn, Holders, HoldersIn
<1>2. ASSUME NEW m \in Match
      PROVE  MatchDeadline(m) = UntilIn(lobbies, lobbyOf, tickets, m)
  BY DEF MatchDeadline, UntilIn, Holders, HoldersIn
<1> QED
  BY <1>1, <1>2

\* A tombstone of a room whose match is remembered outlasts the match: the
\* sweeper forgets the match first.
LEMMA MatchTombstoneHolds ==
    ASSUME SharedInv, NEW m \in matchIDs
    PROVE  records[m].state = "tombstone" /\ m \notin deleted => ~Passed(records[m])
<1>1. m \in Match /\ MatchDeadline(m) \in Nat /\ now \in Nat
  BY OverAtDeadline DEF SharedInv, IInv
<1>2. now < MatchDeadline(m) + SweepInterval
  <2>1. /\ LobbiesGood(lobbies, nextSequence, consent) /\ TicketsGood(tickets, nextSequence)
        /\ SeatsGood(lobbies, lobbyOf, tickets)
        /\ MatchesGood(lobbies, lobbyOf, tickets, matchIDs, rooms)
    BY DEF SharedInv, IInv, Sound
  <2>2. Remembered(lobbies, lobbyOf, tickets, rooms[m], m) /\ rooms[m].players \subseteq Player
    BY <1>1, <2>1 DEF MatchesGood
  <2>3. MatchDeadline(m) = UntilIn(lobbies, lobbyOf, tickets, m)
    BY <1>1, OverAtDeadline DEF SharedInv
  <2>4. /\ \A l \in LobbyID : lobbies[l] # None /\ lobbies[l].match = m =>
              lobbies[l].deadline = MatchDeadline(m)
        /\ \A p \in Player : tickets[p] # None /\ tickets[p].match = m =>
              tickets[p].deadline = MatchDeadline(m)
        /\ \/ \E l \in LobbyID : lobbies[l] # None /\ lobbies[l].match = m
           \/ \E p \in Player : tickets[p] # None /\ tickets[p].match = m
    BY <1>1, <2>1, <2>2, <2>3, HeldUntil
  <2> QED
    BY <2>4 DEF SharedInv, Prompt
<1>3. records[m] \in Record /\ records[m].deadline \in Nat
      /\ (records[m].by # "nobody" => records[m].state = "open")
  BY <1>1 DEF SharedInv, RegistryGood, Record, RoomID
<1>4. ASSUME records[m].state = "tombstone", m \notin deleted
      PROVE  records[m].deadline >= MatchDeadline(m) + TombstoneTTL
  BY <1>1, <1>3, <1>4 DEF SharedInv, Traced
<1> QED
  BY <1>1, <1>2, <1>3, <1>4, StoreTypes DEF Passed

\* A step of the shared system is a step of the manager.
LEMMA SharedStep ==
    ASSUME [SharedNext]_sharedVars
    PROVE  [Next]_vars
<1>1. ASSUME NEW r \in RoomID, MatchRoomGone(r)
      PROVE  [Next]_vars
  BY <1>1 DEF MatchRoomGone, Next
<1>2. CASE ManagerCall
  BY <1>2 DEF ManagerCall, Serves, Next, TicketCall
<1>3. CASE \E r \in RoomID : RecordExpires(r) \/ OperatorDelete(r)
  BY <1>1, <1>3 DEF RecordExpires, OperatorDelete
<1>4. CASE \E r \in RoomID, ttl \in OperatorTTL : OperatorPut(r, ttl)
  BY <1>4 DEF OperatorPut, vars
<1>5. CASE SharedTick
  BY <1>5 DEF SharedTick, Next
<1>6. CASE UNCHANGED sharedVars
  BY <1>6 DEF sharedVars, vars
<1> QED
  BY <1>2, <1>3, <1>4, <1>5, <1>6 DEF SharedNext

-----------------------------------------------------------------------------
(***************************************************************************)
(* The steps of the shared system.                                         *)
(***************************************************************************)
LEMMA SharedInitHolds == SharedInit => SharedInv
<1> SUFFICES ASSUME SharedInit
             PROVE  SharedInv
  OBVIOUS
<1>1. IInv /\ Init /\ now \in Nat
  BY InitHolds DEF SharedInit, IInv
<1>2. records \in [RoomID -> Record] /\ \A r \in RoomID : records[r] = Absent
  BY <1>1, RecordsMade DEF SharedInit
<1>3. \A r \in RoomID : records[r].state = "absent" /\ records[r].by = "nobody"
  BY <1>1, <1>2, RecordsMade
<1>4. {r \in RoomID : records[r].state # "absent"} = {}
  BY <1>3
<1>5. RegistryGood
  BY <1>2, <1>3, <1>4, FS_EmptySet DEF RegistryGood, RoomID
<1>6. /\ matchIDs = {} /\ deleted = {}
      /\ \A l \in LobbyID : lobbies[l] = None
      /\ \A p \in Player : tickets[p] = None
  BY DEF SharedInit, Init
<1>7. ASSUME NEW m \in Match
      PROVE  KeptFor(m) /\ Traced(m) /\ Untouched(m)
  BY <1>2, <1>3, <1>6 DEF KeptFor, Traced, Untouched, RoomID
<1>8. (\A l \in LobbyID : Prompt(lobbies[l])) /\ (\A p \in Player : Prompt(tickets[p]))
  BY <1>6 DEF Prompt
<1> QED
  BY <1>1, <1>5, <1>7, <1>8 DEF SharedInv

\* What the invariant says of one room.
LEMMA RoomFacts ==
    ASSUME SharedInv, NEW r \in RoomID
    PROVE  /\ records[r] \in Record /\ records[r].deadline \in Nat
           /\ records[r].state \in {"absent", "open", "tombstone"}
           /\ records[r].by \in {"nobody", "match", "operator"}
           /\ records[r].by # "nobody" => records[r].state = "open"
           /\ records[r].by = "match" => r \in Match
           /\ now \in Nat
<1>1. records[r] \in Record
  BY DEF SharedInv, RegistryGood
<1>2. r \notin Match => r \in OwnRoom
  BY DEF RoomID
<1> QED
  BY <1>1, <1>2 DEF SharedInv, IInv, RegistryGood, Record

\* The parts of the invariant after a step that leaves the manager's own state,
\* but for the end of a room, and changes the record of one room r to x.
LEMMA OneRecordChanges ==
    ASSUME SharedInv, IInv', NEW r \in RoomID, NEW x \in Record,
           UNCHANGED <<now, lobbies, lobbyOf, tickets, matchIDs>>,
           records' = [records EXCEPT ![r] = x],
           x.by # "nobody" => x.state = "open", x.by # "match",
           \A m \in Match \ {r} : rooms'[m] = rooms[m] /\ (m \in deleted' <=> m \in deleted),
           r \in Match =>
              /\ r \in matchIDs /\ r \notin deleted' =>
                    /\ x.state = "tombstone" /\ MatchDeadline(r) <= now
                    /\ x.deadline >= MatchDeadline(r) + TombstoneTTL
              /\ rooms'[r].state = "unused" => x = Absent /\ r \notin deleted'
    PROVE  SharedInv'
<1>1. RegistryGood /\ IInv
  BY DEF SharedInv
<1>2. records \in [RoomID -> Record]
  BY <1>1 DEF RegistryGood
<1> DEFINE s == [records EXCEPT ![r] = x]
<1>3. s \in [RoomID -> Record] /\ s[r] = x /\ \A o \in RoomID \ {r} : s[o] = records[o]
  BY <1>2
<1>4. records' = s
  OBVIOUS
<1> HIDE DEF s
<1>5. RegistryGood'
  <2>1. IsFiniteSet({r})
    BY FS_Singleton
  <2>2. \A o \in RoomID : s[o].state # "absent" => records[o].state # "absent" \/ o \in {r}
    BY <1>3
  <2>3. \A o \in RoomID : s[o].by # "nobody" => s[o].state = "open"
    BY <1>1, <1>3 DEF RegistryGood
  <2>4. \A o \in OwnRoom : s[o].by # "match"
    BY <1>1, <1>3 DEF RegistryGood, RoomID
  <2> QED
    BY <1>1, <1>3, <1>4, <2>1, <2>2, <2>3, <2>4, RegistryStays
<1>6. \A m \in Match : MatchDeadline(m)' = MatchDeadline(m)
  BY DeadlineAfter
<1>7. ASSUME NEW m \in Match
      PROVE  KeptFor(m)' /\ Traced(m)' /\ Untouched(m)'
  <2>1. CASE m = r
    <3>1. records'[m] = x
      BY <1>3, <1>4, <2>1
    <3>2. KeptFor(m)'
      BY <3>1 DEF KeptFor
    <3>3. Traced(m)'
      BY <1>6, <2>1, <3>1 DEF Traced
    <3>4. Untouched(m)'
      BY <2>1, <3>1 DEF Untouched, Absent
    <3> QED
      BY <3>2, <3>3, <3>4
  <2>2. CASE m # r
    <3>1. records'[m] = records[m] /\ m \in RoomID
      BY <1>3, <1>4, <2>2 DEF RoomID
    <3>2. KeptFor(m) /\ Traced(m) /\ Untouched(m)
      BY DEF SharedInv
    <3>3. rooms'[m] = rooms[m] /\ (m \in deleted' <=> m \in deleted)
      BY <2>2
    <3>4. KeptFor(m)'
      BY <1>6, <3>1, <3>2, <3>3 DEF KeptFor
    <3>5. Traced(m)'
      BY <1>6, <3>1, <3>2, <3>3 DEF Traced
    <3>6. Untouched(m)'
      BY <3>1, <3>2, <3>3 DEF Untouched, Absent
    <3> QED
      BY <3>4, <3>5, <3>6
  <2> QED
    BY <2>1, <2>2
<1>8. (\A l \in LobbyID : Prompt(lobbies[l]))' /\ (\A p \in Player : Prompt(tickets[p]))'
  BY DEF SharedInv, Prompt
<1> QED
  BY <1>5, <1>7, <1>8 DEF SharedInv

\* The room of a match is gone: the manager's own state stays.
LEMMA GoneEffect ==
    ASSUME SharedInv, NEW r \in RoomID, MatchRoomGone(r)
    PROVE  /\ UNCHANGED <<now, lobbies, lobbyOf, tickets, queues, matchIDs>>
           /\ \A m \in Match \ {r} : rooms'[m] = rooms[m]
           /\ records[r].by = "match" => rooms'[r].state = "ended"
           /\ records[r].by # "match" => rooms' = rooms
<1>1. rooms \in [Match -> [state : RoomState, players : SUBSET Player]]
  BY DEF SharedInv, IInv, Sound, MatchesGood
<1>2. records[r].by = "match" => r \in Match
  BY RoomFacts
<1>3. CASE records[r].by = "match"
  <2>1. RoomEnds(r) /\ r \in Match
    BY <1>2, <1>3 DEF MatchRoomGone
  <2>2. rooms[r] \in [state : RoomState, players : SUBSET Player]
    BY <1>1, <2>1
  <2>3. rooms'[r].state = "ended" /\ \A m \in Match \ {r} : rooms'[m] = rooms[m]
    BY <1>1, <2>1, <2>2 DEF RoomEnds
  <2> QED
    BY <1>3, <2>1, <2>3 DEF RoomEnds
<1>4. CASE records[r].by # "match"
  BY <1>4 DEF MatchRoomGone, vars
<1> QED
  BY <1>3, <1>4

\* A record expires: the room of a match not before the match is over, and no
\* tombstone of one that is still remembered.
LEMMA RecordExpiresKeeps ==
    ASSUME SharedInv, IInv', NEW r \in RoomID, RecordExpires(r)
    PROVE  SharedInv'
<1> DEFINE x == IF records[r].state = "open" THEN Ended ELSE Absent
<1>1. /\ records[r] \in Record /\ records[r].deadline \in Nat
      /\ records[r].by # "nobody" => records[r].state = "open"
      /\ records[r].by = "match" => r \in Match /\ now \in Nat
  BY RoomFacts
<1>2. now \in Nat
  BY DEF SharedInv, IInv
<1>3. /\ records[r].state # "absent" /\ now >= records[r].deadline
      /\ records' = [records EXCEPT ![r] = x] /\ deleted' = deleted /\ MatchRoomGone(r)
  BY DEF RecordExpires, Passed
<1>4. /\ UNCHANGED <<now, lobbies, lobbyOf, tickets, queues, matchIDs>>
      /\ \A m \in Match \ {r} : rooms'[m] = rooms[m]
      /\ records[r].by = "match" => rooms'[r].state = "ended"
      /\ records[r].by # "match" => rooms' = rooms
  BY <1>3, GoneEffect
<1>5. x \in Record /\ x.by = "nobody"
      /\ (records[r].state = "open" => x.state = "tombstone" /\ x.deadline = now + TombstoneTTL)
  BY <1>2, RecordsMade
<1> HIDE DEF x
<1>6. ASSUME r \in Match
      PROVE  /\ r \in matchIDs /\ r \notin deleted' =>
                   /\ x.state = "tombstone" /\ MatchDeadline(r) <= now
                   /\ x.deadline >= MatchDeadline(r) + TombstoneTTL
             /\ rooms'[r].state = "unused" => x = Absent /\ r \notin deleted'
  <2>1. KeptFor(r) /\ Traced(r) /\ Untouched(r)
    BY <1>6 DEF SharedInv
  <2>2. rooms'[r].state # "unused"
    <3>1. CASE records[r].by = "match"
      BY <1>4, <3>1
    <3>2. CASE records[r].by # "match"
      <4>1. records[r] # Absent
        BY <1>2, <1>3, RecordsMade
      <4> QED
        BY <1>4, <2>1, <3>2, <4>1 DEF Untouched
    <3> QED
      BY <3>1, <3>2
  <2>3. ASSUME r \in matchIDs, r \notin deleted
        PROVE  /\ x.state = "tombstone" /\ MatchDeadline(r) <= now
               /\ x.deadline >= MatchDeadline(r) + TombstoneTTL
    <3>1. MatchDeadline(r) \in Nat
      BY <2>3, OverAtDeadline DEF SharedInv
    <3>2. records[r].by = "match"
      <4>1. ~(records[r].state = "tombstone")
        BY <1>3, <2>3, MatchTombstoneHolds DEF Passed
      <4> QED
        BY <2>1, <2>3, <4>1 DEF Traced
    <3>3. records[r].deadline = MatchDeadline(r) /\ records[r].state = "open"
      BY <1>1, <2>1, <3>2 DEF KeptFor
    <3> QED
      BY <1>2, <1>3, <1>5, <3>1, <3>3, StoreTypes
  <2> QED
    BY <1>3, <2>2, <2>3
<1> QED
  BY <1>3, <1>4, <1>5, <1>6, OneRecordChanges

\* The operator takes an ID: never that of a match whose room it did not delete.
LEMMA OperatorPutKeeps ==
    ASSUME SharedInv, IInv', NEW r \in RoomID, NEW ttl \in OperatorTTL, OperatorPut(r, ttl)
    PROVE  SharedInv'
<1> DEFINE x == Opened("operator", ttl)
<1>1. now \in Nat /\ ttl \in Nat
  BY StoreTypes DEF SharedInv, IInv
<1>2. x \in Record /\ x.state = "open" /\ x.by = "operator"
  BY <1>1, RecordsMade
<1>3. /\ r \in Match => rooms[r].state # "unused"
      /\ records[r].state # "open" /\ (records[r].state = "tombstone" => Passed(records[r]))
      /\ records' = [records EXCEPT ![r] = x] /\ deleted' = deleted
      /\ UNCHANGED <<now, lobbies, lobbyOf, tickets, matchIDs>> /\ rooms' = rooms
  BY DEF OperatorPut, Free, vars
<1> HIDE DEF x
<1>4. ASSUME r \in Match
      PROVE  ~(r \in matchIDs /\ r \notin deleted')
  <2> SUFFICES ASSUME r \in matchIDs, r \notin deleted
               PROVE  FALSE
    BY <1>3
  <2>1. records[r].state # "tombstone"
    BY <1>3, MatchTombstoneHolds
  <2>2. records[r].by = "match"
    BY <1>4, <2>1 DEF SharedInv, Traced
  <2> QED
    BY <1>3, <2>2, RoomFacts
<1>5. \A m \in Match \ {r} : rooms'[m] = rooms[m] /\ (m \in deleted' <=> m \in deleted)
  BY <1>3
<1> QED
  BY <1>2, <1>3, <1>4, <1>5, OneRecordChanges

\* The operator deletes a room: that of a match is a deleted one from then on.
LEMMA OperatorDeleteKeeps ==
    ASSUME SharedInv, IInv', NEW r \in RoomID, OperatorDelete(r)
    PROVE  SharedInv'
<1> DEFINE x == EndRooms({r})[r]
<1>1. now \in Nat /\ RegistryGood
  BY DEF SharedInv, IInv
<1>2. /\ records' = EndRooms({r}) /\ MatchRoomGone(r)
      /\ deleted' = IF records[r].by = "match" THEN deleted \cup {r} ELSE deleted
  BY DEF OperatorDelete
<1>3. /\ UNCHANGED <<now, lobbies, lobbyOf, tickets, queues, matchIDs>>
      /\ \A m \in Match \ {r} : rooms'[m] = rooms[m]
      /\ records[r].by = "match" => rooms'[r].state = "ended"
      /\ records[r].by # "match" => rooms' = rooms
  BY <1>2, GoneEffect
<1>4. /\ EndRooms({r}) \in [RoomID -> Record]
      /\ \A o \in RoomID \ {r} : EndRooms({r})[o] = records[o]
      /\ x.by = "nobody"
      /\ records[r].state = "absent" => x = records[r]
      /\ records[r].state = "tombstone" /\ ~Passed(records[r]) => x = records[r]
  BY <1>1, RoomsEnded
<1>5. x \in Record /\ records \in [RoomID -> Record]
  BY <1>1, <1>4 DEF RegistryGood
<1> HIDE DEF x
<1>6. records' = [records EXCEPT ![r] = x]
  BY <1>2, <1>4, <1>5 DEF x
<1>7. ASSUME r \in Match
      PROVE  /\ r \in matchIDs /\ r \notin deleted' =>
                   /\ x.state = "tombstone" /\ MatchDeadline(r) <= now
                   /\ x.deadline >= MatchDeadline(r) + TombstoneTTL
             /\ rooms'[r].state = "unused" => x = Absent /\ r \notin deleted'
  <2>1. KeptFor(r) /\ Traced(r) /\ Untouched(r)
    BY <1>7 DEF SharedInv
  <2>2. ASSUME r \in matchIDs, r \notin deleted'
        PROVE  /\ x.state = "tombstone" /\ MatchDeadline(r) <= now
               /\ x.deadline >= MatchDeadline(r) + TombstoneTTL
    <3>1. records[r].by # "match" /\ r \notin deleted
      BY <1>2, <2>2
    <3>2. /\ records[r].state = "tombstone" /\ MatchDeadline(r) <= now
          /\ records[r].deadline >= MatchDeadline(r) + TombstoneTTL
      BY <2>1, <2>2, <3>1 DEF Traced
    <3>3. x = records[r]
      BY <1>4, <2>2, <3>1, <3>2, MatchTombstoneHolds
    <3> QED
      BY <3>2, <3>3
  <2>3. ASSUME rooms'[r].state = "unused"
        PROVE  x = Absent /\ r \notin deleted'
    <3>1. records[r].by # "match" /\ rooms[r].state = "unused"
      BY <1>3, <2>3
    <3>2. records[r] = Absent /\ r \notin deleted
      BY <2>1, <3>1 DEF Untouched
    <3>3. records[r].state = "absent"
      BY <1>1, <3>2, RecordsMade
    <3> QED
      BY <1>2, <1>4, <3>1, <3>2, <3>3
  <2> QED
    BY <2>2, <2>3
<1>8. \A m \in Match \ {r} : rooms'[m] = rooms[m] /\ (m \in deleted' <=> m \in deleted)
  BY <1>2, <1>3
<1> QED
  BY <1>3, <1>4, <1>5, <1>6, <1>7, <1>8, OneRecordChanges

\* Time passes while the sweeper keeps its interval.
LEMMA SharedTickKeeps ==
    ASSUME SharedInv, IInv', SharedTick
    PROVE  SharedInv'
<1>1. now \in Nat /\ now' = now + 1
  BY DEF SharedInv, IInv, SharedTick, Tick
<1>2. UNCHANGED <<lobbies, lobbyOf, tickets, matchIDs, rooms, records, deleted>>
  BY DEF SharedTick, Tick
<1>3. RegistryGood'
  BY <1>2 DEF SharedInv, RegistryGood
<1>4. \A m \in Match : MatchDeadline(m)' = MatchDeadline(m)
  BY <1>2, DeadlineAfter
<1>5. ASSUME NEW m \in Match
      PROVE  KeptFor(m)' /\ Traced(m)' /\ Untouched(m)'
  <2>1. KeptFor(m) /\ Traced(m) /\ Untouched(m)
    BY DEF SharedInv
  <2>2. m \in matchIDs => MatchDeadline(m) \in Nat
    BY OverAtDeadline DEF SharedInv
  <2>3. KeptFor(m)'
    BY <1>2, <1>4, <2>1 DEF KeptFor
  <2>4. Traced(m)'
    BY <1>1, <1>2, <1>4, <2>1, <2>2 DEF Traced
  <2>5. Untouched(m)'
    BY <1>2, <2>1 DEF Untouched, Absent
  <2> QED
    BY <2>3, <2>4, <2>5
<1>6. (\A l \in LobbyID : Prompt(lobbies[l]))' /\ (\A p \in Player : Prompt(tickets[p]))'
  BY <1>1, <1>2 DEF SharedTick, Punctual, Prompt
<1> QED
  BY <1>3, <1>5, <1>6 DEF SharedInv

\* The records after a call of the manager.
LEMMA ServedRecords ==
    ASSUME SharedInv, IInv', Settled, records' = WithRooms(EndOver)
    PROVE  /\ records' \in [RoomID -> Record]
           /\ \A r \in Drawn : /\ records[r] = Absent /\ EndOver[r] = Absent
                               /\ records'[r].state = "open" /\ records'[r].by = "match"
                               /\ records'[r].deadline = now + MatchTTL
           /\ \A r \in RoomID \ Drawn : records'[r] = EndOver[r]
           /\ \A r \in RoomID \ (Drawn \cup OverMatches) : records'[r] = records[r]
           /\ \A r \in OverMatches : records'[r].by = "nobody"
           /\ EndOver \in [RoomID -> Record]
           /\ \A r \in RoomID : EndOver[r].by # "nobody" => EndOver[r].state = "open"
<1>1. now \in Nat /\ MatchTTL \in Nat /\ RegistryGood /\ IInv
  BY ConstantTypes DEF SharedInv, IInv
<1>2. /\ Drawn \subseteq Match /\ Drawn \cap OverMatches = {}
      /\ \A r \in Drawn : rooms[r].state = "unused"
  BY <1>1, MatchesAfter
<1>3. Match \subseteq RoomID /\ OverMatches \subseteq Match
  BY <1>1, OverAtDeadline DEF RoomID
<1>4. /\ EndOver \in [RoomID -> Record]
      /\ \A r \in RoomID :
            /\ r \notin OverMatches => EndOver[r] = records[r]
            /\ r \in OverMatches => EndOver[r].by = "nobody"
            /\ EndOver[r].by # "nobody" => EndOver[r].state = "open"
  BY <1>1, RoomsEnded DEF EndOver
<1> DEFINE o == Opened("match", MatchTTL)
<1>5. o \in Record /\ o.state = "open" /\ o.by = "match" /\ o.deadline = now + MatchTTL
  BY <1>1, RecordsMade
<1> HIDE DEF o
<1>6. records' = [r \in RoomID |-> IF r \in Drawn THEN o ELSE EndOver[r]]
  BY DEF WithRooms, o
<1> HIDE DEF Drawn, EndOver
<1>7. records' \in [RoomID -> Record]
  BY <1>4, <1>5, <1>6
<1>8. \A r \in Drawn : records[r] = Absent /\ EndOver[r] = Absent /\ records'[r] = o
  BY <1>2, <1>3, <1>4, <1>6 DEF SharedInv, Untouched
<1>9. \A r \in RoomID \ Drawn : records'[r] = EndOver[r]
  BY <1>6
<1> QED
  BY <1>2, <1>3, <1>4, <1>5, <1>7, <1>8, <1>9

\* A call of the manager: the rooms of the matches that are over end, those
\* drawn get one, and the rooms of the others stay.
LEMMA ServesKeeps ==
    ASSUME SharedInv, IInv', Settled, LobbiesMove, TicketsMove,
           records' = WithRooms(EndOver), deleted' = deleted
    PROVE  SharedInv'
<1>1. now \in Nat /\ MatchTTL \in Nat /\ RegistryGood /\ IInv /\ now' = now
  BY ConstantTypes DEF SharedInv, IInv, Settled
<1>2. /\ IsFiniteSet(Drawn) /\ Drawn \subseteq Match
      /\ \A m \in Drawn : /\ m \in matchIDs' /\ rooms'[m].state = "open"
                          /\ UntilIn(lobbies', lobbyOf', tickets', m) = now + MatchTTL
      /\ \A m \in OverMatches : m \notin matchIDs' /\ rooms'[m].state = "ended"
      /\ \A m \in Match \ (Drawn \cup OverMatches) :
            /\ rooms'[m] = rooms[m] /\ (m \in matchIDs' <=> m \in matchIDs)
            /\ m \in matchIDs => UntilIn(lobbies', lobbyOf', tickets', m) = MatchDeadline(m)
  BY <1>1, MatchesAfter
<1>3. /\ records' \in [RoomID -> Record]
      /\ \A r \in Drawn : /\ records'[r].state = "open" /\ records'[r].by = "match"
                          /\ records'[r].deadline = now + MatchTTL
      /\ \A r \in RoomID \ Drawn : records'[r] = EndOver[r]
      /\ \A r \in RoomID \ (Drawn \cup OverMatches) : records'[r] = records[r]
      /\ \A r \in OverMatches : records'[r].by = "nobody"
      /\ \A r \in RoomID : EndOver[r].by # "nobody" => EndOver[r].state = "open"
  BY ServedRecords
<1>4. \A m \in Match : MatchDeadline(m)' = UntilIn(lobbies', lobbyOf', tickets', m)
  BY DeadlineAfter
<1>5. OverMatches \subseteq Match /\ Match \subseteq RoomID /\ OwnRoom \subseteq RoomID
      /\ OwnRoom \cap Match = {}
  BY <1>1, OverAtDeadline, StoreTypes DEF RoomID
<1> DEFINE s == WithRooms(EndOver)
<1>6. s = records' /\ s \in [RoomID -> Record]
  BY <1>3
<1> HIDE DEF s
<1>7. RegistryGood'
  <2>1. \A r \in RoomID : s[r].state # "absent" => records[r].state # "absent" \/ r \in Drawn
    <3>1. \A r \in RoomID : records[r].state = "absent" => EndOver[r] = records[r]
      BY <1>1, RoomsEnded DEF EndOver
    <3> QED
      BY <1>3, <1>6, <3>1
  <2>2. \A r \in RoomID : s[r].by # "nobody" => s[r].state = "open"
    BY <1>3, <1>6
  <2>3. \A r \in OwnRoom : s[r].by # "match"
    <3>1. \A r \in OwnRoom : records'[r] = records[r]
      BY <1>2, <1>3, <1>5
    <3> QED
      BY <1>1, <1>6, <3>1 DEF RegistryGood
  <2> QED
    BY <1>1, <1>2, <1>6, <2>1, <2>2, <2>3, RegistryStays
<1>8. ASSUME NEW m \in Match
      PROVE  KeptFor(m)' /\ Traced(m)' /\ Untouched(m)'
  <2>1. CASE m \in Drawn
    <3>1. records'[m].deadline = MatchDeadline(m)'
      BY <1>2, <1>3, <1>4, <2>1
    <3>2. /\ records'[m].by = "match" /\ m \in matchIDs' /\ rooms'[m].state = "open"
      BY <1>2, <1>3, <2>1
    <3>3. KeptFor(m)'
      BY <3>1, <3>2 DEF KeptFor
    <3>4. Traced(m)'
      BY <3>2 DEF Traced
    <3>5. Untouched(m)'
      BY <3>2 DEF Untouched
    <3> QED
      BY <3>3, <3>4, <3>5
  <2>2. CASE m \in OverMatches
    <3>1. records'[m].by = "nobody" /\ m \notin matchIDs' /\ rooms'[m].state = "ended"
      BY <1>2, <1>3, <2>2
    <3>2. KeptFor(m)'
      BY <3>1 DEF KeptFor
    <3>3. Traced(m)'
      BY <3>1 DEF Traced
    <3>4. Untouched(m)'
      BY <3>1 DEF Untouched
    <3> QED
      BY <3>2, <3>3, <3>4
  <2>3. CASE m \notin Drawn \cup OverMatches
    <3>1. KeptFor(m) /\ Traced(m) /\ Untouched(m)
      BY DEF SharedInv
    <3>2. /\ rooms'[m] = rooms[m] /\ (m \in matchIDs' <=> m \in matchIDs)
          /\ m \in matchIDs => MatchDeadline(m)' = MatchDeadline(m)
          /\ records'[m] = records[m]
      BY <1>2, <1>3, <1>4, <1>5, <2>3
    <3>3. KeptFor(m)'
      BY <3>1, <3>2 DEF KeptFor
    <3>4. Traced(m)'
      BY <1>1, <3>1, <3>2 DEF Traced
    <3>5. Untouched(m)'
      BY <3>1, <3>2 DEF Untouched, Absent
    <3> QED
      BY <3>3, <3>4, <3>5
  <2> QED
    BY <2>1, <2>2, <2>3
<1>9. ASSUME NEW l \in LobbyID, lobbies'[l] # None
      PROVE  now < lobbies'[l].deadline + SweepInterval
  <2>1. LobbiesGood(lobbies', nextSequence', consent')
    BY DEF IInv, Sound
  <2>2. lobbies'[l].deadline \in Nat
    BY <1>9, <2>1, LobbyFields DEF LobbiesGood, LobbyGood
  <2>3. now < lobbies'[l].deadline
    BY <1>1, <1>9, SweptSound DEF LobbiesMove, Moved
  <2> QED
    BY <1>1, <2>2, <2>3, StoreTypes
<1>10. ASSUME NEW p \in Player, tickets'[p] # None
       PROVE  now < tickets'[p].deadline + SweepInterval
  <2>1. TicketsGood(tickets', nextSequence')
    BY DEF IInv, Sound
  <2>2. tickets'[p].deadline \in Nat
    BY <1>10, <2>1, TicketFields DEF TicketsGood, TicketGood
  <2>3. now < tickets'[p].deadline
    BY <1>1, <1>10, SweptSound DEF TicketsMove, Moved
  <2> QED
    BY <1>1, <2>2, <2>3, StoreTypes
<1>11. (\A l \in LobbyID : Prompt(lobbies[l]))' /\ (\A p \in Player : Prompt(tickets[p]))'
  BY <1>1, <1>9, <1>10 DEF Prompt
<1> QED
  BY <1>7, <1>8, <1>11 DEF SharedInv

\* A call of the manager is one that the lemmas above speak of.
LEMMA ManagerCallEffect ==
    ASSUME IInv, ManagerCall
    PROVE  /\ Settled /\ LobbiesMove /\ TicketsMove
           /\ records' = WithRooms(EndOver) /\ deleted' = deleted
<1>1. LobbyCall \/ TicketCall \/ Expire
  BY DEF ManagerCall, Serves, TicketCall
<1>2. records' = WithRooms(EndOver) /\ deleted' = deleted
  BY DEF ManagerCall, Serves
<1> QED
  BY <1>1, <1>2, CallSettles, CallMoves

\* Every step keeps the invariant.
LEMMA SharedNextKeeps == SharedInv /\ [SharedNext]_sharedVars => SharedInv'
<1> SUFFICES ASSUME SharedInv, [SharedNext]_sharedVars
             PROVE  SharedInv'
  OBVIOUS
<1>0. IInv /\ IInv'
  BY SharedStep, NextKeeps DEF SharedInv
<1>1. CASE ManagerCall
  BY <1>0, <1>1, ManagerCallEffect, ServesKeeps
<1>2. CASE \E r \in RoomID : RecordExpires(r)
  BY <1>0, <1>2, RecordExpiresKeeps
<1>3. CASE \E r \in RoomID, ttl \in OperatorTTL : OperatorPut(r, ttl)
  BY <1>0, <1>3, OperatorPutKeeps
<1>4. CASE \E r \in RoomID : OperatorDelete(r)
  BY <1>0, <1>4, OperatorDeleteKeeps
<1>5. CASE SharedTick
  BY <1>0, <1>5, SharedTickKeeps
<1>6. CASE UNCHANGED sharedVars
  <2>1. UNCHANGED <<now, lobbies, lobbyOf, tickets, matchIDs, rooms, records, deleted>>
    BY <1>6 DEF sharedVars, vars
  <2>2. \A m \in Match : MatchDeadline(m)' = MatchDeadline(m)
    BY <2>1, DeadlineAfter
  <2> QED
    BY <1>0, <2>1, <2>2 DEF SharedInv, RegistryGood, KeptFor, Traced, Untouched, Prompt, Absent
<1> QED
  BY <1>1, <1>2, <1>3, <1>4, <1>5, <1>6 DEF SharedNext

-----------------------------------------------------------------------------
(***************************************************************************)
(* Who is served when a player joins a queue.                              *)
(***************************************************************************)

\* Keeping everybody keeps the line.
LEMMA KeptWhole ==
    ASSUME NEW line \in Seq(Player), NEW who, \A i \in 1 .. Len(line) : line[i] \in who
    PROVE  Kept(line, who) = line
<1> DEFINE n == Len(line)
           at == {i \in DOMAIN line : line[i] \in who}
           rank(i) == Cardinality({j \in at : j <= i})
<1>1. n \in Nat /\ at = 1 .. n
  OBVIOUS
<1>2. ASSUME NEW i \in 1 .. n
      PROVE  rank(i) = i
  <2> HIDE DEF n
  <2>1. i \in Nat /\ i <= n
    BY <1>1
  <2>2. {j \in at : j <= i} = 1 .. i
    <3> HIDE DEF at
    <3> QED
      BY <1>1, <2>1
  <2>3. Cardinality(1 .. i) = i
    BY <2>1, FS_Interval
  <2> QED
    BY <2>2, <2>3
<1>3. Cardinality(at) = n
  <2>1. Cardinality(1 .. n) = n
    <3> HIDE DEF n
    <3> QED
      BY <1>1, FS_Interval
  <2> QED
    BY <1>1, <2>1
<1>4. Kept(line, who) = [k \in 1 .. Cardinality(at) |-> line[CHOOSE i \in at : rank(i) = k]]
  BY DEF Kept
<1>5. line = [k \in 1 .. n |-> line[k]]
  OBVIOUS
<1> HIDE DEF at, rank, n
<1>6. ASSUME NEW k \in 1 .. n
      PROVE  (CHOOSE i \in at : rank(i) = k) = k
  BY <1>1, <1>2
<1> QED
  BY <1>3, <1>4, <1>5, <1>6

\* Who joins stands at the end of the line of all who wait.
LEMMA LineHere ==
    ASSUME IInv, NEW p \in Player, NEW q \in Queue
    PROVE  /\ SweptQueues[q] \in Seq(Player)
           /\ NewLine(p, q) = Append(SweptQueues[q], p)
<1> DEFINE old == SweptQueues[q]
           long == Append(old, p)
           who == {p} \cup QueuedIn(SweptTickets, q)
<1>1. old \in Seq(Player) /\ ToSet(old) = QueuedIn(SweptTickets, q)
  BY SweptSound DEF Sound, QueuesGood
<1>2. NewLine(p, q) = Kept(long, who)
  BY DEF NewLine
<1> HIDE DEF old
<1>3. /\ long \in Seq(Player) /\ Len(old) \in Nat /\ Len(long) = Len(old) + 1
      /\ long[Len(old) + 1] = p /\ \A i \in 1 .. Len(old) : long[i] = old[i]
  BY <1>1
<1>4. \A i \in 1 .. Len(old) : old[i] \in ToSet(old)
  BY <1>1 DEF ToSet
<1> HIDE DEF long
<1>5. ASSUME NEW i \in 1 .. Len(long)
      PROVE  long[i] \in who
  <2>1. i \in 1 .. Len(old) \/ i = Len(old) + 1
    BY <1>3
  <2> QED
    BY <1>1, <1>3, <1>4, <2>1
<1> HIDE DEF who
<1>6. Kept(long, who) = long
  BY <1>3, <1>5, KeptWhole
<1> QED
  BY <1>1, <1>2, <1>6 DEF old, long

\* The one new ticket of a call of Enqueue is the caller's, for its queue.
LEMMA JoinsByEnqueue ==
    ASSUME IInv, NEW p \in Player, NEW q \in Queue, Joins(p, q),
           NEW o \in Player, NEW r \in Queue, NEW k \in Nat, k <= FullGroups(o, r),
           NEW drawn \in [1 .. k -> Match], Queued(o, r, drawn)
    PROVE  p = o /\ q = r
<1> DEFINE W == WithOwn(o, r)
           line == NewLine(o, r)
           s == r[2]
           d == now + MatchTTL
           X == TicketsDrawn(W, line, s, drawn, d)
           placed == Placed(line, s, drawn)
<1>1. /\ Drawing(W, nextSequence + 1, r, line, s, k, drawn)
      /\ W[o] = Own(r) /\ \A u \in Player \ {o} : W[u] = SweptTickets[u]
  BY DrawingHere
<1>2. tickets' = X
  BY QueuedEffect
<1>3. d \in Nat /\ nextSequence \in Nat /\ now \in Nat
  BY ConstantTypes DEF IInv
<1>4. Own(r).queue = r
  BY <1>3, OwnGood
<1> HIDE DEF W, line, d
<1>5. /\ placed \subseteq Player
      /\ \A u \in Player \ placed : X[u] = W[u]
      /\ \A u \in placed : W[u] # None /\ X[u].queue = r /\ X[u].sequence = W[u].sequence
  BY <1>1, <1>3, TicketsDrawnGood DEF placed
<1>6. X[p] # None /\ X[p].queue = q /\ X[p].sequence = nextSequence
  BY <1>2 DEF Joins
<1> HIDE DEF X, placed
<1>7. p = o
  <2> SUFFICES ASSUME p # o
               PROVE  FALSE
    OBVIOUS
  <2>1. SweptTickets[p] # None /\ SweptTickets[p].sequence = nextSequence
    BY <1>1, <1>5, <1>6
  <2>2. SweptTickets[p].sequence \in Nat /\ SweptTickets[p].sequence < nextSequence
    BY <2>1, LiveRecords
  <2> QED
    BY <1>3, <2>1, <2>2
<1>8. X[o].queue = r
  BY <1>1, <1>4, <1>5
<1> QED
  BY <1>6, <1>7, <1>8

\* The first match drawn is held by the head of the line.
LEMMA HeadDrawn ==
    ASSUME IInv, IInv', NEW p \in Player, NEW q \in Queue, NEW k \in Nat, k <= FullGroups(p, q),
           k # 0, NEW drawn \in [1 .. k -> Match], Queued(p, q, drawn)
    PROVE  \E m \in Match : Holders(m)' = {Append(SweptQueues[q], p)[i] : i \in 1 .. q[2]}
<1> DEFINE line == NewLine(p, q)
           s == q[2]
           m == drawn[1]
<1>1. Drawing(WithOwn(p, q), nextSequence + 1, q, line, s, k, drawn) /\ Len(drawn) = k
  BY DrawingHere
<1>2. /\ matchIDs' = SweptMatches \cup ToSet(drawn)
      /\ rooms' = RoomsDrawn(SweptRooms, line, s, drawn)
  BY QueuedEffect
<1>3. SweptRooms \in [Match -> [state : RoomState, players : SUBSET Player]]
  BY SweptSound DEF Sound, MatchesGood
<1>4. 1 \in 1 .. k /\ s \in Nat
  BY <1>1 DEF Drawing
<1>5. m \in Match /\ m \in ToSet(drawn)
  <2>1. m \in Match
    BY <1>4
  <2>2. m \in {drawn[j] : j \in DOMAIN drawn}
    BY <1>4
  <2> QED
    BY <2>1, <2>2 DEF ToSet
<1>6. rooms'[m].players = Group(line, s, 1)
  <2> DEFINE W == WithOwn(p, q)
             n == nextSequence + 1
             S == RoomsDrawn(SweptRooms, line, s, drawn)
  <2>1. Drawing(W, n, q, line, s, k, drawn)
    BY <1>1
  <2>2. rooms' = S
    BY <1>2
  <2> HIDE DEF W, n, line, s
  <2>3. /\ S \in [Match -> [state : RoomState, players : SUBSET Player]]
        /\ \A i \in 1 .. k : S[drawn[i]].state = "open" /\ S[drawn[i]].players = Group(line, s, i)
        /\ \A o \in Match \ ToSet(drawn) : S[o] = SweptRooms[o]
    BY <1>3, <2>1, RoomsDrawnFacts
  <2> HIDE DEF S
  <2> QED
    BY <1>4, <2>2, <2>3
<1>7. Group(line, s, 1) = {line[j] : j \in 1 .. s}
  <2>1. (1 - 1) * s + 1 = 1 /\ 1 * s = s
    BY <1>4
  <2> QED
    BY <2>1 DEF Group
<1>8. Holders(m)' = rooms'[m].players
  <2>1. m \in matchIDs'
    BY <1>2, <1>5
  <2>2. MatchesGood(lobbies', lobbyOf', tickets', matchIDs', rooms')
    BY DEF IInv, Sound
  <2>3. HoldersIn(lobbies', lobbyOf', tickets', m) = rooms'[m].players
    BY <2>1, <2>2 DEF MatchesGood, Remembered
  <2>4. Holders(m)' = HoldersIn(lobbies', lobbyOf', tickets', m)
    BY DEF Holders, HoldersIn
  <2> QED
    BY <2>3, <2>4
<1>9. line = Append(SweptQueues[q], p)
  BY LineHere
<1> HIDE DEF m, line
<1> QED
  BY <1>5, <1>6, <1>7, <1>8, <1>9

\* A call that draws nothing allocates nothing.
LEMMA NothingDrawn ==
    ASSUME IInv, NEW p \in Player, NEW q \in Queue,
           NEW drawn \in [1 .. 0 -> Match], Queued(p, q, drawn)
    PROVE  Drawn = {}
<1>1. rooms' = RoomsDrawn(SweptRooms, NewLine(p, q), q[2], drawn)
  BY QueuedEffect
<1>2. ToSet(drawn) = {}
  BY DEF ToSet
<1>3. \A m \in Match : rooms'[m] = SweptRooms[m]
  BY <1>1, <1>2 DEF RoomsDrawn
<1>4. rooms \in [Match -> [state : RoomState, players : SUBSET Player]]
  BY DEF IInv, Sound, MatchesGood
<1>5. ASSUME NEW m \in Match, rooms[m].state = "unused"
      PROVE  SweptRooms[m].state # "open"
  BY <1>4, <1>5 DEF SweptRooms
<1> QED
  BY <1>3, <1>5 DEF Drawn

\* A call of the manager that gives a player a ticket.
LEMMA CallServesHead ==
    ASSUME SharedInv, IInv', ManagerCall, NEW p \in Player, NEW q \in Queue, Joins(p, q),
           Len(Append(SweptQueues[q], p)) >= q[2], Fits(EndOver, 1)
    PROVE  \E m \in Match : Holders(m)' = {Append(SweptQueues[q], p)[i] : i \in 1 .. q[2]}
<1>1. IInv
  BY DEF SharedInv
<1>2. nextSequence \in Nat
  BY <1>1, LiveRecords
<1>3. ~(tickets'[p] # None /\ tickets'[p] = SweptTickets[p])
  <2>1. SweptTickets[p] # None => /\ SweptTickets[p].sequence \in Nat
                                  /\ SweptTickets[p].sequence < nextSequence
    BY <1>1, LiveRecords
  <2> QED
    BY <1>2, <2>1 DEF Joins
<1>4. ~LobbyCall
  <2> SUFFICES ASSUME LobbyCall
               PROVE  tickets' = SweptTickets
    BY <1>3 DEF Joins
  <2>1. \A revision \in 1 .. MaxRevision : revision \in Nat
    BY LimitAssumption
  <2> PICK o \in Player, l \in LobbyID :
        \/ \E capacity \in Capacity : Create(o, l, capacity)
        \/ \E revision \in 1 .. MaxRevision :
              \/ Join(o, l, revision)
              \/ Leave(o, l, revision)
              \/ \E ready \in BOOLEAN : SetReady(o, l, revision, ready)
              \/ \E m \in Match : Start(o, l, revision, m)
    BY DEF LobbyCall
  <2> QED
    BY <2>1, CreateEffect, JoinEffect, LeaveEffect, SetReadyEffect, StartEffect
<1>5. ASSUME NEW o \in Player, NEW revision \in 1 .. MaxRevision, CancelTicket(o, revision)
      PROVE  FALSE
  <2>1. revision \in Nat
    BY LimitAssumption
  <2>2. tickets' = [SweptTickets EXCEPT ![o] = None]
    BY <1>5, <2>1, CancelEffect
  <2>3. SweptTickets \in [Player -> Ticket \cup {None}]
    BY <1>1, SweptSound DEF Sound, TicketsGood
  <2>4. tickets'[p] # None => tickets'[p] = SweptTickets[p]
    BY <2>2, <2>3
  <2> QED
    BY <1>3, <2>4 DEF Joins
<1>6. ~Expire
  BY <1>3, ExpireEffect DEF Joins
<1>7. ASSUME NEW o \in Player, NEW r \in Queue, Enqueue(o, r)
      PROVE  \E m \in Match : Holders(m)' = {Append(SweptQueues[q], p)[i] : i \in 1 .. q[2]}
  <2> DEFINE n == FullGroups(o, r)
  <2>1. PICK drawn \in [1 .. n -> Match] : Queued(o, r, drawn)
    BY <1>7 DEF Enqueue
  <2>2. n \in Nat /\ n <= n
    BY <1>1, FullGroupsType
  <2>3. p = o /\ q = r
    BY <1>1, <2>1, <2>2, JoinsByEnqueue
  <2>4. n # 0
    <3> DEFINE len == Len(Append(SweptQueues[q], p))
               s == q[2]
    <3>1. Line(Swept, p, q) = NewLine(p, q)
      BY SweptFields DEF Line, NewLine, Waiting, QueuedIn
    <3>2. n = len \div s
      BY <1>1, <2>3, <3>1, LineHere DEF FullGroups
    <3>3. len \in Nat /\ s \in Nat \ {0} /\ len >= s
      <4>1. SweptQueues[q] \in Seq(Player)
        BY <1>1, LineHere
      <4>2. Append(SweptQueues[q], p) \in Seq(Player)
        BY <4>1
      <4> QED
        BY <4>2, ConstantTypes DEF Queue
    <3> HIDE DEF n, len, s
    <3>4. len < (len \div s) * s + s
      BY <3>3, Quotient
    <3>5. CASE n = 0
      <4>1. (len \div s) * s = 0
        BY <3>2, <3>3, <3>5
      <4> QED
        BY <3>3, <3>4, <4>1
    <3> QED
      BY <3>5
  <2> QED
    BY <1>1, <2>1, <2>2, <2>3, <2>4, HeadDrawn
<1>8. ASSUME NEW o \in Player, NEW r \in Queue, EnqueueFails(o, r), RunsOut
      PROVE  \E m \in Match : Holders(m)' = {Append(SweptQueues[q], p)[i] : i \in 1 .. q[2]}
  <2>1. PICK n \in 0 .. FullGroups(o, r) - 1 :
           \E drawn \in [1 .. n -> Match] : Queued(o, r, drawn)
    BY <1>8 DEF EnqueueFails
  <2>2. PICK drawn \in [1 .. n -> Match] : Queued(o, r, drawn)
    BY <2>1
  <2>3. FullGroups(o, r) \in Nat
    BY <1>1, FullGroupsType
  <2>4. n \in Nat /\ n <= FullGroups(o, r)
    BY <2>3
  <2>5. p = o /\ q = r
    BY <1>1, <2>2, <2>4, JoinsByEnqueue
  <2>6. n # 0
    <3> SUFFICES ASSUME n = 0
                 PROVE  FALSE
      OBVIOUS
    <3>1. Drawn = {}
      BY <1>1, <2>2, NothingDrawn
    <3>2. Cardinality(Drawn) + 1 = 1
      BY <3>1, FS_EmptySet
    <3> QED
      BY <1>8, <3>2 DEF RunsOut
  <2> QED
    BY <1>1, <2>2, <2>4, <2>5, <2>6, HeadDrawn
<1> QED
  BY <1>4, <1>5, <1>6, <1>7, <1>8 DEF ManagerCall, Serves

-----------------------------------------------------------------------------
(***************************************************************************)
(* What the shared system promises.                                        *)
(***************************************************************************)

\* The manager over the real registry is the manager: all that is proved of
\* Spec holds of it (what CreateRoom, EndRoom and Expire of the store do to the
\* room of a match is what LobbyManager leaves open, RoomEnds).
THEOREM SharedManagerIsManager == SharedSpec => Spec
<1>1. SharedInit => Init
  BY DEF SharedInit
<1>2. [SharedNext]_sharedVars => [Next]_vars
  BY SharedStep
<1> QED
  BY <1>1, <1>2, PTL DEF SharedSpec, Spec

\* The manager and the registry agree through every history of calls, expiries,
\* operator requests and reuses of an ID, while the sweeper comes round every
\* interval (runSweeper of the server).
THEOREM RegistryAgrees == SharedSpec => []SharedInv
BY SharedInitHolds, SharedNextKeeps, PTL DEF SharedSpec

\* Whoever holds an assignment has a room until the match is over, unless the
\* operator deleted it, and no room is left open for a forgotten match
\* (allocateMatchLocked, expireLocked, EndRoom).
THEOREM AssignmentsKeepRooms == SharedSpec => []AssignmentHasRoom
<1>1. SharedInv => AssignmentHasRoom
  <2> SUFFICES ASSUME SharedInv, NEW m \in Match
               PROVE  /\ m \in matchIDs /\ now < MatchDeadline(m) /\ m \notin deleted =>
                            records[m] = [state |-> "open", by |-> "match",
                                          deadline |-> MatchDeadline(m)]
                      /\ records[m].by = "match" => m \in matchIDs /\ rooms[m].state = "open"
    BY DEF AssignmentHasRoom
  <2>1. KeptFor(m) /\ Traced(m) /\ m \in RoomID
    BY DEF SharedInv, RoomID
  <2>2. ASSUME m \in matchIDs, now < MatchDeadline(m), m \notin deleted
        PROVE  records[m] = [state |-> "open", by |-> "match", deadline |-> MatchDeadline(m)]
    <3>1. MatchDeadline(m) \in Nat /\ now \in Nat
      BY <2>2, OverAtDeadline DEF SharedInv, IInv
    <3>2. records[m].by = "match"
      BY <2>1, <2>2, <3>1 DEF Traced
    <3>3. records[m] \in Record /\ records[m].state = "open"
      BY <2>1, <3>2, RoomFacts
    <3>4. records[m].deadline = MatchDeadline(m)
      BY <2>1, <3>2 DEF KeptFor
    <3> QED
      BY <3>2, <3>3, <3>4 DEF Record
  <2> QED
    BY <2>1, <2>2 DEF KeptFor
<1> QED
  BY <1>1, RegistryAgrees, PTL

\* The manager ends no room of the operator's by EndRoom, which goes by ID, but
\* where the operator took the ID of a match it had deleted.
THEOREM OperatorIsSpared == SharedSpec => ManagerSparesOperator
<1> DEFINE A == \A r \in RoomID :
                   records[r].by = "operator" /\ records'[r] # records[r] /\ ~OperatorDelete(r) =>
                      Passed(records[r]) \/ (r \in deleted /\ r \in OverMatches)
<1>1. SharedInv /\ [SharedNext]_sharedVars => A
  <2> SUFFICES ASSUME SharedInv, [SharedNext]_sharedVars, NEW r \in RoomID,
                      records[r].by = "operator", records'[r] # records[r], ~OperatorDelete(r)
               PROVE  Passed(records[r]) \/ (r \in deleted /\ r \in OverMatches)
    OBVIOUS
  <2>1. IInv /\ IInv' /\ RegistryGood /\ records \in [RoomID -> Record] /\ now \in Nat
    BY SharedStep, NextKeeps DEF SharedInv, RegistryGood, IInv
  <2>2. records[r].state = "open"
    BY RoomFacts
  <2>3. CASE ManagerCall
    <3>1. r \in Drawn \/ r \in OverMatches
      BY <2>1, <2>3, ManagerCallEffect, ServedRecords
    <3>2. r \notin Drawn
      <4>1. r \in Drawn => records[r] = Absent
        BY <2>1, <2>3, ManagerCallEffect, ServedRecords
      <4> QED
        BY <2>1, <4>1, RecordsMade
    <3>3. r \in matchIDs /\ r \in Match
      BY <2>1, <3>1, <3>2, OverAtDeadline
    <3>4. r \in deleted
      BY <2>2, <3>3 DEF SharedInv, Traced
    <3> QED
      BY <3>1, <3>2, <3>4
  <2>4. CASE \E o \in RoomID : RecordExpires(o)
    <3> PICK o \in RoomID : RecordExpires(o)
      BY <2>4
    <3>1. o = r
      BY <2>1 DEF RecordExpires
    <3> QED
      BY <3>1 DEF RecordExpires
  <2>5. CASE \E o \in RoomID, ttl \in OperatorTTL : OperatorPut(o, ttl)
    <3> PICK o \in RoomID, ttl \in OperatorTTL : OperatorPut(o, ttl)
      BY <2>5
    <3>1. o = r
      BY <2>1 DEF OperatorPut
    <3> QED
      BY <2>2, <3>1 DEF OperatorPut, Free
  <2>6. CASE \E o \in RoomID : OperatorDelete(o)
    <3> PICK o \in RoomID : OperatorDelete(o)
      BY <2>6
    <3>1. o # r /\ records' = EndRooms({o})
      BY DEF OperatorDelete
    <3> QED
      BY <2>1, <3>1, RoomsEnded
  <2>7. CASE SharedTick \/ UNCHANGED sharedVars
    BY <2>7 DEF SharedTick, sharedVars
  <2> QED
    BY <2>3, <2>4, <2>5, <2>6, <2>7 DEF SharedNext
<1>2. SharedInv /\ [SharedNext]_sharedVars => [A]_sharedVars
  BY <1>1
<1> HIDE DEF A
<1>3. SharedSpec => [][A]_sharedVars
  BY <1>2, RegistryAgrees, PTL DEF SharedSpec
<1> QED
  BY <1>3 DEF ManagerSparesOperator, A

\* A group that was left waiting for want of a room is matched, as it stands at
\* the head of the line, by the next player to join its queue once there is room
\* (matchQueueLocked; TestRelayCapacityFailurePreservesFIFOSelection).
THEOREM WaitingGroupIsServed == SharedSpec => HeadIsServed
<1> DEFINE A == \A p \in Player, q \in Queue : CompletesHead(p, q)
<1>1. SharedInv /\ [SharedNext]_sharedVars => A
  <2> SUFFICES ASSUME SharedInv, [SharedNext]_sharedVars, NEW p \in Player, NEW q \in Queue,
                      Joins(p, q), Len(LineJoined(p, q)) >= q[2], Fits(EndOver, 1)
               PROVE  \E m \in Match : Holders(m)' = {LineJoined(p, q)[i] : i \in 1 .. q[2]}
    BY DEF CompletesHead
  <2>1. IInv' /\ IInv
    BY SharedStep, NextKeeps DEF SharedInv
  <2>2. tickets' # tickets
    <3>1. tickets[p] # None => /\ tickets[p].sequence \in Nat /\ nextSequence \in Nat
                               /\ tickets[p].sequence < nextSequence
      BY <2>1, LiveRecords
    <3> QED
      BY <3>1 DEF Joins
  <2>3. CASE ManagerCall
    BY <2>1, <2>3, CallServesHead DEF LineJoined
  <2>4. CASE \E r \in RoomID : RecordExpires(r) \/ OperatorDelete(r)
    BY <2>2, <2>4, GoneEffect DEF RecordExpires, OperatorDelete
  <2>5. CASE \E r \in RoomID, ttl \in OperatorTTL : OperatorPut(r, ttl)
    BY <2>2, <2>5 DEF OperatorPut, vars
  <2>6. CASE SharedTick \/ UNCHANGED sharedVars
    BY <2>2, <2>6 DEF SharedTick, Tick, sharedVars, vars
  <2> QED
    BY <2>3, <2>4, <2>5, <2>6 DEF SharedNext
<1>2. SharedInv /\ [SharedNext]_sharedVars => [A]_sharedVars
  BY <1>1
<1> HIDE DEF A
<1>3. SharedSpec => [][A]_sharedVars
  BY <1>2, RegistryAgrees, PTL DEF SharedSpec
<1> QED
  BY <1>3 DEF HeadIsServed, A

=============================================================================
