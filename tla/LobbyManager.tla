---------------------------- MODULE LobbyManager ----------------------------
(***************************************************************************)
(* Lobbies and Quick Match: type Manager in src/internal/lobby/lobby.go    *)
(* and match.go.  Every exported method takes the one mutex, reads the     *)
(* clock once, first removes what has expired (expireLocked) and runs to   *)
(* its end, so a method is one action on the swept state; time passes      *)
(* between actions.                                                        *)
(*                                                                         *)
(* Abstractions.  A match and the Relay room allocated for it have one     *)
(* name.  Queue key and visibility of a lobby never change and are left    *)
(* out; so is the text of an assignment, which is the match of its holder. *)
(* The Relay store is what the manager uses of it: CreateRoom succeeds for *)
(* a room nobody named before or fails, EndRoom is idempotent, and a room  *)
(* may end for reasons of its own at any time.  Get, List and GetTicket    *)
(* and every rejected call do no more than expireLocked: they are Expire.  *)
(***************************************************************************)
EXTENDS Integers, FiniteSets, SequencesExt

CONSTANTS
    Player, LobbyID, Match, QueueKey, None,
    Capacity,                       \* the capacities players may ask for
    LobbyTTL, TicketTTL, MatchTTL,
    MaxLobbies, MaxTickets,         \* HardMaxOpenLobbies, HardMaxTickets
    MaxSequence, MaxRevision,       \* the largest uint64
    MaxTime                         \* bound: last reading of the clock

ASSUME NoneAssumption == None \notin Player \cup LobbyID \cup Match
ASSUME CapacityAssumption == Capacity \subseteq Nat \ {0, 1}
ASSUME LimitAssumption == /\ {LobbyTTL, TicketTTL, MatchTTL} \subseteq Nat \ {0}
                          /\ {MaxLobbies, MaxTickets, MaxTime} \subseteq Nat
                          /\ {MaxSequence, MaxRevision} \subseteq Nat \ {0}

VARIABLES
    now,
    lobbies,        \* lobbiesByID; None when absent
    lobbyOf,        \* lobbyByPlayer
    tickets,        \* ticketsByPlayer
    queues,         \* the players waiting for a queue key and a capacity
    matchIDs,
    nextSequence,
    rooms,          \* the Relay rooms allocated for matches
    consent         \* history: the members of the lobby a player last declared
                    \* ready in, at that moment

vars == <<now, lobbies, lobbyOf, tickets, queues, matchIDs, nextSequence, rooms, consent>>

Queue == QueueKey \X Capacity

Lobby == [owner : Player, capacity : Capacity, state : {"open", "matched"},
          revision : Nat, sequence : Nat, deadline : Nat,
          joined : UNION {[members -> 1 .. MaxSequence] : members \in SUBSET Player},  \* joinSequence
          ready : SUBSET Player,
          match : Match \cup {None}]

Ticket == [queue : Queue, state : {"queued", "matched"}, revision : Nat, sequence : Nat,
           deadline : Nat, match : Match \cup {None}]

ASSUME RecordAssumption == None \notin Lobby \cup Ticket

Init ==
    /\ now = 0
    /\ lobbies = [l \in LobbyID |-> None]
    /\ lobbyOf = [p \in Player |-> None]
    /\ tickets = [p \in Player |-> None]
    /\ queues = [q \in Queue |-> <<>>]
    /\ matchIDs = {}
    /\ nextSequence = 1
    /\ rooms = [m \in Match |-> [state |-> "unused", players |-> {}]]
    /\ consent = [p \in Player |-> {}]
-----------------------------------------------------------------------------
(***************************************************************************)
(* expireLocked.                                                           *)
(***************************************************************************)
Members(lobby) == DOMAIN lobby.joined

\* Mutant: a record lives one instant past its deadline.
DueLate(record) == record # None /\ now > record.deadline

Due(record) == record # None /\ now >= record.deadline

\* The matches of the lobbies and the tickets that expire now.
OverMatches ==
    {lobbies[l].match : l \in {k \in LobbyID : Due(lobbies[k]) /\ lobbies[k].state = "matched"}}
    \cup {tickets[p].match : p \in {o \in Player : Due(tickets[o]) /\ tickets[o].state = "matched"}}

\* Mutant: the members of an expired lobby stay assigned to it.
SweptLobbyOfForgets == lobbyOf

SweptLobbyOf ==
    [p \in Player |-> IF \E l \in LobbyID : Due(lobbies[l]) /\ p \in Members(lobbies[l])
                      THEN None ELSE lobbyOf[p]]

SweptTickets == [p \in Player |-> IF Due(tickets[p]) THEN None ELSE tickets[p]]

\* Mutant: expired tickets stay in their queues.
SweptQueuesForgets == queues

\* The players of a line who are in the set who, in the order of the line.
Kept(line, who) ==
    LET at == {i \in DOMAIN line : line[i] \in who}
        rank(i) == Cardinality({j \in at : j <= i})
    IN  [k \in 1 .. Cardinality(at) |-> line[CHOOSE i \in at : rank(i) = k]]

SweptQueues ==
    [q \in Queue |-> Kept(queues[q],
        {p \in Player : ~(Due(tickets[p]) /\ tickets[p].state = "queued" /\ tickets[p].queue = q)})]

SweptRooms ==
    [m \in Match |-> IF m \in OverMatches THEN [rooms[m] EXCEPT !.state = "ended"] ELSE rooms[m]]

Swept == [lobbies  |-> [l \in LobbyID |-> IF Due(lobbies[l]) THEN None ELSE lobbies[l]],
          lobbyOf  |-> SweptLobbyOf,
          tickets  |-> SweptTickets,
          queues   |-> SweptQueues,
          matchIDs |-> matchIDs \ OverMatches,
          rooms    |-> SweptRooms]

Become(s) ==
    /\ lobbies' = s.lobbies
    /\ lobbyOf' = s.lobbyOf
    /\ tickets' = s.tickets
    /\ queues' = s.queues
    /\ matchIDs' = s.matchIDs
    /\ rooms' = s.rooms

Unplaced(s, p) == s.lobbyOf[p] = None /\ s.tickets[p] = None

\* The match and room IDs a draw may return.
Fresh(s) == {m \in Match : m \notin s.matchIDs /\ s.rooms[m].state = "unused"}

Allocated(players) == [state |-> "open", players |-> players]
-----------------------------------------------------------------------------
(***************************************************************************)
(* Lobbies.                                                                *)
(***************************************************************************)
Create(p, l, capacity) ==
    LET s == Swept
    IN  /\ Unplaced(s, p)
        /\ s.lobbies[l] = None
        /\ Cardinality({k \in LobbyID : s.lobbies[k] # None}) < MaxLobbies
        /\ nextSequence < MaxSequence
        /\ Become([s EXCEPT
               !.lobbies[l] = [owner |-> p, capacity |-> capacity, state |-> "open", revision |-> 1,
                               sequence |-> nextSequence, deadline |-> now + LobbyTTL,
                               joined |-> [o \in {p} |-> nextSequence], ready |-> {}, match |-> None],
               !.lobbyOf[p] = l])
        /\ nextSequence' = nextSequence + 1
        /\ UNCHANGED <<now, consent>>

\* The lobby is there and open at the revision the caller last saw.
Current(lobby, revision) ==
    lobby # None /\ lobby.state = "open" /\ lobby.revision = revision

\* Mutant: joining does not clear the ready flags of those present.
JoinedKeepingReady(lobby, p) ==
    [lobby EXCEPT !.joined = [o \in Members(lobby) \cup {p} |->
                                 IF o = p THEN nextSequence ELSE lobby.joined[o]],
                  !.revision = lobby.revision + 1]

Joined(lobby, p) ==
    [lobby EXCEPT !.joined = [o \in Members(lobby) \cup {p} |->
                                 IF o = p THEN nextSequence ELSE lobby.joined[o]],
                  !.ready = {},
                  !.revision = lobby.revision + 1]

Join(p, l, revision) ==
    LET s == Swept
        lobby == s.lobbies[l]
    IN  /\ Current(lobby, revision)
        /\ Unplaced(s, p)
        /\ Cardinality(Members(lobby)) < lobby.capacity
        /\ nextSequence < MaxSequence /\ revision < MaxRevision
        /\ Become([s EXCEPT !.lobbies[l] = Joined(lobby, p), !.lobbyOf[p] = l])
        /\ nextSequence' = nextSequence + 1
        /\ UNCHANGED <<now, consent>>

\* Mutant: the member who came last.
FirstMemberLast(joined) ==
    CHOOSE p \in DOMAIN joined : \A o \in DOMAIN joined : joined[p] >= joined[o]

\* The longest-present member.
FirstMember(joined) ==
    CHOOSE p \in DOMAIN joined : \A o \in DOMAIN joined : joined[p] <= joined[o]

\* Mutant: leaving does not count as a change.
LeftUnnoticed(lobby, p) ==
    LET rest == [o \in Members(lobby) \ {p} |-> lobby.joined[o]]
    IN  IF DOMAIN rest = {} THEN None
        ELSE [lobby EXCEPT !.joined = rest, !.ready = {},
                           !.owner = IF lobby.owner = p THEN FirstMember(rest) ELSE lobby.owner]

\* The lobby without p; it closes with its last member.
Left(lobby, p) ==
    LET rest == [o \in Members(lobby) \ {p} |-> lobby.joined[o]]
    IN  IF DOMAIN rest = {} THEN None
        ELSE [lobby EXCEPT !.joined = rest,
                           !.ready = {},
                           !.owner = IF lobby.owner = p THEN FirstMember(rest) ELSE lobby.owner,
                           !.revision = lobby.revision + 1]

Leave(p, l, revision) ==
    LET s == Swept
        lobby == s.lobbies[l]
    IN  /\ Current(lobby, revision)
        /\ p \in Members(lobby)
        /\ revision < MaxRevision
        /\ Become([s EXCEPT !.lobbies[l] = Left(lobby, p), !.lobbyOf[p] = None])
        /\ UNCHANGED <<now, nextSequence, consent>>

\* SetReady that changes the flag; setting it to what it is changes nothing.
SetReady(p, l, revision, ready) ==
    LET s == Swept
        lobby == s.lobbies[l]
    IN  /\ Current(lobby, revision)
        /\ p \in Members(lobby)
        /\ ready # (p \in lobby.ready)
        /\ revision < MaxRevision
        /\ Become([s EXCEPT !.lobbies[l] =
               [lobby EXCEPT !.ready = IF ready THEN lobby.ready \cup {p} ELSE lobby.ready \ {p},
                             !.revision = revision + 1]])
        /\ consent' = IF ready THEN [consent EXCEPT ![p] = Members(lobby)] ELSE consent
        /\ UNCHANGED <<now, nextSequence>>

\* Mutant: the lobby need not be full.
StartablePartly(lobby, p) == lobby.owner = p /\ lobby.ready = Members(lobby)

Startable(lobby, p) ==
    /\ lobby.owner = p
    /\ Cardinality(Members(lobby)) = lobby.capacity
    /\ lobby.ready = Members(lobby)

\* Start, when the room for the match m is allocated; when it is not, Start
\* leaves the lobby as it is.
Start(p, l, revision, m) ==
    LET s == Swept
        lobby == s.lobbies[l]
    IN  /\ Current(lobby, revision)
        /\ Startable(lobby, p)
        /\ revision < MaxRevision
        /\ m \in Fresh(s)
        /\ Become([s EXCEPT
               !.lobbies[l] = [lobby EXCEPT !.state = "matched", !.revision = revision + 1,
                                            !.deadline = now + MatchTTL, !.match = m],
               !.matchIDs = s.matchIDs \cup {m},
               !.rooms[m] = Allocated(Members(lobby))])
        /\ UNCHANGED <<now, nextSequence, consent>>
-----------------------------------------------------------------------------
(***************************************************************************)
(* Quick Match.                                                            *)
(***************************************************************************)
Waiting(s, q) ==
    {p \in Player : /\ s.tickets[p] # None
                    /\ s.tickets[p].state = "queued" /\ s.tickets[p].queue = q}

\* Mutant: newcomers go to the head of the queue.
LineFromHead(s, p, q) == Kept(<<p>> \o s.queues[q], {p} \cup Waiting(s, q))

\* The queue q once p has joined it with its ticket and compactQueueLocked has
\* dropped whoever no longer waits in it.
Line(s, p, q) == Kept(Append(s.queues[q], p), {p} \cup Waiting(s, q))

\* matchQueueLocked: the players of the line who are placed in the matches
\* drawn, group after group, and the match of each.
Placed(line, size, drawn) == {line[i] : i \in 1 .. size * Len(drawn)}

Group(line, size, i) == {line[j] : j \in (i - 1) * size + 1 .. i * size}

MatchOf(line, size, drawn, p) ==
    drawn[CHOOSE i \in DOMAIN drawn : p \in Group(line, size, i)]

\* Enqueue that gets past its checks: p waits in q, then full groups are
\* matched, oldest first, until they run out or an allocation fails.
Queued(p, q, drawn) ==
    LET s == Swept
        line == Line(s, p, q)
        size == q[2]
        own == [queue |-> q, state |-> "queued", revision |-> 1, sequence |-> nextSequence,
                deadline |-> now + TicketTTL, match |-> None]
        waiting == [s.tickets EXCEPT ![p] = own]
    IN  /\ Unplaced(s, p)
        /\ Cardinality({o \in Player : s.tickets[o] # None}) < MaxTickets
        /\ nextSequence < MaxSequence
        /\ IsInjective(drawn) /\ ToSet(drawn) \subseteq Fresh(s)
        /\ Become([s EXCEPT
               !.tickets = [o \in Player |->
                   IF o \in Placed(line, size, drawn)
                   THEN [waiting[o] EXCEPT !.state = "matched",
                                           !.revision = waiting[o].revision + 1,
                                           !.deadline = now + MatchTTL,
                                           !.match = MatchOf(line, size, drawn, o)]
                   ELSE waiting[o]],
               !.queues[q] = SubSeq(line, size * Len(drawn) + 1, Len(line)),
               !.matchIDs = s.matchIDs \cup ToSet(drawn),
               !.rooms = [m \in Match |->
                   IF m \in ToSet(drawn)
                   THEN Allocated(Group(line, size, CHOOSE i \in DOMAIN drawn : drawn[i] = m))
                   ELSE s.rooms[m]]])
        /\ nextSequence' = nextSequence + 1
        /\ UNCHANGED <<now, consent>>

\* Mutant: the loop goes on only while more than a group waits.
FullGroupsMore(p, q) == (Len(Line(Swept, p, q)) - 1) \div q[2]

FullGroups(p, q) == Len(Line(Swept, p, q)) \div q[2]

\* The answer is p's ticket.
Enqueue(p, q) ==
    \E drawn \in [1 .. FullGroups(p, q) -> Match] : Queued(p, q, drawn)

\* The answer is an error: an allocation failed.
EnqueueFails(p, q) ==
    \E n \in 0 .. FullGroups(p, q) - 1 :
        \E drawn \in [1 .. n -> Match] : Queued(p, q, drawn)

CancelTicket(p, revision) ==
    LET s == Swept
        ticket == s.tickets[p]
    IN  /\ ticket # None
        /\ ticket.state = "queued" /\ ticket.revision = revision /\ revision < MaxRevision
        /\ Become([s EXCEPT !.tickets[p] = None,
                            !.queues[ticket.queue] = RemoveFirst(s.queues[ticket.queue], p)])
        /\ UNCHANGED <<now, nextSequence, consent>>
-----------------------------------------------------------------------------
Expire == Become(Swept) /\ UNCHANGED <<now, nextSequence, consent>>

\* The room of a match ends in the Relay: its deadline or an operator's DELETE.
RoomEnds(m) ==
    /\ rooms[m].state = "open"
    /\ rooms' = [rooms EXCEPT ![m].state = "ended"]
    /\ UNCHANGED <<now, lobbies, lobbyOf, tickets, queues, matchIDs, nextSequence, consent>>

Tick ==
    /\ now < MaxTime
    /\ now' = now + 1
    /\ UNCHANGED <<lobbies, lobbyOf, tickets, queues, matchIDs, nextSequence, rooms, consent>>

LobbyCall ==
    \E p \in Player, l \in LobbyID :
        \/ \E capacity \in Capacity : Create(p, l, capacity)
        \/ \E revision \in 1 .. MaxRevision :
              \/ Join(p, l, revision)
              \/ Leave(p, l, revision)
              \/ \E ready \in BOOLEAN : SetReady(p, l, revision, ready)
              \/ \E m \in Match : Start(p, l, revision, m)

TicketCall ==
    \E p \in Player :
        \/ \E q \in Queue : Enqueue(p, q) \/ EnqueueFails(p, q)
        \/ \E revision \in 1 .. MaxRevision : CancelTicket(p, revision)

Next ==
    \/ LobbyCall
    \/ TicketCall
    \/ Expire
    \/ \E m \in Match : RoomEnds(m)
    \/ Tick

Spec == Init /\ [][Next]_vars
-----------------------------------------------------------------------------
TypeOK ==
    /\ now \in Nat
    /\ lobbies \in [LobbyID -> Lobby \cup {None}]
    /\ lobbyOf \in [Player -> LobbyID \cup {None}]
    /\ tickets \in [Player -> Ticket \cup {None}]
    /\ queues \in [Queue -> Seq(Player)]
    /\ matchIDs \subseteq Match
    /\ nextSequence \in 1 .. MaxSequence
    /\ rooms \in [Match -> [state : {"unused", "open", "ended"}, players : SUBSET Player]]
    /\ consent \in [Player -> SUBSET Player]

\* A player is in at most one place: the player index names the one lobby that
\* has the player as a member, and nobody holds a ticket besides (Create, Join
\* and Enqueue check the indexes, Leave and the two expiries clear them).
SeatIntegrity ==
    /\ \A p \in Player, l \in LobbyID :
          lobbyOf[p] = l <=> lobbies[l] # None /\ p \in Members(lobbies[l])
    /\ \A p \in Player : lobbyOf[p] # None => tickets[p] = None

\* A lobby has an owner who is its longest-present member, however ownership
\* has passed on, never more members than its capacity, and never is empty
\* (and everything else has its type).
LobbyShape ==
    /\ TypeOK
    /\ \A l \in LobbyID : lobbies[l] # None =>
          LET joined == lobbies[l].joined
          IN  /\ lobbies[l].owner \in DOMAIN joined
              /\ \A p \in DOMAIN joined \ {lobbies[l].owner} : joined[lobbies[l].owner] < joined[p]
              /\ Cardinality(DOMAIN joined) <= lobbies[l].capacity

\* A ready flag speaks of the present group: its player declared it to exactly
\* these members, so a match is only ever started with players who agreed to
\* play with each other, whoever left and joined in between.
ReadyMeansThisGroup ==
    \A l \in LobbyID : lobbies[l] # None =>
        /\ lobbies[l].ready \subseteq Members(lobbies[l])
        /\ \A p \in lobbies[l].ready : consent[p] = Members(lobbies[l])
        /\ lobbies[l].state = "matched" => lobbies[l].ready = Members(lobbies[l])

\* Each queue lists exactly the players whose tickets wait in it, in the order
\* of their insertion: nobody is lost, listed twice, or left behind after a
\* cancellation, an expiry, a match or a failed allocation.
QueueIntegrity ==
    \A q \in Queue :
        /\ ToSet(queues[q]) = {p \in Player : /\ tickets[p] # None
                                              /\ tickets[p].state = "queued" /\ tickets[p].queue = q}
        /\ \A i, j \in DOMAIN queues[q] :
              i < j => tickets[queues[q][i]].sequence < tickets[queues[q][j]].sequence

Holders(m) ==
    {p \in Player : \/ tickets[p] # None /\ tickets[p].match = m
                    \/ lobbyOf[p] # None /\ lobbies[lobbyOf[p]].match = m}

\* A match the manager remembers is held by exactly the players its room was
\* allocated for, as many as its capacity, and all until the same deadline; a
\* forgotten one is held by nobody and its room is not left open behind it.
MatchIntegrity ==
    \A m \in Match :
        IF m \in matchIDs
        THEN /\ Holders(m) = rooms[m].players
             /\ rooms[m].state # "unused"
             /\ \A l \in LobbyID : lobbies[l] # None /\ lobbies[l].match = m =>
                   /\ Cardinality(rooms[m].players) = lobbies[l].capacity
                   /\ Members(lobbies[l]) = rooms[m].players
             /\ \A p \in Player : tickets[p] # None /\ tickets[p].match = m =>
                   /\ Cardinality(rooms[m].players) = tickets[p].queue[2]
                   /\ \A o \in rooms[m].players :
                         /\ tickets[o] # None /\ tickets[o].queue = tickets[p].queue
                         /\ tickets[o].deadline = tickets[p].deadline
        ELSE Holders(m) = {} /\ rooms[m].state # "open"

\* Quick Match is first come, first served: a player who is placed came before
\* everyone who goes on waiting in the same queue.
FifoMatching ==
    [][\A p, o \in Player :
         LET placed == tickets'[p]
             waits  == tickets'[o]
         IN  (/\ placed # None /\ placed.state = "matched"
              /\ tickets[p] = None \/ tickets[p].state = "queued"
              /\ waits # None /\ waits.state = "queued" /\ waits.queue = placed.queue)
             => placed.sequence < waits.sequence]_vars

\* Whatever changes in a lobby shows in its revision, which grows one by one: a
\* caller whose revision is accepted acts on exactly the lobby it saw.
RevisionWitness ==
    [][\A l \in LobbyID :
         (/\ lobbies[l] # None /\ lobbies'[l] # None /\ lobbies'[l].sequence = lobbies[l].sequence
          /\ lobbies'[l] # lobbies[l])
         => lobbies'[l].revision = lobbies[l].revision + 1]_vars

Over(record) == record # None /\ record.deadline <= now

Respected(before, after) ==
    after # None => now < after.deadline /\ (Over(before) => after.sequence = nextSequence)

\* Authority ends at the exact deadline even before the sweeper comes round
\* (design, section 8): no call leaves behind, or acts on, a lobby or a ticket
\* that is due.
ExactDeadline ==
    [][\/ UNCHANGED <<lobbies, tickets>>
       \/ /\ \A l \in LobbyID : Respected(lobbies[l], lobbies'[l])
          /\ \A p \in Player : Respected(tickets[p], tickets'[p])]_vars

\* What the design says of errors (section 8: every mutation is all-or-nothing):
\* a call answered with an error leaves no more behind than the expiry of what
\* was due.  Enqueue does not keep to it.
FailedCallChangesNothing ==
    [][\A p \in Player, q \in Queue :
         EnqueueFails(p, q) => tickets' = SweptTickets /\ queues' = SweptQueues]_vars
=============================================================================
