----------------------------- MODULE LobbyRelay -----------------------------
(***************************************************************************)
(* The lobby manager over the real registry of rooms, which it shares with *)
(* the operator: LobbyManager together with what CreateRoom, EndRoom and   *)
(* Expire of src/internal/store/store.go make of a room ID.  The manager   *)
(* names rooms by ID only, for as long as it remembers a match; meanwhile  *)
(* the room may be deleted, its tombstone forgotten and the ID taken again *)
(* by the operator.                                                        *)
(*                                                                         *)
(* Abstractions.  A record keeps what the lobby can tell: who created it   *)
(* and its deadlines.  All grants of a room end with it, so it is never    *)
(* "empty"; the limit on sessions is not reached.  IDs drawn at random are *)
(* new to everybody: the operator uses an ID of the manager's only after   *)
(* the manager did.  A failing random source ends the process and is left  *)
(* out, so an allocation fails for want of capacity alone.                 *)
(***************************************************************************)
EXTENDS LobbyManager

CONSTANTS
    OwnRoom,                         \* IDs only the operator uses
    OperatorTTL, TombstoneTTL,
    SweepInterval,                   \* of the sweeper of the server; 1 s, a tombstone 60 s
    MaxOpenRooms, MaxRoomRecords

ASSUME StoreAssumption ==
    /\ OwnRoom \cap Match = {}
    /\ OperatorTTL \subseteq Nat \ {0} /\ TombstoneTTL \in Nat \ {0}
    /\ SweepInterval \in 1 .. TombstoneTTL
    /\ {MaxOpenRooms, MaxRoomRecords} \subseteq Nat

VARIABLES
    records,    \* roomsByID
    deleted     \* history: the match rooms an operator's DELETE ended

sharedVars == <<vars, records, deleted>>

RoomID == Match \cup OwnRoom

Record == [state : {"absent", "open", "tombstone"}, by : {"nobody", "match", "operator"},
           deadline : Nat]

Absent == [state |-> "absent", by |-> "nobody", deadline |-> 0]
Opened(by, ttl) == [state |-> "open", by |-> by, deadline |-> now + ttl]
Ended == [state |-> "tombstone", by |-> "nobody", deadline |-> now + TombstoneTTL]

SharedInit ==
    /\ Init
    /\ records = [r \in RoomID |-> Absent]
    /\ deleted = {}
-----------------------------------------------------------------------------
Passed(record) == now >= record.deadline

\* CreateRoom finds no room under the ID, or a tombstone that is due.
Free(s, r) == s[r].state # "open" /\ (s[r].state = "tombstone" => Passed(s[r]))

\* CreateRoom finds a room and a record left, for n more rooms.
Fits(s, n) ==
    /\ Cardinality({r \in RoomID : s[r].state = "open"}) + n <= MaxOpenRooms
    /\ Cardinality({r \in RoomID : s[r].state # "absent"}) + n <= MaxRoomRecords

\* EndRoom, on each of some IDs: by ID, whoever created the room.
EndRooms(ids) ==
    [r \in RoomID |->
        IF r \notin ids \/ records[r].state = "absent" THEN records[r]
        ELSE IF records[r].state = "open" THEN Ended
        ELSE IF Passed(records[r]) THEN Absent ELSE records[r]]

\* Mutant: a match is forgotten and its room left to its own deadline.
EndOverForgets == records

\* Until when the players of a match hold it.
MatchDeadline(m) ==
    LET p == CHOOSE o \in Holders(m) : TRUE
    IN  IF tickets[p] # None THEN tickets[p].deadline ELSE lobbies[lobbyOf[p]].deadline

\* Mutant: the rooms end one unit before the match is over.
EndOverEarly == EndRooms({m \in matchIDs : now + 1 >= MatchDeadline(m)})

\* expireLocked ends the rooms of the matches that are over.
EndOver == EndRooms(OverMatches)

\* The matches a call of the manager allocates.
Drawn == {m \in Match : rooms[m].state = "unused" /\ rooms'[m].state = "open"}

\* allocateMatchLocked asks for rooms that last as long as the match.
WithRooms(s) == [r \in RoomID |-> IF r \in Drawn THEN Opened("match", MatchTTL) ELSE s[r]]

\* A call of the manager and what it makes the store do: CreateRoom, once for
\* each match it draws, found room for it.
Serves(call) ==
    /\ call
    /\ Fits(EndOver, Cardinality(Drawn))
    /\ records' = WithRooms(EndOver)
    /\ UNCHANGED deleted

\* CreateRoom answers the call after its last match with ErrCapacity.
RunsOut == ~Fits(EndOver, Cardinality(Drawn) + 1)

ManagerCall ==
    \/ Serves(LobbyCall)
    \/ Serves(\E p \in Player, q \in Queue : Enqueue(p, q))
    \/ Serves(\E p \in Player, q \in Queue : EnqueueFails(p, q)) /\ RunsOut
    \/ Serves(\E p \in Player, revision \in 1 .. MaxRevision : CancelTicket(p, revision))
    \/ Serves(Expire)

\* The room of a match is gone from the registry, but for the manager.
MatchRoomGone(r) ==
    IF r \in Match /\ records[r].by = "match" THEN RoomEnds(r) ELSE UNCHANGED vars

\* The store's Expire, room by room, or UDP traffic that finds a room due.
RecordExpires(r) ==
    /\ records[r].state # "absent" /\ Passed(records[r])
    /\ records' = [records EXCEPT ![r] = IF records[r].state = "open" THEN Ended ELSE Absent]
    /\ MatchRoomGone(r)
    /\ UNCHANGED deleted

\* PUT of a room that is not there.
OperatorPut(r, ttl) ==
    /\ r \in Match => rooms[r].state # "unused"
    /\ Free(records, r)
    /\ Fits([records EXCEPT ![r] = Absent], 1)
    /\ records' = [records EXCEPT ![r] = Opened("operator", ttl)]
    /\ UNCHANGED <<vars, deleted>>

OperatorDelete(r) ==
    /\ records' = EndRooms({r})
    /\ deleted' = IF records[r].by = "match" THEN deleted \cup {r} ELSE deleted
    /\ MatchRoomGone(r)

\* runSweeper comes round every interval: nothing the manager holds is overdue
\* for longer.
Punctual(record) == record # None => now + 1 < record.deadline + SweepInterval

SharedTick ==
    /\ \A l \in LobbyID : Punctual(lobbies[l])
    /\ \A p \in Player : Punctual(tickets[p])
    /\ Tick
    /\ UNCHANGED <<records, deleted>>

SharedNext ==
    \/ ManagerCall
    \/ \E r \in RoomID :
          \/ RecordExpires(r)
          \/ \E ttl \in OperatorTTL : OperatorPut(r, ttl)
          \/ OperatorDelete(r)
    \/ SharedTick

SharedSpec == SharedInit /\ [][SharedNext]_sharedVars
-----------------------------------------------------------------------------
\* Who holds an assignment has a room: the registry keeps the room of a match
\* the manager remembers for exactly as long as the match lasts, whatever
\* expires or is allocated meanwhile, unless the operator deletes it; and no
\* room stays open for a match that is forgotten.
AssignmentHasRoom ==
    \A m \in Match :
        /\ m \in matchIDs /\ now < MatchDeadline(m) /\ m \notin deleted =>
              records[m] = [state |-> "open", by |-> "match", deadline |-> MatchDeadline(m)]
        /\ records[m].by = "match" => m \in matchIDs /\ rooms[m].state = "open"

\* A room the operator created is left alone by the manager, except where the
\* operator deleted the room of a match and took its ID again before the match
\* was over.
ManagerSparesOperator ==
    [][\A r \in RoomID :
         records[r].by = "operator" /\ records'[r] # records[r] /\ ~OperatorDelete(r) =>
            Passed(records[r]) \/ (r \in deleted /\ r \in OverMatches)]_sharedVars

\* The player gets a ticket for the queue in this step.
Joins(p, q) ==
    tickets'[p] # None /\ tickets'[p].queue = q /\ tickets'[p].sequence = nextSequence

\* The players in line once p has joined q, after cancellations and expiries.
LineJoined(p, q) == Append(SweptQueues[q], p)

\* A player who joins a queue when there is room completes the group at the
\* head of the line: its players come into one match, just them.
CompletesHead(p, q) ==
    Joins(p, q) /\ Len(LineJoined(p, q)) >= q[2] /\ Fits(EndOver, 1) =>
       \E m \in Match : Holders(m)' = {LineJoined(p, q)[i] : i \in 1 .. q[2]}

\* A group that was full when the registry was, and that nobody tries again for
\* when a room ends, is not passed over for good: the next player to join its
\* queue once there is room brings the players at the head of the line, as it
\* is then, into one match, just them (matchQueueLocked).
HeadIsServed ==
    [][\A p \in Player, q \in Queue : CompletesHead(p, q)]_sharedVars

\* What the architecture says of an open room: it ends by DELETE, by its own
\* deadline, or when its sessions are gone, and for no other reason.
RoomEndsOnItsOwn ==
    [][\A r \in RoomID :
         records[r].by = "operator" /\ records'[r].by # "operator" =>
            Passed(records[r]) \/ OperatorDelete(r)]_sharedVars
=============================================================================
