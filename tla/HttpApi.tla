------------------------------- MODULE HttpApi -------------------------------
(***************************************************************************)
(* The two HTTP APIs, src/internal/control/http.go and                     *)
(* src/internal/playerapi/http.go, from the arrival of a request to the    *)
(* end of its handler, with the rooms and the player tokens the requests   *)
(* are about, the way down after a fatal error, and restarts.              *)
(*                                                                         *)
(* An exchange is one request on a connection; net/http gives each its own *)
(* goroutine.  A step of a handler ends where another handler can come     *)
(* between: at the limiter, the semaphore, the store, the wire.            *)
(*                                                                         *)
(* Abstractions.  A request that fails a check ahead of the limiter (404,  *)
(* 401, 400, 405) is answered and leaves nothing behind; it is not an      *)
(* action, nor is a request the limiter refuses.  What a body says beyond  *)
(* its operation, and the routes of the player API behind change and look, *)
(* are left out, as is what the lobby manager does with them               *)
(* (LobbyManager).  A room is known by the time it ends, the expires_at of *)
(* its definition; its grants are RelayStore's and do not run out here.    *)
(***************************************************************************)
EXTENDS PlayerTokens, FiniteSets

CONSTANTS
    Exchange, Room,
    Expiry,                     \* the definitions of rooms, by their expires_at
    None,
    ReadTimeout, TombstoneTTL,  \* 5 s, 60 s
    Rate, Burst,                \* of the request limiter of each API
    MaxConcurrent,              \* the places of each API
    MaxTokens, MaxStarts, MaxTime   \* bounds: tokens issued, processes, the clock

Api == {"management", "player"}

\* What a request asks for, when these tokens are in the hands of the players.
OperationOn(known) ==
    [do : {"put"}, room : Room, expires : Expiry]
    \cup [do : {"get", "delete"}, room : Room]
    \cup [do : {"issue"}, player : Player]
    \cup [do : {"change", "look"}, token : known]

ApiOf(op) == IF op.do \in {"change", "look"} THEN "player" ELSE "management"

\* What a request waits for: its place, its body, the backend, the end of its
\* handler; after a fatal error, the flush and the signal.
Stage == {"admitted", "body", "call", "answer", "fatal", "flushed", "unsent"}

RequestOn(known) ==
    [stage : Stage, op : OperationOn(known), began : Nat, overtaken : BOOLEAN]

ASSUME ExchangeAssumption ==
    IsFiniteSet(Exchange) /\ None \notin Exchange /\ None \notin RequestOn(Token)

ASSUME HttpAssumption ==
    /\ Expiry \subseteq Nat
    /\ MaxConcurrent \in [Api -> Nat \ {0}]
    /\ {ReadTimeout, Burst} \subseteq Nat \ {0}
    /\ TombstoneTTL \in Nat /\ ReadTimeout <= TombstoneTTL
    /\ {Rate, MaxTokens, MaxStarts, MaxTime} \subseteq Nat

VARIABLES
    now,
    key,        \* of this process: which start of the program it is
    budget,     \* the tokens of each API's limiter
    slots,      \* the places taken in each API's semaphore
    http,       \* the exchanges
    rooms,      \* roomsByID
    fatal,      \* fatalSignal: "no", or whether its request was answered by then
    closed,     \* the connections: "no", or why they were closed
    tokens      \* history: every token ever issued

vars == <<now, key, budget, slots, http, rooms, fatal, closed, tokens>>

Operation == OperationOn(tokens)

Absent == [state |-> "absent", until |-> 0]
Opened(expires) == [state |-> "open", until |-> expires]
Ended == [state |-> "tombstone", until |-> now + TombstoneTTL]

Init ==
    /\ now = 0 /\ key = 1
    /\ budget = [a \in Api |-> Burst]
    /\ slots = [a \in Api |-> 0]
    /\ http = [x \in Exchange |-> None]
    /\ rooms = [r \in Room |-> Absent]
    /\ fatal = "no" /\ closed = "no"
    /\ tokens = {}

At(x, stage) == http[x] # None /\ http[x].stage = stage
Goto(x, stage) == http' = [http EXCEPT ![x].stage = stage]
Issuing == {x \in Exchange : http[x] # None /\ http[x].op.do = "issue"}
-----------------------------------------------------------------------------
(***************************************************************************)
(* Admission: ServeHTTP of both APIs.                                      *)
(***************************************************************************)

\* The bearer token of the operator is right, or that of the player verifies;
\* then the limiter of the API gives one of its tokens.
Arrive(x, op) ==
    /\ closed = "no" /\ http[x] = None
    /\ now + ReadTimeout <= MaxTime
    /\ op.do = "issue" => Cardinality(tokens) + Cardinality(Issuing) < MaxTokens
    /\ op.do \in {"change", "look"} => Verify(op.token, key, now)
    /\ budget[ApiOf(op)] >= 1
    /\ budget' = [budget EXCEPT ![ApiOf(op)] = @ - 1]
    /\ http' = [http EXCEPT ![x] =
           [stage |-> "admitted", op |-> op, began |-> now, overtaken |-> FALSE]]
    /\ UNCHANGED <<now, key, slots, rooms, fatal, closed, tokens>>

\* GET and DELETE have no body; to see that of a request of unknown length,
\* requestHasBody reads a byte.
Enter(x) ==
    LET a == ApiOf(http[x].op)
    IN  /\ At(x, "admitted")
        /\ \/ /\ slots[a] < MaxConcurrent[a]
              /\ slots' = [slots EXCEPT ![a] = @ + 1]
              /\ \/ Goto(x, "body")
                 \/ http[x].op.do \in {"get", "delete", "look"} /\ Goto(x, "call")
           \/ /\ slots[a] = MaxConcurrent[a]
              /\ http' = [http EXCEPT ![x] = None]
              /\ UNCHANGED slots
        /\ UNCHANGED <<now, key, budget, rooms, fatal, closed, tokens>>
-----------------------------------------------------------------------------
(***************************************************************************)
(* The body.                                                               *)
(***************************************************************************)

\* Mutant: the server has no ReadTimeout.
BodyCutNever(x) == closed # "no"

\* The read fails: the deadline of the connection has passed, or the
\* connection was closed.
BodyCut(x) == closed # "no" \/ now >= http[x].began + ReadTimeout

ReadBody(x) ==
    /\ At(x, "body") /\ ~BodyCut(x)
    /\ Goto(x, "call")
    /\ UNCHANGED <<now, key, budget, slots, rooms, fatal, closed, tokens>>

\* The body is refused (400, 413, 415), or the client goes away.
RefuseBody(x) ==
    /\ At(x, "body") /\ ~BodyCut(x)
    /\ Goto(x, "answer")
    /\ UNCHANGED <<now, key, budget, slots, rooms, fatal, closed, tokens>>

BodyEnds(x) ==
    /\ At(x, "body") /\ BodyCut(x)
    /\ Goto(x, "answer")
    /\ UNCHANGED <<now, key, budget, slots, rooms, fatal, closed, tokens>>
-----------------------------------------------------------------------------
(***************************************************************************)
(* The call: one operation of the store, the lobby manager or the tokens.  *)
(***************************************************************************)

\* Mutant: CreateRoom pays no heed to a tombstone.
AllowsCreationOverTombstone(r) == rooms[r].state # "open"

\* CreateRoom finds no room under the ID, or a tombstone that is due.
AllowsCreation(r) ==
    \/ rooms[r].state = "absent"
    \/ rooms[r].state = "tombstone" /\ now >= rooms[r].until

\* The rooms and the exchanges once r has ended: whatever is under way for the
\* room then is overtaken.
Ending(r, x, stage) ==
    /\ rooms' = [rooms EXCEPT ![r] = Ended]
    /\ http' = [y \in Exchange |->
           IF http[y] = None THEN None
           ELSE [http[y] EXCEPT !.stage = IF y = x THEN stage ELSE @,
                                !.overtaken = @ \/ (http[y].op.do = "put" /\ http[y].op.room = r)]]

Becomes(r, room) == rooms' = [rooms EXCEPT ![r] = room]

\* putRoom: CreateRoom creates the room, refuses it for its expires_at or for
\* want of capacity, or runs out of random values; or it finds the ID taken, and
\* the answer is the room as it is, or a conflict.
Put(x) ==
    LET r == http[x].op.room
        until == http[x].op.expires
    IN  /\ At(x, "call") /\ http[x].op.do = "put"
        /\ IF AllowsCreation(r)
           THEN \/ now < until /\ Becomes(r, Opened(until)) /\ Goto(x, "answer")
                \/ Becomes(r, Absent) /\ Goto(x, "answer")
                \/ now < until /\ Becomes(r, Absent) /\ Goto(x, "fatal")
           ELSE Goto(x, "answer") /\ UNCHANGED rooms
        /\ UNCHANGED <<now, key, budget, slots, fatal, closed, tokens>>

\* deleteRoom.
Delete(x) ==
    LET r == http[x].op.room
    IN  /\ At(x, "call") /\ http[x].op.do = "delete"
        /\ IF rooms[r].state = "open" THEN Ending(r, x, "answer")
           ELSE /\ Becomes(r, IF AllowsCreation(r) THEN Absent ELSE rooms[r])
                /\ Goto(x, "answer")
        /\ UNCHANGED <<now, key, budget, slots, fatal, closed, tokens>>

\* postPlayerToken.  Issue draws nothing at random: it does not fail.
IssueToken(x) ==
    /\ At(x, "call") /\ http[x].op.do = "issue"
    /\ tokens' = tokens \cup {Issue(http[x].op.player, key, now)}
    /\ Goto(x, "answer")
    /\ UNCHANGED <<now, key, budget, slots, rooms, fatal, closed>>

\* getRoom, and the player API; what the manager creates takes random values.
Ask(x) ==
    /\ At(x, "call") /\ http[x].op.do \in {"get", "look", "change"}
    /\ \/ Goto(x, "answer")
       \/ http[x].op.do = "change" /\ Goto(x, "fatal")
    /\ UNCHANGED <<now, key, budget, slots, rooms, fatal, closed, tokens>>
-----------------------------------------------------------------------------
(***************************************************************************)
(* The answer.                                                             *)
(***************************************************************************)

\* Mutant: the 500 waits in its buffer until the handler returns.
FlushLater(x) ==
    /\ At(x, "fatal")
    /\ Goto(x, "unsent")
    /\ UNCHANGED <<now, key, budget, slots, rooms, fatal, closed, tokens>>

\* The 500 is flushed; it arrives if the connection is still there.
Flush(x) ==
    /\ At(x, "fatal")
    /\ Goto(x, IF closed = "no" THEN "flushed" ELSE "unsent")
    /\ UNCHANGED <<now, key, budget, slots, rooms, fatal, closed, tokens>>

\* notifyFatal, once for all.
Signal(x) ==
    /\ At(x, "flushed") \/ At(x, "unsent")
    /\ fatal' = IF fatal # "no" THEN fatal
                ELSE IF At(x, "flushed") THEN "answered" ELSE "unanswered"
    /\ Goto(x, "answer")
    /\ UNCHANGED <<now, key, budget, slots, rooms, closed, tokens>>

\* Mutant: only a request that reached the backend gives its place back.
LeaveKeepsPlace(x) ==
    /\ At(x, "answer")
    /\ slots' = [slots EXCEPT ![ApiOf(http[x].op)] = @ - IF BodyCut(x) THEN 0 ELSE 1]
    /\ http' = [http EXCEPT ![x] = None]
    /\ UNCHANGED <<now, key, budget, rooms, fatal, closed, tokens>>

\* The handler returns: its deferred function gives the place back.
Leave(x) ==
    /\ At(x, "answer")
    /\ slots' = [slots EXCEPT ![ApiOf(http[x].op)] = @ - 1]
    /\ http' = [http EXCEPT ![x] = None]
    /\ UNCHANGED <<now, key, budget, rooms, fatal, closed, tokens>>
-----------------------------------------------------------------------------
(***************************************************************************)
(* What happens around the handlers.                                       *)
(***************************************************************************)

\* Expire of the store, or a caller that finds the room due.
RoomLapses(r) ==
    /\ rooms[r].state # "absent" /\ now >= rooms[r].until
    /\ IF rooms[r].state = "open" THEN Ending(r, None, "answer")
       ELSE Becomes(r, Absent) /\ UNCHANGED http
    /\ UNCHANGED <<now, key, budget, slots, fatal, closed, tokens>>

\* shutdown closes the connections under their handlers, for a fatal error or
\* for a reason of its own.
Shutdown ==
    /\ closed = "no"
    /\ closed' \in {"stop"} \cup (IF fatal # "no" THEN {"fatal"} ELSE {})
    /\ UNCHANGED <<now, key, budget, slots, http, rooms, fatal, tokens>>

\* The process ends, or crashes, and is started again: all is lost but the
\* tokens in the hands of the players.
Restart ==
    /\ key < MaxStarts
    /\ key' = key + 1
    /\ budget' = [a \in Api |-> Burst] /\ slots' = [a \in Api |-> 0]
    /\ http' = [x \in Exchange |-> None]
    /\ rooms' = [r \in Room |-> Absent]
    /\ fatal' = "no" /\ closed' = "no"
    /\ UNCHANGED <<now, tokens>>

\* Scheduling: a handler waits for nothing but a body; the rest of it takes no
\* time of the clock.
Prompt == \A x \in Exchange : http[x] # None => At(x, "body") /\ ~BodyCut(x)

Tick ==
    /\ now < MaxTime /\ Prompt
    /\ now' = now + 1
    /\ budget' = [a \in Api |-> IF budget[a] + Rate < Burst THEN budget[a] + Rate ELSE Burst]
    /\ UNCHANGED <<key, slots, http, rooms, fatal, closed, tokens>>

\* The steps a handler takes whatever its client does.
Handler(x) ==
    \/ Enter(x) \/ BodyEnds(x)
    \/ Put(x) \/ Delete(x) \/ IssueToken(x) \/ Ask(x)
    \/ Flush(x) \/ Signal(x) \/ Leave(x)

Client(x) == ReadBody(x) \/ RefuseBody(x) \/ \E op \in Operation : Arrive(x, op)

Next ==
    \/ \E x \in Exchange : Handler(x) \/ Client(x)
    \/ \E r \in Room : RoomLapses(r)
    \/ Shutdown \/ Restart \/ Tick

Spec ==
    /\ Init /\ [][Next]_vars
    /\ \A x \in Exchange : WF_vars(Handler(x))
    /\ WF_vars(Tick)
-----------------------------------------------------------------------------
TypeOK ==
    /\ now \in Nat /\ key \in Nat
    /\ budget \in [Api -> 0 .. Burst] /\ slots \in [Api -> Nat]
    /\ http \in [Exchange -> {None} \cup RequestOn(tokens)]
    /\ rooms \in [Room -> [state : {"absent", "open", "tombstone"}, until : Nat]]
    /\ fatal \in {"no", "answered", "unanswered"} /\ closed \in {"no", "stop", "fatal"}
    /\ tokens \subseteq Token

\* Every place taken is held by a handler at work, and every handler at work
\* holds one, however its request ends: refused, cut off, failed or answered.
\* (A place that leaks is lost until the process ends: MaxConcurrent of them
\* close the API.)
PlacesHeld ==
    /\ TypeOK
    /\ \A a \in Api : slots[a] <= MaxConcurrent[a] /\ slots[a] =
          Cardinality({x \in Exchange : http[x] # None /\ ~At(x, "admitted") /\ ApiOf(http[x].op) = a})

\* A client that sends its request slowly, or never to its end, holds its place
\* for a while only: every request that arrives is over some time.
EveryRequestEnds == \A x \in Exchange : http[x] # None ~> http[x] = None

\* A player acts by a token this very process issued, and no later than a body
\* takes to arrive after it expired: the token is looked at once, before the
\* body is read (authorize, then decodeExact).
ActsWithinAuthority ==
    [][\A x \in Exchange :
         At(x, "call") /\ http[x].op.do \in {"change", "look"} /\ http'[x] \notin {http[x], None} =>
            LET token == http[x].op.token
            IN  token.key = key /\ now < token.expires + ReadTimeout]_vars

\* An ended room is not brought back by a PUT that was already under way when it
\* ended (ARCHITECTURE: tombstone retention prevents the retry of the original
\* PUT from resurrecting it): the tombstone outlasts every request.
NoResurrection ==
    [][\A x \in Exchange :
         At(x, "call") /\ http[x].op.do = "put" /\ http'[x] \notin {http[x], None} =>
            LET r == http[x].op.room
            IN  rooms[r].state # "open" /\ rooms'[r].state = "open" => ~http[x].overtaken]_vars

\* When the server goes down because of a fatal error, the request that met it
\* was answered before: the connections are closed under the handlers, and an
\* answer that is not out by then is lost.
FatalIsAnswered == closed = "fatal" => fatal = "answered"
=============================================================================
