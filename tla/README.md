# Verification of go-lobby-relay

go-lobby-relay is one Go process that keeps everything in memory: rooms and
grants created by an operator, lobbies and a quick-match queue for players, and a
UDP relay that carries packets between the players of a room. This directory
models it in TLA+, checks the models with TLC on small instances, and proves their
safety and action properties with TLAPS for every instance.

Paths below are relative to `src/`. "ADR n" is `docs/decisions/000n-*.md`,
"design" is `docs/superpowers/specs/2026-08-20-room-lobby-quick-match-design.md`,
"TRD" the technical requirements document under `docs/`.

## The system and its parts

| Part | Source | State | Operations | Model |
|---|---|---|---|---|
| Replay window | `internal/store/relay.go:108-141` | highest sequence and a 64-bit mask | `accept` | `ReplayOps`, `ReplayWindow`, `OnceFilter` |
| Room store | `internal/store/store.go` | rooms by ID, grants by ID, two counters, tombstones | `CreateRoom`, `GetRoom`, `EndRoom`, `Expire`, the sweeper | `RelayStore`, `TimedSweep` |
| Relay authority | `internal/store/relay.go` | per grant: pending challenge, completed handshake, binding; candidate and binding indexes | `BeginChallenge`, `Authenticate`, `AdmitClientIngress`, `AdmitPing`, `AdmitFanout` | `RelayStore` |
| Admission limiters | `internal/store/relay.go:597-662` | token buckets of sources, sessions, rooms and the process; the bounded table of sources | `admitPreauthLocked`, `allowAtomic`, eviction | `Admission`, `SourceLimiter` |
| Lobby manager | `internal/lobby/lobby.go`, `match.go` | lobbies, tickets, queues, match IDs | `Create`, `Join`, `Leave`, `SetReady`, `Start`, `Enqueue`, `CancelTicket`, `Expire` | `LobbyManager`, with the registry of rooms in `LobbyRelay` |
| UDP loop | `internal/relay/udp.go` | closed flag, run flag, counters | `Run`, `dispatch`, `writeFanout`, `Close`, `Counters` | `UdpRelay`, with the store in `RelayWire` |
| Server | `internal/server/server.go` | listeners, four loops, their join, stop and fatal signals | `New`, `Run`, `Close`, `notifyFatal` | `ServerLifecycle` |
| Management API | `internal/control/http.go` | request limiter and semaphore | PUT, GET, DELETE room; POST player token | `HttpApi` |
| Player API | `internal/playerapi/http.go` | request limiter and semaphore | lobby and ticket routes | `HttpApi`; what the calls do is in `LobbyManager` |
| Player tokens | `internal/playerauth/auth.go` | a key drawn at start | `Issue`, `Verify` | `PlayerTokens`, used by `HttpApi` |
| Codec and tags | `internal/protocol` | none | pure functions on bytes | not modelled: the models take the verdict "decodes", "tag is genuine" |
| Command | `cmd/relay/main.go` | none | flags, token file, signals | the cancelled context is an action of `ServerLifecycle`, a new start one of `HttpApi` |
| Generated code, C# client check | `gen/`, `unity/`, `test/compat` | | | not modelled |

How they interact. The management API calls the store; the player API calls the
lobby manager, which calls the store (`CreateRoom`, `EndRoom`) while it holds its
own mutex and never the other way round, so the two locks are always taken in one
order. The UDP loop calls the store for each datagram, up to three times, without
holding a lock in between. A one-second ticker in `Server` calls `Expire` of the
store and then of the lobby manager. A failing random source is reported upwards:
HTTP handlers through `notifyFatal`, the UDP loop by returning from `Run`; both end
the server.

What makes it hard:

* **Expiry is lazy and eager at once.** Every deadline is enforced at the call that
  meets it, and again by the sweep. The same record can be cleared on several paths
  (rebind, lazy expiry, sweep, room end), each of which has to leave the same
  indexes and counters behind.
* **Values outlive the lock.** The UDP loop carries an admitted packet from one call
  of the store to the next, callers carry revisions, the lobby manager carries room IDs.
* **Races at the end.** Cancellation, `Close`, a fatal handler and a failing loop may
  come together in any order, and several goroutines share one shutdown.
* **Slow and absent clients.** A handler holds a place while it waits for a body, and
  acts on what it checked before the body came.
* **Timers of different parts.** A tombstone (60 s) ends before the match (120 s) that
  remembers its ID; a write deadline (2 ms) has to end before the tombstone; a token
  (15 minutes) outlives the process that issued it.
* **Numbers at the edge.** A shift beyond the mask, exact deadlines, limits and
  running counters.

What makes each part correct:

* replay window: no sequence is ever accepted twice, and the window forgets only
  what is too old;
* store: the indexes list exactly the live credentials, counters are exact, a
  deadline holds to the instant, a tombstone is neither refreshed nor cut short, a
  rebind is atomic, a fan-out goes to exactly the bound members of the room;
* limiters: a group is charged as a whole or not at all; a source forgotten while
  idle gets no more than if it had been remembered;
* lobbies: a player is in one place, ready means ready for these very players, a
  match keeps its group and its room to the end, the queue is first come first
  served, an accepted revision means an unchanged lobby;
* lobby manager and store: who holds an assignment has a room, rooms of forgotten
  matches do not stay, the operator's rooms are left alone;
* UDP loop: each datagram and each write is accounted for once, closing is no failure,
  a room that ended is silent within a write timeout;
* HTTP APIs and tokens: no place leaks, every request ends, nobody acts by a token of
  another process, a late PUT brings nothing back, a fatal error is answered first;
* server: nothing stays open, no failure is lost, no requested stop is reported as a
  failure, everybody returns.

The hazards behind these, each at its line, are listed in `PROJECT.json`.

## Modules

### ReplayOps, ReplayWindow, OnceFilter

`ReplayOps` has `accept` as two operators, `Fresh` (its answer) and `Accept` (the
window it leaves). The 64-bit mask is the set of its bits that are one, and
`ShiftLeft` drops the bits that leave a word of `Width` bits, so the width is a
parameter. `ReplayWindow` feeds one window any sequence of numbers and keeps the set
of those accepted; `OnceFilter` is the specification, a filter that remembers
everything; `ReplayWindow` implements it by the refinement `ImplementsFilter`.

### RelayStore

One action per exported method, because each takes the store's mutex, reads the
clock once and runs to its end. The grant's private helpers (`clearPending`,
`clearRecent`, `clearBinding`, `expireRelay`, `clearRelay`, `terminalGrant`) are
functions of a work item, a grant record together with what has to leave the
indexes; `Settle` applies the work of several grants to the indexes and counters.
A grant is named by its ID; the index `grantsByID` is the set of IDs it holds. The
packet the UDP loop carries between two calls is the variable `loop`, so that any
other call can come between `AdmitClientIngress` and `AdmitFanout`.

Abstracted: bytes, IDs and tags (an ID is a model value, a tag is genuine or not),
the limiters (they may refuse at any time; `Admission` models them), the idempotent
answer of `CreateRoom` to a repeated definition (it changes nothing). `Snapshot` and
`GetRoom` are the reader's view, used by `SweepIsInvisible`.

### TimedSweep

`RelayStore` with its ticker: a pass may come early, as the pass after a delayed one
does, but time does not go on past a tick that is due. This is what turns "expired
records are freed some time" into the bounds of ADR 0002 (`ReclaimedInTime`). A pass of
`Expire` takes no time; a sweep that holds the lock for long is outside the model, and
so is a machine that does not run the goroutine.

### RelayWire

`RelayStore` with `writeFanout` spelled out. The plan of `AdmitFanout` becomes a batch
with one write deadline, and each write goes out only before it; between two writes the
management API may end the room, forget its tombstone and create another one under the
same ID. While there is a batch the UDP loop itself calls nothing. `Prompt` is the one
assumption on timing: the clock does not move between the plan and `SetWriteDeadline`,
where the code takes the mutex of the counters and calls nothing that waits. Without
it the loop could be stopped there for any time and the batch would go out that much
after the end of the room; the code has no check against that.

### Admission and SourceLimiter

The limiters, one record of tokens per limiter, refilled by `Tick`. `Ask` is
`allowAtomic` on a group of limiters outside the table; the three actions
`RefuseNewcomer`, `AdmitNewcomer`, `AdmitKnown` are the three ways through
`admitPreauthLocked`. `SourceLimiter` is what a source is promised: one limiter of
its own that is never dropped. It says what a source may be given, not what it must:
a refusal is always allowed, since a full table refuses even a source that was forgotten
and comes back. So the refinement shows that nobody is over-served, and no more. That
`Admission` implements it rests on
`IdleAssumption`: a source forgotten after the idle time was full again. The default
limits satisfy it (60 s x 16 packets/s is 960, the burst is 160; the same ratio
holds for bytes); a configuration that lowers the rate below a sixth of the default
without lowering the burst would not.

### LobbyManager

One action per method on the swept state: every method of the manager begins with
`expireLocked`, so each action computes from `Swept`. A call that is refused, and the
read-only calls, do no more than that and are the action `Expire`. A match and the
room allocated for it share a name. The store appears as the rooms allocated for
matches; `RoomEnds` is a room ended by its deadline or by an operator. What is left of a
line, in order (`compactQueueLocked`, the sweep), is `Kept`: a player of rank k
among those kept comes k-th. The history variable `consent` holds the group a player last declared ready in.

### LobbyRelay

`LobbyManager` composed with the registry of rooms it shares with the operator. Each
call of the manager is the conjunction of its action in `LobbyManager` with what it
makes the store do: `EndOver` ends, by ID, the rooms of the matches that are over, and
`WithRooms` creates those of the new ones. Where `LobbyManager` lets an allocation fail
at any time, here it is `CreateRoom` that refuses, as a full registry does (`RunsOut`);
a random source that fails ends the process and is left out. `HeadIsServed` is about
what comes of such a refusal: nothing retries it, and the group stands in its queue,
losing members to cancels and expiry, until a later call of `Enqueue`. A record of the registry keeps who created it and its deadline only: the
grants of a match last as long as its room, so there is no grace, and the limit on
sessions is not reached. Random IDs are new: the operator takes an ID of a match only
after the manager did. `SharedTick` holds the clock while the manager has something a
whole sweep interval overdue. `deleted` is history: the match rooms the operator ended.

### PlayerTokens, HttpApi

`PlayerTokens` is `Issue` and `Verify`. A token is the player, the expiry and the key
that made its MAC, and a key is the number of the process that drew its nonce.

`HttpApi` is both APIs from the arrival of a request to the end of its handler. The
handlers are alike: checks, limiter, semaphore, body, one call, answer; a handler is at
one of the stages between. The requests are told apart by what matters to the
properties: putting, reading and deleting a room, asking for a player token, and the
requests of the player API that change something or do not. A body may be accepted,
refused, cut off by `ReadTimeout` (which counts from the arrival of the request) or
lost with its connection. Fatal errors are signalled to the server, which closes the
connections under the handlers (`Shutdown`), and the process may stop at any point and
be started again (`Restart`). What was answered ahead of the limiter leaves nothing
behind and is not an action. `overtaken` is history: the room of this PUT has ended
since it arrived. `ReadTimeout <= TombstoneTTL` is an assumption: 5 s and 60 s in the
code, and with it reversed `NoResurrection` does not hold. `Prompt` is the assumption
that a handler waits for nothing but its body.

### ServerLifecycle

The calls of `Run` and `Close` and the four loops are processes; a step ends
wherever another one can come between (mutex, channel, `sync.Once`, socket). An HTTP
server and its listener are one thing. `failure` and `alarm` are history: whether a loop
failed, and whether a failure could still be noticed by `Run`.

### UdpRelay

The loop of `udp.go` with the answer of the store as a choice, the counters in the
sections of the mutex the code uses, and `Close` at any point. The drop counters by
reason are one: `recordDrop` adds one to the total and to one of them.
A read that returns an error is no failure once `Close` has begun (`Failed` looks at the
flag); a count no read can have is an error whether or not `Close` has begun
(`ReadMiscounts`).

### Proof modules

| Module | about |
|---|---|
| `ReplayWindow_proof` | `ReplayWindow`: exactness, the refinement of `OnceFilter` |
| `RelayStore_proof` | `RelayStore`: its invariants |
| `RelayStoreSteps_proof` | `RelayStore`, `TimedSweep`, `RelayWire`: what no step may do, what is over in time |
| `Admission_proof` | `Admission`: the refinement of `SourceLimiter`, the books |
| `UdpRelay_proof` | `UdpRelay`: counters, closing |
| `ServerLifecycle_proof` | `ServerLifecycle`: its invariants |
| `HttpApi_proof` | `HttpApi` with `PlayerTokens`: invariants and action properties |
| `LobbyManager_proof` | `LobbyManager`, `LobbyRelay`: invariants and action properties, alone and with the registry |

## Runs

| Run | Instance | What it shows |
|---|---|---|
| `replay_window` | a window 3 wide, sequences to 8 | `WindowExact`, `ImplementsFilter` |
| `relay_lifecycle` | `TimedSweep`: 2 rooms, 3 grants, limits of 1 open room and 2 sessions, a sweep every 2, time to 5 | `CountersExact`, `ReclaimedInTime`, `TombstoneHolds`, `GrantsEndOnce`, `SweepIsInvisible` |
| `relay_rebind` | `RelayStore`: 1 grant, 2 candidates, bindings, endpoints, nonces, window 2, time to 3 | `IndexIntegrity`, `DeadlineNesting`, `HandshakeCoherence`, `AuthorityEndsAtDeadline`, `RebindIsAtomic`, `SequenceSpentOnce` |
| `relay_wire` | `RelayWire`: 2 grants in a room, 2 of each credential, time to 3 | `FanoutAudience`, `SilentAfterTheEnd` |
| `lobby_groups` | `LobbyManager`: 3 players, a lobby of 2 or 3, a queue beside it, time to 2 | `LobbyShape`, `ReadyMeansThisGroup`, `MatchIntegrity`, `SeatIntegrity`, `RevisionWitness`, `ExactDeadline` |
| `lobby_relay` | `LobbyRelay`: 3 players, a lobby, a queue of pairs, 2 matches, 1 ID of the operator's own, 1 open room, 2 records, time to 3 | `QueueIntegrity`, `AssignmentHasRoom`, `FifoMatching`, `ManagerSparesOperator`, `HeadIsServed` |
| `failed_enqueue` | `LobbyManager`: 2 players | the first finding below |
| `operator_room` | `LobbyRelay`: 2 players, 1 match, a tombstone of 1 and a match of 3 | the second finding below |
| `server_lifecycle` | 2 calls of `Run`, 1 of `Close`, 1 handler | `NothingLeftBehind`, `FailureReported`, `NoFalseAlarm`, `EverybodyReturns` |
| `admission` | 3 sources, a table of 2; 3 grants in 2 rooms, tight room and process limits; time to 4 | `BooksBalance`, `ImplementsPerSource` |
| `udp_loop` | 2 calls of `Run`, 2 of `Close`, 3 datagrams, 2 recipients | `Accounted`, `ClosingIsClean`, `CloseEndsRun` |
| `http_api` | 2 requests at a time, 1 room, 1 player, 2 starts, time to 3 | `PlacesHeld`, `FatalIsAnswered`, `EveryRequestEnds`, `ActsWithinAuthority`, `NoResurrection` |

The type invariants are the first conjunct of `LobbyShape`, `NothingLeftBehind`,
`BooksBalance`, `Accounted` and `PlacesHeld`; that of `RelayStore` is proved, and so is
`GrantHome`, which no run lists.

**Bounds.** `MaxTime` caps the clock; it is larger than the longest chain of
lifetimes in the instance that a property can tell apart (a challenge of 1, a binding
of 1 or 2, a room of up to 3; a room, its grace, its tombstone, and the sweep after it;
a token of 1 and a read of 2). Lifetimes keep the order they have in the code: a
tombstone is shorter than a match, a write timeout at most a tombstone, a read timeout
at most a tombstone. `MaxGeneration` caps the bindings of one grant: two suffice for a
rebind, the third reuses the IDs of the first. `MaxSequence` and `MaxRevision` are the
code's own limits (the largest uint64), reached in the instances, so the refusals at
the limit occur. Capacity limits are reached: one open room for two room IDs, or for two
matches and the operator; two table entries for three sources; one lobby for three
players; one place of the player API for two requests. Three sequences beyond the
width of the window are enough for every case of `accept`: older than the window, on
its edge, inside, next, and a jump past its width. `MaxDatagrams`, `MaxRecipients`,
`MaxHandlers`, `MaxTokens` and `MaxStarts` cap what arrives or is repeated. A request of
`HttpApi` arrives only when its read deadline is within the clock, so that a body that
never comes is cut. `OneSide`, a constraint of `admission`, keeps to behaviours that use
the limiters before authentication or those behind it: they share only the clock, and
their product shows nothing their sum does not. Symmetry is used only where there is no
liveness and where the model treats the members of the set alike; participants of a
room are not symmetric, because the definitions name them.

`CHECK_DEADLOCK FALSE` is set where the clock is bounded or where the system is
meant to stop (the server and the UDP loop).

**Fairness.** `ServerLifecycle` and `UdpRelay` assume weak fairness of a goroutine
that can go on: the Go scheduler runs it, and a mutex or a `sync.Once` that is free
is passed on. A read of a closed socket returns and a write ends by its deadline
(`SetWriteDeadline`). No fairness is assumed of anything from outside: no datagram
or request need arrive, nobody need cancel, a handler need not return.
`HttpApi` assumes weak fairness of the steps a handler takes by itself and of the clock,
and none of the client: its body need never come, and the read deadline has to end it.

**Two findings.** `failed_enqueue` checks design, line 131, "Every mutation is
all-or-nothing under the Lobby Manager lock." `Enqueue` puts the ticket in the
queue before it matches; when the allocation of the relay room fails it returns an
error and no ticket, while the ticket stays queued (`match.go:94`). The caller who
retries gets a conflict. Line 101 of the same document and the test
`TestRelayCapacityFailurePreservesFIFOSelection` want the group to keep its place,
which it does: it is the general sentence that does not hold.

`operator_room` checks `.planning/research/ARCHITECTURE.md`, line 147, which lists what
ends an open room: "Explicit DELETE, room TTL, or no live sessions after the configured
empty grace". The operator may delete the room of a match, wait for the tombstone (60 s)
and create a room of that ID; the manager remembers the match for 120 s and then ends
the room of that ID, whoever made it (`match.go:208`, `lobby.go:533`).
`ManagerSparesOperator` shows that this is the only way: a room of the operator whose ID
he did not take over from a live match is never touched. The IDs of match rooms are
random, so it takes an operator who uses such an ID on purpose.

## Proofs

Every safety property and every action property of the passing runs is proved, for all
values of the constants. The proofs follow one argument: an inductive invariant holds
initially, every action keeps it, and temporal logic does the rest; an action property
needs the invariant in the state before the step. Each inductive invariant was model-checked
on the instance of its run before it was proved.

What is assumed is what the modules assume of their constants, by name, and TLC
evaluates each assumption in the runs: `None` is no other value and no record
(`NoneAssumption`, `RecordAssumption`, `BatchAssumption`, `ExchangeAssumption`,
`SetAssumption`), sets that are counted are finite, lifetimes are positive, limits are
numbers, and five that relate settings of the code:
`IdleAssumption` (the idle time of a source refills its burst), `TimeoutAssumption` (a write
timeout is at most a tombstone), `StoreAssumption` (so is the sweep interval),
`HttpAssumption` (so is a read timeout), `CapacityAssumption` (a group has two players or
more). `HistoryAssumption` says only that the history variable of `Admission` keeps sources
and limiters apart.

* `ReplayWindow_proof`: `ReplayWindowExact`, the mask holds exactly the accepted
  sequences of its width, and `ReplayWindowImplementsFilter`, every step of the window
  is a step of the filter that forgets nothing. For every width and every set of sequences.
* `RelayStore_proof`: `RelayStoreInvariant`, that `TypeOK`, `IndexIntegrity`,
  `GrantHome`, `DeadlineNesting`, `HandshakeCoherence` and `CountersExact` always hold, for
  every set of rooms, grants and IDs and every limit. None is inductive alone: a
  clear path takes an ID out of an index because the grant carries it
  (`IndexIntegrity`), the grant carries it because its states say so
  (`HandshakeCoherence`), the sweep ends a grant with its room because it is listed there
  (`GrantHome`) and never outlives it (`DeadlineNesting`). The proof is about work items:
  `ClearPending`, `ClearRecent`, `ClearBinding` each keep what a work item promises, a
  settlement of promising work keeps the invariant, and each action is shown to be such a
  settlement, or an allocation, or a binding.
* `RelayStoreSteps_proof`: what no step of the store may do. The steps are divided once by
  what they do to the grants (`StepCases`: every grant is trimmed, or one grant acts on
  the authority it has, or a room is allocated) and once by what they do to the rooms
  (`RoomCases`), and each action property is read off that division:
  `AuthorityEndsAtDeadline`, `TombstoneHolds`, `GrantsEndOnce`, `RebindIsAtomic`,
  `SequenceSpentOnce`, `FanoutAudience`, `SweepIsInvisible`. Then the store on a clock:
  `ReclaimedInTime` needs `TimedInv`, that what will be due of a room was not due at the last
  pass and that the next comes within the interval; `SilentAfterTheEnd` needs `WireInv`, that
  a plan not yet begun was made at this instant (`FreshPlan`) and that the room of a batch
  in hand stands, or ended within the time the batch has left (`Covered`).
  `SweptStoreIsStore` and `WiredStoreIsStore` show that both compositions only take steps of
  the store, so all that is proved of `RelayStore` holds of them.
* `Admission_proof`: `AdmissionImplementsPerSource`, every step of the limiters and of
  the bounded table is, for each source, a step of a limiter of its own that is never
  dropped, or leaves the levels of all of them as they are (a refusal may). For every set of sources, every
  limit and every table size. The invariant it needs is `Replenished`: a recorded level
  is the whole burst, or at least what time alone has refilled since the source was last
  observed. With `IdleAssumption` a source that may be forgotten is full, which is what
  it starts with when it comes back. `EveryTokenIsAccounted` is `BooksBalance`. The sum over
  the owners is a fold, and nothing can be proved of it by induction here; the proof shows
  instead that the sum is the number of tokens in a set (`SumFnIsCount`, by a smallest
  counterexample), so a payment adds its cost to the sum of the payer's set (`OnePays`) and
  changes no other (`OthersStay`).
* `UdpRelay_proof`: `Accounted` and `ClosingIsClean`. What makes the counters add up is
  `OneLoop`: whoever is in the loop cleared the guard of `Run`, and nobody else does, so
  there is one datagram in hand and one write, not two. `FlagFirst` (the flag is set before
  the socket is closed) makes an error of the closed socket no error of the loop.
* `ServerLifecycle_proof`: `NothingLeftBehind`, `FailureReported`, `NoFalseAlarm`, for any calls
  of `Run` and `Close`. The invariant says in seven parts who can be where (`Calls`), that one
  caller at a time is inside `shutdown` and closes to the end (`Doors`), how far the loops are
  when `Run` has come to a given line (`Progress`), that the results in the channel are as
  many as the loops that have told theirs (`Count`), and from where a stop or a failure came
  (`Causes`, `Heard`).
* `HttpApi_proof`: `PlacesHeld`, `FatalIsAnswered`, `ActsWithinAuthority`, `NoResurrection`, for any
  number of connections, rooms, tokens and places. The invariant ties how long a request has
  been under way (`Timely`) to what was looked at when it came: its token (`Authorized`) and
  the tombstone of the room it is about (`Buried`), which outlasts the read timeout.
* `LobbyManager_proof`: the manager, for any players, lobbies, queues and matches. `IInv` has
  five parts: the lobbies, the tickets, the seats (where a player is and where he is listed
  agree), the queues (those who wait, in the order of their sequence numbers) and the matches
  (all who hold one hold it until one time). Each method sweeps first, so the sweep is
  treated once (`SweptSound`), and a method is then a small change of a state in which nothing
  is due. The long part is `matchQueueLocked`: groups of a line are disjoint, of the right
  size, and what is left of the line is still the waiting players in order. From `IInv`
  follow `SeatIntegrity`, `LobbyShape`, `ReadyMeansThisGroup`, `MatchIntegrity`, `QueueIntegrity`
  and the action properties `RevisionWitness`, `ExactDeadline`, `FifoMatching`.
  For the composition with the registry `SharedManagerIsManager` shows that the manager run
  against the real store is the manager, so all of this holds there, and `SharedInv` adds
  what the registry has of each match: its room is open until the match is over, or it is
  a tombstone that lasts until the sweeper has forgotten the match
  (`MatchTombstoneHolds`, where the sweep interval is at most a tombstone), unless the
  operator deleted it. From it follow `AssignmentHasRoom` and `ManagerSparesOperator`,
  each with its exception: the room of a match that the operator deleted. `HeadIsServed`
  needs `IInv` only: the sequence number of a new ticket is the caller's own
  (`JoinsByEnqueue`), so the line of the call is the swept queue and the caller behind it
  (`LineHere`); if there was room a match was drawn, and the first one drawn is held by the
  head of the line (`HeadDrawn`).

Model-checked only: liveness (`EverybodyReturns`, `CloseEndsRun`, `EveryRequestEnds`), which is
beyond the prover, and the two violations, which are counterexamples and need no proof.
What the theorems do not reach is the step from the Go code to the actions; the table
`map` in `PROJECT.json` names the lines of each.

## Plan

Done, in this order: replay window, store and relay authority, lobby manager, server,
limiters, UDP loop; then the compositions: the sweeper on a clock, the fan-out on the wire,
the lobby manager over the shared registry, and the two HTTP APIs with tokens and restarts;
then the safety and action properties of all of them, proved.

Next:

1. an abstract life of a grant (issued, bound, ended; one binding at a time) that
   `RelayStore` is shown to implement;
2. what the queue promises over many calls (whoever waits is matched before whoever came
   later), as a refinement of an abstract queue by `LobbyManager`.

## Not modelled

* Bytes: the codec, JSON, base64, the MACs, with their limits on sizes. They are pure
  functions, and the models take their verdicts: decodes or not, genuine or not, accepted
  or refused.
* Routing, status codes, the text of errors and logs, the contents of snapshots apart
  from what `SweepIsInvisible` compares.
* The write and idle timeouts of the HTTP servers and the reading of headers, which are
  net/http's own; a handler here never waits to write.
* Flags and the token file of the command: parsing, and the state of the file system.
* Generated code, the C# client, build and scripts.
* A retired grant ID or an ID of a match that is drawn again by chance.

Nothing is persisted, so there is no recovery to model: a restart is the initial state,
and what survives it is in the hands of the clients (`HttpApi`).
