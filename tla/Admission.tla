----------------------------- MODULE Admission -----------------------------
(***************************************************************************)
(* Admission by token buckets in src/internal/store/relay.go: the three    *)
(* groups of limiters (pre-authentication, authenticated ingress, fan-out) *)
(* and the bounded table of pre-authentication sources.  All of it runs    *)
(* under the store's lock at one reading of the clock.                     *)
(*                                                                         *)
(* Abstractions.  A source is its key: the IPv4 address or the IPv6 /64    *)
(* (sourceKey).  A limiter is its level, TokensAt(now), in whole tokens:   *)
(* time passing refills it.  The rooms and the grants are those of one     *)
(* lifetime; their limiters are made, full, when the room is allocated.    *)
(* Which group a packet is charged to is decided elsewhere: RelayStore     *)
(* says when, this module says how.                                        *)
(***************************************************************************)
EXTENDS Integers, FiniteSetsExt

CONSTANTS
    Source, Grant, Room, None,
    RoomOf,          \* the room of each grant
    Rate, Burst,     \* of each class of limiters, per dimension, a tick
    MaxSources,      \* HardMaxPreauthSources
    IdleTTL,         \* preauthSourceIdleTTL
    Size,            \* sizes of datagrams
    MaxTime          \* bound: last reading of the clock

Dim == {"packets", "bytes"}
Class == {"source", "preauth", "session", "room", "process", "roomFanout", "fanout"}

ASSUME LimitAssumption ==
    /\ Rate \in [Class -> [Dim -> Nat]] /\ Burst \in [Class -> [Dim -> Nat \ {0}]]
    /\ MaxSources \in Nat /\ IdleTTL \in Nat \ {0} /\ MaxTime \in Nat
    /\ Size \subseteq Nat

ASSUME SetAssumption ==
    /\ IsFiniteSet(Source) /\ IsFiniteSet(Grant) /\ IsFiniteSet(Room)
    /\ RoomOf \in [Grant -> Room]
    /\ None \notin [lastObserved : Nat, level : [Dim -> Nat]]

\* What the default limits satisfy (16 packets and 19,200 bytes a second, bursts
\* ten times that, 60 s): who was idle long enough to be forgotten was full again.
ASSUME IdleAssumption ==
    \A d \in Dim : IdleTTL * Rate["source"][d] >= Burst["source"][d]

VARIABLES
    now,
    table,       \* preauthSources: the sources on record
    levels,      \* every other limiter
    spent,       \* history: what was ever taken, by source and by limiter
    overflow     \* history: what was taken while the table had no room

vars == <<now, table, levels, spent, overflow>>

\* The limiters outside the table: a class and whose it is.
Bucket == {"preauth", "process", "fanout"} \X {None}
          \cup {"session"} \X Grant \cup {"room", "roomFanout"} \X Room

\* The history of what was taken has one entry for each source and limiter.
ASSUME HistoryAssumption == Source \cap Bucket = {}

Full(class) == Burst[class]
Nothing == [d \in Dim |-> 0]
Plus(x, y) == [d \in Dim |-> x[d] + y[d]]
Minus(x, y) == [d \in Dim |-> x[d] - y[d]]

Init ==
    /\ now = 0
    /\ table = [s \in Source |-> None]
    /\ levels = [b \in Bucket |-> Full(b[1])]
    /\ spent = [x \in Source \cup Bucket |-> Nothing]
    /\ overflow = Nothing
-----------------------------------------------------------------------------
\* The cost of one datagram, or of writing a datagram to n recipients.
Cost(n, size) == [d \in Dim |-> IF d = "packets" THEN n ELSE n * size]

Covers(level, cost) == \A d \in Dim : cost[d] <= level[d]

\* The check of allowAtomic, on limiters outside the table.
Allowed(group, cost) == \A b \in group : Covers(levels[b], cost)

Charge(group, cost) ==
    levels' = [b \in Bucket |-> IF b \in group THEN Minus(levels[b], cost) ELSE levels[b]]

Account(who, cost) ==
    spent' = [x \in DOMAIN spent |-> IF x \in who THEN Plus(spent[x], cost) ELSE spent[x]]

\* Mutant: each limiter of the group decides for itself.
AskEach(group, cost) ==
    LET able == {b \in group : Covers(levels[b], cost)}
    IN  Charge(able, cost) /\ Account(able, cost)

\* allowAtomic: the whole group is charged, or nothing.
Ask(group, cost) ==
    IF Allowed(group, cost) THEN Charge(group, cost) /\ Account(group, cost)
    ELSE UNCHANGED <<levels, spent>>
-----------------------------------------------------------------------------
Preauthentication == {<<"preauth", None>>}

\* Mutant: a source is forgotten one instant early.
ForgottenEarly(s) == table[s] # None => now + 1 >= table[s].lastObserved + IdleTTL

\* No record, or one that is due and is dropped before it is looked at.
Forgotten(s) == table[s] # None => now >= table[s].lastObserved + IdleTTL

\* The table has no room for one more source, records that are due included.
TableFull(s) == Cardinality({r \in Source \ {s} : table[r] # None}) >= MaxSources

\* admitPreauthLocked for a source without a record, when there is no room for
\* one: the process limiters are charged if they can be, and it is refused.
RefuseNewcomer(s, cost) ==
    /\ Forgotten(s) /\ TableFull(s)
    /\ table' = [table EXCEPT ![s] = None]
    /\ Ask(Preauthentication, cost)
    /\ overflow' = IF Allowed(Preauthentication, cost) THEN Plus(overflow, cost) ELSE overflow

\* admitPreauthLocked for a source without a record; it gets one only when it
\* is admitted.
AdmitNewcomer(s, cost) ==
    /\ Forgotten(s) /\ ~TableFull(s)
    /\ IF Covers(Full("source"), cost) /\ Allowed(Preauthentication, cost)
       THEN /\ table' = [table EXCEPT ![s] = [lastObserved |-> now,
                                              level |-> Minus(Full("source"), cost)]]
            /\ Charge(Preauthentication, cost)
            /\ Account({s} \cup Preauthentication, cost)
       ELSE table' = [table EXCEPT ![s] = None] /\ UNCHANGED <<levels, spent>>
    /\ UNCHANGED overflow

\* admitPreauthLocked for a source on record: being refused counts as observed.
AdmitKnown(s, cost) ==
    /\ ~Forgotten(s)
    /\ IF Covers(table[s].level, cost) /\ Allowed(Preauthentication, cost)
       THEN /\ table' = [table EXCEPT ![s] = [lastObserved |-> now,
                                              level |-> Minus(table[s].level, cost)]]
            /\ Charge(Preauthentication, cost)
            /\ Account({s} \cup Preauthentication, cost)
       ELSE table' = [table EXCEPT ![s].lastObserved = now] /\ UNCHANGED <<levels, spent>>
    /\ UNCHANGED overflow

AdmitPreauth(s, size) ==
    /\ \/ RefuseNewcomer(s, Cost(1, size))
       \/ AdmitNewcomer(s, Cost(1, size))
       \/ AdmitKnown(s, Cost(1, size))
    /\ UNCHANGED now

\* The end of admitAuthenticatedLocked: session, room and process.
AdmitIngress(g, size) ==
    /\ Ask({<<"session", g>>, <<"room", RoomOf[g]>>, <<"process", None>>}, Cost(1, size))
    /\ UNCHANGED <<now, table, overflow>>

\* The end of AdmitFanout, for n recipients in room r.
AdmitFanout(r, n, size) ==
    /\ Ask({<<"roomFanout", r>>, <<"fanout", None>>}, Cost(n, size))
    /\ UNCHANGED <<now, table, overflow>>

\* The last loop of Expire.
Expire ==
    /\ table' = [s \in Source |-> IF Forgotten(s) THEN None ELSE table[s]]
    /\ UNCHANGED <<now, levels, spent, overflow>>

Least(m, n) == IF m <= n THEN m ELSE n

Refilled(class, level) == [d \in Dim |-> Least(Burst[class][d], level[d] + Rate[class][d])]

Tick ==
    /\ now < MaxTime
    /\ now' = now + 1
    /\ levels' = [b \in Bucket |-> Refilled(b[1], levels[b])]
    /\ table' = [s \in Source |->
           IF table[s] = None THEN None
           ELSE [table[s] EXCEPT !.level = Refilled("source", table[s].level)]]
    /\ UNCHANGED <<spent, overflow>>

Next ==
    \/ \E s \in Source, size \in Size : AdmitPreauth(s, size)
    \/ \E g \in Grant, size \in Size : AdmitIngress(g, size)
    \/ \E r \in Room, size \in Size :
          \E n \in 1 .. Cardinality({g \in Grant : RoomOf[g] = r}) - 1 : AdmitFanout(r, n, size)
    \/ Expire
    \/ Tick

Spec == Init /\ [][Next]_vars
-----------------------------------------------------------------------------
TypeOK ==
    /\ now \in Nat
    /\ table \in [Source -> [lastObserved : Nat, level : [Dim -> Nat]] \cup {None}]
    /\ Cardinality({s \in Source : table[s] # None}) <= MaxSources
    /\ levels \in [Bucket -> [Dim -> Nat]]
    /\ \A b \in Bucket, d \in Dim : levels[b][d] <= Burst[b[1]][d]
    /\ spent \in [Source \cup Bucket -> [Dim -> Nat]]
    /\ overflow \in [Dim -> Nat]

Sum(owners, d) == MapThenSumSet(LAMBDA x : spent[x][d], owners)

\* The books balance: each group takes from all of its limiters or from none
\* (ADR 0003: sequential partial consumption is forbidden), so what the process
\* limiters have given out is what the limiters below them have, to the byte,
\* after any sequence of admissions and refusals; a full table is the one
\* exception, where the process alone pays.  No level is ever above its burst
\* and no table over its limit (TypeOK).
BooksBalance ==
    TypeOK /\ \A d \in Dim :
        /\ spent[<<"preauth", None>>][d] = Sum(Source, d) + overflow[d]
        /\ spent[<<"process", None>>][d] = Sum({"session"} \X Grant, d)
        /\ \A r \in Room : spent[<<"room", r>>][d] =
                           Sum({"session"} \X {g \in Grant : RoomOf[g] = r}, d)
        /\ spent[<<"fanout", None>>][d] = Sum({"roomFanout"} \X Room, d)

\* No source is given more than a limiter of its own that is never forgotten
\* would give: dropping its record and starting another gains it nothing.  What
\* is refused is left open.
Remembered(s) == IF table[s] = None THEN Full("source") ELSE table[s].level

PerSource == INSTANCE SourceLimiter WITH
    Rate <- Rate["source"], Burst <- Burst["source"],
    Costs <- {Cost(1, size) : size \in Size},
    level <- [s \in Source |-> Remembered(s)]

ImplementsPerSource == PerSource!Spec
=============================================================================
