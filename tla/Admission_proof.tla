-------------------------- MODULE Admission_proof --------------------------
(***************************************************************************)
(* Forgetting is invisible: for any sources, limits and table, what a      *)
(* source may send is what a limiter of its own, which is never dropped,   *)
(* would let it send.  And the books balance: what each process limiter    *)
(* has given out is, token by token, what the limiters below it have.      *)
(***************************************************************************)
EXTENDS Admission, FiniteSetTheorems, WellFoundedInduction, TLAPS

Level == [Dim -> Nat]
Record == [lastObserved : Nat, level : Level]

\* A recorded level is never above the burst, and it is the whole burst or at
\* least what time alone has refilled since the source was last observed.
Replenished(s) ==
    table[s] # None =>
        /\ table[s].lastObserved <= now
        /\ \A d \in Dim :
              /\ table[s].level[d] <= Burst["source"][d]
              /\ \/ table[s].level[d] = Burst["source"][d]
                 \/ table[s].level[d] >= Rate["source"][d] * (now - table[s].lastObserved)

IInv ==
    /\ now \in Nat
    /\ table \in [Source -> Record \cup {None}]
    /\ \A s \in Source : Replenished(s)

-----------------------------------------------------------------------------
(***************************************************************************)
(* Arithmetic and the constants.                                           *)
(***************************************************************************)
LEMMA OneMoreTick ==
    ASSUME NEW r \in Nat, NEW k \in Nat
    PROVE  r * (k + 1) = r * k + r /\ r * k \in Nat
OBVIOUS

LEMMA LongerIsMore ==
    ASSUME NEW r \in Nat, NEW t \in Nat, NEW k \in Nat, t <= k
    PROVE  r * t <= r * k
<1>1. PICK j \in Nat : k = t + j
  <2>1. k - t \in Nat /\ k = t + (k - t)
    OBVIOUS
  <2> QED
    BY <2>1
<1>2. r * (t + j) = r * t + r * j /\ r * t \in Nat /\ r * j \in Nat
  OBVIOUS
<1> QED
  BY <1>1, <1>2

LEMMA SourceLimits ==
    /\ Full("source") \in Level /\ Rate["source"] \in Level
    /\ Full("source") = Burst["source"]
    /\ \A d \in Dim : Burst["source"][d] \in Nat \ {0} /\ Rate["source"][d] \in Nat
BY LimitAssumption DEF Full, Level, Class

LEMMA NoneIsNoRecord == None \notin Record
BY SetAssumption DEF Record, Level

LEMMA CostIsLevel ==
    ASSUME NEW size \in Size
    PROVE  Cost(1, size) \in Level
BY LimitAssumption DEF Cost, Level

\* A source that is forgotten has the whole burst, recorded or not.
LEMMA ForgottenIsFull ==
    ASSUME IInv, NEW s \in Source, Forgotten(s)
    PROVE  Remembered(s) = Full("source")
<1>1. CASE table[s] = None
  BY <1>1 DEF Remembered
<1>2. CASE table[s] # None
  <2>1. /\ table[s] \in Record /\ Replenished(s)
        /\ now >= table[s].lastObserved + IdleTTL
    BY <1>2 DEF IInv, Forgotten
  <2>2. ASSUME NEW d \in Dim
        PROVE  table[s].level[d] = Burst["source"][d]
    <3> DEFINE k == now - table[s].lastObserved
    <3>1. /\ k \in Nat /\ IdleTTL \in Nat /\ IdleTTL <= k
          /\ Rate["source"][d] \in Nat /\ Burst["source"][d] \in Nat
          /\ table[s].level[d] \in Nat
      BY <1>2, <2>1, SourceLimits, LimitAssumption DEF IInv, Replenished, Record, Level
    <3>2. IdleTTL * Rate["source"][d] >= Burst["source"][d]
      BY IdleAssumption
    <3>3. Rate["source"][d] * IdleTTL <= Rate["source"][d] * k
      BY <3>1, LongerIsMore
    <3>4. Rate["source"][d] * IdleTTL = IdleTTL * Rate["source"][d]
      BY <3>1
    <3>5. /\ table[s].level[d] <= Burst["source"][d]
          /\ \/ table[s].level[d] = Burst["source"][d]
             \/ table[s].level[d] >= Rate["source"][d] * k
      BY <1>2, <2>1 DEF Replenished
    <3>6. Rate["source"][d] * k \in Nat /\ Rate["source"][d] * IdleTTL \in Nat
      BY <3>1
    <3> HIDE DEF k
    <3> QED
      BY <3>1, <3>2, <3>3, <3>4, <3>5, <3>6
  <2>3. table[s].level \in Level /\ Burst["source"] \in Level
    BY <2>1, SourceLimits DEF Record
  <2>4. table[s].level = Burst["source"]
    BY <2>2, <2>3 DEF Level
  <2> QED
    BY <1>2, <2>4, SourceLimits DEF Remembered
<1> QED
  BY <1>1, <1>2
-----------------------------------------------------------------------------
(***************************************************************************)
(* Every step keeps the invariant.                                         *)
(***************************************************************************)
\* A record made or renewed now needs no more than a level within the burst.
LEMMA RenewedNow ==
    ASSUME IInv, NEW s \in Source, NEW level \in Level, now' = now,
           \A d \in Dim : level[d] <= Burst["source"][d],
           table' = [table EXCEPT ![s] = [lastObserved |-> now, level |-> level]]
    PROVE  IInv'
<1> DEFINE record == [lastObserved |-> now, level |-> level]
<1>1. record \in Record /\ record.lastObserved = now /\ record.level = level
  BY DEF Record, IInv
<1> HIDE DEF record
<1>2. /\ table' \in [Source -> Record \cup {None}]
      /\ table'[s] = record
      /\ \A o \in Source : o # s => table'[o] = table[o]
  BY <1>1 DEF IInv, record
<1>3. ASSUME NEW d \in Dim
      PROVE  level[d] >= Rate["source"][d] * (now - now)
  BY SourceLimits DEF Level, IInv
<1>4. Replenished(s)'
  BY <1>1, <1>2, <1>3 DEF Replenished, IInv
<1>5. \A o \in Source : o # s => Replenished(o)'
  BY <1>2 DEF IInv, Replenished
<1> QED
  BY <1>2, <1>4, <1>5 DEF IInv

\* Records may be dropped at any time.
LEMMA Dropped ==
    ASSUME IInv, now' = now, DOMAIN table' = Source,
           table' = [s \in Source |-> table'[s]],
           \A s \in Source : table'[s] \in {table[s], None}
    PROVE  IInv'
<1>1. table' \in [Source -> Record \cup {None}]
  BY DEF IInv
<1>2. \A s \in Source : Replenished(s)'
  BY DEF IInv, Replenished
<1> QED
  BY <1>1, <1>2 DEF IInv

LEMMA SpentLevel ==
    ASSUME NEW level \in Level, NEW cost \in Level, Covers(level, cost),
           \A d \in Dim : level[d] <= Burst["source"][d]
    PROVE  /\ Minus(level, cost) \in Level
           /\ \A d \in Dim : Minus(level, cost)[d] <= Burst["source"][d]
<1>1. ASSUME NEW d \in Dim
      PROVE  level[d] - cost[d] \in Nat /\ level[d] - cost[d] <= Burst["source"][d]
  BY SourceLimits DEF Covers, Level
<1> QED
  BY <1>1 DEF Minus, Level

LEMMA InitIInv == Init => IInv
BY DEF Init, IInv, Replenished

\* The three ways through pre-authentication, each in the terms of both
\* specifications: the table is as it was but for one record, and that source
\* has taken the cost or nothing.
Takes(s, cost) ==
    /\ Covers(Remembered(s), cost)
    /\ table' = [table EXCEPT ![s] = [lastObserved |-> now, level |-> Minus(Remembered(s), cost)]]

Keeps(s) ==
    \/ /\ table[s] # None
       /\ table' = [table EXCEPT ![s] = [lastObserved |-> now, level |-> table[s].level]]
    \/ Forgotten(s) /\ table' = [table EXCEPT ![s] = None]

LEMMA PreauthCases ==
    ASSUME IInv, NEW s \in Source, NEW size \in Size, AdmitPreauth(s, size)
    PROVE  now' = now /\ (Takes(s, Cost(1, size)) \/ Keeps(s))
<1> DEFINE cost == Cost(1, size)
<1>1. now' = now
  BY DEF AdmitPreauth
<1>2. CASE RefuseNewcomer(s, cost)
  BY <1>1, <1>2 DEF RefuseNewcomer, Keeps
<1>3. CASE AdmitNewcomer(s, cost)
  <2>1. Remembered(s) = Full("source")
    BY <1>3, ForgottenIsFull DEF AdmitNewcomer
  <2> QED
    BY <1>1, <1>3, <2>1 DEF AdmitNewcomer, Takes, Keeps
<1>4. CASE AdmitKnown(s, cost)
  <2>1. table[s] # None
    BY <1>4 DEF AdmitKnown, Forgotten
  <2>2. Remembered(s) = table[s].level
    BY <2>1 DEF Remembered
  <2>3. [table EXCEPT ![s].lastObserved = now]
          = [table EXCEPT ![s] = [lastObserved |-> now, level |-> table[s].level]]
    <3>1. table[s] \in Record
      BY <2>1 DEF IInv
    <3>2. [table[s] EXCEPT !.lastObserved = now]
            = [lastObserved |-> now, level |-> table[s].level]
      BY <3>1 DEF Record
    <3> QED
      BY <3>2
  <2> QED
    BY <1>1, <1>4, <2>1, <2>2, <2>3 DEF AdmitKnown, Takes, Keeps
<1> QED
  BY <1>2, <1>3, <1>4 DEF AdmitPreauth

\* What a source remembers is a level within the burst.
LEMMA RememberedShape ==
    ASSUME IInv, NEW s \in Source
    PROVE  Remembered(s) \in Level /\ \A d \in Dim : Remembered(s)[d] <= Burst["source"][d]
<1>1. CASE table[s] = None
  BY <1>1, SourceLimits DEF Remembered, Level
<1>2. CASE table[s] # None
  BY <1>2 DEF Remembered, IInv, Record, Replenished
<1> QED
  BY <1>1, <1>2

LEMMA PreauthIInv ==
    ASSUME IInv, NEW s \in Source, NEW size \in Size, AdmitPreauth(s, size)
    PROVE  IInv'
<1>1. now' = now /\ (Takes(s, Cost(1, size)) \/ Keeps(s))
  BY PreauthCases
<1>2. CASE Takes(s, Cost(1, size))
  <2> DEFINE level == Minus(Remembered(s), Cost(1, size))
  <2>1. level \in Level /\ \A d \in Dim : level[d] <= Burst["source"][d]
    BY <1>2, RememberedShape, CostIsLevel, SpentLevel DEF Takes
  <2>2. table' = [table EXCEPT ![s] = [lastObserved |-> now, level |-> level]]
    BY <1>2 DEF Takes
  <2> HIDE DEF level
  <2> QED
    BY <1>1, <2>1, <2>2, RenewedNow
<1>3. CASE table[s] # None
           /\ table' = [table EXCEPT ![s] = [lastObserved |-> now, level |-> table[s].level]]
  <2>1. table[s].level \in Level /\ \A d \in Dim : table[s].level[d] <= Burst["source"][d]
    BY <1>3 DEF IInv, Record, Replenished
  <2> QED
    BY <1>1, <1>3, <2>1, RenewedNow
<1>4. CASE table' = [table EXCEPT ![s] = None]
  BY <1>1, <1>4, Dropped DEF IInv
<1> QED
  BY <1>1, <1>2, <1>3, <1>4 DEF Keeps

LEMMA RefilledShape ==
    ASSUME NEW level \in Level
    PROVE  /\ Refilled("source", level) \in Level
           /\ \A d \in Dim : Refilled("source", level)[d] =
                  Least(Burst["source"][d], level[d] + Rate["source"][d])
BY SourceLimits DEF Refilled, Level, Least

LEMMA TickIInv == ASSUME IInv, Tick PROVE IInv'
<1>1. now \in Nat /\ now' = now + 1
  BY DEF IInv, Tick
<1>2. \A s \in Source :
         table'[s] = IF table[s] = None THEN None
                     ELSE [table[s] EXCEPT !.level = Refilled("source", table[s].level)]
  BY DEF Tick
<1>3. ASSUME NEW s \in Source, table[s] # None
      PROVE  /\ table'[s] = [lastObserved |-> table[s].lastObserved,
                             level |-> Refilled("source", table[s].level)]
             /\ table[s].lastObserved \in Nat /\ table[s].level \in Level
             /\ table'[s] \in Record
  <2>1. table[s] \in Record
    BY <1>3 DEF IInv
  <2>2. Refilled("source", table[s].level) \in Level
    BY <2>1, RefilledShape DEF Record
  <2> QED
    BY <1>2, <1>3, <2>1, <2>2 DEF Record
<1>4. table' \in [Source -> Record \cup {None}]
  BY <1>2, <1>3 DEF Tick
<1>5. ASSUME NEW s \in Source PROVE Replenished(s)'
  <2>1. CASE table[s] = None
    BY <1>2, <2>1 DEF Replenished
  <2>2. CASE table[s] # None
    <3> DEFINE last == table[s].lastObserved
               level == table[s].level
               k == now - last
    <3>0. /\ table[s].lastObserved \in Nat /\ table[s].level \in Level
          /\ table'[s] = [lastObserved |-> table[s].lastObserved,
                          level |-> Refilled("source", table[s].level)]
          /\ table'[s] \in Record
      BY <1>3, <2>2, Zenon
    <3>1. last \in Nat /\ level \in Level /\ last <= now /\ k \in Nat
      <4>1. Replenished(s)
        BY DEF IInv
      <4>2. table[s].lastObserved <= now
        BY <2>2, <4>1 DEF Replenished
      <4> QED
        BY <1>1, <3>0, <4>2
    <3>2. table'[s].lastObserved = last /\ table'[s].level = Refilled("source", level)
          /\ table'[s] # None
      BY <3>0, NoneIsNoRecord
    <3>3. ASSUME NEW d \in Dim
          PROVE  LET next == Refilled("source", level)[d]
                 IN  /\ next <= Burst["source"][d]
                     /\ \/ next = Burst["source"][d]
                        \/ next >= Rate["source"][d] * (k + 1)
      <4>1. Refilled("source", level)[d] = Least(Burst["source"][d], level[d] + Rate["source"][d])
        BY <3>1, RefilledShape
      <4>2. /\ level[d] \in Nat /\ Burst["source"][d] \in Nat /\ Rate["source"][d] \in Nat
            /\ level[d] <= Burst["source"][d]
            /\ level[d] = Burst["source"][d] \/ level[d] >= Rate["source"][d] * k
        BY <2>2, <3>1, SourceLimits DEF IInv, Replenished, Level
      <4>3. /\ Rate["source"][d] * (k + 1) = Rate["source"][d] * k + Rate["source"][d]
            /\ Rate["source"][d] * k \in Nat
        BY <3>1, <4>2, OneMoreTick
      <4> HIDE DEF k, level
      <4> QED
        BY <4>1, <4>2, <4>3 DEF Least
    <3>4. now' - last = k + 1 /\ last <= now'
      BY <1>1, <3>1
    <3> HIDE DEF last, level, k
    <3> QED
      BY <3>2, <3>3, <3>4 DEF Replenished
  <2> QED
    BY <2>1, <2>2
<1> QED
  BY <1>1, <1>4, <1>5 DEF IInv

LEMMA StutterIInv == ASSUME IInv, UNCHANGED <<now, table>> PROVE IInv'
BY DEF IInv, Replenished

LEMMA StepIInv == ASSUME IInv, [Next]_vars PROVE IInv'
<1>1. ASSUME NEW s \in Source, NEW size \in Size, AdmitPreauth(s, size) PROVE IInv'
  BY <1>1, PreauthIInv
<1>2. ASSUME NEW g \in Grant, NEW size \in Size, AdmitIngress(g, size) PROVE IInv'
  BY <1>2, StutterIInv DEF AdmitIngress
<1>3. ASSUME NEW r \in Room, NEW size \in Size, NEW n, AdmitFanout(r, n, size) PROVE IInv'
  BY <1>3, StutterIInv DEF AdmitFanout
<1>4. CASE Expire
  BY <1>4, Dropped DEF Expire, IInv
<1>5. CASE Tick
  BY <1>5, TickIInv
<1>6. CASE UNCHANGED vars
  BY <1>6, StutterIInv DEF vars
<1> QED
  BY <1>1, <1>2, <1>3, <1>4, <1>5, <1>6 DEF Next
-----------------------------------------------------------------------------
(***************************************************************************)
(* The refinement.                                                         *)
(***************************************************************************)
view == [s \in Source |-> Remembered(s)]

LEMMA InitRefines == Init => PerSource!Init
BY SourceLimits DEF Init, PerSource!Init, Remembered, Full, Level

\* A step after which every source remembers what it did is a stutter.
LEMMA SameView ==
    ASSUME \A s \in Source : Remembered(s)' = Remembered(s)
    PROVE  UNCHANGED view
BY DEF view

LEMMA PreauthRefines ==
    ASSUME IInv, NEW s \in Source, NEW size \in Size, AdmitPreauth(s, size)
    PROVE  PerSource!Take(s, Cost(1, size)) \/ UNCHANGED view
<1>1. Takes(s, Cost(1, size)) \/ Keeps(s)
  BY PreauthCases
<1>2. ASSUME NEW o \in Source, o # s PROVE Remembered(o)' = Remembered(o)
  BY <1>1, <1>2 DEF Takes, Keeps, Remembered, IInv
<1>3. CASE Takes(s, Cost(1, size))
  <2> DEFINE cost == Cost(1, size)
             record == [lastObserved |-> now, level |-> Minus(Remembered(s), cost)]
  <2>1. Minus(Remembered(s), cost) \in Level
    BY <1>3, RememberedShape, CostIsLevel, SpentLevel DEF Takes
  <2>2. record \in Record /\ record.level = Minus(Remembered(s), cost)
    BY <2>1 DEF Record, IInv
  <2>3. table'[s] = record
    BY <1>3 DEF Takes, IInv
  <2> HIDE DEF record, cost
  <2>4. Remembered(s)' = Minus(Remembered(s), cost)
    BY <2>2, <2>3, NoneIsNoRecord DEF Remembered
  <2>5. /\ \A d \in Dim : cost[d] <= view[s][d]
        /\ view' = [view EXCEPT ![s] = [d \in Dim |-> view[s][d] - cost[d]]]
    BY <1>2, <1>3, <2>4 DEF view, Takes, Covers, Minus, cost
  <2> QED
    BY <2>5 DEF PerSource!Take, view, cost
<1>4. CASE Keeps(s)
  <2>1. Remembered(s)' = Remembered(s)
    <3>1. CASE /\ table[s] # None
               /\ table' = [table EXCEPT ![s] = [lastObserved |-> now, level |-> table[s].level]]
      <4>1. /\ table'[s] = [lastObserved |-> now, level |-> table[s].level]
            /\ table'[s] \in Record
        BY <3>1 DEF IInv, Record
      <4> QED
        BY <3>1, <4>1, NoneIsNoRecord DEF Remembered
    <3>2. CASE Forgotten(s) /\ table' = [table EXCEPT ![s] = None]
      <4>1. Remembered(s)' = Full("source")
        BY <3>2 DEF Remembered, IInv
      <4> QED
        BY <3>2, <4>1, ForgottenIsFull
    <3> QED
      BY <1>4, <3>1, <3>2 DEF Keeps
  <2> QED
    BY <1>2, <2>1, SameView
<1> QED
  BY <1>1, <1>3, <1>4

LEMMA ExpireRefines == ASSUME IInv, Expire PROVE UNCHANGED view
<1>1. ASSUME NEW s \in Source PROVE Remembered(s)' = Remembered(s)
  <2>1. CASE Forgotten(s)
    <3>1. Remembered(s)' = Full("source")
      BY <2>1 DEF Expire, Remembered
    <3> QED
      BY <2>1, <3>1, ForgottenIsFull
  <2>2. CASE ~Forgotten(s)
    BY <2>2 DEF Expire, Remembered
  <2> QED
    BY <2>1, <2>2
<1> QED
  BY <1>1, SameView

LEMMA TickRefines == ASSUME IInv, Tick PROVE PerSource!Refill
<1>1. ASSUME NEW s \in Source
      PROVE  Remembered(s)' = [d \in Dim |-> Least(Burst["source"][d],
                                                   Remembered(s)[d] + Rate["source"][d])]
  <2>1. CASE table[s] = None
    <3>1. Remembered(s)' = Burst["source"] /\ Remembered(s) = Burst["source"]
      BY <2>1, SourceLimits DEF Tick, Remembered
    <3>2. \A d \in Dim : Least(Burst["source"][d], Burst["source"][d] + Rate["source"][d])
                         = Burst["source"][d]
      BY SourceLimits DEF Least
    <3>3. Burst["source"] = [d \in Dim |-> Burst["source"][d]]
      BY SourceLimits DEF Level
    <3> QED
      BY <3>1, <3>2, <3>3
  <2>2. CASE table[s] # None
    <3>1. table[s] \in Record /\ Remembered(s) = table[s].level
      BY <2>2 DEF IInv, Remembered
    <3>2. Refilled("source", table[s].level) \in Level
      BY <3>1, RefilledShape DEF Record
    <3>3. /\ table'[s] = [table[s] EXCEPT !.level = Refilled("source", table[s].level)]
      BY <2>2 DEF Tick
    <3>4. table'[s] \in Record /\ table'[s].level = Refilled("source", table[s].level)
      BY <3>1, <3>2, <3>3 DEF Record
    <3>5. Remembered(s)' = Refilled("source", table[s].level)
      BY <3>4, NoneIsNoRecord DEF Remembered
    <3> QED
      BY <3>1, <3>5 DEF Refilled
  <2> QED
    BY <2>1, <2>2
<1> QED
  BY <1>1 DEF PerSource!Refill, PerSource!Least, Least

LEMMA StepRefines == ASSUME IInv, [Next]_vars PROVE [PerSource!Next]_view
<1>1. ASSUME NEW s \in Source, NEW size \in Size, AdmitPreauth(s, size)
      PROVE  [PerSource!Next]_view
  BY <1>1, PreauthRefines DEF PerSource!Next
<1>2. ASSUME UNCHANGED table PROVE UNCHANGED view
  BY <1>2 DEF view, Remembered
<1>3. ASSUME NEW g \in Grant, NEW size \in Size, AdmitIngress(g, size) PROVE UNCHANGED view
  BY <1>2, <1>3 DEF AdmitIngress
<1>4. ASSUME NEW r \in Room, NEW size \in Size, NEW n, AdmitFanout(r, n, size)
      PROVE  UNCHANGED view
  BY <1>2, <1>4 DEF AdmitFanout
<1>5. CASE Expire
  BY <1>5, ExpireRefines
<1>6. CASE Tick
  BY <1>6, TickRefines DEF PerSource!Next
<1>7. CASE UNCHANGED vars
  BY <1>2, <1>7 DEF vars
<1> QED
  BY <1>1, <1>3, <1>4, <1>5, <1>6, <1>7 DEF Next

\* No source is given more than a limiter of its own would give: dropping idle
\* records and starting others, on the packet's path or in the sweep, gains it
\* nothing (admitPreauthLocked and the last loop of Expire).
THEOREM AdmissionImplementsPerSource == Spec => ImplementsPerSource
<1>1. Spec => []IInv
  BY InitIInv, StepIInv, PTL DEF Spec
<1>2. Init => PerSource!Init
  BY InitRefines
<1>3. IInv /\ [Next]_vars => [PerSource!Next]_view
  BY StepRefines
<1> QED
  BY <1>1, <1>2, <1>3, PTL DEF Spec, ImplementsPerSource, PerSource!Spec, view
-----------------------------------------------------------------------------
(***************************************************************************)
(* Sums.  What a set of owners has taken is counted token by token: the    *)
(* sum is the cardinality of a set, and sums are compared as sets are.     *)
(***************************************************************************)
Tokens(sp, d, S) == {t \in S \X (Nat \ {0}) : t[2] <= sp[t[1]][d]}

OfOne(x, n) == {x} \X (1 .. n)

\* Sum, as a function of the history, over the subsets of the owners.
SumFn(sp, d, S) ==
    CHOOSE iter : iter =
        [s \in SUBSET S |->
            IF s = {} THEN 0
            ELSE sp[CHOOSE x \in s : TRUE][d] + iter[s \ {CHOOSE x \in s : TRUE}]]

LEMMA SumIsSumFn ==
    ASSUME NEW owners, NEW d
    PROVE  Sum(owners, d) = SumFn(spent, d, owners)[owners]
BY DEF Sum, MapThenSumSet, MapThenFoldSet, SumFn

LEMMA IntervalTokens ==
    ASSUME NEW x, NEW m \in Nat, NEW n \in Nat, m <= n
    PROVE  /\ IsFiniteSet({x} \X ((m + 1) .. n))
           /\ Cardinality({x} \X ((m + 1) .. n)) = n - m
<1> DEFINE I == (m + 1) .. n
<1>1. IsFiniteSet(I) /\ Cardinality(I) = n - m
  <2>1. m + 1 \in Int /\ n \in Int
    OBVIOUS
  <2>2. IsFiniteSet(I) /\ Cardinality(I) = IF m + 1 > n THEN 0 ELSE n - (m + 1) + 1
    BY <2>1, FS_Interval
  <2> HIDE DEF I
  <2> QED
    BY <2>2
<1> HIDE DEF I
<1>2. [i \in I |-> <<x, i>>] \in Bijection(I, {x} \X I)
  <2> DEFINE f == [i \in I |-> <<x, i>>]
  <2>1. f \in [I -> {x} \X I] /\ \A i \in I : f[i] = <<x, i>>
    OBVIOUS
  <2>2. \A t \in {x} \X I : t[2] \in I /\ t = <<x, t[2]>>
    OBVIOUS
  <2> HIDE DEF f
  <2>3. \A i, j \in I : f[i] = f[j] => i = j
    BY <2>1
  <2>4. \A t \in {x} \X I : \E i \in I : f[i] = t
    BY <2>1, <2>2
  <2>5. f \in Bijection(I, {x} \X I)
    BY <2>1, <2>3, <2>4 DEF Bijection, Injection, Surjection, IsInjective
  <2> QED
    BY <2>5 DEF f
<1>3. ExistsBijection(I, {x} \X I)
  BY <1>2 DEF ExistsBijection
<1>4. IsFiniteSet({x} \X I) /\ Cardinality({x} \X I) = Cardinality(I)
  BY <1>1, <1>3, FS_Bijection
<1> QED
  BY <1>1, <1>4 DEF I

LEMMA TokensFinite ==
    ASSUME NEW S, IsFiniteSet(S), NEW sp, NEW d, \A x \in S : sp[x][d] \in Nat
    PROVE  IsFiniteSet(Tokens(sp, d, S)) /\ Cardinality(Tokens(sp, d, S)) \in Nat
<1> DEFINE P(x) == {x} \X (1 .. sp[x][d])
           f == [x \in S |-> P(x)]
           T == {P(x) : x \in S}
<1>1. f \in Surjection(S, T)
  BY DEF Surjection
<1>2. IsFiniteSet(T)
  BY <1>1, FS_Surjection
<1>3. ASSUME NEW x \in S PROVE IsFiniteSet(P(x))
  <2>1. sp[x][d] \in Nat /\ 0 \in Nat /\ 0 <= sp[x][d] /\ 0 + 1 = 1
    OBVIOUS
  <2> QED
    BY <2>1, IntervalTokens
<1>4. IsFiniteSet(UNION T)
  BY <1>2, <1>3, FS_UNION
<1>5. Tokens(sp, d, S) \subseteq UNION T
  <2> SUFFICES ASSUME NEW t \in Tokens(sp, d, S) PROVE t \in UNION T
    OBVIOUS
  <2>1. /\ t[1] \in S /\ t[2] \in Nat \ {0} /\ t = <<t[1], t[2]>>
        /\ t[2] <= sp[t[1]][d] /\ sp[t[1]][d] \in Nat
    BY DEF Tokens
  <2>2. t \in P(t[1])
    BY <2>1
  <2> QED
    BY <2>1, <2>2
<1>6. IsFiniteSet(Tokens(sp, d, S))
  BY <1>4, <1>5, FS_Subset
<1> QED
  BY <1>6, FS_CardinalityType

\* The tokens of a set are those of one member and those of the rest.
LEMMA OneAndTheRest ==
    ASSUME NEW S, IsFiniteSet(S), NEW sp, NEW d, \A x \in S : sp[x][d] \in Nat,
           NEW x \in S
    PROVE  Cardinality(Tokens(sp, d, S)) = sp[x][d] + Cardinality(Tokens(sp, d, S \ {x}))
<1> DEFINE P == {x} \X ((0 + 1) .. sp[x][d])
           R == Tokens(sp, d, S \ {x})
<1>1. IsFiniteSet(P) /\ Cardinality(P) = sp[x][d]
  <2>1. sp[x][d] \in Nat /\ 0 \in Nat /\ 0 <= sp[x][d] /\ sp[x][d] - 0 = sp[x][d]
    OBVIOUS
  <2>2. IsFiniteSet(P) /\ Cardinality(P) = sp[x][d] - 0
    BY <2>1, IntervalTokens
  <2> HIDE DEF P
  <2> QED
    BY <2>1, <2>2
<1>2. IsFiniteSet(R) /\ Cardinality(R) \in Nat
  <2>1. IsFiniteSet(S \ {x})
    BY FS_RemoveElement
  <2> QED
    BY <2>1, TokensFinite
<1>3. Tokens(sp, d, S) = P \cup R /\ P \cap R = {}
  <2>1. ASSUME NEW t \in Tokens(sp, d, S) PROVE t \in P \cup R
    <3>1. /\ t[1] \in S /\ t[2] \in Nat \ {0} /\ t = <<t[1], t[2]>>
          /\ t[2] <= sp[t[1]][d] /\ sp[t[1]][d] \in Nat
      BY DEF Tokens
    <3>2. CASE t[1] = x
      BY <3>1, <3>2
    <3>3. CASE t[1] # x
      BY <3>1, <3>3 DEF Tokens
    <3> QED
      BY <3>2, <3>3
  <2>2. ASSUME NEW t \in P PROVE t \in Tokens(sp, d, S) /\ t \notin R
    <3>1. /\ t[1] = x /\ t[2] \in (0 + 1) .. sp[x][d] /\ t = <<t[1], t[2]>>
          /\ sp[x][d] \in Nat
      OBVIOUS
    <3> HIDE DEF P
    <3> QED
      BY <3>1 DEF Tokens
  <2>3. R \subseteq Tokens(sp, d, S)
    BY DEF Tokens
  <2> QED
    BY <2>1, <2>2, <2>3
<1> HIDE DEF P, R
<1>4. Cardinality(P \cup R) = Cardinality(P) + Cardinality(R) - Cardinality(P \cap R)
  BY <1>1, <1>2, FS_Union
<1>5. Cardinality(P \cap R) = 0
  BY <1>3, FS_EmptySet
<1> QED
  BY <1>1, <1>2, <1>3, <1>4, <1>5 DEF R

LEMMA SumFnIsCount ==
    ASSUME NEW S, IsFiniteSet(S), NEW sp, NEW d, \A x \in S : sp[x][d] \in Nat
    PROVE  SumFn(sp, d, S)[S] = Cardinality(Tokens(sp, d, S))
<1> DEFINE count == [s \in SUBSET S |-> Cardinality(Tokens(sp, d, s))]
           any(s) == CHOOSE x \in s : TRUE
           Step(iter, s) == IF s = {} THEN 0 ELSE sp[any(s)][d] + iter[s \ {any(s)}]
           sum == SumFn(sp, d, S)
           bad == {s \in SUBSET S : sum[s] # count[s]}
<1>1. ASSUME NEW s \in SUBSET S PROVE count[s] = Step(count, s)
  <2>1. CASE s = {}
    <3>1. Tokens(sp, d, {}) = {}
      BY DEF Tokens
    <3> QED
      BY <2>1, <3>1, FS_EmptySet
  <2>2. CASE s # {}
    <3>1. any(s) \in s
      BY <2>2
    <3> HIDE DEF any
    <3>2. IsFiniteSet(s) /\ s \ {any(s)} \in SUBSET S /\ \A x \in s : sp[x][d] \in Nat
      BY FS_Subset
    <3>3. Cardinality(Tokens(sp, d, s))
            = sp[any(s)][d] + Cardinality(Tokens(sp, d, s \ {any(s)}))
      BY <3>1, <3>2, OneAndTheRest
    <3> QED
      BY <2>2, <3>2, <3>3
  <2> QED
    BY <2>1, <2>2
<1>2. count = [s \in SUBSET S |-> Step(count, s)]
  <2>1. count = [s \in SUBSET S |-> count[s]]
    OBVIOUS
  <2> HIDE DEF count, Step
  <2> QED
    BY <1>1, <2>1
<1>3. sum = [s \in SUBSET S |-> Step(sum, s)]
  BY <1>2 DEF SumFn
<1> HIDE DEF sum, count
<1>4. bad = {}
  <2> SUFFICES ASSUME bad # {} PROVE FALSE
    OBVIOUS
  <2>1. bad \subseteq FiniteSubsetsOf(S)
    BY FS_Subset DEF FiniteSubsetsOf
  <2>2. IsWellFoundedOn(StrictSubsetOrdering(S), FiniteSubsetsOf(S))
    BY FS_StrictSubsetOrderingWellFounded
  <2>3. PICK s \in bad : \A r \in bad : <<r, s>> \notin StrictSubsetOrdering(S)
    <3> HIDE DEF bad
    <3> QED
      BY <2>1, <2>2, WFMin
  <2>4. s \in SUBSET S /\ sum[s] # count[s] /\ sum[s] = Step(sum, s) /\ count[s] = Step(count, s)
    BY <1>1, <1>3
  <2>5. CASE s = {}
    BY <2>4, <2>5
  <2>6. CASE s # {}
    <3>1. any(s) \in s
      BY <2>6
    <3> HIDE DEF any
    <3>2. <<s \ {any(s)}, s>> \in StrictSubsetOrdering(S)
      BY <2>4, <3>1 DEF StrictSubsetOrdering
    <3>3. sum[s \ {any(s)}] = count[s \ {any(s)}]
      BY <2>3, <2>4, <3>2
    <3> QED
      BY <2>4, <3>3
  <2> QED
    BY <2>5, <2>6
<1> QED
  BY <1>4 DEF sum, count

LEMMA SumIsTokens ==
    ASSUME NEW S, IsFiniteSet(S), NEW d,
           \A x \in S : spent[x][d] \in Nat /\ spent'[x][d] \in Nat
    PROVE  /\ Sum(S, d) = Cardinality(Tokens(spent, d, S))
           /\ Sum(S, d)' = Cardinality(Tokens(spent', d, S))
<1>1. Sum(S, d)' = SumFn(spent', d, S)[S]
  BY DEF Sum, MapThenSumSet, MapThenFoldSet, SumFn
<1> QED
  BY <1>1, SumIsSumFn, SumFnIsCount

Ledger == [Source \cup Bucket -> Level]

\* What owners who do not pay have taken stays what it was.
LEMMA OthersStay ==
    ASSUME spent \in Ledger, spent' \in Ledger, NEW d \in Dim,
           NEW S \in SUBSET (Source \cup Bucket), IsFiniteSet(S),
           \A x \in S : spent'[x][d] = spent[x][d]
    PROVE  Sum(S, d)' = Sum(S, d)
<1>1. Tokens(spent', d, S) = Tokens(spent, d, S)
  <2>1. \A t \in S \X (Nat \ {0}) : spent'[t[1]][d] = spent[t[1]][d]
    OBVIOUS
  <2> QED
    BY <2>1 DEF Tokens
<1>2. \A x \in S : spent[x][d] \in Nat /\ spent'[x][d] \in Nat
  BY DEF Ledger, Level
<1> QED
  BY <1>1, <1>2, SumIsTokens

\* What one owner pays is added to what its set has taken.
LEMMA OnePays ==
    ASSUME spent \in Ledger, spent' \in Ledger, NEW d \in Dim, NEW c \in Nat,
           NEW S \in SUBSET (Source \cup Bucket), IsFiniteSet(S), NEW x \in S,
           spent'[x][d] = spent[x][d] + c,
           \A y \in S \ {x} : spent'[y][d] = spent[y][d]
    PROVE  Sum(S, d)' = Sum(S, d) + c
<1>1. Tokens(spent', d, S \ {x}) = Tokens(spent, d, S \ {x})
  <2>1. \A t \in (S \ {x}) \X (Nat \ {0}) : spent'[t[1]][d] = spent[t[1]][d]
    OBVIOUS
  <2> QED
    BY <2>1 DEF Tokens
<1>2. \A y \in S : spent[y][d] \in Nat /\ spent'[y][d] \in Nat
  BY DEF Ledger, Level
<1>3. IsFiniteSet(S \ {x})
  BY FS_RemoveElement
<1>4. Cardinality(Tokens(spent, d, S \ {x})) \in Nat
  BY <1>2, <1>3, TokensFinite
<1>5. /\ Cardinality(Tokens(spent, d, S))
          = spent[x][d] + Cardinality(Tokens(spent, d, S \ {x}))
      /\ Cardinality(Tokens(spent', d, S))
          = spent'[x][d] + Cardinality(Tokens(spent', d, S \ {x}))
  BY <1>2, OneAndTheRest
<1>6. spent[x][d] \in Nat
  BY <1>2
<1> QED
  BY <1>1, <1>2, <1>4, <1>5, <1>6, SumIsTokens
-----------------------------------------------------------------------------
(***************************************************************************)
(* The books.                                                              *)
(***************************************************************************)
LevelsOK ==
    /\ levels \in [Bucket -> Level]
    /\ \A b \in Bucket, d \in Dim : levels[b][d] <= Burst[b[1]][d]

TableOK == Cardinality({s \in Source : table[s] # None}) <= MaxSources

Balanced ==
    \A d \in Dim :
        /\ spent[<<"preauth", None>>][d] = Sum(Source, d) + overflow[d]
        /\ spent[<<"process", None>>][d] = Sum({"session"} \X Grant, d)
        /\ \A r \in Room : spent[<<"room", r>>][d] =
                           Sum({"session"} \X {g \in Grant : RoomOf[g] = r}, d)
        /\ spent[<<"fanout", None>>][d] = Sum({"roomFanout"} \X Room, d)

Books == LevelsOK /\ TableOK /\ spent \in Ledger /\ overflow \in Level /\ Balanced

\* The sets of owners are finite, and their members are on the ledger.
LEMMA Owners ==
    /\ IsFiniteSet(Source) /\ IsFiniteSet({"session"} \X Grant)
    /\ IsFiniteSet({"roomFanout"} \X Room)
    /\ \A r \in Room : IsFiniteSet({"session"} \X {g \in Grant : RoomOf[g] = r})
    /\ <<"preauth", None>> \in Bucket /\ <<"process", None>> \in Bucket
    /\ <<"fanout", None>> \in Bucket
    /\ {"session"} \X Grant \subseteq Bucket /\ {"roomFanout"} \X Room \subseteq Bucket
    /\ \A r \in Room : <<"room", r>> \in Bucket /\ <<"roomFanout", r>> \in Bucket
    /\ \A g \in Grant : <<"session", g>> \in Bucket
<1>1. IsFiniteSet({"session"}) /\ IsFiniteSet({"roomFanout"})
  BY FS_Singleton
<1>2. IsFiniteSet({"session"} \X Grant) /\ IsFiniteSet({"roomFanout"} \X Room)
  BY <1>1, FS_Product, SetAssumption
<1>3. ASSUME NEW r \in Room
      PROVE  IsFiniteSet({"session"} \X {g \in Grant : RoomOf[g] = r})
  <2>1. {"session"} \X {g \in Grant : RoomOf[g] = r} \subseteq {"session"} \X Grant
    OBVIOUS
  <2> QED
    BY <1>2, <2>1, FS_Subset
<1> QED
  BY <1>2, <1>3, SetAssumption DEF Bucket


LEMMA ClassTypes ==
    ASSUME NEW b \in Bucket
    PROVE  /\ b[1] \in Class /\ Burst[b[1]] \in Level /\ Rate[b[1]] \in Level
           /\ Full(b[1]) = Burst[b[1]]
<1>1. b[1] \in Class
  BY DEF Bucket, Class
<1> QED
  BY <1>1, LimitAssumption DEF Level, Full

LEMMA InitBooks == ASSUME Init PROVE Books
<1>1. LevelsOK
  BY ClassTypes DEF Init, LevelsOK, Level
<1>2. Nothing \in Level /\ \A d \in Dim : Nothing[d] = 0
  BY DEF Nothing, Level
<1>3. spent \in Ledger /\ overflow \in Level /\ \A x \in Source \cup Bucket : spent[x] = Nothing
  BY <1>2 DEF Init, Ledger
<1>4. TableOK
  <2>1. {s \in Source : table[s] # None} = {}
    BY DEF Init
  <2>2. Cardinality({s \in Source : table[s] # None}) = 0
    BY <2>1, FS_EmptySet
  <2> QED
    BY <2>2, LimitAssumption DEF TableOK
<1>5. ASSUME NEW d \in Dim, NEW S \in SUBSET (Source \cup Bucket), IsFiniteSet(S)
      PROVE  Sum(S, d) = 0
  <2>1. \A x \in S : spent[x][d] = 0
    BY <1>2, <1>3
  <2>2. Tokens(spent, d, S) = {}
    BY <2>1 DEF Tokens
  <2>3. Sum(S, d) = Cardinality(Tokens(spent, d, S))
    BY <1>5, <2>1, SumIsSumFn, SumFnIsCount
  <2> QED
    BY <2>2, <2>3, FS_EmptySet
<1>6. Balanced
  <2> SUFFICES ASSUME NEW d \in Dim
               PROVE  /\ spent[<<"preauth", None>>][d] = Sum(Source, d) + overflow[d]
                      /\ spent[<<"process", None>>][d] = Sum({"session"} \X Grant, d)
                      /\ \A r \in Room : spent[<<"room", r>>][d] =
                             Sum({"session"} \X {g \in Grant : RoomOf[g] = r}, d)
                      /\ spent[<<"fanout", None>>][d] = Sum({"roomFanout"} \X Room, d)
    BY DEF Balanced
  <2>1. /\ Sum(Source, d) = 0 /\ Sum({"session"} \X Grant, d) = 0
        /\ Sum({"roomFanout"} \X Room, d) = 0
    BY <1>5, Owners
  <2>2. ASSUME NEW r \in Room
        PROVE  Sum({"session"} \X {g \in Grant : RoomOf[g] = r}, d) = 0
    <3>1. {"session"} \X {g \in Grant : RoomOf[g] = r} \subseteq {"session"} \X Grant
      OBVIOUS
    <3> QED
      BY <1>5, <3>1, Owners
  <2>3. overflow[d] = 0
    BY <1>2 DEF Init
  <2>4. \A b \in Bucket : spent[b][d] = 0
    BY <1>2, <1>3
  <2>5. ASSUME NEW r \in Room
        PROVE  spent[<<"room", r>>][d] = Sum({"session"} \X {g \in Grant : RoomOf[g] = r}, d)
    BY <2>2, <2>4, Owners
  <2>6. /\ spent[<<"preauth", None>>][d] = 0 /\ spent[<<"process", None>>][d] = 0
        /\ spent[<<"fanout", None>>][d] = 0
    BY <2>4, Owners
  <2> QED
    BY <2>1, <2>3, <2>5, <2>6
<1> QED
  BY <1>1, <1>3, <1>4, <1>6 DEF Books
-----------------------------------------------------------------------------
(***************************************************************************)
(* The levels.                                                             *)
(***************************************************************************)
LEMMA ChargeLevels ==
    ASSUME LevelsOK, NEW group, NEW cost \in Level, Allowed(group, cost), Charge(group, cost)
    PROVE  LevelsOK'
<1>1. ASSUME NEW b \in Bucket
      PROVE  levels'[b] \in Level /\ \A d \in Dim : levels'[b][d] <= Burst[b[1]][d]
  <2>1. levels[b] \in Level /\ \A d \in Dim : levels[b][d] <= Burst[b[1]][d]
    BY DEF LevelsOK
  <2>2. CASE b \in group
    <3>1. levels'[b] = Minus(levels[b], cost) /\ Covers(levels[b], cost)
      BY <2>2 DEF Charge, Allowed
    <3>2. ASSUME NEW d \in Dim
          PROVE  levels[b][d] - cost[d] \in Nat /\ levels[b][d] - cost[d] <= Burst[b[1]][d]
      <4>1. levels[b][d] \in Nat /\ cost[d] \in Nat /\ cost[d] <= levels[b][d]
        BY <2>1, <3>1 DEF Level, Covers
      <4>2. Burst[b[1]][d] \in Nat /\ levels[b][d] <= Burst[b[1]][d]
        BY <2>1, ClassTypes DEF Level
      <4> QED
        BY <4>1, <4>2
    <3> QED
      BY <3>1, <3>2 DEF Minus, Level
  <2>3. CASE b \notin group
    BY <2>1, <2>3 DEF Charge
  <2> QED
    BY <2>2, <2>3
<1>2. levels' = [b \in Bucket |-> levels'[b]]
  BY DEF Charge
<1> QED
  BY <1>1, <1>2 DEF LevelsOK

LEMMA TickLevels == ASSUME LevelsOK, Tick PROVE LevelsOK'
<1>1. ASSUME NEW b \in Bucket
      PROVE  levels'[b] \in Level /\ \A d \in Dim : levels'[b][d] <= Burst[b[1]][d]
  <2>1. levels[b] \in Level /\ Burst[b[1]] \in Level /\ Rate[b[1]] \in Level
    BY ClassTypes DEF LevelsOK
  <2>2. ASSUME NEW d \in Dim
        PROVE  LET n == Least(Burst[b[1]][d], levels[b][d] + Rate[b[1]][d])
               IN  n \in Nat /\ n <= Burst[b[1]][d]
    <3>1. levels[b][d] \in Nat /\ Burst[b[1]][d] \in Nat /\ Rate[b[1]][d] \in Nat
      BY <2>1 DEF Level
    <3> QED
      BY <3>1 DEF Least
  <2>3. levels'[b] = [d \in Dim |-> Least(Burst[b[1]][d], levels[b][d] + Rate[b[1]][d])]
    BY DEF Tick, Refilled
  <2> QED
    BY <2>2, <2>3 DEF Level
<1>2. levels' = [b \in Bucket |-> levels'[b]]
  BY DEF Tick
<1> QED
  BY <1>1, <1>2 DEF LevelsOK
-----------------------------------------------------------------------------
(***************************************************************************)
(* The table.                                                              *)
(***************************************************************************)
\* A step that starts no record keeps the table within its limit.
LEMMA NoNewRecord ==
    ASSUME TableOK, \A s \in Source : table[s] = None => table'[s] = None
    PROVE  TableOK'
<1> DEFINE old == {s \in Source : table[s] # None}
           new == {s \in Source : table'[s] # None}
<1>1. new \subseteq old /\ old \subseteq Source
  OBVIOUS
<1>2. IsFiniteSet(old) /\ Cardinality(old) \in Nat
  BY <1>1, FS_Subset, FS_CardinalityType, SetAssumption
<1>3. IsFiniteSet(new) /\ Cardinality(new) <= Cardinality(old)
  BY <1>1, <1>2, FS_Subset
<1>4. Cardinality(new) \in Nat
  BY <1>3, FS_CardinalityType
<1>5. Cardinality(old) <= MaxSources
  BY DEF TableOK
<1> HIDE DEF new, old
<1>6. Cardinality(new) <= MaxSources
  BY <1>2, <1>3, <1>4, <1>5, LimitAssumption
<1> QED
  BY <1>6 DEF TableOK, new

\* A newcomer finds room for its record, or gets none.
LEMMA RoomForNewcomer ==
    ASSUME NEW s \in Source, ~TableFull(s),
           \A r \in Source \ {s} : table'[r] = table[r]
    PROVE  TableOK'
<1> DEFINE rest == {r \in Source \ {s} : table[r] # None}
           new == {r \in Source : table'[r] # None}
<1>1. IsFiniteSet(rest) /\ Cardinality(rest) \in Nat
  <2>1. rest \subseteq Source
    OBVIOUS
  <2> QED
    BY <2>1, FS_Subset, FS_CardinalityType, SetAssumption
<1>2. Cardinality(rest) < MaxSources
  BY <1>1, LimitAssumption DEF TableFull
<1>3. new \subseteq rest \cup {s} /\ s \notin rest
  OBVIOUS
<1> HIDE DEF new, rest
<1>4. IsFiniteSet(rest \cup {s}) /\ Cardinality(rest \cup {s}) = Cardinality(rest) + 1
  BY <1>1, <1>3, FS_AddElement
<1>5. IsFiniteSet(new) /\ Cardinality(new) <= Cardinality(rest) + 1
  BY <1>3, <1>4, FS_Subset
<1>6. Cardinality(new) \in Nat
  BY <1>5, FS_CardinalityType
<1>7. Cardinality(new) <= MaxSources
  BY <1>1, <1>2, <1>5, <1>6, LimitAssumption
<1> QED
  BY <1>7 DEF TableOK, new
-----------------------------------------------------------------------------
(***************************************************************************)
(* The balances.                                                           *)
(***************************************************************************)
LEMMA AccountLedger ==
    ASSUME spent \in Ledger, NEW who, NEW cost \in Level, Account(who, cost)
    PROVE  /\ spent' \in Ledger
           /\ \A x \in Source \cup Bucket, d \in Dim :
                 spent'[x][d] = IF x \in who THEN spent[x][d] + cost[d] ELSE spent[x][d]
<1>1. DOMAIN spent = Source \cup Bucket /\ \A x \in Source \cup Bucket : spent[x] \in Level
  BY DEF Ledger
<1>2. \A x \in Source \cup Bucket :
         /\ Plus(spent[x], cost) \in Level
         /\ \A d \in Dim : Plus(spent[x], cost)[d] = spent[x][d] + cost[d]
  BY <1>1 DEF Plus, Level
<1>3. spent' = [x \in Source \cup Bucket |->
                   IF x \in who THEN Plus(spent[x], cost) ELSE spent[x]]
  BY <1>1 DEF Account
<1> QED
  BY <1>1, <1>2, <1>3 DEF Ledger

\* Nothing is taken: the books stay.
LEMMA NobodyPays ==
    ASSUME Balanced, UNCHANGED <<spent, overflow>>
    PROVE  Balanced'
<1>1. ASSUME NEW S, NEW d PROVE Sum(S, d)' = Sum(S, d)
  <2>1. Sum(S, d)' = SumFn(spent', d, S)[S]
    BY DEF Sum, MapThenSumSet, MapThenFoldSet, SumFn
  <2> QED
    BY <2>1, SumIsSumFn
<1> SUFFICES ASSUME NEW d \in Dim
             PROVE  /\ spent'[<<"preauth", None>>][d] = Sum(Source, d)' + overflow'[d]
                    /\ spent'[<<"process", None>>][d] = Sum({"session"} \X Grant, d)'
                    /\ \A r \in Room : spent'[<<"room", r>>][d] =
                           Sum({"session"} \X {g \in Grant : RoomOf[g] = r}, d)'
                    /\ spent'[<<"fanout", None>>][d] = Sum({"roomFanout"} \X Room, d)'
  BY DEF Balanced
<1>2. /\ spent[<<"preauth", None>>][d] = Sum(Source, d) + overflow[d]
      /\ spent[<<"process", None>>][d] = Sum({"session"} \X Grant, d)
      /\ \A r \in Room : spent[<<"room", r>>][d] =
             Sum({"session"} \X {g \in Grant : RoomOf[g] = r}, d)
      /\ spent[<<"fanout", None>>][d] = Sum({"roomFanout"} \X Room, d)
  BY DEF Balanced
<1>3. ASSUME NEW r \in Room
      PROVE  spent'[<<"room", r>>][d] = Sum({"session"} \X {g \in Grant : RoomOf[g] = r}, d)'
  BY <1>1, <1>2
<1> QED
  BY <1>1, <1>2, <1>3

LEMMA PreauthPays ==
    ASSUME spent \in Ledger, overflow \in Level, Balanced,
           NEW s \in Source, NEW cost \in Level,
           \/ /\ Account({s} \cup Preauthentication, cost)
              /\ UNCHANGED overflow
           \/ /\ Account(Preauthentication, cost)
              /\ overflow' = Plus(overflow, cost)
    PROVE  spent' \in Ledger /\ overflow' \in Level /\ Balanced'
<1> PICK who : /\ Account(who, cost)
               /\ \/ who = {s} \cup Preauthentication /\ UNCHANGED overflow
                  \/ who = Preauthentication /\ overflow' = Plus(overflow, cost)
  OBVIOUS
<1>1. /\ spent' \in Ledger
      /\ \A x \in Source \cup Bucket, d \in Dim :
            spent'[x][d] = IF x \in who THEN spent[x][d] + cost[d] ELSE spent[x][d]
  BY AccountLedger
<1>2. overflow' \in Level
  BY DEF Plus, Level
<1>3. /\ <<"preauth", None>> \in who
      /\ \A b \in Bucket : b # <<"preauth", None>> => b \notin who
      /\ \A o \in Source : o # s => o \notin who
  <2>1. s \notin Bucket /\ \A o \in Source : o # <<"preauth", None>>
    BY HistoryAssumption, Owners
  <2> QED
    BY <2>1 DEF Preauthentication
<1>4. ASSUME NEW d \in Dim
      PROVE  /\ spent'[<<"preauth", None>>][d] = Sum(Source, d)' + overflow'[d]
             /\ spent'[<<"process", None>>][d] = Sum({"session"} \X Grant, d)'
             /\ \A r \in Room : spent'[<<"room", r>>][d] =
                    Sum({"session"} \X {g \in Grant : RoomOf[g] = r}, d)'
             /\ spent'[<<"fanout", None>>][d] = Sum({"roomFanout"} \X Room, d)'
  <2>1. /\ spent[<<"preauth", None>>][d] = Sum(Source, d) + overflow[d]
        /\ spent[<<"process", None>>][d] = Sum({"session"} \X Grant, d)
        /\ \A r \in Room : spent[<<"room", r>>][d] =
               Sum({"session"} \X {g \in Grant : RoomOf[g] = r}, d)
        /\ spent[<<"fanout", None>>][d] = Sum({"roomFanout"} \X Room, d)
    BY DEF Balanced
  <2>2. ASSUME NEW S \in SUBSET Bucket, IsFiniteSet(S), <<"preauth", None>> \notin S
        PROVE  Sum(S, d)' = Sum(S, d)
    <3>1. \A x \in S : spent'[x][d] = spent[x][d]
      BY <1>1, <1>3, <2>2
    <3> QED
      BY <1>1, <2>2, <3>1, OthersStay
  <2>3. /\ Sum({"session"} \X Grant, d)' = Sum({"session"} \X Grant, d)
        /\ spent'[<<"process", None>>][d] = spent[<<"process", None>>][d]
    BY <1>1, <1>3, <2>2, Owners
  <2>4. /\ Sum({"roomFanout"} \X Room, d)' = Sum({"roomFanout"} \X Room, d)
        /\ spent'[<<"fanout", None>>][d] = spent[<<"fanout", None>>][d]
    BY <1>1, <1>3, <2>2, Owners
  <2>5. ASSUME NEW r \in Room
        PROVE  spent'[<<"room", r>>][d] =
                    Sum({"session"} \X {g \in Grant : RoomOf[g] = r}, d)'
    <3> DEFINE S == {"session"} \X {g \in Grant : RoomOf[g] = r}
    <3>1. S \in SUBSET Bucket /\ IsFiniteSet(S) /\ <<"preauth", None>> \notin S
      BY Owners
    <3>2. Sum(S, d)' = Sum(S, d)
      BY <2>2, <3>1
    <3>3. spent'[<<"room", r>>][d] = spent[<<"room", r>>][d]
      BY <1>1, <1>3, Owners
    <3> QED
      BY <2>1, <3>2, <3>3
  <2>6. spent'[<<"preauth", None>>][d] = spent[<<"preauth", None>>][d] + cost[d]
    BY <1>1, <1>3, Owners
  <2>7. spent'[<<"preauth", None>>][d] = Sum(Source, d)' + overflow'[d]
    <3>1. cost[d] \in Nat /\ overflow[d] \in Nat
      BY DEF Level
    <3>2. Sum(Source, d) \in Nat
      <4>1. \A x \in Source : spent[x][d] \in Nat
        BY DEF Ledger, Level
      <4> QED
        BY <4>1, SumIsSumFn, SumFnIsCount, TokensFinite, Owners
    <3>3. CASE who = {s} \cup Preauthentication /\ UNCHANGED overflow
      <4>1. spent'[s][d] = spent[s][d] + cost[d]
        BY <1>1, <3>3
      <4>2. \A o \in Source \ {s} : spent'[o][d] = spent[o][d]
        BY <1>1, <1>3
      <4>3. Sum(Source, d)' = Sum(Source, d) + cost[d]
        BY <1>1, <3>1, <4>1, <4>2, OnePays, Owners
      <4> QED
        BY <2>1, <2>6, <3>1, <3>2, <3>3, <4>3
    <3>4. CASE who = Preauthentication /\ overflow' = Plus(overflow, cost)
      <4>1. \A o \in Source : spent'[o][d] = spent[o][d]
        BY <1>1, <3>4, HistoryAssumption, Owners DEF Preauthentication
      <4>2. Sum(Source, d)' = Sum(Source, d)
        BY <1>1, <4>1, OthersStay, Owners
      <4>3. overflow'[d] = overflow[d] + cost[d]
        BY <3>4 DEF Plus
      <4> QED
        BY <2>1, <2>6, <3>1, <3>2, <4>2, <4>3
    <3> QED
      BY <3>3, <3>4
  <2> QED
    BY <2>1, <2>3, <2>4, <2>5, <2>7
<1> QED
  BY <1>1, <1>2, <1>4 DEF Balanced

LEMMA IngressPays ==
    ASSUME spent \in Ledger, Balanced, NEW g \in Grant, NEW cost \in Level,
           Account({<<"session", g>>, <<"room", RoomOf[g]>>, <<"process", None>>}, cost),
           UNCHANGED overflow
    PROVE  spent' \in Ledger /\ Balanced'
<1> DEFINE who == {<<"session", g>>, <<"room", RoomOf[g]>>, <<"process", None>>}
<1>0. RoomOf[g] \in Room
  BY SetAssumption
<1>1. /\ spent' \in Ledger
      /\ \A x \in Source \cup Bucket, d \in Dim :
            spent'[x][d] = IF x \in who THEN spent[x][d] + cost[d] ELSE spent[x][d]
  BY AccountLedger
<1>2. /\ <<"session", g>> \in who /\ <<"room", RoomOf[g]>> \in who /\ <<"process", None>> \in who
      /\ <<"preauth", None>> \notin who /\ <<"fanout", None>> \notin who
      /\ \A x \in Source : x \notin who
      /\ \A h \in Grant : h # g => <<"session", h>> \notin who
      /\ \A r \in Room : <<"roomFanout", r>> \notin who
      /\ \A r \in Room : r # RoomOf[g] => <<"room", r>> \notin who
  <2>1. who \subseteq Bucket
    BY <1>0, Owners
  <2>2. \A x \in Source : x \notin who
    BY <2>1, HistoryAssumption
  <2> QED
    BY <2>2
<1> HIDE DEF who
<1>3. ASSUME NEW d \in Dim
      PROVE  /\ spent'[<<"preauth", None>>][d] = Sum(Source, d)' + overflow'[d]
             /\ spent'[<<"process", None>>][d] = Sum({"session"} \X Grant, d)'
             /\ \A r \in Room : spent'[<<"room", r>>][d] =
                    Sum({"session"} \X {h \in Grant : RoomOf[h] = r}, d)'
             /\ spent'[<<"fanout", None>>][d] = Sum({"roomFanout"} \X Room, d)'
  <2>1. /\ spent[<<"preauth", None>>][d] = Sum(Source, d) + overflow[d]
        /\ spent[<<"process", None>>][d] = Sum({"session"} \X Grant, d)
        /\ \A r \in Room : spent[<<"room", r>>][d] =
               Sum({"session"} \X {h \in Grant : RoomOf[h] = r}, d)
        /\ spent[<<"fanout", None>>][d] = Sum({"roomFanout"} \X Room, d)
    BY DEF Balanced
  <2>2. ASSUME NEW S \in SUBSET (Source \cup Bucket), IsFiniteSet(S), S \cap who = {}
        PROVE  Sum(S, d)' = Sum(S, d)
    <3>1. \A x \in S : spent'[x][d] = spent[x][d]
      BY <1>1, <2>2
    <3> QED
      BY <1>1, <2>2, <3>1, OthersStay
  <2>3. cost[d] \in Nat
    BY DEF Level
  <2>4. ASSUME NEW S \in SUBSET ({"session"} \X Grant), IsFiniteSet(S), <<"session", g>> \in S
        PROVE  Sum(S, d)' = Sum(S, d) + cost[d]
    <3>1. S \in SUBSET (Source \cup Bucket)
      BY Owners
    <3>2. spent'[<<"session", g>>][d] = spent[<<"session", g>>][d] + cost[d]
      BY <1>1, <1>2, Owners
    <3>3. \A x \in S \ {<<"session", g>>} : spent'[x][d] = spent[x][d]
      BY <1>1, <1>2, <3>1
    <3> QED
      BY <1>1, <2>3, <2>4, <3>1, <3>2, <3>3, OnePays
  <2>5. spent'[<<"preauth", None>>][d] = Sum(Source, d)' + overflow'[d]
    <3>1. Sum(Source, d)' = Sum(Source, d)
      BY <1>2, <2>2, Owners
    <3>2. spent'[<<"preauth", None>>][d] = spent[<<"preauth", None>>][d]
      BY <1>1, <1>2, Owners
    <3> QED
      BY <2>1, <3>1, <3>2
  <2>6. spent'[<<"fanout", None>>][d] = Sum({"roomFanout"} \X Room, d)'
    <3>1. Sum({"roomFanout"} \X Room, d)' = Sum({"roomFanout"} \X Room, d)
      <4>1. ({"roomFanout"} \X Room) \cap who = {}
        BY <1>2
      <4> QED
        BY <4>1, <2>2, Owners
    <3>2. spent'[<<"fanout", None>>][d] = spent[<<"fanout", None>>][d]
      BY <1>1, <1>2, Owners
    <3> QED
      BY <2>1, <3>1, <3>2
  <2>7. spent'[<<"process", None>>][d] = Sum({"session"} \X Grant, d)'
    <3>1. Sum({"session"} \X Grant, d)' = Sum({"session"} \X Grant, d) + cost[d]
      BY <2>4, Owners
    <3>2. spent'[<<"process", None>>][d] = spent[<<"process", None>>][d] + cost[d]
      BY <1>1, <1>2, Owners
    <3> QED
      BY <2>1, <3>1, <3>2
  <2>8. ASSUME NEW r \in Room
        PROVE  spent'[<<"room", r>>][d] =
                    Sum({"session"} \X {h \in Grant : RoomOf[h] = r}, d)'
    <3> DEFINE S == {"session"} \X {h \in Grant : RoomOf[h] = r}
    <3>1. IsFiniteSet(S) /\ S \subseteq {"session"} \X Grant /\ S \subseteq Source \cup Bucket
      BY Owners
    <3>2. spent[<<"room", r>>][d] = Sum(S, d)
      BY <2>1
    <3>3. CASE r = RoomOf[g]
      <4>1. <<"session", g>> \in S
        BY <3>3
      <4>2. Sum(S, d)' = Sum(S, d) + cost[d]
        BY <2>4, <3>1, <4>1
      <4>3. spent'[<<"room", r>>][d] = spent[<<"room", r>>][d] + cost[d]
        BY <1>1, <1>2, <3>3, Owners
      <4> QED
        BY <3>2, <4>2, <4>3
    <3>4. CASE r # RoomOf[g]
      <4>1. S \cap who = {}
        BY <1>2, <3>4
      <4>2. Sum(S, d)' = Sum(S, d)
        BY <2>2, <3>1, <4>1
      <4>3. spent'[<<"room", r>>][d] = spent[<<"room", r>>][d]
        BY <1>1, <1>2, <3>4, Owners
      <4> QED
        BY <3>2, <4>2, <4>3
    <3> QED
      BY <3>3, <3>4
  <2> QED
    BY <2>5, <2>6, <2>7, <2>8
<1> QED
  BY <1>1, <1>3 DEF Balanced

LEMMA FanoutPays ==
    ASSUME spent \in Ledger, Balanced, NEW r \in Room, NEW cost \in Level,
           Account({<<"roomFanout", r>>, <<"fanout", None>>}, cost), UNCHANGED overflow
    PROVE  spent' \in Ledger /\ Balanced'
<1> DEFINE who == {<<"roomFanout", r>>, <<"fanout", None>>}
<1>1. /\ spent' \in Ledger
      /\ \A x \in Source \cup Bucket, d \in Dim :
            spent'[x][d] = IF x \in who THEN spent[x][d] + cost[d] ELSE spent[x][d]
  BY AccountLedger
<1>2. /\ <<"roomFanout", r>> \in who /\ <<"fanout", None>> \in who
      /\ <<"preauth", None>> \notin who /\ <<"process", None>> \notin who
      /\ \A x \in Source : x \notin who
      /\ \A h \in Grant : <<"session", h>> \notin who
      /\ \A o \in Room : <<"room", o>> \notin who
      /\ \A o \in Room : o # r => <<"roomFanout", o>> \notin who
  <2>1. who \subseteq Bucket
    BY Owners
  <2>2. \A x \in Source : x \notin who
    BY <2>1, HistoryAssumption
  <2> QED
    BY <2>2
<1> HIDE DEF who
<1>3. ASSUME NEW d \in Dim
      PROVE  /\ spent'[<<"preauth", None>>][d] = Sum(Source, d)' + overflow'[d]
             /\ spent'[<<"process", None>>][d] = Sum({"session"} \X Grant, d)'
             /\ \A o \in Room : spent'[<<"room", o>>][d] =
                    Sum({"session"} \X {h \in Grant : RoomOf[h] = o}, d)'
             /\ spent'[<<"fanout", None>>][d] = Sum({"roomFanout"} \X Room, d)'
  <2>1. /\ spent[<<"preauth", None>>][d] = Sum(Source, d) + overflow[d]
        /\ spent[<<"process", None>>][d] = Sum({"session"} \X Grant, d)
        /\ \A o \in Room : spent[<<"room", o>>][d] =
               Sum({"session"} \X {h \in Grant : RoomOf[h] = o}, d)
        /\ spent[<<"fanout", None>>][d] = Sum({"roomFanout"} \X Room, d)
    BY DEF Balanced
  <2>2. ASSUME NEW S \in SUBSET (Source \cup Bucket), IsFiniteSet(S), S \cap who = {}
        PROVE  Sum(S, d)' = Sum(S, d)
    <3>1. \A x \in S : spent'[x][d] = spent[x][d]
      BY <1>1, <2>2
    <3> QED
      BY <1>1, <2>2, <3>1, OthersStay
  <2>3. \A x \in {"session"} \X Grant : x \notin who
    BY <1>2
  <2>4. spent'[<<"preauth", None>>][d] = Sum(Source, d)' + overflow'[d]
    <3>1. Sum(Source, d)' = Sum(Source, d)
      BY <1>2, <2>2, Owners
    <3>2. spent'[<<"preauth", None>>][d] = spent[<<"preauth", None>>][d]
      BY <1>1, <1>2, Owners
    <3> QED
      BY <2>1, <3>1, <3>2
  <2>5. spent'[<<"process", None>>][d] = Sum({"session"} \X Grant, d)'
    <3>1. Sum({"session"} \X Grant, d)' = Sum({"session"} \X Grant, d)
      BY <2>2, <2>3, Owners
    <3>2. spent'[<<"process", None>>][d] = spent[<<"process", None>>][d]
      BY <1>1, <1>2, Owners
    <3> QED
      BY <2>1, <3>1, <3>2
  <2>6. ASSUME NEW o \in Room
        PROVE  spent'[<<"room", o>>][d] =
                    Sum({"session"} \X {h \in Grant : RoomOf[h] = o}, d)'
    <3> DEFINE S == {"session"} \X {h \in Grant : RoomOf[h] = o}
    <3>1. IsFiniteSet(S) /\ S \subseteq {"session"} \X Grant /\ S \subseteq Source \cup Bucket
      BY Owners
    <3>2. Sum(S, d)' = Sum(S, d)
      BY <2>2, <2>3, <3>1
    <3>3. spent'[<<"room", o>>][d] = spent[<<"room", o>>][d]
      BY <1>1, <1>2, Owners
    <3> QED
      BY <2>1, <3>2, <3>3
  <2>7. spent'[<<"fanout", None>>][d] = Sum({"roomFanout"} \X Room, d)'
    <3> DEFINE S == {"roomFanout"} \X Room
    <3>1. IsFiniteSet(S) /\ S \in SUBSET (Source \cup Bucket) /\ <<"roomFanout", r>> \in S
      BY Owners
    <3>2. spent'[<<"roomFanout", r>>][d] = spent[<<"roomFanout", r>>][d] + cost[d]
      BY <1>1, <1>2, Owners
    <3>3. \A x \in S \ {<<"roomFanout", r>>} : spent'[x][d] = spent[x][d]
      BY <1>1, <1>2, <3>1
    <3>4. cost[d] \in Nat
      BY DEF Level
    <3>5. spent'[<<"fanout", None>>][d] = spent[<<"fanout", None>>][d] + cost[d]
      BY <1>1, <1>2, Owners
    <3>6. spent[<<"fanout", None>>][d] = Sum(S, d)
      BY <2>1
    <3> HIDE DEF S
    <3>7. Sum(S, d)' = Sum(S, d) + cost[d]
      BY <1>1, <3>1, <3>2, <3>3, <3>4, OnePays
    <3> QED
      BY <3>5, <3>6, <3>7 DEF S
  <2> QED
    BY <2>4, <2>5, <2>6, <2>7
<1> QED
  BY <1>1, <1>3 DEF Balanced
-----------------------------------------------------------------------------
(***************************************************************************)
(* Every step keeps the books.                                             *)
(***************************************************************************)
LEMMA FanoutCost ==
    ASSUME NEW n \in Nat, NEW size \in Size
    PROVE  Cost(n, size) \in Level
<1>1. size \in Nat
  BY LimitAssumption
<1>2. n * size \in Nat
  BY <1>1
<1> QED
  BY <1>2 DEF Cost, Level

LEMMA PreauthBooks ==
    ASSUME IInv, Books, NEW s \in Source, NEW size \in Size, AdmitPreauth(s, size)
    PROVE  Books'
<1> DEFINE cost == Cost(1, size)
<1>0. cost \in Level /\ LevelsOK /\ TableOK /\ spent \in Ledger /\ overflow \in Level /\ Balanced
  BY CostIsLevel DEF Books
<1> HIDE DEF cost
<1>1. ASSUME UNCHANGED <<levels, spent, overflow>>
      PROVE  /\ LevelsOK' /\ spent' \in Ledger /\ overflow' \in Level /\ Balanced'
  <2>1. Balanced'
    BY <1>0, <1>1, NobodyPays
  <2> QED
    BY <1>0, <1>1, <2>1 DEF LevelsOK
<1>2. ASSUME Allowed(Preauthentication, cost), Charge(Preauthentication, cost),
             Account({s} \cup Preauthentication, cost), UNCHANGED overflow
      PROVE  /\ LevelsOK' /\ spent' \in Ledger /\ overflow' \in Level /\ Balanced'
  BY <1>0, <1>2, ChargeLevels, PreauthPays
<1>3. CASE RefuseNewcomer(s, cost)
  <2>1. TableOK'
    BY <1>0, <1>3, NoNewRecord DEF RefuseNewcomer, IInv
  <2>2. CASE Allowed(Preauthentication, cost)
    <3>1. /\ Charge(Preauthentication, cost) /\ Account(Preauthentication, cost)
          /\ overflow' = Plus(overflow, cost)
      BY <1>3, <2>2 DEF RefuseNewcomer, Ask
    <3>2. LevelsOK'
      BY <1>0, <2>2, <3>1, ChargeLevels
    <3>3. spent' \in Ledger /\ overflow' \in Level /\ Balanced'
      BY <1>0, <3>1, PreauthPays
    <3> QED
      BY <2>1, <3>2, <3>3 DEF Books
  <2>3. CASE ~Allowed(Preauthentication, cost)
    <3>1. UNCHANGED <<levels, spent, overflow>>
      BY <1>3, <2>3 DEF RefuseNewcomer, Ask
    <3> QED
      BY <1>1, <2>1, <3>1 DEF Books
  <2> QED
    BY <2>2, <2>3
<1>4. CASE AdmitNewcomer(s, cost)
  <2>1. ~TableFull(s) /\ \A r \in Source \ {s} : table'[r] = table[r]
    BY <1>4 DEF AdmitNewcomer, IInv
  <2>2. TableOK'
    BY <2>1, RoomForNewcomer
  <2> QED
    BY <1>1, <1>2, <1>4, <2>2 DEF AdmitNewcomer, Books
<1>5. CASE AdmitKnown(s, cost)
  <2>1. TableOK'
    BY <1>0, <1>5, NoNewRecord DEF AdmitKnown, Forgotten, IInv
  <2> QED
    BY <1>1, <1>2, <1>5, <2>1 DEF AdmitKnown, Books
<1> QED
  BY <1>3, <1>4, <1>5 DEF AdmitPreauth, cost

LEMMA IngressBooks ==
    ASSUME Books, NEW g \in Grant, NEW size \in Size, AdmitIngress(g, size)
    PROVE  Books'
<1> DEFINE cost == Cost(1, size)
           group == {<<"session", g>>, <<"room", RoomOf[g]>>, <<"process", None>>}
<1>0. cost \in Level /\ LevelsOK /\ TableOK /\ spent \in Ledger /\ overflow \in Level /\ Balanced
  BY CostIsLevel DEF Books
<1>1. Ask(group, cost) /\ UNCHANGED <<now, table, overflow>>
  BY DEF AdmitIngress
<1>2. TableOK' /\ overflow' \in Level
  BY <1>0, <1>1 DEF TableOK
<1> HIDE DEF cost
<1>3. CASE Allowed(group, cost)
  <2>1. Charge(group, cost) /\ Account(group, cost)
    BY <1>1, <1>3 DEF Ask
  <2>2. LevelsOK'
    BY <1>0, <1>3, <2>1, ChargeLevels
  <2>3. spent' \in Ledger /\ Balanced'
    BY <1>0, <1>1, <2>1, IngressPays
  <2> QED
    BY <1>2, <2>2, <2>3 DEF Books
<1>4. CASE ~Allowed(group, cost)
  <2>1. UNCHANGED <<levels, spent, overflow>>
    BY <1>1, <1>4 DEF Ask
  <2>2. Balanced'
    BY <1>0, <2>1, NobodyPays
  <2> QED
    BY <1>0, <1>2, <2>1, <2>2 DEF Books, LevelsOK
<1> QED
  BY <1>3, <1>4

LEMMA FanoutBooks ==
    ASSUME Books, NEW r \in Room, NEW size \in Size, NEW n \in Nat, AdmitFanout(r, n, size)
    PROVE  Books'
<1> DEFINE cost == Cost(n, size)
           group == {<<"roomFanout", r>>, <<"fanout", None>>}
<1>0. cost \in Level /\ LevelsOK /\ TableOK /\ spent \in Ledger /\ overflow \in Level /\ Balanced
  BY FanoutCost DEF Books
<1>1. Ask(group, cost) /\ UNCHANGED <<now, table, overflow>>
  BY DEF AdmitFanout
<1>2. TableOK' /\ overflow' \in Level
  BY <1>0, <1>1 DEF TableOK
<1> HIDE DEF cost
<1>3. CASE Allowed(group, cost)
  <2>1. Charge(group, cost) /\ Account(group, cost)
    BY <1>1, <1>3 DEF Ask
  <2>2. LevelsOK'
    BY <1>0, <1>3, <2>1, ChargeLevels
  <2>3. spent' \in Ledger /\ Balanced'
    BY <1>0, <1>1, <2>1, FanoutPays
  <2> QED
    BY <1>2, <2>2, <2>3 DEF Books
<1>4. CASE ~Allowed(group, cost)
  <2>1. UNCHANGED <<levels, spent, overflow>>
    BY <1>1, <1>4 DEF Ask
  <2>2. Balanced'
    BY <1>0, <2>1, NobodyPays
  <2> QED
    BY <1>0, <1>2, <2>1, <2>2 DEF Books, LevelsOK
<1> QED
  BY <1>3, <1>4

\* A step that only moves the clock or drops records.
LEMMA QuietBooks ==
    ASSUME Books, UNCHANGED <<spent, overflow>>, LevelsOK',
           \A s \in Source : table[s] = None => table'[s] = None
    PROVE  Books'
<1>1. Balanced'
  BY NobodyPays DEF Books
<1>2. TableOK'
  BY NoNewRecord DEF Books
<1> QED
  BY <1>1, <1>2 DEF Books

LEMMA StepBooks == ASSUME IInv, Books, [Next]_vars PROVE Books'
<1>1. ASSUME NEW s \in Source, NEW size \in Size, AdmitPreauth(s, size) PROVE Books'
  BY <1>1, PreauthBooks
<1>2. ASSUME NEW g \in Grant, NEW size \in Size, AdmitIngress(g, size) PROVE Books'
  BY <1>2, IngressBooks
<1>3. ASSUME NEW r \in Room, NEW size \in Size,
             NEW n \in 1 .. Cardinality({g \in Grant : RoomOf[g] = r}) - 1,
             AdmitFanout(r, n, size)
      PROVE  Books'
  <2>1. IsFiniteSet({g \in Grant : RoomOf[g] = r})
    <3>1. {g \in Grant : RoomOf[g] = r} \subseteq Grant
      OBVIOUS
    <3> QED
      BY <3>1, SetAssumption, FS_Subset
  <2>2. Cardinality({g \in Grant : RoomOf[g] = r}) \in Nat
    BY <2>1, FS_CardinalityType
  <2>3. n \in Nat
    BY <2>2
  <2> QED
    BY <1>3, <2>3, FanoutBooks
<1>4. CASE Expire
  <2>1. LevelsOK'
    BY <1>4 DEF Expire, Books, LevelsOK
  <2> QED
    BY <1>4, <2>1, QuietBooks DEF Expire
<1>5. CASE Tick
  <2>1. LevelsOK'
    BY <1>5, TickLevels DEF Books
  <2> QED
    BY <1>5, <2>1, QuietBooks DEF Tick
<1>6. CASE UNCHANGED vars
  <2>1. LevelsOK'
    BY <1>6 DEF vars, Books, LevelsOK
  <2> QED
    BY <1>6, <2>1, QuietBooks DEF vars
<1> QED
  BY <1>1, <1>2, <1>3, <1>4, <1>5, <1>6 DEF Next

\* The books balance (allowAtomic and admitPreauthLocked): after any sequence
\* of admissions and refusals, what the process limiters have given out is what
\* the limiters below them have, to the byte, but for what was taken while the
\* table was full; no level is above its burst and no table over its limit.
THEOREM EveryTokenIsAccounted == Spec => []BooksBalance
<1>1. Init => IInv /\ Books
  BY InitIInv, InitBooks
<1>2. IInv /\ Books /\ [Next]_vars => IInv' /\ Books'
  BY StepIInv, StepBooks
<1>3. IInv /\ Books => BooksBalance
  BY DEF IInv, Books, BooksBalance, TypeOK, LevelsOK, TableOK, Balanced, Ledger, Level, Record
<1> QED
  BY <1>1, <1>2, <1>3, PTL DEF Spec
=============================================================================
