----------------------------- MODULE HttpApi_proof -----------------------------
(***************************************************************************)
(* Proofs about the HTTP APIs, for any number of connections, rooms and    *)
(* tokens, any limits and any timeouts in the order the code gives them.   *)
(* The invariant ties the time a request has been under way to what was    *)
(* looked at when it arrived: its token, and the room it is about.         *)
(***************************************************************************)
EXTENDS HttpApi, FiniteSetTheorems, TLAPS

Held(a) == {x \in Exchange : http[x] # None /\ ~At(x, "admitted") /\ ApiOf(http[x].op) = a}

Places == \A a \in Api : slots[a] = Cardinality(Held(a)) /\ slots[a] <= MaxConcurrent[a]

\* A request is over its body by the deadline of the connection, and at the
\* backend before that.
Timely ==
    \A x \in Exchange : http[x] # None =>
        /\ http[x].began <= now /\ now <= http[x].began + ReadTimeout
        /\ http[x].stage \in {"admitted", "call"} => now < http[x].began + ReadTimeout

\* The token was good when the request arrived, and the key is still the same.
Authorized ==
    \A x \in Exchange : http[x] # None /\ http[x].op.do \in {"change", "look"} =>
        http[x].op.token.key = key /\ http[x].began < http[x].op.token.expires

\* The tombstone of a room stays as long as a request it overtook can go on.
Buried ==
    \A x \in Exchange : http[x] # None /\ http[x].overtaken =>
        /\ http[x].op.do = "put"
        /\ \/ now >= http[x].began + ReadTimeout
           \/ LET room == rooms[http[x].op.room]
              IN  room.state = "tombstone" /\ room.until >= http[x].began + ReadTimeout

\* An answer is not lost but on a connection that was closed before.
Answered ==
    /\ FatalIsAnswered
    /\ fatal = "unanswered" => closed # "no"
    /\ \A x \in Exchange : At(x, "unsent") => closed # "no"

IInv == TypeOK /\ Places /\ Timely /\ Authorized /\ Buried /\ Answered
-----------------------------------------------------------------------------
(***************************************************************************)
(* What is known of requests, of limits and of a change of stage.          *)
(***************************************************************************)
LEMMA Limits ==
    /\ ReadTimeout \in Nat /\ ReadTimeout >= 1 /\ Burst \in Nat /\ Burst >= 1
    /\ TombstoneTTL \in Nat /\ ReadTimeout <= TombstoneTTL
    /\ Rate \in Nat /\ MaxTokens \in Nat /\ MaxStarts \in Nat /\ MaxTime \in Nat
    /\ \A a \in Api : MaxConcurrent[a] \in Nat /\ MaxConcurrent[a] >= 1
    /\ \A e \in Expiry : e \in Nat
    /\ TokenTTL \in Nat /\ TokenTTL >= 1
  <1>1. ReadTimeout \in Nat \ {0} /\ Burst \in Nat \ {0} /\ TokenTTL \in Nat \ {0}
    BY HttpAssumption, TokenAssumption
  <1>2. Rate \in Nat /\ MaxTokens \in Nat /\ MaxStarts \in Nat /\ MaxTime \in Nat
    BY HttpAssumption
  <1>3. \A a \in Api : MaxConcurrent[a] \in Nat \ {0}
    BY HttpAssumption
  <1>4. \A e \in Expiry : e \in Nat
    BY HttpAssumption
  <1>5. TombstoneTTL \in Nat /\ ReadTimeout <= TombstoneTTL
    BY HttpAssumption
  <1> QED
    BY <1>1, <1>2, <1>3, <1>4, <1>5

\* What an operation is about.
LEMMA OperationShape ==
    ASSUME NEW known, NEW op \in OperationOn(known)
    PROVE  /\ op.do \in {"put", "get", "delete", "issue", "change", "look"}
           /\ op.do = "put" => op.room \in Room /\ op.expires \in Expiry
           /\ op.do = "delete" => op.room \in Room
           /\ op.do = "issue" => op.player \in Player
           /\ op.do \in {"change", "look"} => op.token \in known
           /\ ApiOf(op) \in Api
  <1>1. CASE op \in [do : {"put"}, room : Room, expires : Expiry]
    BY <1>1 DEF ApiOf, Api
  <1>2. CASE op \in [do : {"get", "delete"}, room : Room]
    BY <1>2 DEF ApiOf, Api
  <1>3. CASE op \in [do : {"issue"}, player : Player]
    BY <1>3 DEF ApiOf, Api
  <1>4. CASE op \in [do : {"change", "look"}, token : known]
    BY <1>4 DEF ApiOf, Api
  <1> QED
    BY <1>1, <1>2, <1>3, <1>4 DEF OperationOn

\* A token more in the hands of the players takes no operation away.
LEMMA OperationGrows ==
    ASSUME NEW known, NEW more, known \subseteq more
    PROVE  OperationOn(known) \subseteq OperationOn(more)
  BY DEF OperationOn

\* The fields of a request, and that it is none of the absent ones.
LEMMA RequestShape ==
    ASSUME NEW known \in SUBSET Token, NEW q
    PROVE  /\ q \in RequestOn(known) =>
                /\ q # None
                /\ q.stage \in Stage /\ q.op \in OperationOn(known)
                /\ q.began \in Nat /\ q.overtaken \in BOOLEAN
           /\ q \in RequestOn(known) => \A more : known \subseteq more => q \in RequestOn(more)
  <1>1. OperationOn(known) \subseteq OperationOn(Token)
    BY OperationGrows
  <1>2. q \in RequestOn(known) => q \in RequestOn(Token)
    BY <1>1 DEF RequestOn
  <1>3. q \in RequestOn(known) => q # None
    BY <1>2, ExchangeAssumption
  <1>4. ASSUME q \in RequestOn(known), NEW more, known \subseteq more
        PROVE  q \in RequestOn(more)
    BY <1>4, OperationGrows DEF RequestOn
  <1> QED
    BY <1>3, <1>4 DEF RequestOn

\* A request moves to another stage and is the same otherwise, and so are all others.
LEMMA GotoFrame ==
    ASSUME TypeOK, NEW x \in Exchange, http[x] # None, NEW there \in Stage, Goto(x, there)
    PROVE  /\ http' \in [Exchange -> {None} \cup RequestOn(tokens)]
           /\ http'[x] # None /\ http'[x].stage = there /\ http'[x].op = http[x].op
           /\ http'[x].began = http[x].began /\ http'[x].overtaken = http[x].overtaken
           /\ \A y \in Exchange : y # x => http'[y] = http[y]
  <1> DEFINE q == [http[x] EXCEPT !.stage = there]
  <1>1. http \in [Exchange -> {None} \cup RequestOn(tokens)] /\ tokens \subseteq Token
    BY DEF TypeOK
  <1>2. http[x] \in RequestOn(tokens)
    BY <1>1
  <1>3. /\ q \in RequestOn(tokens) /\ q.stage = there /\ q.op = http[x].op
        /\ q.began = http[x].began /\ q.overtaken = http[x].overtaken
    BY <1>2 DEF RequestOn
  <1>4. http' = [http EXCEPT ![x] = q]
    BY DEF Goto
  <1>5. q # None
    BY <1>1, <1>3, RequestShape
  <1> HIDE DEF q
  <1> QED
    BY <1>1, <1>3, <1>4, <1>5

LEMMA InitIInv == Init => IInv
  <1> SUFFICES ASSUME Init PROVE IInv
    OBVIOUS
  <1> USE Limits
  <1>1. \A x \in Exchange : http[x] = None
    BY DEF Init
  <1>2. TypeOK
    <2>1. budget \in [Api -> 0 .. Burst] /\ slots \in [Api -> Nat]
      BY DEF Init
    <2>2. http \in [Exchange -> {None} \cup RequestOn(tokens)]
      BY DEF Init
    <2>3. rooms \in [Room -> [state : {"absent", "open", "tombstone"}, until : Nat]]
      BY DEF Init, Absent
    <2>4. now \in Nat /\ key \in Nat /\ tokens \subseteq Token
      BY DEF Init
    <2>5. fatal = "no" /\ closed = "no"
      BY DEF Init
    <2> QED
      BY <2>1, <2>2, <2>3, <2>4, <2>5 DEF TypeOK
  <1>3. Places
    <2>1. \A a \in Api : Held(a) = {}
      BY <1>1 DEF Held
    <2> QED
      BY <2>1, FS_EmptySet DEF Places, Init
  <1>4. Timely /\ Authorized /\ Buried
    BY <1>1 DEF Timely, Authorized, Buried
  <1>5. Answered
    BY <1>1 DEF Answered, FatalIsAnswered, At, Init
  <1> QED
    BY <1>2, <1>3, <1>4, <1>5 DEF IInv
-----------------------------------------------------------------------------
\* A handler goes on to its next stage, holding its place, and what it did to the
\* rooms left the tombstones that are not due alone.
LEMMA MoveIInv ==
    ASSUME IInv, NEW x \in Exchange, http[x] # None, http[x].stage # "admitted",
           NEW there \in Stage \ {"admitted"}, Goto(x, there),
           UNCHANGED <<now, key, budget, slots, closed>>,
           tokens \subseteq tokens', tokens' \subseteq Token,
           rooms' \in [Room -> [state : {"absent", "open", "tombstone"}, until : Nat]],
           \A r \in Room : rooms[r].state = "tombstone" /\ now < rooms[r].until => rooms'[r] = rooms[r],
           fatal' = fatal \/ (fatal = "no" /\ fatal' \in {"answered", "unanswered"}),
           fatal' = "unanswered" => closed # "no" \/ fatal = "unanswered",
           there = "call" => now < http[x].began + ReadTimeout,
           there = "unsent" => closed # "no"
    PROVE  IInv'
  <1> USE Limits
  <1>0. TypeOK /\ now \in Nat
    BY DEF IInv, TypeOK
  <1>1. /\ http' \in [Exchange -> {None} \cup RequestOn(tokens)]
        /\ http'[x] # None /\ http'[x].stage = there /\ http'[x].op = http[x].op
        /\ http'[x].began = http[x].began /\ http'[x].overtaken = http[x].overtaken
        /\ \A y \in Exchange : y # x => http'[y] = http[y]
    BY <1>0, GotoFrame
  <1>2. \A y \in Exchange : http'[y] # None =>
            /\ http[y] # None /\ http[y] \in RequestOn(tokens)
            /\ http'[y].op = http[y].op /\ http'[y].began = http[y].began
            /\ http'[y].overtaken = http[y].overtaken
    BY <1>0, <1>1 DEF TypeOK
  <1>3. TypeOK'
    <2>1. RequestOn(tokens) \subseteq RequestOn(tokens')
      BY <1>0, RequestShape DEF TypeOK
    <2>2. http' \in [Exchange -> {None} \cup RequestOn(tokens')]
      BY <1>1, <2>1
    <2> QED
      BY <2>2 DEF IInv, TypeOK
  <1>4. Places'
    <2>1. \A a \in Api : Held(a)' = Held(a)
      BY <1>1, <1>2 DEF Held, At
    <2> QED
      BY <2>1 DEF IInv, Places
  <1>5. Timely'
    BY <1>1, <1>2 DEF IInv, Timely
  <1>6. Authorized'
    BY <1>2 DEF IInv, Authorized
  <1>7. Buried'
    <2> SUFFICES ASSUME NEW y \in Exchange, http'[y] # None, http'[y].overtaken
                 PROVE  /\ http'[y].op.do = "put"
                        /\ \/ now' >= http'[y].began + ReadTimeout
                           \/ LET room == rooms'[http'[y].op.room]
                              IN  room.state = "tombstone" /\ room.until >= http'[y].began + ReadTimeout
      BY DEF Buried
    <2>1. /\ http[y].op.do = "put"
          /\ \/ now >= http[y].began + ReadTimeout
             \/ LET room == rooms[http[y].op.room]
                IN  room.state = "tombstone" /\ room.until >= http[y].began + ReadTimeout
      BY <1>2 DEF IInv, Buried
    <2>2. http[y].op.room \in Room /\ http[y].began \in Nat
      BY <1>0, <1>2, <2>1, RequestShape, OperationShape DEF TypeOK
    <2>3. rooms[http[y].op.room].until \in Nat
      BY <1>0, <2>2 DEF TypeOK
    <2>4. CASE now >= http[y].began + ReadTimeout
      BY <1>2, <2>1, <2>4
    <2>5. CASE ~(now >= http[y].began + ReadTimeout)
      <3>1. /\ rooms[http[y].op.room].state = "tombstone"
            /\ now < rooms[http[y].op.room].until
            /\ rooms[http[y].op.room].until >= http[y].began + ReadTimeout
        BY <1>0, <2>1, <2>2, <2>3, <2>5
      <3>2. rooms'[http[y].op.room] = rooms[http[y].op.room]
        BY <2>2, <3>1
      <3> QED
        BY <1>2, <2>1, <3>1, <3>2
    <2> QED
      BY <2>4, <2>5
  <1>8. Answered'
    <2>1. FatalIsAnswered'
      BY DEF IInv, Answered, FatalIsAnswered
    <2>2. fatal' = "unanswered" => closed' # "no"
      BY DEF IInv, Answered
    <2>3. \A y \in Exchange : At(y, "unsent")' => closed' # "no"
      BY <1>1 DEF IInv, Answered, At
    <2> QED
      BY <2>1, <2>2, <2>3 DEF Answered
  <1> QED
    BY <1>3, <1>4, <1>5, <1>6, <1>7, <1>8 DEF IInv

\* A request that is gone was held to nothing any more.
LEMMA GoneIInv ==
    ASSUME IInv, NEW x \in Exchange, http[x] # None,
           http' = [http EXCEPT ![x] = None],
           UNCHANGED <<now, key, budget, rooms, fatal, closed, tokens>>,
           slots' \in [Api -> Nat], Places'
    PROVE  IInv'
  <1>1. /\ http'[x] = None
        /\ \A y \in Exchange : y # x => http'[y] = http[y]
        /\ http' \in [Exchange -> {None} \cup RequestOn(tokens)]
    BY DEF IInv, TypeOK
  <1>2. TypeOK'
    BY <1>1 DEF IInv, TypeOK
  <1>3. Timely' /\ Authorized' /\ Buried'
    BY <1>1 DEF IInv, Timely, Authorized, Buried
  <1>4. Answered'
    BY <1>1 DEF IInv, Answered, FatalIsAnswered, At
  <1> QED
    BY <1>2, <1>3, <1>4 DEF IInv

LEMMA HeldFinite == \A a : IsFiniteSet(Held(a))
  BY ExchangeAssumption, FS_Subset DEF Held

\* A request takes a place, or is answered 503 and gone.
LEMMA EnterIInv ==
    ASSUME IInv, NEW x \in Exchange, Enter(x)
    PROVE  IInv'
  <1> USE Limits
  <1>0. /\ TypeOK /\ http[x] # None /\ http[x].stage = "admitted" /\ http[x] \in RequestOn(tokens)
        /\ UNCHANGED <<now, key, budget, rooms, fatal, closed, tokens>>
    BY DEF IInv, Enter, At, TypeOK
  <1>1. PICK api \in Api : api = ApiOf(http[x].op)
    BY <1>0, RequestShape, OperationShape DEF TypeOK
  <1>2. slots[api] \in Nat /\ slots \in [Api -> Nat]
    BY <1>0, <1>1 DEF TypeOK
  <1>3. CASE http' = [http EXCEPT ![x] = None] /\ UNCHANGED slots
    <2>1. http'[x] = None /\ \A y \in Exchange : y # x => http'[y] = http[y]
      BY <1>0, <1>3 DEF TypeOK
    <2>2. \A a \in Api : Held(a)' = Held(a)
      BY <1>0, <2>1 DEF Held, At
    <2>3. Places'
      BY <1>3, <2>2 DEF IInv, Places
    <2> QED
      BY <1>0, <1>2, <1>3, <2>3, GoneIInv
  <1>4. ASSUME NEW there \in {"body", "call"}, Goto(x, there),
               slots[api] < MaxConcurrent[api], slots' = [slots EXCEPT ![api] = @ + 1]
        PROVE  IInv'
    <2>0. there \in Stage
      BY DEF Stage
    <2>1. /\ http' \in [Exchange -> {None} \cup RequestOn(tokens)]
          /\ http'[x] # None /\ http'[x].stage = there /\ http'[x].op = http[x].op
          /\ http'[x].began = http[x].began /\ http'[x].overtaken = http[x].overtaken
          /\ \A y \in Exchange : y # x => http'[y] = http[y]
      BY <1>0, <1>4, <2>0, GotoFrame
    <2>2. TypeOK'
      BY <1>0, <1>1, <1>2, <1>4, <2>1 DEF TypeOK
    <2>3. Places'
      <3>1. x \notin Held(api) /\ Held(api)' = Held(api) \cup {x}
        BY <1>0, <1>1, <2>1 DEF Held, At
      <3>2. Cardinality(Held(api)') = slots'[api] /\ slots'[api] <= MaxConcurrent[api]
        <4>1. Cardinality(Held(api)') = Cardinality(Held(api)) + 1
          BY <3>1, HeldFinite, FS_AddElement
        <4> QED
          BY <1>1, <1>2, <1>4, <4>1 DEF IInv, Places
      <3>3. \A a \in Api : a # api => Held(a)' = Held(a) /\ slots'[a] = slots[a]
        BY <1>0, <1>1, <1>2, <1>4, <2>1 DEF Held, At
      <3>4. ASSUME NEW a \in Api
            PROVE  slots'[a] = Cardinality(Held(a)') /\ slots'[a] <= MaxConcurrent[a]
        <4>1. CASE a = api
          BY <3>2, <4>1
        <4>2. CASE a # api
          BY <3>3, <4>2 DEF IInv, Places
        <4> QED
          BY <4>1, <4>2
      <3> QED
        BY <3>4 DEF Places
    <2>4. Timely'
      BY <1>0, <2>1 DEF IInv, Timely
    <2>5. Authorized' /\ Buried'
      BY <1>0, <2>1 DEF IInv, Authorized, Buried
    <2>6. Answered'
      BY <1>0, <1>4, <2>1 DEF IInv, Answered, FatalIsAnswered, At
    <2> QED
      BY <2>2, <2>3, <2>4, <2>5, <2>6 DEF IInv
  <1> QED
    BY <1>1, <1>3, <1>4 DEF Enter

\* A handler returns and gives its place back, whatever became of its request.
LEMMA LeaveIInv ==
    ASSUME IInv, NEW x \in Exchange, Leave(x)
    PROVE  IInv'
  <1> USE Limits
  <1>0. /\ TypeOK /\ http[x] # None /\ http[x].stage = "answer" /\ http[x] \in RequestOn(tokens)
        /\ http' = [http EXCEPT ![x] = None]
        /\ UNCHANGED <<now, key, budget, rooms, fatal, closed, tokens>>
    BY DEF IInv, Leave, At, TypeOK
  <1>1. PICK api \in Api : api = ApiOf(http[x].op)
    BY <1>0, RequestShape, OperationShape DEF TypeOK
  <1>2. slots[api] \in Nat /\ slots \in [Api -> Nat] /\ slots' = [slots EXCEPT ![api] = @ - 1]
    BY <1>0, <1>1 DEF TypeOK, Leave
  <1>3. http'[x] = None /\ \A y \in Exchange : y # x => http'[y] = http[y]
    BY <1>0 DEF TypeOK
  <1>4. x \in Held(api) /\ Held(api)' = Held(api) \ {x}
    <2>1. x \in Held(api)
      BY <1>0, <1>1 DEF Held, At
    <2>2. \A y \in Exchange : (y \in Held(api)' <=> y \in Held(api) /\ y # x)
      BY <1>0, <1>3 DEF Held, At
    <2>3. Held(api) \subseteq Exchange /\ Held(api)' \subseteq Exchange
      BY DEF Held
    <2> QED
      BY <2>1, <2>2, <2>3
  <1>5. Cardinality(Held(api)') = slots[api] - 1
    <2>1. Cardinality(Held(api)') = Cardinality(Held(api)) - 1
      BY <1>4, HeldFinite, FS_RemoveElement
    <2> QED
      BY <1>1, <2>1 DEF IInv, Places
  <1>6. slots[api] > 0
    <2>1. Cardinality(Held(api)) # 0
      BY <1>4, HeldFinite, FS_EmptySet
    <2> QED
      BY <1>1, <1>2, <2>1 DEF IInv, Places
  <1>7. slots' \in [Api -> Nat] /\ slots'[api] = slots[api] - 1
    BY <1>1, <1>2, <1>6
  <1>8. Places'
    <2>1. \A a \in Api : a # api => Held(a)' = Held(a) /\ slots'[a] = slots[a]
      BY <1>0, <1>1, <1>2, <1>3 DEF Held, At
    <2>2. slots[api] <= MaxConcurrent[api]
      BY <1>1 DEF IInv, Places
    <2>3. slots'[api] = Cardinality(Held(api)') /\ slots'[api] <= MaxConcurrent[api]
      BY <1>1, <1>2, <1>5, <1>7, <2>2
    <2>4. ASSUME NEW a \in Api
          PROVE  slots'[a] = Cardinality(Held(a)') /\ slots'[a] <= MaxConcurrent[a]
      <3>1. CASE a = api
        BY <2>3, <3>1
      <3>2. CASE a # api
        BY <2>1, <3>2 DEF IInv, Places
      <3> QED
        BY <3>1, <3>2
    <2> QED
      BY <2>4 DEF Places
  <1> QED
    BY <1>0, <1>7, <1>8, GoneIInv

\* A request arrives on an idle connection; it holds no place yet.
LEMMA ArriveIInv ==
    ASSUME IInv, NEW x \in Exchange, NEW op \in Operation, Arrive(x, op)
    PROVE  IInv'
  <1> USE Limits
  <1> DEFINE q == [stage |-> "admitted", op |-> op, began |-> now, overtaken |-> FALSE]
  <1>0. /\ TypeOK /\ http[x] = None /\ http' = [http EXCEPT ![x] = q] /\ closed = "no"
        /\ UNCHANGED <<now, key, slots, rooms, fatal, closed, tokens>>
        /\ op.do \in {"change", "look"} => op.token.key = key /\ now < op.token.expires
        /\ now \in Nat
    BY DEF IInv, TypeOK, Arrive, Verify
  <1>1. q \in RequestOn(tokens)
    BY <1>0 DEF RequestOn, Stage, Operation
  <1>2. /\ q # None /\ q.stage = "admitted" /\ q.op = op /\ q.began = now /\ q.overtaken = FALSE
    BY <1>0, <1>1, RequestShape DEF TypeOK
  <1> HIDE DEF q
  <1>3. /\ http'[x] = q /\ \A y \in Exchange : y # x => http'[y] = http[y]
        /\ http' \in [Exchange -> {None} \cup RequestOn(tokens)]
    BY <1>0, <1>1 DEF TypeOK
  <1>4. TypeOK'
    <2>1. PICK a \in Api : a = ApiOf(op)
      BY OperationShape DEF Operation
    <2>2. budget' \in [Api -> 0 .. Burst]
      <3>1. budget \in [Api -> 0 .. Burst] /\ budget[a] >= 1 /\ budget' = [budget EXCEPT ![a] = @ - 1]
        BY <1>0, <2>1 DEF TypeOK, Arrive
      <3>2. budget[a] - 1 \in 0 .. Burst
        BY <3>1
      <3> QED
        BY <3>1, <3>2
    <2> QED
      BY <1>0, <1>3, <2>2 DEF TypeOK
  <1>5. Places'
    <2>1. \A a \in Api : Held(a)' = Held(a)
      BY <1>0, <1>2, <1>3 DEF Held, At
    <2> QED
      BY <1>0, <2>1 DEF IInv, Places
  <1>6. Timely'
    BY <1>0, <1>2, <1>3 DEF IInv, Timely
  <1>7. Authorized' /\ Buried'
    BY <1>0, <1>2, <1>3 DEF IInv, Authorized, Buried
  <1>8. Answered'
    BY <1>0, <1>2, <1>3 DEF IInv, Answered, FatalIsAnswered, At
  <1> QED
    BY <1>4, <1>5, <1>6, <1>7, <1>8 DEF IInv

\* An open room ends, by a DELETE or by itself, over the requests under way for it:
\* it was opened or they began before now, and the tombstone counts from now.
LEMMA EndingIInv ==
    ASSUME IInv, NEW r \in Room, rooms[r].state = "open", NEW x, NEW there \in Stage \ {"admitted"},
           x \in Exchange => http[x] # None /\ http[x].stage = "call" /\ there = "answer",
           Ending(r, x, there),
           UNCHANGED <<now, key, budget, slots, fatal, closed, tokens>>
    PROVE  IInv'
  <1> USE Limits
  <1>0. TypeOK /\ now \in Nat /\ tokens \subseteq Token
    BY DEF IInv, TypeOK
  <1>1. \A y \in Exchange : http[y] = None => http'[y] = None
    BY DEF Ending
  <1>2. ASSUME NEW y \in Exchange, http[y] # None
        PROVE  /\ http'[y] \in RequestOn(tokens) /\ http'[y] # None
               /\ http'[y].op = http[y].op /\ http'[y].began = http[y].began
               /\ http'[y].stage = IF y = x THEN there ELSE http[y].stage
               /\ http'[y].overtaken <=>
                     http[y].overtaken \/ (http[y].op.do = "put" /\ http[y].op.room = r)
    <2> DEFINE q == [http[y] EXCEPT
                       !.stage = IF y = x THEN there ELSE @,
                       !.overtaken = @ \/ (http[y].op.do = "put" /\ http[y].op.room = r)]
    <2>1. http[y] \in RequestOn(tokens)
      BY <1>0, <1>2 DEF TypeOK
    <2>2. http'[y] = q
      BY <1>2 DEF Ending
    <2>3. /\ q \in RequestOn(tokens)
          /\ q.op = http[y].op /\ q.began = http[y].began
          /\ q.stage = IF y = x THEN there ELSE http[y].stage
          /\ q.overtaken <=> http[y].overtaken \/ (http[y].op.do = "put" /\ http[y].op.room = r)
      BY <2>1 DEF RequestOn
    <2>4. q # None
      BY <1>0, <2>3, RequestShape
    <2> HIDE DEF q
    <2> QED
      BY <2>2, <2>3, <2>4
  <1>3. /\ rooms'[r].state = "tombstone" /\ rooms'[r].until = now + TombstoneTTL
        /\ \A s \in Room : s # r => rooms'[s] = rooms[s]
        /\ rooms' \in [Room -> [state : {"absent", "open", "tombstone"}, until : Nat]]
    <2>1. Ended \in [state : {"absent", "open", "tombstone"}, until : Nat]
          /\ Ended.state = "tombstone" /\ Ended.until = now + TombstoneTTL
      BY <1>0 DEF Ended
    <2>2. rooms \in [Room -> [state : {"absent", "open", "tombstone"}, until : Nat]]
          /\ rooms' = [rooms EXCEPT ![r] = Ended]
      BY <1>0 DEF TypeOK, Ending
    <2> QED
      BY <2>1, <2>2
  <1>4. TypeOK'
    <2>1. http' \in [Exchange -> {None} \cup RequestOn(tokens)]
      <3>1. \A y \in Exchange : http'[y] \in {None} \cup RequestOn(tokens)
        BY <1>1, <1>2
      <3>2. http' = [y \in Exchange |-> http'[y]]
        BY DEF Ending
      <3> QED
        BY <3>1, <3>2
    <2> QED
      BY <1>0, <1>3, <2>1 DEF TypeOK
  <1>5. Places'
    <2>1. \A a \in Api : Held(a)' = Held(a)
      BY <1>1, <1>2 DEF Held, At
    <2> QED
      BY <2>1 DEF IInv, Places
  <1>6. Timely'
    BY <1>1, <1>2 DEF IInv, Timely
  <1>7. Authorized'
    BY <1>1, <1>2 DEF IInv, Authorized
  <1>8. Buried'
    <2> SUFFICES ASSUME NEW y \in Exchange, http'[y] # None, http'[y].overtaken
                 PROVE  /\ http'[y].op.do = "put"
                        /\ \/ now' >= http'[y].began + ReadTimeout
                           \/ LET room == rooms'[http'[y].op.room]
                              IN  room.state = "tombstone" /\ room.until >= http'[y].began + ReadTimeout
      BY DEF Buried
    <2>1. http[y] # None
      BY <1>1
    <2>2. http[y].began \in Nat /\ http[y].began <= now
      BY <1>0, <2>1, RequestShape DEF TypeOK, IInv, Timely
    <2>3. CASE http[y].op.do = "put" /\ http[y].op.room = r
      BY <1>0, <1>2, <1>3, <2>1, <2>2, <2>3
    <2>4. CASE ~(http[y].op.do = "put" /\ http[y].op.room = r)
      <3>1. http[y].overtaken
        BY <1>2, <2>1, <2>4
      <3>2. http[y].op.do = "put" /\ http[y].op.room \in Room \ {r}
        BY <1>0, <2>1, <2>4, <3>1, RequestShape, OperationShape DEF TypeOK, IInv, Buried
      <3>3. rooms'[http[y].op.room] = rooms[http[y].op.room]
        BY <1>3, <3>2
      <3> QED
        BY <1>2, <2>1, <3>1, <3>2, <3>3 DEF IInv, Buried
    <2> QED
      BY <2>3, <2>4
  <1>9. Answered'
    <2>1. \A y \in Exchange : At(y, "unsent")' => At(y, "unsent") \/ y = x
      BY <1>1, <1>2 DEF At
    <2>2. x \in Exchange => ~At(x, "unsent")'
      BY <1>2 DEF At
    <2> QED
      BY <2>1, <2>2 DEF IInv, Answered, FatalIsAnswered
  <1> QED
    BY <1>4, <1>5, <1>6, <1>7, <1>8, <1>9 DEF IInv

\* The room lapses: it ends, or its tombstone is due and goes.
LEMMA RoomLapsesIInv ==
    ASSUME IInv, NEW r \in Room, RoomLapses(r)
    PROVE  IInv'
  <1> USE Limits
  <1>0. /\ TypeOK /\ now \in Nat /\ now >= rooms[r].until
        /\ UNCHANGED <<now, key, budget, slots, fatal, closed, tokens>>
    BY DEF IInv, TypeOK, RoomLapses
  <1>1. CASE rooms[r].state = "open"
    <2>1. Ending(r, None, "answer") /\ "answer" \in Stage \ {"admitted"}
      BY <1>1 DEF RoomLapses, Stage
    <2> QED
      BY <1>0, <1>1, <2>1, EndingIInv, ExchangeAssumption
  <1>2. CASE rooms[r].state # "open"
    <2>1. /\ http' = http /\ rooms' = [rooms EXCEPT ![r] = Absent]
      BY <1>2 DEF RoomLapses, Becomes
    <2>2. /\ rooms' \in [Room -> [state : {"absent", "open", "tombstone"}, until : Nat]]
          /\ \A s \in Room : s # r => rooms'[s] = rooms[s]
      BY <1>0, <2>1 DEF TypeOK, Absent
    <2>3. TypeOK'
      BY <1>0, <2>1, <2>2 DEF TypeOK
    <2>4. Places' /\ Timely' /\ Authorized' /\ Answered'
      BY <1>0, <2>1 DEF IInv, Places, Held, At, Timely, Authorized, Answered, FatalIsAnswered
    <2>5. Buried'
      <3> SUFFICES ASSUME NEW y \in Exchange, http[y] # None, http[y].overtaken
                   PROVE  /\ http[y].op.do = "put"
                          /\ \/ now >= http[y].began + ReadTimeout
                             \/ LET room == rooms'[http[y].op.room]
                                IN  room.state = "tombstone" /\ room.until >= http[y].began + ReadTimeout
        BY <1>0, <2>1 DEF Buried
      <3>1. http[y].op.do = "put" /\ http[y].op.room \in Room /\ http[y].began \in Nat
        BY <1>0, RequestShape, OperationShape DEF TypeOK, IInv, Buried
      <3>2. rooms[r].until \in Nat
        BY <1>0 DEF TypeOK
      <3>3. CASE http[y].op.room = r
        BY <1>0, <3>1, <3>2, <3>3 DEF IInv, Buried
      <3>4. CASE http[y].op.room # r
        BY <2>2, <3>1, <3>4 DEF IInv, Buried
      <3> QED
        BY <3>3, <3>4
    <2> QED
      BY <2>3, <2>4, <2>5 DEF IInv
  <1> QED
    BY <1>1, <1>2

\* The body comes, is refused, or is cut off by the deadline or the shutdown.
LEMMA BodyIInv ==
    ASSUME IInv, NEW x \in Exchange, ReadBody(x) \/ RefuseBody(x) \/ BodyEnds(x)
    PROVE  IInv'
  <1> USE Limits
  <1>1. /\ http[x] # None /\ http[x].stage = "body"
        /\ UNCHANGED <<now, key, budget, slots, rooms, fatal, closed, tokens>>
        /\ \/ Goto(x, "answer")
           \/ Goto(x, "call") /\ ~(now >= http[x].began + ReadTimeout)
    BY DEF ReadBody, RefuseBody, BodyEnds, BodyCut, At
  <1>2. now \in Nat /\ tokens \subseteq Token
        /\ rooms \in [Room -> [state : {"absent", "open", "tombstone"}, until : Nat]]
    BY DEF IInv, TypeOK
  <1>3. http[x].began \in Nat
    BY <1>1, RequestShape DEF IInv, TypeOK
  <1>4. "answer" \in Stage \ {"admitted"} /\ "call" \in Stage \ {"admitted"}
    BY DEF Stage
  <1>5. CASE Goto(x, "answer")
    BY <1>1, <1>2, <1>4, <1>5, MoveIInv
  <1>6. CASE Goto(x, "call") /\ ~(now >= http[x].began + ReadTimeout)
    BY <1>1, <1>2, <1>3, <1>4, <1>6, MoveIInv
  <1> QED
    BY <1>1, <1>5, <1>6

\* The call of the store, the tokens or the manager.
LEMMA CallIInv ==
    ASSUME IInv, NEW x \in Exchange, Put(x) \/ Delete(x) \/ IssueToken(x) \/ Ask(x)
    PROVE  IInv'
  <1> USE Limits
  <1>0. /\ now \in Nat /\ key \in Nat /\ tokens \subseteq Token
        /\ rooms \in [Room -> [state : {"absent", "open", "tombstone"}, until : Nat]]
        /\ http[x] # None /\ http[x].stage = "call" /\ http[x].op \in OperationOn(tokens)
        /\ UNCHANGED <<now, key, budget, slots, fatal, closed>>
    BY RequestShape DEF IInv, TypeOK, Put, Delete, IssueToken, Ask, At
  <1>1. "answer" \in Stage \ {"admitted"} /\ "fatal" \in Stage \ {"admitted"}
    BY DEF Stage
  <1>2. ASSUME NEW r \in Room, AllowsCreation(r),
               NEW room \in [state : {"absent", "open", "tombstone"}, until : Nat],
               Becomes(r, room)
        PROVE  /\ rooms' \in [Room -> [state : {"absent", "open", "tombstone"}, until : Nat]]
               /\ \A s \in Room : rooms[s].state = "tombstone" /\ now < rooms[s].until =>
                                    rooms'[s] = rooms[s]
    <2>1. rooms[r].until \in Nat
      BY <1>0
    <2>2. ~(rooms[r].state = "tombstone" /\ now < rooms[r].until)
      BY <1>0, <1>2, <2>1 DEF AllowsCreation
    <2>3. \A s \in Room : s # r => rooms'[s] = rooms[s]
      BY <1>0, <1>2 DEF Becomes
    <2> QED
      BY <1>0, <1>2, <2>2, <2>3 DEF Becomes
  <1>3. Absent \in [state : {"absent", "open", "tombstone"}, until : Nat]
        /\ \A e \in Expiry : Opened(e) \in [state : {"absent", "open", "tombstone"}, until : Nat]
    BY DEF Absent, Opened
  <1>4. CASE Put(x)
    <2>1. http[x].op.room \in Room /\ http[x].op.expires \in Expiry /\ tokens' = tokens
      BY <1>0, <1>4, OperationShape DEF Put
    <2>2. \/ /\ AllowsCreation(http[x].op.room)
             /\ Becomes(http[x].op.room, Opened(http[x].op.expires))
                  \/ Becomes(http[x].op.room, Absent)
             /\ Goto(x, "answer") \/ Goto(x, "fatal")
          \/ Goto(x, "answer") /\ UNCHANGED rooms
      BY <1>4 DEF Put
    <2>3. rooms' \in [Room -> [state : {"absent", "open", "tombstone"}, until : Nat]]
          /\ \A s \in Room : rooms[s].state = "tombstone" /\ now < rooms[s].until =>
                               rooms'[s] = rooms[s]
      BY <1>0, <1>2, <1>3, <2>1, <2>2
    <2> QED
      BY <1>0, <1>1, <2>1, <2>2, <2>3, MoveIInv
  <1>5. CASE Delete(x)
    <2>1. http[x].op.room \in Room /\ tokens' = tokens
      BY <1>0, <1>5, OperationShape DEF Delete
    <2>2. CASE rooms[http[x].op.room].state = "open"
      BY <1>0, <1>1, <1>5, <2>1, <2>2, EndingIInv DEF Delete
    <2>3. CASE rooms[http[x].op.room].state # "open"
      <3>1. /\ Becomes(http[x].op.room, IF AllowsCreation(http[x].op.room) THEN Absent
                                        ELSE rooms[http[x].op.room])
            /\ Goto(x, "answer")
        BY <1>5, <2>3 DEF Delete
      <3>2. rooms' \in [Room -> [state : {"absent", "open", "tombstone"}, until : Nat]]
            /\ \A s \in Room : rooms[s].state = "tombstone" /\ now < rooms[s].until =>
                                 rooms'[s] = rooms[s]
        <4>1. CASE AllowsCreation(http[x].op.room)
          BY <1>2, <1>3, <2>1, <3>1, <4>1
        <4>2. CASE ~AllowsCreation(http[x].op.room)
          <5>1. rooms' = rooms
            BY <1>0, <2>1, <3>1, <4>2 DEF Becomes
          <5> QED
            BY <1>0, <5>1
        <4> QED
          BY <4>1, <4>2
      <3> QED
        BY <1>0, <1>1, <2>1, <3>1, <3>2, MoveIInv
    <2> QED
      BY <2>2, <2>3
  <1>6. CASE IssueToken(x)
    <2>1. Issue(http[x].op.player, key, now) \in Token
      BY <1>0, <1>6, OperationShape DEF IssueToken, Issue, Token
    <2>2. tokens \subseteq tokens' /\ tokens' \subseteq Token
          /\ Goto(x, "answer") /\ UNCHANGED rooms
      BY <1>0, <1>6, <2>1 DEF IssueToken
    <2> QED
      BY <1>0, <1>1, <2>2, MoveIInv
  <1>7. CASE Ask(x)
    <2>1. UNCHANGED <<rooms, tokens>> /\ (Goto(x, "answer") \/ Goto(x, "fatal"))
      BY <1>7 DEF Ask
    <2> QED
      BY <1>0, <1>1, <2>1, MoveIInv
  <1> QED
    BY <1>4, <1>5, <1>6, <1>7

\* The fatal answer is flushed first, and only then is the signal given.
LEMMA FatalIInv ==
    ASSUME IInv, NEW x \in Exchange, Flush(x) \/ Signal(x)
    PROVE  IInv'
  <1> USE Limits
  <1>0. /\ now \in Nat /\ tokens \subseteq Token
        /\ rooms \in [Room -> [state : {"absent", "open", "tombstone"}, until : Nat]]
        /\ http[x] # None /\ http[x].stage # "admitted"
        /\ UNCHANGED <<now, key, budget, slots, rooms, closed, tokens>>
        /\ fatal \in {"no", "answered", "unanswered"}
    BY DEF IInv, TypeOK, Flush, Signal, At
  <1>1. "answer" \in Stage \ {"admitted"} /\ "flushed" \in Stage \ {"admitted"}
        /\ "unsent" \in Stage \ {"admitted"}
    BY DEF Stage
  <1>2. CASE Flush(x)
    <2>1. /\ fatal' = fatal
          /\ Goto(x, "flushed") \/ (Goto(x, "unsent") /\ closed # "no")
      BY <1>2 DEF Flush
    <2> QED
      BY <1>0, <1>1, <2>1, MoveIInv
  <1>3. CASE Signal(x)
    <2>1. Goto(x, "answer")
      BY <1>3 DEF Signal
    <2>2. fatal' = fatal \/ (fatal = "no" /\ fatal' \in {"answered", "unanswered"})
      BY <1>3 DEF Signal
    <2>3. fatal' = "unanswered" => closed # "no" \/ fatal = "unanswered"
      <3>1. CASE fatal # "no"
        BY <1>3, <3>1 DEF Signal
      <3>2. CASE At(x, "flushed")
        BY <1>3, <3>2 DEF Signal
      <3>3. CASE At(x, "unsent")
        BY <3>3 DEF IInv, Answered
      <3> QED
        BY <1>3, <3>1, <3>2, <3>3 DEF Signal
    <2> QED
      BY <1>0, <1>1, <2>1, <2>2, <2>3, MoveIInv
  <1> QED
    BY <1>2, <1>3

\* The server goes down, or the process is replaced by another.
LEMMA DownIInv ==
    ASSUME IInv, Shutdown \/ Restart
    PROVE  IInv'
  <1> USE Limits
  <1>1. CASE Shutdown
    <2>1. UNCHANGED <<now, key, budget, slots, http, rooms, fatal, tokens>>
          /\ closed = "no" /\ closed' \in {"stop", "fatal"} /\ (closed' = "fatal" => fatal # "no")
      BY <1>1 DEF Shutdown
    <2>2. TypeOK'
      BY <2>1 DEF IInv, TypeOK
    <2>3. Places' /\ Timely' /\ Authorized' /\ Buried'
      BY <2>1 DEF IInv, Places, Held, At, Timely, Authorized, Buried
    <2>4. Answered'
      BY <2>1 DEF IInv, TypeOK, Answered, FatalIsAnswered, At
    <2> QED
      BY <2>2, <2>3, <2>4 DEF IInv
  <1>2. CASE Restart
    <2>1. /\ \A x \in Exchange : http'[x] = None
          /\ \A a \in Api : slots'[a] = 0
          /\ fatal' = "no" /\ closed' = "no"
      BY <1>2 DEF Restart
    <2>2. TypeOK'
      <3>1. budget' \in [Api -> 0 .. Burst] /\ slots' \in [Api -> Nat]
        BY <1>2 DEF Restart
      <3>2. http' \in [Exchange -> {None} \cup RequestOn(tokens')]
        BY <1>2 DEF Restart
      <3>3. rooms' \in [Room -> [state : {"absent", "open", "tombstone"}, until : Nat]]
        BY <1>2 DEF Restart, Absent
      <3>4. now' \in Nat /\ key' \in Nat /\ tokens' \subseteq Token
        BY <1>2 DEF Restart, IInv, TypeOK
      <3> QED
        BY <2>1, <3>1, <3>2, <3>3, <3>4 DEF TypeOK
    <2>3. Places'
      <3>1. \A a \in Api : Held(a)' = {}
        BY <2>1 DEF Held
      <3> QED
        BY <2>1, <3>1, FS_EmptySet DEF Places
    <2>4. Timely' /\ Authorized' /\ Buried' /\ Answered'
      BY <2>1 DEF Timely, Authorized, Buried, Answered, FatalIsAnswered, At
    <2> QED
      BY <2>2, <2>3, <2>4 DEF IInv
  <1> QED
    BY <1>1, <1>2

\* Time passes while every handler waits for a body whose deadline is still ahead.
LEMMA TickIInv ==
    ASSUME IInv, Tick
    PROVE  IInv'
  <1> USE Limits
  <1>0. TypeOK /\ now \in Nat /\ now' = now + 1
        /\ UNCHANGED <<key, slots, http, rooms, fatal, closed, tokens>>
    BY DEF IInv, TypeOK, Tick
  <1>1. TypeOK'
    <2>1. budget' \in [Api -> 0 .. Burst]
      BY <1>0 DEF Tick, TypeOK
    <2> QED
      BY <1>0, <2>1 DEF TypeOK
  <1>2. Places' /\ Authorized' /\ Answered'
    BY <1>0 DEF IInv, Places, Held, At, Authorized, Answered, FatalIsAnswered
  <1>3. \A x \in Exchange : http[x] # None => http[x].began \in Nat
    BY <1>0, RequestShape DEF TypeOK
  <1>4. Timely'
    <2>1. \A x \in Exchange : http[x] # None =>
             http[x].stage = "body" /\ ~(now >= http[x].began + ReadTimeout)
      BY DEF Tick, Prompt, At, BodyCut
    <2> QED
      BY <1>0, <1>3, <2>1 DEF IInv, Timely
  <1>5. Buried'
    BY <1>0, <1>3 DEF IInv, Buried
  <1> QED
    BY <1>1, <1>2, <1>4, <1>5 DEF IInv

LEMMA NextIInv == IInv /\ [Next]_vars => IInv'
  <1> SUFFICES ASSUME IInv, [Next]_vars PROVE IInv'
    OBVIOUS
  <1>1. ASSUME NEW x \in Exchange, Handler(x) \/ Client(x)
        PROVE  IInv'
    BY <1>1, EnterIInv, BodyIInv, CallIInv, FatalIInv, LeaveIInv, ArriveIInv DEF Handler, Client
  <1>2. CASE \E r \in Room : RoomLapses(r)
    BY <1>2, RoomLapsesIInv
  <1>3. CASE Shutdown \/ Restart
    BY <1>3, DownIInv
  <1>4. CASE Tick
    BY <1>4, TickIInv
  <1>5. CASE UNCHANGED vars
    BY <1>5 DEF vars, IInv, TypeOK, Places, Held, At, Timely, Authorized, Buried, Answered,
                FatalIsAnswered
  <1> QED
    BY <1>1, <1>2, <1>3, <1>4, <1>5 DEF Next

LEMMA IInvHolds == Spec => []IInv
  BY InitIInv, NextIInv, PTL DEF Spec
-----------------------------------------------------------------------------
\* No place leaks: whether a request is refused, cut off, fatal or answered, its
\* place is held exactly as long as its handler runs.
THEOREM HttpPlacesHeld == Spec => []PlacesHeld
  <1>1. IInv => PlacesHeld
    <2> SUFFICES ASSUME IInv PROVE PlacesHeld
      OBVIOUS
    <2>1. \A a \in Api : slots[a] <= MaxConcurrent[a] /\ slots[a] = Cardinality(Held(a))
      BY DEF IInv, Places
    <2> QED
      BY <2>1 DEF IInv, PlacesHeld, Held
  <1> QED
    BY <1>1, IInvHolds, PTL

\* When the connections are closed for a fatal error, its 500 is out.
THEOREM HttpFatalIsAnswered == Spec => []FatalIsAnswered
  <1>1. IInv => FatalIsAnswered
    BY DEF IInv, Answered
  <1> QED
    BY <1>1, IInvHolds, PTL

\* Looking at a token once, before the body is read, lets a player act no longer
\* than a body takes to arrive, and never by the token of another process.
THEOREM HttpActsWithinAuthority == Spec => ActsWithinAuthority
  <1> DEFINE Acts ==
        \A x \in Exchange :
          At(x, "call") /\ http[x].op.do \in {"change", "look"} /\ http'[x] \notin {http[x], None} =>
             LET token == http[x].op.token
             IN  token.key = key /\ now < token.expires + ReadTimeout
  <1>1. IInv => Acts
    <2> SUFFICES ASSUME IInv, NEW x \in Exchange, At(x, "call"),
                        http[x].op.do \in {"change", "look"}
                 PROVE  http[x].op.token.key = key /\ now < http[x].op.token.expires + ReadTimeout
      OBVIOUS
    <2>1. /\ http[x] # None /\ http[x].op.token.key = key
          /\ http[x].began < http[x].op.token.expires
          /\ now < http[x].began + ReadTimeout
      BY DEF At, IInv, Authorized, Timely
    <2>2. tokens \subseteq Token /\ http[x] \in RequestOn(tokens) /\ now \in Nat
      BY <2>1 DEF IInv, TypeOK
    <2>3. http[x].began \in Nat /\ http[x].op.token \in Token
      BY <2>2, RequestShape, OperationShape
    <2>4. http[x].op.token.expires \in Nat
      BY <2>3 DEF Token
    <2> QED
      BY <2>1, <2>2, <2>3, <2>4, Limits
  <1>2. IInv => [Acts]_vars
    BY <1>1
  <1> HIDE DEF Acts
  <1>3. Spec => [][Acts]_vars
    BY <1>2, IInvHolds, PTL
  <1> QED
    BY <1>3 DEF ActsWithinAuthority, Acts

\* Nothing but a PUT opens a room, and no PUT opens one over a tombstone that stands.
LEMMA OnlyPutOpens ==
    ASSUME TypeOK, [Next]_vars, NEW r \in Room,
           rooms[r].state = "tombstone", ~AllowsCreation(r)
    PROVE  rooms'[r].state # "open"
  <1>0. /\ rooms \in [Room -> [state : {"absent", "open", "tombstone"}, until : Nat]]
        /\ Absent.state = "absent" /\ Ended.state = "tombstone"
    BY DEF TypeOK, Absent, Ended
  <1>1. ASSUME NEW s, NEW room, Becomes(s, room), s # r
        PROVE  rooms'[r] = rooms[r]
    BY <1>0, <1>1 DEF Becomes
  <1>2. ASSUME NEW s, rooms' = [rooms EXCEPT ![s] = Ended]
        PROVE  rooms'[r].state = "tombstone"
    BY <1>0, <1>2
  <1>3. ASSUME NEW s, Becomes(s, Absent)
        PROVE  rooms'[r].state # "open"
    BY <1>0, <1>3 DEF Becomes
  <1>4. ASSUME NEW x \in Exchange, Put(x)
        PROVE  rooms'[r].state # "open"
    <2>1. CASE http[x].op.room = r
      BY <1>4, <2>1 DEF Put
    <2>2. CASE http[x].op.room # r
      BY <1>1, <1>4, <2>2 DEF Put
    <2> QED
      BY <2>1, <2>2
  <1>5. ASSUME NEW x \in Exchange, Delete(x)
        PROVE  rooms'[r].state # "open"
    <2>1. CASE rooms[http[x].op.room].state = "open"
      BY <1>2, <1>5, <2>1 DEF Delete, Ending
    <2>2. CASE rooms[http[x].op.room].state # "open"
      <3>1. CASE AllowsCreation(http[x].op.room)
        BY <1>3, <1>5, <2>2, <3>1 DEF Delete
      <3>2. CASE ~AllowsCreation(http[x].op.room)
        <4>1. Becomes(http[x].op.room, rooms[http[x].op.room])
          BY <1>5, <2>2, <3>2 DEF Delete
        <4> QED
          BY <1>0, <4>1 DEF Becomes
      <3> QED
        BY <3>1, <3>2
    <2> QED
      BY <2>1, <2>2
  <1>6. ASSUME NEW s \in Room, RoomLapses(s)
        PROVE  rooms'[r].state # "open"
    <2>1. CASE rooms[s].state = "open"
      BY <1>2, <1>6, <2>1 DEF RoomLapses, Ending
    <2>2. CASE rooms[s].state # "open"
      BY <1>3, <1>6, <2>2 DEF RoomLapses
    <2> QED
      BY <2>1, <2>2
  <1>7. CASE Restart
    BY <1>0, <1>7 DEF Restart
  <1>8. ASSUME NEW x \in Exchange,
               Enter(x) \/ BodyEnds(x) \/ IssueToken(x) \/ Ask(x) \/ Flush(x) \/ Signal(x) \/ Leave(x)
                 \/ Client(x)
        PROVE  rooms' = rooms
    <2>1. CASE Enter(x) \/ BodyEnds(x) \/ IssueToken(x) \/ Ask(x)
      BY <2>1 DEF Enter, BodyEnds, IssueToken, Ask
    <2>2. CASE Flush(x) \/ Signal(x) \/ Leave(x)
      BY <2>2 DEF Flush, Signal, Leave
    <2>3. CASE Client(x)
      BY <2>3 DEF Client, ReadBody, RefuseBody, Arrive
    <2> QED
      BY <1>8, <2>1, <2>2, <2>3
  <1>9. CASE Shutdown \/ Tick \/ UNCHANGED vars
    BY <1>0, <1>9 DEF Shutdown, Tick, vars
  <1> QED
    BY <1>0, <1>4, <1>5, <1>6, <1>7, <1>8, <1>9 DEF Next, Handler

\* The tombstone of a room outlasts every PUT that was under way when it ended:
\* none of them opens the room again.
THEOREM HttpNoResurrection == Spec => NoResurrection
  <1> DEFINE Stays ==
        \A x \in Exchange :
          At(x, "call") /\ http[x].op.do = "put" /\ http'[x] \notin {http[x], None} =>
             LET r == http[x].op.room
             IN  rooms[r].state # "open" /\ rooms'[r].state = "open" => ~http[x].overtaken
  <1>1. IInv /\ [Next]_vars => Stays
    <2> SUFFICES ASSUME IInv, [Next]_vars, NEW x \in Exchange, At(x, "call"),
                        http[x].op.do = "put",
                        rooms[http[x].op.room].state # "open",
                        rooms'[http[x].op.room].state = "open",
                        http[x].overtaken
                 PROVE  FALSE
      OBVIOUS
    <2> DEFINE r == http[x].op.room
    <2>1. /\ http[x] # None /\ http[x] \in RequestOn(tokens) /\ tokens \subseteq Token
          /\ now \in Nat /\ now < http[x].began + ReadTimeout
      BY DEF At, IInv, TypeOK, Timely
    <2>2. r \in Room /\ http[x].began \in Nat
      BY <2>1, RequestShape, OperationShape
    <2>3. rooms[r].state = "tombstone" /\ rooms[r].until >= http[x].began + ReadTimeout
      BY <2>1, <2>2, Limits DEF IInv, Buried
    <2>4. rooms[r].until \in Nat
      BY <2>2 DEF IInv, TypeOK
    <2>5. ~AllowsCreation(r)
      BY <2>1, <2>2, <2>3, <2>4, Limits DEF AllowsCreation
    <2> QED
      BY <2>2, <2>3, <2>5, OnlyPutOpens DEF IInv
  <1>2. IInv /\ [Next]_vars => [Stays]_vars
    BY <1>1
  <1> HIDE DEF Stays
  <1>3. Spec => [][Stays]_vars
    BY <1>2, IInvHolds, PTL DEF Spec
  <1> QED
    BY <1>3 DEF NoResurrection, Stays
===============================================================================
