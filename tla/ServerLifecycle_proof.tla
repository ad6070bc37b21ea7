------------------------- MODULE ServerLifecycle_proof -------------------------
(***************************************************************************)
(* Proofs about the process's life, for any calls of Run and of Close and  *)
(* any number of requests in flight.  The invariant follows the one call   *)
(* of Run that gets past the guard, the one caller inside shutdown, and    *)
(* the four results from the loops through the channel to the verdict.     *)
(***************************************************************************)
EXTENDS ServerLifecycle, FiniteSetTheorems, TLAPS

Running == {"start", "select", "cancel", "stop", "closing", "join", "finish"}
Asking == {"signal", "shutdown", "closing"}
StopAsked == stopped \/ closeRequested
Told(l) == IF loops[l] = "reported" THEN 1 ELSE 0
Bad == \E i \in DOMAIN results : results[i] = TRUE
Judged == finished \/ \E r \in Runner : pc[r] = "finish"

\* Before New has returned a server nobody holds it: only listeners come and go.
Construction ==
    /\ bound # Ready => /\ \A p \in Process : pc[p] = "idle"
                        /\ shutdown = "no" /\ ~runStarted /\ ~closeRequested
    /\ bound <= Len(Order) => open = {Order[i] : i \in 1 .. bound}
    /\ bound = Refused => open = {}
    /\ bound = Ready /\ shutdown = "no" => open = Listener

\* One caller at a time closes the listeners, for a reason, and to the end.
Doors ==
    /\ \A p, q \in Process : pc[p] = "closing" /\ pc[q] = "closing" => p = q
    /\ \A p \in Process : pc[p] = "closing" => shutdown = "busy"
    /\ shutdown # "no" => StopAsked
    /\ shutdown = "done" => open = {}

\* Where a call can be, and what it has done by then.
Calls ==
    /\ \A p \in Closer : /\ pc[p] \in {"idle", "done"} \cup Asking
                         /\ pc[p] # "idle" => closeRequested
                         /\ pc[p] = "done" => shutdown = "done"
    /\ \A r \in Runner : /\ pc[r] \in {"idle", "done"} \cup Running
                         /\ answer[r] # "none" => pc[r] = "done"
                         /\ pc[r] \in Running => runStarted /\ ~finished
    /\ \A r, s \in Runner : pc[r] \in Running /\ pc[s] \in Running => r = s
    /\ finished => runStarted

\* How far Run has come: nothing is heard before it listens, and it stops the
\* loops before it joins them.
Progress ==
    /\ (~runStarted \/ \E r \in Runner : pc[r] = "start") =>
          \A l \in Loop : loops[l] = "none"
    /\ (~runStarted \/ \E r \in Runner : pc[r] \in {"start", "select"}) =>
          received = 0 /\ unexpected = FALSE
    /\ \A r \in Runner : pc[r] \in {"stop", "closing", "join", "finish"} => stopped
    /\ finished \/ (\E r \in Runner : pc[r] \in {"join", "finish"}) => shutdown = "done"
    /\ Judged => received = 4

\* Every loop reports once: its result is in the channel or has been received.
Count ==
    received + Len(results) = Told("management") + Told("player") + Told("relay") + Told("sweeper")

\* Nothing bad is said without a cause.
Causes ==
    /\ \A l \in Loop : loops[l] = "ended" => cancelled \/ StopAsked
    /\ \A l \in Loop : loops[l] = "failed" => failure
    /\ Bad \/ unexpected => fatalSignal \/ failure
    /\ NoFalseAlarm

\* A failure that has to be reported is on its way: in the channel, in the
\* verdict so far, or in the fatal signal the last select still looks at.
Heard ==
    /\ alarm => unexpected \/ Bad \/ (fatalSignal /\ ~Judged)
    /\ finished /\ unexpected => \E r \in Runner : answer[r] = "error"

\* The types, with the bounds on the counts left to Count.
Typed ==
    /\ bound \in 0 .. Refused
    /\ open \subseteq Listener
    /\ cancelled \in BOOLEAN /\ stopped \in BOOLEAN
    /\ runStarted \in BOOLEAN /\ closeRequested \in BOOLEAN /\ finished \in BOOLEAN
    /\ closeSignal \in BOOLEAN /\ fatalSignal \in BOOLEAN /\ unexpected \in BOOLEAN
    /\ shutdown \in {"no", "busy", "done"}
    /\ loops \in [Loop -> {"none", "serving", "ended", "failed", "reported"}]
    /\ results \in Seq(BOOLEAN)
    /\ received \in Nat
    /\ pc \in [Process -> {"idle", "done"} \cup Asking \cup Running]
    /\ answer \in [Runner -> {"none", "nil", "already", "error"}]
    /\ handlers \in 0 .. MaxHandlers
    /\ failure \in BOOLEAN /\ alarm \in BOOLEAN

IInv == Typed /\ Construction /\ Doors /\ Calls /\ Progress /\ Count /\ Causes /\ Heard
-----------------------------------------------------------------------------
LEMMA FourLoops == Cardinality(Loop) = 4
  <1> DEFINE A == {"management"}
             B == A \cup {"player"}
             C == B \cup {"relay"}
             D == C \cup {"sweeper"}
  <1>1. IsFiniteSet(A) /\ Cardinality(A) = 1
    BY FS_Singleton
  <1>2. IsFiniteSet(B) /\ Cardinality(B) = 2
    BY <1>1, FS_AddElement
  <1>3. IsFiniteSet(C) /\ Cardinality(C) = 3
    BY <1>2, FS_AddElement
  <1>4. Cardinality(D) = 4
    BY <1>3, FS_AddElement
  <1>5. Loop = D
    BY DEF Loop, Listener
  <1> QED
    BY <1>4, <1>5

\* New binds the listeners in this order, and all three are then open.
LEMMA BindingOrder ==
    /\ Len(Order) = 3 /\ Ready = 4 /\ Refused = 5 /\ DOMAIN Order = 1 .. 3
    /\ Order[1] = "management" /\ Order[2] = "player" /\ Order[3] = "relay"
    /\ {Order[i] : i \in 1 .. 0} = {}
    /\ {Order[i] : i \in 1 .. 3} = Listener
    /\ Listener \subseteq Loop /\ "sweeper" \in Loop /\ "sweeper" \notin Listener
  <1>1. Len(Order) = 3 /\ DOMAIN Order = 1 .. 3
        /\ Order[1] = "management" /\ Order[2] = "player" /\ Order[3] = "relay"
    BY DEF Order
  <1>2. {Order[i] : i \in 1 .. 3} = {Order[1], Order[2], Order[3]}
    OBVIOUS
  <1> QED
    BY <1>1, <1>2 DEF Ready, Refused, Listener, Loop

\* Results of at most four loops are in the channel, or received.
LEMMA CountBounds == Typed /\ Count => TypeOK
  <1> SUFFICES ASSUME Typed, Count PROVE TypeOK
    OBVIOUS
  <1>1. Len(results) \in Nat /\ received \in Nat
    BY DEF Typed
  <1>2. \A l \in Loop : Told(l) \in {0, 1}
    BY DEF Told
  <1>3. received <= 4 /\ Len(results) <= 4
    BY <1>1, <1>2 DEF Count, Loop, Listener
  <1>4. {cancelled, stopped, runStarted, closeRequested, finished, closeSignal, fatalSignal,
         unexpected} \subseteq BOOLEAN /\ {failure, alarm} \subseteq BOOLEAN
    BY Zenon DEF Typed
  <1>5. pc \in [Process -> {"idle", "signal", "shutdown", "closing", "start", "select", "cancel",
                            "stop", "join", "finish", "done"}]
    BY DEF Typed, Asking, Running
  <1> QED
    BY <1>1, <1>3, <1>4, <1>5, FourLoops DEF TypeOK, Typed

\* One more received, one fewer in the channel.
LEMMA OneMoved == \A n, m \in Nat : (n + 1) + (m - 1) = n + m /\ n + 1 \in Nat
  OBVIOUS

\* What the channel says is what is taken from it and what stays.
LEMMA TakeResult ==
    ASSUME NEW s \in Seq(BOOLEAN), s # <<>>
    PROVE  /\ Head(s) \in BOOLEAN /\ Tail(s) \in Seq(BOOLEAN)
           /\ Len(s) \in Nat /\ Len(Tail(s)) = Len(s) - 1
           /\ (\E i \in DOMAIN s : s[i] = TRUE) <=>
                 Head(s) = TRUE \/ \E i \in DOMAIN Tail(s) : Tail(s)[i] = TRUE
  <1>1. /\ Head(s) = s[1] /\ Head(s) \in BOOLEAN /\ Tail(s) \in Seq(BOOLEAN)
        /\ Len(s) \in Nat \ {0} /\ Len(Tail(s)) = Len(s) - 1
        /\ DOMAIN s = 1 .. Len(s) /\ DOMAIN Tail(s) = 1 .. Len(s) - 1
        /\ \A i \in 1 .. Len(s) - 1 : Tail(s)[i] = s[i + 1]
    OBVIOUS
  <1>2. ASSUME NEW i \in DOMAIN s, s[i] = TRUE, i # 1
        PROVE  \E k \in DOMAIN Tail(s) : Tail(s)[k] = TRUE
    <2>1. i \in 1 .. Len(s) /\ Len(s) \in Nat
      BY <1>1
    <2>2. i - 1 \in 1 .. Len(s) - 1 /\ (i - 1) + 1 = i
      BY <1>2, <2>1
    <2>3. i - 1 \in DOMAIN Tail(s) /\ Tail(s)[i - 1] = s[i]
      BY <1>1, <2>2
    <2> QED
      BY <1>2, <2>3
  <1>3. ASSUME NEW k \in DOMAIN Tail(s), Tail(s)[k] = TRUE
        PROVE  \E i \in DOMAIN s : s[i] = TRUE
    <2>0. k \in 1 .. Len(s) - 1 /\ Len(s) \in Nat
      BY <1>1
    <2>1. k + 1 \in DOMAIN s /\ s[k + 1] = Tail(s)[k]
      BY <1>1, <2>0
    <2> QED
      BY <1>3, <2>1
  <1>4. Head(s) = TRUE => \E i \in DOMAIN s : s[i] = TRUE
    <2>1. 1 \in DOMAIN s
      BY <1>1
    <2> QED
      BY <1>1, <2>1
  <1> QED
    BY <1>1, <1>2, <1>3, <1>4

\* Once four results are received the channel is empty and every loop has told.
LEMMA AllTold ==
    ASSUME Typed, Count, received = 4
    PROVE  results = <<>> /\ ~Bad /\ \A l \in Loop : loops[l] = "reported"
  <1>1. results \in Seq(BOOLEAN) /\ Len(results) \in Nat
    BY DEF Typed
  <1>2. \A l \in Loop : Told(l) \in {0, 1} /\ (Told(l) = 1 => loops[l] = "reported")
    BY DEF Told
  <1>3. Len(results) = 0 /\ \A l \in Loop : Told(l) = 1
    BY <1>1, <1>2 DEF Count, Loop, Listener
  <1>4. results = <<>>
    BY <1>1, <1>3
  <1> QED
    BY <1>2, <1>3, <1>4 DEF Bad

LEMMA InitIInv == Init => IInv
  <1> SUFFICES ASSUME Init PROVE IInv
    OBVIOUS
  <1> USE HandlerAssumption, BindingOrder
  <1>1. Typed
    <2>1. /\ results \in Seq(BOOLEAN) /\ open \subseteq Listener
          /\ loops \in [Loop -> {"none"}] /\ pc \in [Process -> {"idle"}]
          /\ answer \in [Runner -> {"none"}]
      BY DEF Init
    <2>2. bound \in 0 .. Refused /\ received \in Nat
      BY DEF Init
    <2>3. handlers \in 0 .. MaxHandlers
      BY DEF Init
    <2>4. shutdown \in {"no", "busy", "done"}
      BY DEF Init
    <2>5. /\ cancelled \in BOOLEAN /\ stopped \in BOOLEAN
          /\ runStarted \in BOOLEAN /\ closeRequested \in BOOLEAN /\ finished \in BOOLEAN
          /\ closeSignal \in BOOLEAN /\ fatalSignal \in BOOLEAN /\ unexpected \in BOOLEAN
          /\ failure \in BOOLEAN /\ alarm \in BOOLEAN
      BY DEF Init
    <2>6. loops \in [Loop -> {"none", "serving", "ended", "failed", "reported"}]
      BY <2>1
    <2>7. pc \in [Process -> {"idle", "done"} \cup Asking \cup Running]
      BY <2>1
    <2>8. answer \in [Runner -> {"none", "nil", "already", "error"}]
      BY <2>1
    <2> QED
      BY <2>1, <2>2, <2>3, <2>4, <2>5, <2>6, <2>7, <2>8 DEF Typed
  <1>2. Construction /\ Doors
    BY DEF Init, Construction, Doors, Process
  <1>3. Calls
    BY DEF Init, Calls, Process, Asking, Running
  <1>4. Progress
    BY DEF Init, Progress, Process, Judged
  <1>5. Count
    BY DEF Init, Count, Told, Loop, Listener
  <1>6. Causes /\ Heard
    BY DEF Init, Causes, Heard, NoFalseAlarm, Bad
  <1> QED
    BY <1>1, <1>2, <1>3, <1>4, <1>5, <1>6 DEF IInv
-----------------------------------------------------------------------------
\* New binds the next listener, in the order Construction counts on.
LEMMA BindIInv ==
    ASSUME IInv, Bind
    PROVE  IInv'
  <1> USE BindingOrder, ProcessAssumption, HandlerAssumption
  <1>1. Typed'
    BY DEF IInv, Typed, Bind, Process, flags, local, history, Asking, Running
  <1>2. Calls' /\ Progress' /\ Count' /\ Causes' /\ Heard'
    BY DEF IInv, Bind, flags, local, history, Calls, Progress, Count, Causes, Heard, Asking, Bad, Judged, NoFalseAlarm, Running, StopAsked, Told
  <1>3. Construction'
    BY DEF IInv, Typed, Process, flags, local, history, Bind, Construction
  <1>4. Doors'
    BY DEF IInv, Construction, Doors, StopAsked, Bind, flags, local, history
  <1> QED
    BY <1>1, <1>2, <1>3, <1>4 DEF IInv

\* New gives back what it had bound.
LEMMA BindFailsIInv ==
    ASSUME IInv, BindFails
    PROVE  IInv'
  <1> USE BindingOrder, ProcessAssumption, HandlerAssumption
  <1>1. Typed'
    BY DEF IInv, Typed, BindFails, Released, Process, flags, local, history, Asking, Running
  <1>2. Calls' /\ Progress' /\ Count' /\ Causes' /\ Heard'
    BY DEF IInv, BindFails, flags, local, history, Calls, Progress, Count, Causes, Heard, Asking, Bad, Judged, NoFalseAlarm, Running, StopAsked, Told
  <1>3. Construction'
    BY DEF IInv, Typed, Process, flags, local, history, BindFails, Released, Construction
  <1>4. Doors'
    BY DEF IInv, Typed, Process, flags, local, history, BindFails, Released, Doors, StopAsked
  <1> QED
    BY <1>1, <1>2, <1>3, <1>4 DEF IInv

\* New returns the server, its three listeners open.
LEMMA ConstructedIInv ==
    ASSUME IInv, Constructed
    PROVE  IInv'
  <1> USE BindingOrder, ProcessAssumption, HandlerAssumption
  <1>1. Typed'
    BY DEF IInv, Typed, Constructed, Process, flags, local, history, Asking, Running
  <1>2. Doors' /\ Calls' /\ Progress' /\ Count' /\ Causes' /\ Heard'
    BY DEF IInv, Constructed, flags, local, history, Doors, Calls, Progress, Count, Causes, Heard, Asking, Bad, Judged, NoFalseAlarm, Running, StopAsked, Told
  <1>3. Construction'
    <2>1. bound = 3 /\ bound' = 4 /\ UNCHANGED <<open, shutdown, pc, flags>>
      BY DEF Constructed
    <2>2. open = Listener
      BY <2>1 DEF IInv, Construction
    <2> QED
      BY <2>1, <2>2 DEF Construction
  <1> QED
    BY <1>1, <1>2, <1>3 DEF IInv

\* A loop ends because of a stop that was asked for.
LEMMA LoopEndsIInv ==
    ASSUME IInv, NEW l \in Loop, LoopEnds(l)
    PROVE  IInv'
  <1> USE BindingOrder, ProcessAssumption, HandlerAssumption
  <1>1. Typed'
    BY DEF IInv, Typed, LoopEnds, Process, flags, local, history, Asking, Running
  <1>2. Construction' /\ Doors' /\ Calls' /\ Heard'
    BY DEF IInv, LoopEnds, flags, local, history, Construction, Doors, Calls, Heard, Asking, Bad, Judged, Running, StopAsked
  <1>3. Progress'
    BY DEF IInv, Typed, Process, flags, local, history, LoopEnds, Progress, Judged
  <1>4. Count'
    BY DEF IInv, Typed, Process, flags, local, history, LoopEnds, Count, Told
  <1>5. Causes'
    <2>1. loops[l] = "serving" /\ Ended(l) /\ loops' = [loops EXCEPT ![l] = "ended"]
      BY DEF LoopEnds
    <2>2. cancelled \/ StopAsked
      <3>1. CASE l = "sweeper"
        BY <2>1, <3>1 DEF Ended, RunContextDone, StopAsked
      <3>2. CASE l # "sweeper"
        <4>1. l \notin open /\ open # Listener
          BY <2>1, <3>2 DEF Ended, Loop
        <4>2. runStarted
          BY <2>1 DEF IInv, Progress
        <4>3. shutdown # "no"
          BY <4>1, <4>2 DEF IInv, Construction
        <4> QED
          BY <4>3 DEF IInv, Doors
      <3> QED
        BY <3>1, <3>2
    <2>3. \A k \in Loop : loops'[k] = IF k = l THEN "ended" ELSE loops[k]
      BY <2>1 DEF IInv, Typed
    <2>4. UNCHANGED <<cancelled, stopped, flags, results, unexpected, fatalSignal, failure, answer>>
      BY DEF LoopEnds, flags, local, history
    <2> QED
      BY <2>2, <2>3, <2>4 DEF IInv, Causes, StopAsked, Bad, NoFalseAlarm, flags
  <1> QED
    BY <1>1, <1>2, <1>3, <1>4, <1>5 DEF IInv

\* A loop that fails leaves the trace the alarm refers to.
LEMMA LoopFailsIInv ==
    ASSUME IInv, NEW l \in Loop, LoopFails(l)
    PROVE  IInv'
  <1> USE BindingOrder, ProcessAssumption, HandlerAssumption
  <1>1. Typed'
    BY DEF IInv, Typed, LoopFails, Process, flags, local, history, Asking, Running
  <1>2. Construction' /\ Doors' /\ Calls' /\ Heard'
    BY DEF IInv, LoopFails, flags, local, history, Construction, Doors, Calls, Heard, Asking, Bad, Judged, Running, StopAsked
  <1>3. Progress'
    BY DEF IInv, Typed, Process, flags, local, history, LoopFails, Progress, Judged
  <1>4. Count'
    BY DEF IInv, Typed, Process, flags, local, history, LoopFails, Count, Told
  <1>5. Causes'
    BY DEF IInv, Typed, Process, flags, local, history, LoopFails, Causes, StopAsked, Bad, NoFalseAlarm
  <1> QED
    BY <1>1, <1>2, <1>3, <1>4, <1>5 DEF IInv

\* A loop reports once, and says it was unexpected only with a cause.
LEMMA ReportIInv ==
    ASSUME IInv, NEW l \in Loop, Report(l)
    PROVE  IInv'
  <1> USE BindingOrder, ProcessAssumption, HandlerAssumption
  <1>1. Typed'
    BY DEF IInv, Typed, Report, IntentionalStop, RunContextDone, Process, flags, local, history, Asking, Running
  <1>2. Construction' /\ Doors' /\ Calls'
    BY DEF IInv, Report, flags, local, history, Construction, Doors, Calls, Asking, Running, StopAsked
  <1>3. Progress'
    BY DEF IInv, Typed, Process, flags, local, history, Report, IntentionalStop, RunContextDone, Progress, Judged
  <1>4. Count'
    <2>1. /\ loops[l] # "reported" /\ loops' = [loops EXCEPT ![l] = "reported"]
          /\ received' = received /\ results' = Append(results, ~IntentionalStop)
      BY DEF Report, local
    <2>2. Len(results) \in Nat /\ Len(results') = Len(results) + 1 /\ received \in Nat
      BY <2>1 DEF IInv, Typed
    <2>3. /\ Told(l) = 0 /\ Told(l)' = 1
          /\ \A k \in Loop : k # l => Told(k)' = Told(k)
          /\ \A k \in Loop : Told(k) \in {0, 1}
      BY <2>1 DEF IInv, Typed, Told
    <2>4. l \in {"management", "player", "relay", "sweeper"}
      BY DEF Loop, Listener
    <2> QED
      BY <2>1, <2>2, <2>3, <2>4 DEF IInv, Count, Loop, Listener
  <1>5. Causes'
    BY DEF IInv, Typed, Process, flags, local, history, Report, IntentionalStop, RunContextDone, Causes, StopAsked, Bad, NoFalseAlarm
  <1>6. Heard'
    BY DEF IInv, Typed, Process, flags, local, history, Report, IntentionalStop, RunContextDone, Heard, Bad, Judged
  <1> QED
    BY <1>1, <1>2, <1>3, <1>4, <1>5, <1>6 DEF IInv

\* Close asks before it does anything else.
LEMMA CloseRequestIInv ==
    ASSUME IInv, NEW p \in Closer, CloseRequest(p)
    PROVE  IInv'
  <1> USE BindingOrder, ProcessAssumption, HandlerAssumption
  <1>1. Typed'
    BY DEF IInv, Typed, CloseRequest, Goto, Process, flags, local, history, Asking, Running
  <1>2. Count'
    BY DEF IInv, CloseRequest, flags, local, history, Count, Told
  <1>3. Construction'
    BY DEF IInv, Typed, Process, flags, local, history, CloseRequest, Goto, Construction
  <1>4. Doors'
    BY DEF IInv, Typed, Process, flags, local, history, CloseRequest, Goto, Doors, StopAsked
  <1>5. Calls'
    BY DEF IInv, Typed, Process, flags, local, history, CloseRequest, Goto, Calls, Asking, Running
  <1>6. Progress'
    BY DEF IInv, Typed, Process, flags, local, history, CloseRequest, Goto, Progress, Judged
  <1>7. Causes'
    BY DEF IInv, Typed, Process, flags, local, history, CloseRequest, Goto, Causes, StopAsked, Bad, NoFalseAlarm
  <1>8. Heard'
    BY DEF IInv, Typed, Process, flags, local, history, CloseRequest, Goto, Heard, Bad, Judged
  <1> QED
    BY <1>1, <1>2, <1>3, <1>4, <1>5, <1>6, <1>7, <1>8 DEF IInv

\* Close tells Run.
LEMMA CloseSignalsIInv ==
    ASSUME IInv, NEW p \in Closer, CloseSignals(p)
    PROVE  IInv'
  <1> USE BindingOrder, ProcessAssumption, HandlerAssumption
  <1>1. Typed'
    BY DEF IInv, Typed, CloseSignals, Goto, Process, flags, local, history, Asking, Running
  <1>2. Count' /\ Causes'
    BY DEF IInv, CloseSignals, flags, local, history, Count, Causes, Bad, NoFalseAlarm, StopAsked, Told
  <1>3. Construction'
    BY DEF IInv, Typed, Process, flags, local, history, CloseSignals, Goto, Construction
  <1>4. Doors'
    BY DEF IInv, Typed, Process, flags, local, history, CloseSignals, Goto, Doors, StopAsked
  <1>5. Calls'
    BY DEF IInv, Typed, Process, flags, local, history, CloseSignals, Goto, Calls, Asking, Running
  <1>6. Progress'
    BY DEF IInv, Typed, Process, flags, local, history, CloseSignals, Goto, Progress, Judged
  <1>7. Heard'
    BY DEF IInv, Typed, Process, flags, local, history, CloseSignals, Goto, Heard, Bad, Judged
  <1> QED
    BY <1>1, <1>2, <1>3, <1>4, <1>5, <1>6, <1>7 DEF IInv

\* Only the first call of Run gets past the guard.
LEMMA RunEntersIInv ==
    ASSUME IInv, NEW r \in Runner, RunEnters(r)
    PROVE  IInv'
  <1> USE BindingOrder, ProcessAssumption, HandlerAssumption
  <1>1. Typed'
    <2>1. /\ UNCHANGED <<bound, open, cancelled, stopped, closeRequested, finished, closeSignal,
                         fatalSignal, shutdown, loops, results, local, handlers, history>>
          /\ runStarted' \in BOOLEAN
          /\ pc' \in [Process -> {"idle", "done"} \cup Asking \cup Running]
          /\ answer' \in [Runner -> {"none", "nil", "already", "error"}]
      BY DEF IInv, Typed, RunEnters, Answer, Goto, Process, Running
    <2> QED
      BY <2>1 DEF IInv, Typed, local, history
  <1>2. Count'
    BY DEF IInv, RunEnters, flags, local, history, Count, Told
  <1>3. Construction'
    BY DEF IInv, Typed, Process, flags, local, history, RunEnters, Answer, Goto, Construction
  <1>4. Doors'
    BY DEF IInv, Typed, Process, flags, local, history, RunEnters, Answer, Goto, Doors, StopAsked
  <1>5. Calls'
    BY DEF IInv, Typed, Process, flags, local, history, RunEnters, Answer, Goto, Calls, Asking, Running
  <1>6. Progress'
    BY DEF IInv, Typed, Process, flags, local, history, RunEnters, Answer, Goto, Progress, Judged
  <1>7. Causes'
    BY DEF IInv, Typed, Process, flags, local, history, RunEnters, Answer, Goto, Causes, StopAsked, Bad, NoFalseAlarm
  <1>8. Heard'
    <2>1. UNCHANGED <<alarm, unexpected, results, fatalSignal, finished>>
      BY DEF RunEnters, local, history
    <2>2. \A s \in Runner : pc'[s] = "finish" <=> pc[s] = "finish"
      BY DEF IInv, Typed, RunEnters, Answer, Goto, Process
    <2>3. \A s \in Runner : answer[s] = "error" => answer'[s] = "error"
      BY DEF IInv, Typed, Calls, RunEnters, Answer, Process
    <2> QED
      BY <2>1, <2>2, <2>3 DEF IInv, Heard, Bad, Judged
  <1> QED
    BY <1>1, <1>2, <1>3, <1>4, <1>5, <1>6, <1>7, <1>8 DEF IInv

\* The loops start when nothing has been heard of them yet.
LEMMA StartLoopsIInv ==
    ASSUME IInv, NEW r \in Runner, StartLoops(r)
    PROVE  IInv'
  <1> USE BindingOrder, ProcessAssumption, HandlerAssumption
  <1>1. Typed'
    BY DEF IInv, Typed, StartLoops, Goto, Process, flags, local, history, Asking, Running
  <1>2. Construction'
    BY DEF IInv, Typed, Process, flags, local, history, StartLoops, Goto, Construction
  <1>3. Doors'
    BY DEF IInv, Typed, Process, flags, local, history, StartLoops, Goto, Doors, StopAsked
  <1>4. Calls'
    BY DEF IInv, Typed, Process, flags, local, history, StartLoops, Goto, Calls, Asking, Running
  <1>5. Progress'
    <2>1. /\ pc[r] = "start" /\ pc'[r] = "select"
          /\ \A q \in Process : q # r => pc'[q] = pc[q]
          /\ UNCHANGED <<flags, received, unexpected, stopped, shutdown>>
      BY DEF IInv, Typed, StartLoops, Goto, Process, local
    <2>2. /\ runStarted /\ ~finished /\ received = 0 /\ unexpected = FALSE
          /\ \A s \in Runner : s # r => pc[s] \notin Running
      BY <2>1 DEF IInv, Calls, Progress, Running
    <2>3. \A s \in Runner : s # r => pc'[s] \notin Running
      BY <2>1, <2>2 DEF Process
    <2> QED
      BY <2>1, <2>2, <2>3 DEF Progress, Judged, flags, Running
  <1>6. Count'
    <2>1. /\ \A k \in Loop : loops[k] = "none" /\ loops'[k] = "serving"
          /\ UNCHANGED <<received, results>>
      BY DEF IInv, Progress, StartLoops, local
    <2>2. \A k \in Loop : Told(k) = 0 /\ Told(k)' = 0
      BY <2>1 DEF Told
    <2> QED
      BY <2>1, <2>2 DEF IInv, Count, Loop, Listener
  <1>7. Causes'
    BY DEF IInv, Typed, Process, flags, local, history, StartLoops, Goto, Causes, StopAsked, Bad, NoFalseAlarm
  <1>8. Heard'
    BY DEF IInv, Typed, Process, flags, local, history, StartLoops, Goto, Heard, Bad, Judged
  <1> QED
    BY <1>1, <1>2, <1>3, <1>4, <1>5, <1>6, <1>7, <1>8 DEF IInv

\* Whatever the first select chooses, a failure stays on its way.
LEMMA SelectIInv ==
    ASSUME IInv, NEW r \in Runner, Select(r)
    PROVE  IInv'
  <1> USE BindingOrder, ProcessAssumption, HandlerAssumption
  <1>1. /\ pc[r] = "select" /\ pc' = [pc EXCEPT ![r] = "cancel"]
        /\ UNCHANGED <<bound, open, cancelled, stopped, flags, fatalSignal, shutdown, loops, answer,
                       handlers, history>>
    BY DEF Select, Goto
  <1>2. /\ pc'[r] = "cancel" /\ \A q \in Process : q # r => pc'[q] = pc[q]
        /\ runStarted /\ ~finished /\ received = 0 /\ unexpected = FALSE
        /\ \A s \in Runner : s # r => pc[s] \notin Running /\ pc'[s] \notin Running
    BY <1>1 DEF IInv, Typed, Calls, Progress, Process, Running
  <1>3. /\ received' \in Nat /\ unexpected' \in BOOLEAN /\ results' \in Seq(BOOLEAN)
        /\ received' + Len(results') = received + Len(results)
        /\ Bad \/ unexpected \/ fatalSignal <=> Bad' \/ unexpected' \/ fatalSignal
        /\ Bad => Bad' \/ unexpected'
    <2>0. results \in Seq(BOOLEAN)
      BY DEF IInv, Typed
    <2>1. CASE UNCHANGED <<results, local>>
      BY <1>2, <2>0, <2>1 DEF Bad, local
    <2>2. CASE fatalSignal /\ unexpected' = TRUE /\ UNCHANGED <<results, received>>
      BY <1>2, <2>0, <2>2 DEF Bad
    <2>3. CASE results # <<>> /\ received' = 1 /\ unexpected' = Head(results) /\ results' = Tail(results)
      <3>1. /\ Head(results) \in BOOLEAN /\ Tail(results) \in Seq(BOOLEAN)
            /\ Len(results) \in Nat /\ Len(Tail(results)) = Len(results) - 1
            /\ Bad <=> Head(results) = TRUE \/ \E i \in DOMAIN Tail(results) : Tail(results)[i] = TRUE
        BY <2>0, <2>3, TakeResult DEF Bad
      <3>2. Bad <=> unexpected' \/ Bad'
        BY <2>3, <3>1 DEF Bad
      <3>3. received' + Len(results') = (received + 1) + (Len(results) - 1)
        <4>1. received' = received + 1
          BY <1>2, <2>3
        <4> QED
          BY <2>3, <3>1, <4>1, Zenon
      <3>4. (received + 1) + (Len(results) - 1) = received + Len(results)
        BY <1>2, <3>1, OneMoved, Zenon
      <3> QED
        BY <1>2, <2>3, <3>1, <3>2, <3>3, <3>4
    <2> QED
      BY <2>1, <2>2, <2>3 DEF Select
  <1>4. Typed'
    BY <1>1, <1>3 DEF IInv, Typed, flags, history, Running
  <1>5. Construction' /\ Doors' /\ Calls'
    BY <1>1, <1>2 DEF IInv, Construction, Doors, StopAsked, Calls, Asking, Running, flags, Process
  <1>6. Progress'
    BY <1>1, <1>2 DEF IInv, Progress, Judged, flags, Running, Process
  <1>7. Count'
    BY <1>1, <1>3 DEF IInv, Count, Told
  <1>8. Causes'
    BY <1>1, <1>3 DEF IInv, Causes, StopAsked, NoFalseAlarm, flags, history
  <1>9. Heard'
    BY <1>1, <1>2, <1>3 DEF IInv, Heard, Judged, flags, history, Running
  <1> QED
    BY <1>4, <1>5, <1>6, <1>7, <1>8, <1>9 DEF IInv

\* The loops are told to stop before they are joined.
LEMMA CancelRunIInv ==
    ASSUME IInv, NEW r \in Runner, CancelRun(r)
    PROVE  IInv'
  <1> USE BindingOrder, ProcessAssumption, HandlerAssumption
  <1>1. Typed'
    BY DEF IInv, Typed, CancelRun, Goto, Process, flags, local, history, Asking, Running
  <1>2. Count'
    BY DEF IInv, CancelRun, flags, local, history, Count, Told
  <1>3. Construction'
    BY DEF IInv, Typed, Process, flags, local, history, CancelRun, Goto, Construction
  <1>4. Doors'
    BY DEF IInv, Typed, Process, flags, local, history, CancelRun, Goto, Doors, StopAsked
  <1>5. Calls'
    BY DEF IInv, Typed, Process, flags, local, history, CancelRun, Goto, Calls, Asking, Running
  <1>6. Progress'
    BY DEF IInv, Typed, Process, flags, local, history, CancelRun, Goto, Progress, Judged
  <1>7. Causes'
    BY DEF IInv, Typed, Process, flags, local, history, CancelRun, Goto, Causes, StopAsked, Bad, NoFalseAlarm
  <1>8. Heard'
    BY DEF IInv, Typed, Process, flags, local, history, CancelRun, Goto, Heard, Bad, Judged
  <1> QED
    BY <1>1, <1>2, <1>3, <1>4, <1>5, <1>6, <1>7, <1>8 DEF IInv

\* A result moves from the channel into the verdict so far.
LEMMA ReceiveIInv ==
    ASSUME IInv, NEW r \in Runner, Receive(r)
    PROVE  IInv'
  <1>1. /\ pc[r] = "join" /\ received # 4 /\ results # <<>>
        /\ received' = received + 1 /\ unexpected' = (unexpected \/ Head(results))
        /\ results' = Tail(results)
        /\ UNCHANGED <<bound, open, cancelled, stopped, flags, fatalSignal, shutdown, loops, pc,
                       answer, handlers, history>>
    BY FourLoops DEF Receive, AllReceived
  <1>2. /\ runStarted /\ ~finished /\ ~Judged
        /\ \A s \in Runner : pc[s] \notin {"start", "select"}
    BY <1>1 DEF IInv, Calls, Progress, Running
  <1>3. /\ received \in Nat /\ received' \in Nat /\ results' \in Seq(BOOLEAN)
        /\ received' + Len(results') = received + Len(results)
        /\ unexpected' \in BOOLEAN
        /\ Bad \/ unexpected <=> Bad' \/ unexpected'
    <2>1. results \in Seq(BOOLEAN) /\ received \in Nat /\ unexpected \in BOOLEAN
      BY DEF IInv, Typed
    <2>2. /\ Head(results) \in BOOLEAN /\ Tail(results) \in Seq(BOOLEAN)
          /\ Len(results) \in Nat /\ Len(Tail(results)) = Len(results) - 1
          /\ Bad <=> Head(results) = TRUE \/ \E i \in DOMAIN Tail(results) : Tail(results)[i] = TRUE
      BY <1>1, <2>1, TakeResult DEF Bad
    <2>3. Bad' <=> \E i \in DOMAIN Tail(results) : Tail(results)[i] = TRUE
      BY <1>1 DEF Bad
    <2>4. unexpected' \in BOOLEAN /\ (unexpected' <=> unexpected \/ Head(results) = TRUE)
      BY <1>1, <2>1, <2>2
    <2>5. Bad \/ unexpected <=> Bad' \/ unexpected'
      BY <2>2, <2>3, <2>4
    <2>6. Len(results') = Len(results) - 1
      BY <1>1, <2>2, Zenon
    <2>7. received' + Len(results') = (received + 1) + (Len(results) - 1)
      BY <1>1, <2>6, Zenon
    <2>8. (received + 1) + (Len(results) - 1) = received + Len(results) /\ received + 1 \in Nat
      BY <2>1, <2>2, OneMoved, Zenon
    <2> QED
      BY <1>1, <2>1, <2>2, <2>4, <2>5, <2>7, <2>8
  <1>4. Typed'
    BY <1>1, <1>3 DEF IInv, Typed, flags, history
  <1>5. Construction' /\ Doors' /\ Calls'
    BY <1>1 DEF IInv, Construction, Doors, StopAsked, Calls, flags
  <1>6. Progress'
    BY <1>1, <1>2 DEF IInv, Progress, Judged, flags
  <1>7. Count'
    BY <1>1, <1>3 DEF IInv, Count, Told
  <1>8. Causes'
    BY <1>1, <1>3 DEF IInv, Causes, StopAsked, NoFalseAlarm, flags, history
  <1>9. Heard'
    BY <1>1, <1>2, <1>3 DEF IInv, Heard, Judged, flags, history
  <1> QED
    BY <1>4, <1>5, <1>6, <1>7, <1>8, <1>9 DEF IInv

\* The last select looks at the fatal signal once more.
LEMMA JudgeIInv ==
    ASSUME IInv, NEW r \in Runner, Judge(r)
    PROVE  IInv'
  <1> USE BindingOrder, ProcessAssumption, HandlerAssumption
  <1>1. Typed'
    BY DEF IInv, Typed, Judge, AllReceived, Verdict, Goto, Process, flags, local, history, Asking, Running
  <1>2. Count'
    BY DEF IInv, Judge, flags, local, history, Count, Told
  <1>3. Construction'
    BY DEF IInv, Typed, Process, flags, local, history, Judge, AllReceived, Verdict, Goto, Construction
  <1>4. Doors'
    BY DEF IInv, Typed, Process, flags, local, history, Judge, AllReceived, Verdict, Goto, Doors, StopAsked
  <1>5. Calls'
    BY DEF IInv, Typed, Process, flags, local, history, Judge, AllReceived, Verdict, Goto, Calls, Asking, Running
  <1>6. Progress'
    <2>1. /\ pc[r] = "join" /\ received = 4 /\ pc'[r] = "finish"
          /\ \A q \in Process : q # r => pc'[q] = pc[q]
          /\ UNCHANGED <<flags, received, loops, stopped, shutdown>>
      BY FourLoops DEF IInv, Typed, Judge, AllReceived, Goto, Process
    <2>2. /\ runStarted /\ ~finished /\ stopped /\ shutdown = "done"
          /\ \A s \in Runner : s # r => pc[s] \notin Running
      BY <2>1 DEF IInv, Calls, Progress, Running
    <2>3. \A s \in Runner : s # r => pc'[s] \notin Running
      BY <2>1, <2>2 DEF Process
    <2> QED
      BY <2>1, <2>2, <2>3 DEF Progress, Judged, flags, Running
  <1>7. Causes'
    BY DEF IInv, Typed, Process, flags, local, history, Judge, AllReceived, Verdict, Goto, Causes, StopAsked, Bad, NoFalseAlarm
  <1>8. Heard'
    <2>1. /\ pc[r] = "join" /\ received = 4 /\ pc'[r] = "finish"
          /\ unexpected' = (unexpected \/ fatalSignal)
          /\ UNCHANGED <<flags, fatalSignal, results, answer, history>>
      BY FourLoops DEF IInv, Typed, Judge, AllReceived, Verdict, Goto, Process
    <2>2. ~finished /\ ~Bad
      BY <2>1, AllTold DEF IInv, Calls, Running
    <2>3. alarm => unexpected \/ fatalSignal
      BY <2>2 DEF IInv, Heard
    <2> QED
      BY <2>1, <2>2, <2>3 DEF Heard, flags, history
  <1> QED
    BY <1>1, <1>2, <1>3, <1>4, <1>5, <1>6, <1>7, <1>8 DEF IInv

\* The verdict becomes the answer.
LEMMA FinishIInv ==
    ASSUME IInv, NEW r \in Runner, Finish(r)
    PROVE  IInv'
  <1> USE BindingOrder, ProcessAssumption, HandlerAssumption
  <1>1. Typed'
    BY DEF IInv, Typed, Finish, Answer, Goto, Process, flags, local, history, Asking, Running
  <1>2. Count'
    BY DEF IInv, Finish, flags, local, history, Count, Told
  <1>3. Construction'
    BY DEF IInv, Typed, Process, flags, local, history, Finish, Answer, Goto, Construction
  <1>4. Doors'
    BY DEF IInv, Typed, Process, flags, local, history, Finish, Answer, Goto, Doors, StopAsked
  <1>5. Calls'
    BY DEF IInv, Typed, Process, flags, local, history, Finish, Answer, Goto, Calls, Asking, Running
  <1>6. Progress'
    BY DEF IInv, Typed, Process, flags, local, history, Finish, Answer, Goto, Progress, Judged
  <1>7. Causes'
    BY DEF IInv, Typed, Process, flags, local, history, Finish, Answer, Goto, Causes, StopAsked, Bad, NoFalseAlarm
  <1>8. Heard'
    BY DEF IInv, Typed, Process, flags, local, history, Finish, Answer, Goto, Heard, Bad, Judged
  <1> QED
    BY <1>1, <1>2, <1>3, <1>4, <1>5, <1>6, <1>7, <1>8 DEF IInv

\* The surroundings ask for a stop, send requests and see them answered.
LEMMA CancelIInv ==
    ASSUME IInv, Cancel
    PROVE  IInv'
  <1> USE BindingOrder, ProcessAssumption, HandlerAssumption
  <1>1. Typed'
    BY DEF IInv, Typed, Cancel, Process, flags, local, history, Asking, Running
  <1>2. Construction' /\ Doors' /\ Calls' /\ Progress' /\ Count' /\ Heard'
    BY DEF IInv, Cancel, flags, local, history, Construction, Doors, Calls, Progress, Count, Heard, Asking, Bad, Judged, Running, StopAsked, Told
  <1>3. Causes'
    BY DEF IInv, Typed, Process, flags, local, history, Cancel, Causes, StopAsked, Bad, NoFalseAlarm
  <1> QED
    BY <1>1, <1>2, <1>3 DEF IInv

LEMMA RequestArrivesIInv ==
    ASSUME IInv, RequestArrives
    PROVE  IInv'
  <1> USE BindingOrder, ProcessAssumption, HandlerAssumption
  <1>1. Typed'
    BY DEF IInv, Typed, RequestArrives, Process, flags, local, history, Asking, Running
  <1>2. Construction' /\ Doors' /\ Calls' /\ Progress' /\ Count' /\ Causes' /\ Heard'
    BY DEF IInv, RequestArrives, flags, local, history, Construction, Doors, Calls, Progress, Count, Causes, Heard, Asking, Bad, Judged, NoFalseAlarm, Running, StopAsked, Told
  <1> QED
    BY <1>1, <1>2 DEF IInv

\* A fatal handler raises the alarm while the last select is still to come.
LEMMA RequestDoneIInv ==
    ASSUME IInv, RequestDone
    PROVE  IInv'
  <1> USE BindingOrder, ProcessAssumption, HandlerAssumption
  <1>1. Typed'
    BY DEF IInv, Typed, RequestDone, AllReceived, Process, flags, local, history, Asking, Running
  <1>2. Construction' /\ Doors' /\ Calls' /\ Progress' /\ Count'
    BY DEF IInv, RequestDone, flags, local, history, Construction, Doors, Calls, Progress, Count, Asking, Judged, Running, StopAsked, Told
  <1>3. Causes'
    BY DEF IInv, Typed, Process, flags, local, history, RequestDone, AllReceived, Causes, StopAsked, Bad, NoFalseAlarm
  <1>4. Heard'
    <2>1. PICK fatal \in BOOLEAN : /\ fatalSignal' = (fatalSignal \/ fatal)
                                  /\ alarm' = (alarm \/ (fatal /\ received # 4))
      BY FourLoops DEF RequestDone, AllReceived
    <2>2. UNCHANGED <<finished, pc, results, unexpected, answer>>
      BY DEF RequestDone, flags, local
    <2>3. Judged => received = 4
      BY DEF IInv, Progress
    <2>4. alarm' => unexpected \/ Bad \/ (fatalSignal' /\ ~Judged)
      BY <2>1, <2>3 DEF IInv, Heard
    <2> QED
      BY <2>2, <2>4 DEF IInv, Heard, Bad, Judged
  <1> QED
    BY <1>1, <1>2, <1>3, <1>4 DEF IInv

\* A caller of shutdown waits, or becomes the one that closes the listeners.
LEMMA EnterShutdownIInv ==
    ASSUME IInv, NEW p \in Process, NEW next, EnterShutdown(p, next),
           \/ p \in Closer /\ pc[p] = "shutdown" /\ next = "done"
           \/ p \in Runner /\ pc[p] = "stop" /\ next = "join"
    PROVE  IInv'
  <1> USE BindingOrder, ProcessAssumption
  <1>1. /\ UNCHANGED <<bound, open, cancelled, stopped, flags, fatalSignal, loops, results, local,
                       answer, handlers, history>>
        /\ pc' \in [Process -> {"idle", "done"} \cup Asking \cup Running]
        /\ \A q \in Process : q # p => pc'[q] = pc[q]
        /\ \/ shutdown = "no" /\ shutdown' = "busy" /\ pc'[p] = "closing"
           \/ shutdown = "done" /\ shutdown' = "done" /\ pc'[p] = next
    BY DEF IInv, Typed, EnterShutdown, ShutdownOver, Goto, Asking, Running
  <1>2. bound = Ready /\ StopAsked
    BY DEF IInv, Construction, Calls, Progress, StopAsked, Process
  <1>3. Typed'
    BY <1>1 DEF IInv, Typed, flags, local, history
  <1>4. Construction' /\ Doors'
    BY <1>1, <1>2 DEF IInv, Construction, Doors, StopAsked, flags
  <1>5. Calls'
    BY <1>1 DEF IInv, Calls, Process, flags, Asking, Running
  <1>6. Progress'
    <2>1. \A r \in Runner : pc'[r] \in {"start", "select", "finish"} => pc'[r] = pc[r]
      BY <1>1 DEF Process
    <2>2. \A r \in Runner : pc'[r] \in {"stop", "closing", "join", "finish"} => stopped
      BY <1>1 DEF IInv, Progress, Process
    <2>3. \A r \in Runner : pc'[r] = "join" => shutdown' = "done"
      BY <1>1 DEF IInv, Progress, Process
    <2>4. finished \/ (\E r \in Runner : pc[r] = "finish") => shutdown = "done" /\ shutdown' = "done"
      BY <1>1 DEF IInv, Progress
    <2>5. Judged' => Judged
      BY <1>1, <2>1 DEF Judged, flags
    <2> QED
      BY <1>1, <2>1, <2>2, <2>3, <2>4, <2>5 DEF IInv, Progress, flags, local
  <1>7. Count' /\ Causes'
    BY <1>1 DEF IInv, Count, Told, Causes, StopAsked, Bad, NoFalseAlarm, flags, local, history
  <1>8. Heard'
    <2>1. \A r \in Runner : pc'[r] = "finish" <=> pc[r] = "finish"
      BY <1>1 DEF Process
    <2> QED
      BY <1>1, <2>1 DEF IInv, Heard, Bad, Judged, flags, local, history
  <1> QED
    BY <1>3, <1>4, <1>5, <1>6, <1>7, <1>8 DEF IInv

\* The caller inside shutdown closes the next listener, or leaves when none is open.
LEMMA CloseListenerIInv ==
    ASSUME IInv, NEW p \in Process, NEW next, CloseListener(p, next),
           p \in Closer => next = "done", p \in Runner => next = "join"
    PROVE  IInv'
  <1> USE BindingOrder, ProcessAssumption
  <1>1. /\ pc[p] = "closing" /\ shutdown = "busy"
        /\ UNCHANGED <<bound, cancelled, stopped, flags, fatalSignal, loops, results, local, answer,
                       handlers, history>>
        /\ next \in {"done", "join"}
        /\ pc' \in [Process -> {"idle", "done"} \cup Asking \cup Running]
        /\ \A q \in Process : q # p => pc'[q] = pc[q] /\ pc[q] # "closing"
        /\ \/ open = {} /\ open' = {} /\ shutdown' = "done" /\ pc'[p] = next
           \/ open' \subseteq open /\ shutdown' = shutdown /\ pc'[p] = pc[p]
    BY DEF IInv, Typed, Doors, CloseListener, Goto, Asking, Running, Process
  <1>2. bound = Ready /\ StopAsked
    BY <1>1 DEF IInv, Construction, Doors
  <1>3. Typed'
    BY <1>1 DEF IInv, Typed, flags, local, history
  <1>4. Construction' /\ Doors'
    BY <1>1, <1>2 DEF IInv, Construction, Doors, StopAsked, flags
  <1>5. Calls'
    BY <1>1 DEF IInv, Calls, Process, flags, Asking, Running
  <1>6. Progress'
    <2>1. \A r \in Runner : pc'[r] \in {"start", "select", "stop", "finish"} => pc'[r] = pc[r]
      BY <1>1 DEF Process
    <2>2. \A r \in Runner : pc'[r] \in {"stop", "closing", "join", "finish"} => stopped
      BY <1>1 DEF IInv, Progress, Process
    <2>3. ~finished /\ \A r \in Runner : pc[r] \notin {"join", "finish"}
      BY <1>1 DEF IInv, Progress
    <2>4. \A r \in Runner : pc'[r] = "join" => shutdown' = "done"
      BY <1>1, <2>3 DEF Process
    <2> QED
      BY <1>1, <2>1, <2>2, <2>3, <2>4 DEF IInv, Progress, Judged, flags, local
  <1>7. Count' /\ Causes'
    BY <1>1 DEF IInv, Count, Told, Causes, StopAsked, Bad, NoFalseAlarm, flags, local, history
  <1>8. Heard'
    <2>1. \A r \in Runner : pc'[r] = "finish" <=> pc[r] = "finish"
      BY <1>1 DEF Process
    <2> QED
      BY <1>1, <2>1 DEF IInv, Heard, Bad, Judged, flags, local, history
  <1> QED
    BY <1>3, <1>4, <1>5, <1>6, <1>7, <1>8 DEF IInv

LEMMA NextIInv == IInv /\ [Next]_vars => IInv'
  <1> SUFFICES ASSUME IInv, [Next]_vars PROVE IInv'
    OBVIOUS
  <1>1. CASE Bind \/ BindFails \/ Constructed
    BY <1>1, BindIInv, BindFailsIInv, ConstructedIInv
  <1>2. CASE \E l \in Loop : LoopEnds(l) \/ LoopFails(l) \/ Report(l)
    BY <1>2, LoopEndsIInv, LoopFailsIInv, ReportIInv
  <1>3. ASSUME NEW p \in Closer, CloseRequest(p) \/ CloseStep(p)
        PROVE  IInv'
    <2>1. CASE CloseShutdown(p)
      BY <2>1, EnterShutdownIInv DEF CloseShutdown, Process
    <2>0. p \in Process /\ p \notin Runner
      BY ProcessAssumption DEF Process
    <2>2. CASE CloseListener(p, "done")
      BY <2>0, <2>2, CloseListenerIInv
    <2> QED
      BY <1>3, <2>1, <2>2, CloseRequestIInv, CloseSignalsIInv DEF CloseStep
  <1>4. ASSUME NEW r \in Runner, RunEnters(r) \/ RunStep(r)
        PROVE  IInv'
    <2>1. CASE RunShutdown(r)
      BY <2>1, EnterShutdownIInv DEF RunShutdown, Process
    <2>0. r \in Process /\ r \notin Closer
      BY ProcessAssumption DEF Process
    <2>2. CASE CloseListener(r, "join")
      BY <2>0, <2>2, CloseListenerIInv
    <2> QED
      BY <1>4, <2>1, <2>2, RunEntersIInv, StartLoopsIInv, SelectIInv, CancelRunIInv, ReceiveIInv,
         JudgeIInv, FinishIInv DEF RunStep
  <1>5. CASE Cancel \/ RequestArrives \/ RequestDone
    BY <1>5, CancelIInv, RequestArrivesIInv, RequestDoneIInv
  <1>6. CASE UNCHANGED vars
    <2>1. Typed' /\ Construction' /\ Doors' /\ Calls'
      BY <1>6 DEF vars, flags, local, history, IInv, Typed, Construction, Doors, Calls, StopAsked
    <2>2. Progress' /\ Count' /\ Causes' /\ Heard'
      BY <1>6 DEF vars, flags, local, history, IInv, Progress, Judged, Count, Told, Causes,
                  StopAsked, Bad, NoFalseAlarm, Heard
    <2> QED
      BY <2>1, <2>2 DEF IInv
  <1> QED
    BY <1>1, <1>2, <1>3, <1>4, <1>5, <1>6 DEF Next
-----------------------------------------------------------------------------
\* When New fails, when Close returns to any of its callers, and when Run returns,
\* no listener is open; and Run leaves no loop and no result behind.
THEOREM ServerLeavesNothing == Spec => []NothingLeftBehind
  <1>1. IInv => NothingLeftBehind
    <2> SUFFICES ASSUME IInv PROVE NothingLeftBehind
      OBVIOUS
    <2>1. TypeOK
      BY CountBounds DEF IInv
    <2>2. bound = Refused => open = {}
      BY DEF IInv, Construction
    <2>3. (\E p \in Closer : Returned(p)) => open = {}
      BY DEF IInv, Calls, Doors, Returned
    <2>4. finished => open = {} /\ results = <<>> /\ \A l \in Loop : loops[l] = "reported"
      BY AllTold DEF IInv, Progress, Judged, Doors
    <2> QED
      BY <2>1, <2>2, <2>3, <2>4 DEF NothingLeftBehind
  <1> QED
    BY <1>1, InitIInv, NextIInv, PTL DEF Spec

\* A failure that was there to be learnt of before the verdict makes Run return the
\* error, whatever the first select chose and however the loops end.
THEOREM ServerReportsFailure == Spec => []FailureReported
  <1>1. IInv => FailureReported
    BY AllTold DEF IInv, Heard, Progress, Judged, FailureReported
  <1> QED
    BY <1>1, InitIInv, NextIInv, PTL DEF Spec

\* A stop that was asked for is not reported as a failure of the loops it ended.
THEOREM ServerRaisesNoFalseAlarm == Spec => []NoFalseAlarm
  <1>1. IInv => NoFalseAlarm
    BY DEF IInv, Causes
  <1> QED
    BY <1>1, InitIInv, NextIInv, PTL DEF Spec
=============================================================================
