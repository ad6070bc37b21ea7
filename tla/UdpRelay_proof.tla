---------------------------- MODULE UdpRelay_proof ----------------------------
(***************************************************************************)
(* Proofs about the UDP loop, for any calls of Run and of Close, any       *)
(* number of datagrams and any plans.  What makes the counters add up is   *)
(* that at most one call of Run ever gets into the loop: the books leave   *)
(* room for one datagram in hand and one write, not for two.               *)
(***************************************************************************)
EXTENDS UdpRelay, TLAPS

Sending == {"fanout", "next", "write"}
Looping == {"check", "read", "failed", "dispatch", "drop", "accept"} \cup Sending

\* A call of Run is, or was, in the loop: it cleared the guard of Run.
Entered(r) == pc[r] \in Looping \/ result[r] \in {"read error", "internal error"}

OneLoop ==
    /\ \A r \in Runner : Entered(r) => run
    /\ \A r, s \in Runner : Entered(r) /\ Entered(s) => r = s

\* Where each kind of call can be, and that an answer is given at the end only.
Places ==
    /\ \A r \in Runner : pc[r] \in {"idle", "done"} \cup Looping
    /\ \A r \in Runner : result[r] # "none" => pc[r] = "done"
    /\ \A p \in Closer : pc[p] \in {"idle", "mark", "close", "done"}

\* A batch under way has not failed yet: it owes the error it may still make, and
\* there is somebody to write to.
ErrorsBacked ==
    /\ (\E r \in Runner : pc[r] = "write") => batch > 0
    /\ counters.errors <= counters.accepted
    /\ (\E r \in Runner : pc[r] \in Sending) => counters.errors < counters.accepted

\* The socket is closed after the flag is set, and a read fails by itself or
\* for that reason.
FlagFirst ==
    /\ \A p \in Closer : pc[p] = "close" => closed
    /\ socket = "closed" => closed
    /\ \A r \in Runner : pc[r] = "failed" => faults > 0 \/ closed

IInv ==
    /\ TypeOK /\ OneLoop /\ Places
    /\ DatagramsAccounted /\ WritesAccounted /\ ErrorsBacked
    /\ FlagFirst /\ ClosingIsClean

\* Nobody has called anything yet.
LEMMA InitIInv == Init => IInv
  <1> SUFFICES ASSUME Init PROVE IInv
    OBVIOUS
  <1>1. TypeOK
    <2>1. {run, closed} \subseteq BOOLEAN
      BY DEF Init
    <2>2. counters \in Counters
      BY DEF Init, Counters
    <2>3. pc \in [Runner \cup Closer -> {"idle"}] /\ result \in [Runner -> {"none"}]
      BY DEF Init
    <2> QED
      BY <2>1, <2>2, <2>3, BoundAssumption DEF Init, TypeOK
  <1>2. \A r \in Runner : ~Entered(r) /\ pc[r] = "idle" /\ result[r] = "none"
    BY DEF Init, Entered, Looping, Sending
  <1>3. OneLoop /\ Places /\ FlagFirst /\ ClosingIsClean
    BY <1>2 DEF Init, OneLoop, Places, FlagFirst, ClosingIsClean
  <1>4. /\ Unsettled = {}
        /\ \A r \in Runner : pc[r] # "write" /\ pc[r] \notin Sending
    BY <1>2 DEF Unsettled, Sending
  <1>5. /\ counters.received = 0 /\ counters.accepted = 0 /\ counters.dropped = 0
        /\ counters.attempts = 0 /\ counters.successes = 0 /\ counters.errors = 0
        /\ quiet = 0
    BY DEF Init
  <1>6. DatagramsAccounted /\ WritesAccounted /\ ErrorsBacked
    BY <1>4, <1>5 DEF DatagramsAccounted, WritesAccounted, ErrorsBacked
  <1> QED
    BY <1>1, <1>3, <1>6 DEF IInv

\* Close touches neither the counters nor the calls of Run.
LEMMA CloseKeepsIInv ==
    ASSUME IInv, NEW p \in Closer, CloseBegins(p) \/ CloseStep(p)
    PROVE  IInv'
  <1> USE ProcessAssumption
  <1>1. /\ UNCHANGED <<run, counters, batch, result, quiet, faults>>
        /\ pc' \in [Runner \cup Closer -> {"idle", "mark", "close", "done"} \cup Looping]
        /\ pc'[p] \in {"mark", "close", "done"}
        /\ \A q \in Runner \cup Closer : q # p => pc'[q] = pc[q]
    BY ZenonT(60) DEF IInv, TypeOK, CloseBegins, CloseStep, CloseGoesOn, CloseAgain, Goto, Places, Looping, Sending
  <1>2. \A r \in Runner : pc'[r] = pc[r] /\ (Entered(r)' <=> Entered(r))
    BY <1>1 DEF Entered
  <1>3. TypeOK'
    BY <1>1 DEF IInv, TypeOK, CloseBegins, CloseStep, CloseGoesOn, CloseAgain, Looping, Sending
  <1>4. OneLoop' /\ Places'
    BY <1>1, <1>2 DEF IInv, OneLoop, Places
  <1>5. Unsettled' = Unsettled
    BY <1>1, <1>2 DEF Unsettled
  <1>6. DatagramsAccounted' /\ WritesAccounted' /\ ErrorsBacked'
    BY <1>1, <1>2, <1>5 DEF IInv, DatagramsAccounted, WritesAccounted, ErrorsBacked
  <1>7. FlagFirst' /\ ClosingIsClean'
    BY <1>1, <1>2 DEF IInv, FlagFirst, ClosingIsClean, CloseBegins, CloseStep, CloseGoesOn,
                      CloseAgain, Goto, TypeOK
  <1> QED
    BY <1>3, <1>4, <1>6, <1>7 DEF IInv

InHand == {"dispatch", "drop", "accept"}

\* A step of the call that is in the loop: nobody else is there, and so the books
\* look at where this call is, before the step and after it.
LEMMA LoopFrame ==
    ASSUME IInv, NEW r \in Runner, pc[r] \in Looping,
           run' = run,
           pc' \in [Runner \cup Closer -> {"idle", "mark", "close", "done"} \cup Looping],
           \A q \in Runner \cup Closer : q # r => pc'[q] = pc[q],
           \A s \in Runner : s # r => result'[s] = result[s],
           pc'[r] \in Looping \cup {"done"},
           result'[r] # "none" => pc'[r] = "done"
    PROVE  /\ OneLoop' /\ Places'
           /\ Unsettled = {} <=> pc[r] \notin InHand
           /\ Unsettled' = {} <=> pc'[r] \notin InHand /\ result'[r] # "internal error"
           /\ (\E s \in Runner : pc[s] = "write") <=> pc[r] = "write"
           /\ (\E s \in Runner : pc'[s] = "write") <=> pc'[r] = "write"
           /\ (\E s \in Runner : pc[s] \in Sending) <=> pc[r] \in Sending
           /\ (\E s \in Runner : pc'[s] \in Sending) <=> pc'[r] \in Sending
  <1> USE ProcessAssumption
  <1>1. run /\ \A s \in Runner : Entered(s) => s = r
    BY DEF IInv, OneLoop, Entered
  <1>2. \A s \in Runner : s # r => ~Entered(s) /\ (Entered(s)' <=> Entered(s))
    BY <1>1 DEF Entered
  <1>3. OneLoop'
    BY <1>1, <1>2 DEF OneLoop
  <1>4. Places'
    BY DEF IInv, Places
  <1>5. result[r] # "internal error" /\ pc[r] # "done"
    BY DEF IInv, Places, Looping, Sending
  <1>6. \A s \in Runner : s # r => /\ pc[s] \notin Looping /\ pc'[s] \notin Looping
                                   /\ result[s] # "internal error" /\ result'[s] # "internal error"
    BY <1>2 DEF Entered
  <1>7. InHand \subseteq Looping /\ Sending \subseteq Looping /\ "write" \in Sending
    BY DEF InHand, Looping, Sending
  <1>8. Unsettled = {} <=> pc[r] \notin InHand
    BY <1>5, <1>6, <1>7 DEF Unsettled, InHand
  <1>9. Unsettled' = {} <=> pc'[r] \notin InHand /\ result'[r] # "internal error"
    BY <1>6, <1>7 DEF Unsettled, InHand
  <1> QED
    BY <1>3, <1>4, <1>6, <1>7, <1>8, <1>9

\* The call of Run that finds the loop taken, or the relay closed, never enters;
\* the one that enters is the first.
LEMMA RunEntersIInv ==
    ASSUME IInv, NEW r \in Runner, RunEnters(r)
    PROVE  IInv'
  <1> USE ProcessAssumption
  <1>1. /\ UNCHANGED <<closed, once, socket, counters, batch, quiet, faults>>
        /\ pc[r] = "idle" /\ result[r] = "none" /\ ~Entered(r)
        /\ pc' \in [Runner \cup Closer -> {"idle", "mark", "close", "done"} \cup Looping]
        /\ \A q \in Runner \cup Closer : q # r => pc'[q] = pc[q]
        /\ result' \in [Runner -> {"none", "nil", "already", "read error", "internal error"}]
        /\ \A s \in Runner : s # r => result'[s] = result[s]
        /\ \/ run' = run /\ pc'[r] = "done" /\ result'[r] \in {"nil", "already"}
           \/ run' = TRUE /\ run = FALSE /\ pc'[r] = "check" /\ result'[r] = "none"
    <2>1. pc[r] = "idle" /\ result[r] = "none" /\ run \in BOOLEAN
      BY DEF RunEnters, IInv, Places, TypeOK
    <2>2. ~Entered(r)
      BY <2>1 DEF Entered, Looping, Sending
    <2>3. pc \in [Runner \cup Closer -> {"idle", "mark", "close", "done"} \cup Looping]
      BY DEF IInv, TypeOK, Looping, Sending
    <2> QED
      BY <2>1, <2>2, <2>3 DEF RunEnters, Returns, Goto, IInv, TypeOK, Looping
  <1>2. TypeOK'
    BY <1>1 DEF IInv, TypeOK, Looping, Sending
  <1>3. \A s \in Runner : s # r => (Entered(s)' <=> Entered(s))
    BY <1>1 DEF Entered
  <1>4. Entered(r)' => run' /\ ~run
    BY <1>1 DEF Entered, Looping, Sending
  <1>5. OneLoop'
    <2>1. run => run'
      BY <1>1
    <2>2. \A s \in Runner : Entered(s)' => run'
      BY <1>3, <1>4, <2>1 DEF IInv, OneLoop
    <2>3. \A s \in Runner : s # r /\ Entered(s)' => run
      BY <1>3 DEF IInv, OneLoop
    <2>4. \A s, t \in Runner : Entered(s)' /\ Entered(t)' => s = t
      BY <1>3, <1>4, <2>3 DEF IInv, OneLoop
    <2> QED
      BY <2>2, <2>4 DEF OneLoop
  <1>6. Places'
    BY <1>1 DEF IInv, Places, Looping
  <1>7. Unsettled' = Unsettled
    BY <1>1 DEF Unsettled
  <1>8. \A s \in Runner : (pc'[s] = "write" <=> pc[s] = "write") /\ (pc'[s] \in Sending <=> pc[s] \in Sending)
    BY <1>1 DEF Sending
  <1>9. DatagramsAccounted' /\ WritesAccounted' /\ ErrorsBacked'
    BY <1>1, <1>7, <1>8 DEF IInv, DatagramsAccounted, WritesAccounted, ErrorsBacked
  <1>10. FlagFirst' /\ ClosingIsClean'
    BY <1>1 DEF IInv, FlagFirst, ClosingIsClean
  <1> QED
    BY <1>2, <1>5, <1>6, <1>9, <1>10 DEF IInv

\* A step of the loop, given the books it keeps: everything else follows from
\* the frame above.
LEMMA LoopStepIInv ==
    ASSUME IInv, NEW r \in Runner, NEW there \in Looping,
           pc[r] \in Looping, Goto(r, there),
           UNCHANGED <<run, closed, once, socket, result>>,
           counters' \in Counters, batch' \in 0 .. MaxRecipients,
           quiet' \in Nat, faults' \in Nat, faults' >= faults,
           there = "failed" => faults' > 0 \/ closed,
           counters'.received - counters'.accepted - counters'.dropped - quiet'
             = counters.received - counters.accepted - counters.dropped - quiet
               + (IF there \in InHand THEN 1 ELSE 0) - (IF pc[r] \in InHand THEN 1 ELSE 0),
           counters'.attempts - (counters'.successes + counters'.errors)
             = counters.attempts - (counters.successes + counters.errors)
               + (IF there = "write" THEN 1 ELSE 0) - (IF pc[r] = "write" THEN 1 ELSE 0),
           counters'.errors <= counters'.accepted,
           there \in Sending => counters'.errors < counters'.accepted,
           there = "write" => batch' > 0
    PROVE  IInv'
  <1> USE ProcessAssumption
  <1>1. pc[r] # "done" /\ result[r] = "none"
    BY DEF IInv, Places, TypeOK, Looping, Sending
  <1>2. pc \in [Runner \cup Closer -> {"idle", "mark", "close", "done"} \cup Looping]
    BY DEF IInv, TypeOK, Looping, Sending
  <1>3. /\ pc' \in [Runner \cup Closer -> {"idle", "mark", "close", "done"} \cup Looping]
        /\ pc'[r] = there
        /\ \A q \in Runner \cup Closer : q # r => pc'[q] = pc[q]
    BY <1>2 DEF Goto
  <1>4. /\ OneLoop' /\ Places'
        /\ Unsettled = {} <=> pc[r] \notin InHand
        /\ Unsettled' = {} <=> there \notin InHand
        /\ (\E s \in Runner : pc[s] = "write") <=> pc[r] = "write"
        /\ (\E s \in Runner : pc'[s] = "write") <=> there = "write"
        /\ (\E s \in Runner : pc'[s] \in Sending) <=> there \in Sending
    BY <1>1, <1>3, LoopFrame
  <1>5. TypeOK'
    BY <1>3 DEF IInv, TypeOK, Looping, Sending
  <1>6. counters \in Counters /\ quiet \in Nat
    BY DEF IInv, TypeOK
  <1>7. DatagramsAccounted'
    <2>1. /\ counters.received \in Int /\ counters'.received \in Int
          /\ counters.accepted \in Int /\ counters'.accepted \in Int
          /\ counters.dropped \in Int /\ counters'.dropped \in Int
          /\ quiet \in Int /\ quiet' \in Int
      BY <1>6 DEF Counters
    <2>2. counters.received = counters.accepted + counters.dropped + quiet
                                + IF pc[r] \in InHand THEN 1 ELSE 0
      <3>1. DatagramsAccounted
        BY DEF IInv
      <3>2. CASE pc[r] \in InHand
        BY <1>4, <3>1, <3>2 DEF DatagramsAccounted
      <3>3. CASE pc[r] \notin InHand
        BY <1>4, <3>1, <3>3 DEF DatagramsAccounted
      <3> QED
        BY <3>2, <3>3
    <2>3. counters'.received = counters'.accepted + counters'.dropped + quiet'
                                 + IF there \in InHand THEN 1 ELSE 0
      <3>1. CASE pc[r] \in InHand
        BY <2>1, <2>2, <3>1
      <3>2. CASE pc[r] \notin InHand
        BY <2>1, <2>2, <3>2
      <3> QED
        BY <3>1, <3>2
    <2> QED
      BY <1>4, <2>1, <2>3 DEF DatagramsAccounted
  <1>8. WritesAccounted' /\ ErrorsBacked'
    BY <1>4, <1>6 DEF IInv, WritesAccounted, ErrorsBacked, Counters
  <1>9. FlagFirst'
    <2>1. faults \in Nat
      BY DEF IInv, TypeOK
    <2> QED
      BY <1>3, <2>1 DEF IInv, FlagFirst
  <1>10. ClosingIsClean'
    <2>1. faults \in Nat
      BY DEF IInv, TypeOK
    <2>2. faults > 0 => faults' > 0
      BY <2>1
    <2> QED
      BY <2>2 DEF IInv, ClosingIsClean
  <1> QED
    BY <1>4, <1>5, <1>7, <1>8, <1>9, <1>10 DEF IInv

LEMMA StaysPositive == ASSUME NEW m \in Nat, NEW n \in Nat, n >= m PROVE m > 0 => n > 0
  OBVIOUS

LEMMA NoLess == \A n \in Nat : n >= n
  OBVIOUS

\* The end of a call that was in the loop.  A datagram in hand stays unsettled only
\* when the random source failed at it.
LEMMA LoopEndsIInv ==
    ASSUME IInv, NEW r \in Runner,
           NEW what \in {"nil", "read error", "internal error"},
           pc[r] \in Looping \ Sending, Returns(r, what),
           UNCHANGED <<run, closed, once, socket, counters, batch, quiet>>,
           faults' \in Nat, faults' >= faults,
           what = "internal error" <=> pc[r] \in InHand,
           what = "read error" => faults' > 0
    PROVE  IInv'
  <1> USE ProcessAssumption
  <1>1. pc \in [Runner \cup Closer -> {"idle", "mark", "close", "done"} \cup Looping]
        /\ result \in [Runner -> {"none", "nil", "already", "read error", "internal error"}]
    BY DEF IInv, TypeOK, Looping, Sending
  <1>2. /\ pc' \in [Runner \cup Closer -> {"idle", "mark", "close", "done"} \cup Looping]
        /\ pc'[r] = "done" /\ result'[r] = what
        /\ result' \in [Runner -> {"none", "nil", "already", "read error", "internal error"}]
        /\ \A q \in Runner \cup Closer : q # r => pc'[q] = pc[q]
        /\ \A s \in Runner : s # r => result'[s] = result[s]
    BY <1>1 DEF Returns, Goto
  <1>3. /\ "done" \notin InHand /\ "done" \notin Sending /\ "write" \in Sending
        /\ pc[r] # "write"
    BY DEF InHand, Sending
  <1>4. /\ OneLoop' /\ Places'
        /\ Unsettled = {} <=> pc[r] \notin InHand
        /\ Unsettled' = {} <=> what # "internal error"
        /\ ~(\E s \in Runner : pc[s] = "write")
        /\ ~(\E s \in Runner : pc'[s] = "write")
        /\ ~(\E s \in Runner : pc'[s] \in Sending)
    BY <1>2, <1>3, LoopFrame
  <1>5. TypeOK'
    BY <1>2 DEF IInv, TypeOK, Looping, Sending
  <1>6. DatagramsAccounted' /\ WritesAccounted' /\ ErrorsBacked'
    BY <1>4 DEF IInv, DatagramsAccounted, WritesAccounted, ErrorsBacked
  <1>7. FlagFirst' /\ ClosingIsClean'
    <2>1. faults \in Nat
      BY DEF IInv, TypeOK
    <2>2. faults > 0 => faults' > 0
      BY <2>1, StaysPositive
    <2> QED
      BY <1>2, <2>2 DEF IInv, FlagFirst, ClosingIsClean
  <1> QED
    BY <1>4, <1>5, <1>6, <1>7 DEF IInv

\* The same, when no read goes wrong in the step.
LEMMA LoopEndsQuietly ==
    ASSUME IInv, NEW r \in Runner,
           NEW what \in {"nil", "read error", "internal error"},
           pc[r] \in Looping \ Sending, Returns(r, what),
           UNCHANGED <<run, closed, once, socket, counters, batch, quiet, faults>>,
           what = "internal error" <=> pc[r] \in InHand,
           what = "read error" => faults > 0
    PROVE  IInv'
  <1>1. faults' = faults /\ faults \in Nat
    BY DEF IInv, TypeOK
  <1>2. faults' \in Nat /\ faults' >= faults
    BY <1>1, NoLess
  <1>3. what = "read error" => faults' > 0
    BY <1>1
  <1>4. UNCHANGED <<run, closed, once, socket, counters, batch, quiet>>
    OBVIOUS
  <1> QED
    BY <1>2, <1>3, <1>4, LoopEndsIInv

\* One step of a call that is in the loop, whichever it is.
LEMMA RunStepIInv ==
    ASSUME IInv, NEW r \in Runner, RunStep(r) \/ Read(r) \/ ReadFails(r) \/ ReadMiscounts(r)
    PROVE  IInv'
  <1> USE DEF Looping, Sending, InHand
  <1>0. /\ counters \in Counters /\ batch \in 0 .. MaxRecipients
        /\ quiet \in Nat /\ faults \in Nat /\ MaxRecipients \in Nat
        /\ counters.errors <= counters.accepted
        /\ pc[r] \in Sending => counters.errors < counters.accepted
        /\ pc[r] = "write" => batch > 0
        /\ socket = "closed" => closed
        /\ pc[r] = "failed" => faults > 0 \/ closed
        /\ socket \in {"open", "closed"}
    BY BoundAssumption DEF IInv, TypeOK, ErrorsBacked, FlagFirst
  <1>1. CASE Check(r)
    <2>1. CASE Stops(r)
      BY <1>1, <2>1, LoopEndsQuietly DEF Check
    <2>2. CASE ~Stops(r)
      BY <1>0, <1>1, <2>2, LoopStepIInv DEF Check, Counters
    <2> QED
      BY <2>1, <2>2
  <1>2. CASE Failed(r)
    BY <1>0, <1>2, LoopEndsQuietly DEF Failed
  <1>3. CASE Dispatch(r)
    <2>0. pc[r] = "dispatch" /\ UNCHANGED <<run, closed, once, socket, counters, faults>>
      BY <1>3 DEF Dispatch
    <2>1. CASE Goto(r, "drop") /\ UNCHANGED <<batch, result, quiet>>
      BY <1>0, <2>0, <2>1, LoopStepIInv DEF Counters
    <2>2. CASE Goto(r, "check") /\ quiet' = quiet + 1 /\ UNCHANGED <<batch, result>>
      BY <1>0, <2>0, <2>2, LoopStepIInv DEF Counters
    <2>3. CASE \E n \in 0 .. MaxRecipients : batch' = n /\ Goto(r, "accept") /\ UNCHANGED <<result, quiet>>
      BY <1>0, <2>0, <2>3, LoopStepIInv DEF Counters
    <2>4. CASE Returns(r, "internal error") /\ UNCHANGED <<batch, quiet>>
      BY <2>0, <2>4, LoopEndsQuietly
    <2> QED
      BY <1>3, <2>1, <2>2, <2>3, <2>4 DEF Dispatch
  <1>4. CASE Drop(r)
    BY <1>0, <1>4, LoopStepIInv DEF Drop, Counted, Counters
  <1>5. CASE Accept(r)
    BY <1>0, <1>5, LoopStepIInv DEF Accept, Counted, Counters
  <1>6. CASE SkipFanout(r)
    BY <1>0, <1>6, LoopStepIInv DEF SkipFanout, Counters
  <1>7. CASE BeginFanout(r)
    BY <1>0, <1>7, LoopStepIInv DEF BeginFanout, Counters
  <1>8. CASE Attempt(r)
    <2>1. CASE batch > 0
      BY <1>0, <1>8, <2>1, LoopStepIInv DEF Attempt, Counted, Counters
    <2>2. CASE ~(batch > 0)
      BY <1>0, <1>8, <2>2, LoopStepIInv DEF Attempt, Counters
    <2> QED
      BY <2>1, <2>2
  <1>9. CASE Write(r)
    <2>1. CASE Counted("successes") /\ batch' = batch - 1 /\ Goto(r, "next")
      BY <1>0, <1>9, <2>1, LoopStepIInv DEF Write, Counted, Counters
    <2>2. CASE Counted("errors") /\ batch' = 0 /\ Goto(r, "check")
      BY <1>0, <1>9, <2>2, LoopStepIInv DEF Write, Counted, Counters
    <2> QED
      BY <1>9, <2>1, <2>2 DEF Write
  <1>10. CASE Read(r)
    BY <1>0, <1>10, LoopStepIInv DEF Read, Counted, Counters
  <1>11. CASE ReadFails(r)
    BY <1>0, <1>11, LoopStepIInv DEF ReadFails, Counters
  <1>12. CASE ReadMiscounts(r)
    <2>1. faults + 1 \in Nat /\ faults + 1 >= faults /\ faults + 1 > 0
      BY <1>0
    <2> QED
      BY <1>12, <2>1, LoopEndsIInv DEF ReadMiscounts
  <1> QED
    BY <1>1, <1>2, <1>3, <1>4, <1>5, <1>6, <1>7, <1>8, <1>9, <1>10, <1>11, <1>12 DEF RunStep

LEMMA NextIInv == IInv /\ [Next]_vars => IInv'
  <1> SUFFICES ASSUME IInv, [Next]_vars PROVE IInv'
    OBVIOUS
  <1>1. CASE \E p \in Closer : CloseBegins(p) \/ CloseStep(p)
    BY <1>1, CloseKeepsIInv
  <1>2. CASE \E r \in Runner : RunEnters(r) \/ RunStep(r) \/ Read(r) \/ ReadFails(r) \/ ReadMiscounts(r)
    BY <1>2, RunEntersIInv, RunStepIInv
  <1>3. CASE UNCHANGED vars
    BY <1>3, ZenonT(60) DEF vars, IInv, TypeOK, OneLoop, Entered, Places, DatagramsAccounted, WritesAccounted,
                ErrorsBacked, FlagFirst, ClosingIsClean, Unsettled
  <1> QED
    BY <1>1, <1>2, <1>3 DEF Next
-----------------------------------------------------------------------------
\* At any moment, in the middle of a fan-out or of the closing, every datagram
\* received is in exactly one column of the counters but for the one in hand, and
\* every attempt to write is a success or an error but for the one being made.
THEOREM RelayBooksBalance == Spec => []Accounted
  <1>1. IInv => Accounted
    BY DEF IInv, Accounted, ErrorsBacked
  <1> QED
    BY <1>1, InitIInv, NextIInv, PTL DEF Spec

\* However Close and the loop interleave, the error of a read that was cut short
\* by Close is never returned as a failure.
THEOREM RelayClosesCleanly == Spec => []ClosingIsClean
  <1>1. IInv => ClosingIsClean
    BY DEF IInv
  <1> QED
    BY <1>1, InitIInv, NextIInv, PTL DEF Spec
===============================================================================
