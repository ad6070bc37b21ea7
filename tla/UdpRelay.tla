------------------------------ MODULE UdpRelay ------------------------------
(***************************************************************************)
(* The UDP loop: type Relay in src/internal/relay/udp.go.  One goroutine   *)
(* reads a datagram, asks the store, and writes the answer or the fan-out  *)
(* before it reads the next; Close and Counters may be called at any time. *)
(* A step ends where one of them can come between: at the atomic flag, at  *)
(* the socket, and wherever the counters' mutex is released.               *)
(*                                                                         *)
(* Abstractions.  What the store answers to a datagram is a choice among   *)
(* the answers it has (RelayStore models them): the datagram is dropped    *)
(* for one reason, answered or taken quietly (a handshake, a ping),        *)
(* admitted with a plan for some recipients, or the random source failed.  *)
(* The drop counters are one: recordDrop adds to it and to one of them.    *)
(***************************************************************************)
EXTENDS Integers

CONSTANTS Runner, Closer,   \* the calls of Run and of Close
          MaxDatagrams,     \* bound: datagrams received
          MaxRecipients     \* the largest plan

ASSUME ProcessAssumption == Runner \cap Closer = {}
ASSUME BoundAssumption == MaxDatagrams \in Nat /\ MaxRecipients \in Nat

VARIABLES
    run, closed,        \* of the Relay
    once,               \* closeOnce: nobody, somebody inside, or done
    socket,             \* open or not
    counters,           \* Counters
    batch,              \* recipients of the plan not written to yet
    pc, result,         \* where each call is, what each Run returned
    quiet,              \* history: datagrams answered or taken quietly
    faults              \* history: reads that went wrong on an open socket

vars == <<run, closed, once, socket, counters, batch, pc, result, quiet, faults>>

Counters == [received : Nat, accepted : Nat, dropped : Nat,
             attempts : Nat, successes : Nat, errors : Nat]

Init ==
    /\ run = FALSE /\ closed = FALSE
    /\ once = "no"
    /\ socket = "open"
    /\ counters = [received |-> 0, accepted |-> 0, dropped |-> 0,
                   attempts |-> 0, successes |-> 0, errors |-> 0]
    /\ batch = 0
    /\ pc = [p \in Runner \cup Closer |-> "idle"]
    /\ result = [r \in Runner |-> "none"]
    /\ quiet = 0 /\ faults = 0

Goto(p, there) == pc' = [pc EXCEPT ![p] = there]
Returns(r, what) == result' = [result EXCEPT ![r] = what] /\ Goto(r, "done")
Counted(counter) == counters' = [counters EXCEPT ![counter] = @ + 1]
-----------------------------------------------------------------------------
\* Close, by whoever is first; the others wait until the socket is closed.
CloseBegins(p) ==
    /\ pc[p] = "idle" /\ once = "no"
    /\ once' = "busy"
    /\ Goto(p, "mark")
    /\ UNCHANGED <<run, closed, socket, counters, batch, result, quiet, faults>>

\* Mutant: the socket is closed before the flag is set.
CloseMarksLate(p) ==
    \/ /\ pc[p] = "mark"
       /\ socket' = "closed" /\ Goto(p, "close")
       /\ UNCHANGED <<run, closed, once, counters, batch, result, quiet, faults>>
    \/ /\ pc[p] = "close"
       /\ closed' = TRUE /\ once' = "done" /\ Goto(p, "done")
       /\ UNCHANGED <<run, socket, counters, batch, result, quiet, faults>>

\* Mutant: the flag is set, but the pending read is not interrupted.
CloseLeavesSocket(p) ==
    /\ pc[p] = "mark"
    /\ closed' = TRUE /\ once' = "done" /\ Goto(p, "done")
    /\ UNCHANGED <<run, socket, counters, batch, result, quiet, faults>>

CloseGoesOn(p) ==
    \/ /\ pc[p] = "mark"
       /\ closed' = TRUE /\ Goto(p, "close")
       /\ UNCHANGED <<run, once, socket, counters, batch, result, quiet, faults>>
    \/ /\ pc[p] = "close"
       /\ socket' = "closed" /\ once' = "done" /\ Goto(p, "done")
       /\ UNCHANGED <<run, closed, counters, batch, result, quiet, faults>>

CloseAgain(p) ==
    /\ pc[p] = "idle" /\ once = "done"
    /\ Goto(p, "done")
    /\ UNCHANGED <<run, closed, once, socket, counters, batch, result, quiet, faults>>
-----------------------------------------------------------------------------
RunEnters(r) ==
    /\ pc[r] = "idle"
    /\ \/ run /\ Returns(r, "already") /\ UNCHANGED run
       \/ ~run /\ closed /\ Returns(r, "nil") /\ UNCHANGED run
       \/ ~run /\ ~closed /\ run' = TRUE /\ Goto(r, "check") /\ UNCHANGED result
    /\ UNCHANGED <<closed, once, socket, counters, batch, quiet, faults>>

\* What the loop looks at before it reads, and after a read that failed.
Stops(r) == closed

Check(r) ==
    /\ pc[r] = "check"
    /\ IF Stops(r) THEN Returns(r, "nil") ELSE Goto(r, "read") /\ UNCHANGED result
    /\ UNCHANGED <<run, closed, once, socket, counters, batch, quiet, faults>>

\* The read returns an error: the socket is closed, or it fails by itself.
ReadFails(r) ==
    /\ pc[r] = "read"
    /\ Goto(r, "failed")
    /\ faults' = IF socket = "open" THEN faults + 1 ELSE faults
    /\ UNCHANGED <<run, closed, once, socket, counters, batch, result, quiet>>

\* The read returns a count that no read into the buffer has: an error, whether
\* or not Close has begun.
ReadMiscounts(r) ==
    /\ pc[r] = "read" /\ socket = "open"
    /\ Returns(r, "read error")
    /\ faults' = faults + 1
    /\ UNCHANGED <<run, closed, once, socket, counters, batch, quiet>>

Failed(r) ==
    /\ pc[r] = "failed"
    /\ Returns(r, IF closed THEN "nil" ELSE "read error")
    /\ UNCHANGED <<run, closed, once, socket, counters, batch, quiet, faults>>

Read(r) ==
    /\ pc[r] = "read" /\ socket = "open"
    /\ counters.received < MaxDatagrams
    /\ Goto(r, "dispatch")
    /\ Counted("received")
    /\ UNCHANGED <<run, closed, once, socket, batch, result, quiet, faults>>

\* dispatch, up to the answer of the store (and of the encoder).
Dispatch(r) ==
    /\ pc[r] = "dispatch"
    /\ \/ Goto(r, "drop") /\ UNCHANGED <<batch, result, quiet>>
       \/ Goto(r, "check") /\ quiet' = quiet + 1 /\ UNCHANGED <<batch, result>>
       \/ \E n \in 0 .. MaxRecipients : batch' = n /\ Goto(r, "accept") /\ UNCHANGED <<result, quiet>>
       \/ Returns(r, "internal error") /\ UNCHANGED <<batch, quiet>>
    /\ UNCHANGED <<run, closed, once, socket, counters, faults>>

\* recordDrop.
Drop(r) ==
    /\ pc[r] = "drop"
    /\ Counted("dropped") /\ Goto(r, "check")
    /\ UNCHANGED <<run, closed, once, socket, batch, result, quiet, faults>>

Accept(r) ==
    /\ pc[r] = "accept"
    /\ Counted("accepted") /\ Goto(r, "fanout")
    /\ UNCHANGED <<run, closed, once, socket, batch, result, quiet, faults>>

\* writeFanout: nobody to write to, or the write deadline cannot be set.
SkipFanout(r) ==
    /\ pc[r] = "fanout"
    /\ batch' = 0 /\ Goto(r, "check")
    /\ UNCHANGED <<run, closed, once, socket, counters, result, quiet, faults>>

BeginFanout(r) ==
    /\ pc[r] = "fanout" /\ batch > 0
    /\ Goto(r, "next")
    /\ UNCHANGED <<run, closed, once, socket, counters, batch, result, quiet, faults>>

\* writeFanout: the next recipient, counted before the write.
Attempt(r) ==
    /\ pc[r] = "next"
    /\ IF batch > 0 THEN Counted("attempts") /\ Goto(r, "write")
       ELSE Goto(r, "check") /\ UNCHANGED counters
    /\ UNCHANGED <<run, closed, once, socket, batch, result, quiet, faults>>

\* Mutant: a failed write does not stop the batch.
WriteGoesOn(r) ==
    /\ pc[r] = "write"
    /\ batch' = batch - 1 /\ Goto(r, "next")
    /\ \/ Counted("errors")
       \/ socket = "open" /\ Counted("successes")
    /\ UNCHANGED <<run, closed, once, socket, result, quiet, faults>>

\* The write to one recipient; the first that fails ends the batch.
Write(r) ==
    /\ pc[r] = "write"
    /\ \/ /\ socket = "open"
          /\ Counted("successes") /\ batch' = batch - 1 /\ Goto(r, "next")
       \/ Counted("errors") /\ batch' = 0 /\ Goto(r, "check")
    /\ UNCHANGED <<run, closed, once, socket, result, quiet, faults>>

CloseStep(p) == CloseGoesOn(p) \/ CloseAgain(p)

RunStep(r) ==
    \/ Check(r) \/ Failed(r) \/ Dispatch(r) \/ Drop(r) \/ Accept(r)
    \/ SkipFanout(r) \/ BeginFanout(r) \/ Attempt(r) \/ Write(r)

Next ==
    \/ \E p \in Closer : CloseBegins(p) \/ CloseStep(p)
    \/ \E r \in Runner : RunEnters(r) \/ RunStep(r) \/ Read(r) \/ ReadFails(r) \/ ReadMiscounts(r)

Spec == Init /\ [][Next]_vars

\* A goroutine that can go on does; a write ends by its deadline, a read of a
\* closed socket fails.  Nothing need be received, nobody need call Close.
Fairness ==
    /\ \A p \in Closer : WF_vars(CloseStep(p))
    /\ \A r \in Runner : /\ WF_vars(RunStep(r))
                         /\ WF_vars(socket = "closed" /\ ReadFails(r))

FairSpec == Spec /\ Fairness
-----------------------------------------------------------------------------
TypeOK ==
    /\ {run, closed} \subseteq BOOLEAN
    /\ once \in {"no", "busy", "done"}
    /\ socket \in {"open", "closed"}
    /\ counters \in Counters
    /\ batch \in 0 .. MaxRecipients
    /\ pc \in [Runner \cup Closer -> {"idle", "mark", "close", "check", "read", "failed", "dispatch",
                                      "drop", "accept", "fanout", "next", "write", "done"}]
    /\ result \in [Runner -> {"none", "nil", "already", "read error", "internal error"}]
    /\ quiet \in Nat /\ faults \in Nat

Unsettled == {r \in Runner : pc[r] \in {"dispatch", "drop", "accept"} \/ result[r] = "internal error"}

DatagramsAccounted ==
    counters.received = counters.accepted + counters.dropped + quiet
                        + IF Unsettled = {} THEN 0 ELSE 1

WritesAccounted ==
    /\ counters.attempts - (counters.successes + counters.errors) =
          IF \E r \in Runner : pc[r] = "write" THEN 1 ELSE 0
    /\ counters.errors <= counters.accepted

\* What a reader of the counters may rely on at any moment, though they are
\* added to in several sections of the mutex.  Every datagram received is settled
\* once: dropped for one reason, accepted, or taken quietly (ADR 0003: at most one
\* drop reason); only the one in hand, or the one at which the random source
\* failed, is not.  Every attempt to write succeeds or fails, but for the one being
\* made, and no more than one fails for an accepted packet (ADR 0003: an error
\* stops the batch).
Accounted == TypeOK /\ DatagramsAccounted /\ WritesAccounted

\* Closing is no failure: the read that fails because the socket was closed
\* makes Run return nil, and a read error is reported only when there was one.
ClosingIsClean == \A r \in Runner : result[r] = "read error" => faults > 0

\* Once it is closed the loop ends, in the middle of a fan-out too.
CloseEndsRun == \A r \in Runner : closed /\ pc[r] # "idle" ~> pc[r] = "done"
=============================================================================
