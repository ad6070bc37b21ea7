--------------------------- MODULE ServerLifecycle ---------------------------
(***************************************************************************)
(* The process's life: type Server in src/internal/server/server.go.  New  *)
(* binds three listeners, Run owns four loops and joins them, Close may be *)
(* called by anyone at any time.  A process of the model is a call of Run  *)
(* or of Close or one of the loops; a step ends where the code can be      *)
(* overtaken: at a mutex, a channel, a sync.Once or a socket.              *)
(*                                                                         *)
(* Abstractions.  An HTTP server and its listener are one thing, closed in *)
(* one step.  Errors of closing are left out: Run drops them, Close only   *)
(* passes them on.  Handlers are counted; one that meets the failure of    *)
(* the random source calls notifyFatal, and Server.Close does not wait for *)
(* handlers.  intentionalStop reads the context and then closeRequested;   *)
(* both only ever become true, so that it counts as one reading.           *)
(***************************************************************************)
EXTENDS Integers, Sequences, FiniteSets

CONSTANTS Runner,        \* the calls of Run
          Closer,        \* the calls of Close
          MaxHandlers    \* bound: HTTP requests in flight

ASSUME ProcessAssumption == Runner \cap Closer = {} /\ IsFiniteSet(Runner \cup Closer)
ASSUME HandlerAssumption == MaxHandlers \in Nat

VARIABLES
    bound,           \* what New has come to: listeners bound, or refused
    open,            \* the listeners and the socket now open
    cancelled,       \* the caller's context
    stopped,         \* runContext, cancelled by Run itself
    runStarted, closeRequested, finished,     \* guarded by mu
    closeSignal, fatalSignal,                 \* closed channels
    shutdown,        \* shutdownOnce: nobody, who is inside, or that it is done
    loops,           \* the four goroutines of Run
    results,         \* the channel they report to: was the exit unexpected?
    received, unexpected,                     \* locals of coordinateLoopResults
    pc,              \* where each call is
    answer,          \* what each call of Run returned
    handlers,        \* requests being handled
    failure,         \* history: did a loop fail?
    alarm            \* history: was there a failure that Run could still learn
                     \* of and had to, a failed loop or a call of notifyFatal?

flags == <<runStarted, closeRequested, finished, closeSignal>>
local == <<received, unexpected>>
history == <<failure, alarm>>
vars == <<bound, open, cancelled, stopped, flags, fatalSignal, shutdown, loops, results, local,
          pc, answer, handlers, history>>

Listener == {"management", "player", "relay"}
Loop == Listener \cup {"sweeper"}
Process == Runner \cup Closer
Order == <<"management", "player", "relay">>

Init ==
    /\ bound = 0
    /\ open = {}
    /\ cancelled = FALSE /\ stopped = FALSE
    /\ runStarted = FALSE /\ closeRequested = FALSE /\ finished = FALSE
    /\ closeSignal = FALSE /\ fatalSignal = FALSE
    /\ shutdown = "no"
    /\ loops = [l \in Loop |-> "none"]
    /\ results = <<>>
    /\ received = 0 /\ unexpected = FALSE
    /\ pc = [p \in Process |-> "idle"]
    /\ answer = [r \in Runner |-> "none"]
    /\ handlers = 0
    /\ failure = FALSE /\ alarm = FALSE

Goto(p, there) == pc' = [pc EXCEPT ![p] = there]
-----------------------------------------------------------------------------
(***************************************************************************)
(* New: bind in order, or give back what was bound.                        *)
(***************************************************************************)
\* bound counts the listeners New has bound; beyond them New has returned, the
\* server or an error.
Ready == Len(Order) + 1
Refused == Len(Order) + 2

Bind ==
    /\ bound < Len(Order)
    /\ bound' = bound + 1
    /\ open' = open \cup {Order[bound + 1]}
    /\ UNCHANGED <<cancelled, stopped, flags, fatalSignal, shutdown, loops, results, local, pc,
                   answer, handlers, history>>

Released == open \ {Order[i] : i \in 1 .. bound}

\* A configuration or a listener that is refused, or a handler that cannot be built.
BindFails ==
    /\ bound \in 0 .. Len(Order)
    /\ bound' = Refused
    /\ open' = Released
    /\ UNCHANGED <<cancelled, stopped, flags, fatalSignal, shutdown, loops, results, local, pc,
                   answer, handlers, history>>

Constructed ==
    /\ bound = Len(Order)
    /\ bound' = Ready
    /\ UNCHANGED <<open, cancelled, stopped, flags, fatalSignal, shutdown, loops, results, local,
                   pc, answer, handlers, history>>
-----------------------------------------------------------------------------
(***************************************************************************)
(* The four loops.                                                         *)
(***************************************************************************)
RunContextDone == cancelled \/ stopped

\* Mutant: the sweeper is given the caller's context.
EndedByCaller(l) == IF l = "sweeper" THEN cancelled ELSE l \notin open

\* What a loop waits for to end by itself: its socket closed, or its context.
Ended(l) == IF l = "sweeper" THEN RunContextDone ELSE l \notin open

LoopEnds(l) ==
    /\ loops[l] = "serving" /\ Ended(l)
    /\ loops' = [loops EXCEPT ![l] = "ended"]
    /\ UNCHANGED <<bound, open, cancelled, stopped, flags, fatalSignal, shutdown, results, local,
                   pc, answer, handlers, history>>

\* Accept or read fails, or the relay meets the failure of the random source.
LoopFails(l) ==
    /\ loops[l] = "serving" /\ l # "sweeper" /\ l \in open
    /\ loops' = [loops EXCEPT ![l] = "failed"]
    /\ failure' = TRUE
    /\ UNCHANGED <<bound, open, cancelled, stopped, flags, fatalSignal, shutdown, results, local,
                   pc, answer, handlers, alarm>>

\* Mutant: only the context counts as a reason to stop.
IntentionalStopByContext == RunContextDone

IntentionalStop == RunContextDone \/ closeRequested

\* classifyLoopResult and the send; the channel holds all four results.
Report(l) ==
    /\ loops[l] \in {"ended", "failed"}
    /\ loops' = [loops EXCEPT ![l] = "reported"]
    /\ results' = Append(results, ~IntentionalStop)
    /\ alarm' = (alarm \/ (loops[l] = "failed" /\ ~(cancelled \/ stopped \/ closeRequested)))
    /\ UNCHANGED <<bound, open, cancelled, stopped, flags, fatalSignal, shutdown, local, pc,
                   answer, handlers, failure>>
-----------------------------------------------------------------------------
(***************************************************************************)
(* shutdown, which Run and Close share: the first to come closes the three *)
(* listeners in turn, whoever comes meanwhile waits.                       *)
(***************************************************************************)
\* Mutant: a flag instead of a sync.Once; who comes second does not wait.
ShutdownOverBusy == shutdown # "no"

ShutdownOver == shutdown = "done"

EnterShutdown(p, next) ==
    /\ \/ shutdown = "no" /\ shutdown' = "busy" /\ Goto(p, "closing")
       \/ ShutdownOver /\ UNCHANGED shutdown /\ Goto(p, next)
    /\ UNCHANGED <<bound, open, cancelled, stopped, flags, fatalSignal, loops, results, local,
                   answer, handlers, history>>

\* The next listener in order, the server's and its own Close together.
CloseListener(p, next) ==
    /\ pc[p] = "closing"
    /\ IF open = {}
       THEN shutdown' = "done" /\ Goto(p, next) /\ UNCHANGED open
       ELSE /\ open' = open \ {Order[CHOOSE i \in DOMAIN Order :
                                       /\ Order[i] \in open
                                       /\ \A j \in DOMAIN Order : Order[j] \in open => i <= j]}
            /\ UNCHANGED <<shutdown, pc>>
    /\ UNCHANGED <<bound, cancelled, stopped, flags, fatalSignal, loops, results, local, answer,
                   handlers, history>>
-----------------------------------------------------------------------------
(***************************************************************************)
(* Close.                                                                  *)
(***************************************************************************)
CloseRequest(p) ==
    /\ pc[p] = "idle" /\ bound = Ready
    /\ closeRequested' = TRUE
    /\ Goto(p, "signal")
    /\ UNCHANGED <<bound, open, cancelled, stopped, runStarted, finished, closeSignal, fatalSignal,
                   shutdown, loops, results, local, answer, handlers, history>>

CloseSignals(p) ==
    /\ pc[p] = "signal"
    /\ closeSignal' = TRUE
    /\ Goto(p, "shutdown")
    /\ UNCHANGED <<bound, open, cancelled, stopped, runStarted, closeRequested, finished,
                   fatalSignal, shutdown, loops, results, local, answer, handlers, history>>

CloseShutdown(p) == pc[p] = "shutdown" /\ EnterShutdown(p, "done")

CloseStep(p) ==
    \/ CloseSignals(p)
    \/ CloseShutdown(p)
    \/ CloseListener(p, "done")
-----------------------------------------------------------------------------
(***************************************************************************)
(* Run.                                                                    *)
(***************************************************************************)
Answer(r, what) == answer' = [answer EXCEPT ![r] = what] /\ Goto(r, "done")

RunEnters(r) ==
    /\ pc[r] = "idle" /\ bound = Ready
    /\ \/ /\ closeRequested
          /\ Answer(r, "nil") /\ UNCHANGED runStarted
       \/ /\ ~closeRequested /\ (runStarted \/ finished)
          /\ Answer(r, "already") /\ UNCHANGED runStarted
       \/ /\ ~closeRequested /\ ~(runStarted \/ finished)
          /\ runStarted' = TRUE /\ Goto(r, "start") /\ UNCHANGED answer
    /\ UNCHANGED <<bound, open, cancelled, stopped, closeRequested, finished, closeSignal,
                   fatalSignal, shutdown, loops, results, local, handlers, history>>

StartLoops(r) ==
    /\ pc[r] = "start"
    /\ loops' = [l \in Loop |-> "serving"]
    /\ Goto(r, "select")
    /\ UNCHANGED <<bound, open, cancelled, stopped, flags, fatalSignal, shutdown, results, local,
                   answer, handlers, history>>

\* The first select of coordinateLoopResults: any channel that is ready.
Select(r) ==
    /\ pc[r] = "select"
    /\ \/ RunContextDone /\ UNCHANGED <<results, local>>
       \/ closeSignal /\ UNCHANGED <<results, local>>
       \/ fatalSignal /\ unexpected' = TRUE /\ UNCHANGED <<results, received>>
       \/ /\ results # <<>>
          /\ received' = 1 /\ unexpected' = Head(results) /\ results' = Tail(results)
    /\ Goto(r, "cancel")
    /\ UNCHANGED <<bound, open, cancelled, stopped, flags, fatalSignal, shutdown, loops, answer,
                   handlers, history>>

CancelRun(r) ==
    /\ pc[r] = "cancel"
    /\ stopped' = TRUE
    /\ Goto(r, "stop")
    /\ UNCHANGED <<bound, open, cancelled, flags, fatalSignal, shutdown, loops, results, local,
                   answer, handlers, history>>

RunShutdown(r) == pc[r] = "stop" /\ EnterShutdown(r, "join")

AllReceived == received = Cardinality(Loop)

Receive(r) ==
    /\ pc[r] = "join" /\ ~AllReceived
    /\ results # <<>>
    /\ received' = received + 1
    /\ unexpected' = (unexpected \/ Head(results))
    /\ results' = Tail(results)
    /\ UNCHANGED <<bound, open, cancelled, stopped, flags, fatalSignal, shutdown, loops, pc,
                   answer, handlers, history>>

\* Mutant: the fatal signal is not looked at again after the join.
VerdictUnchecked == unexpected

\* The last select of coordinateLoopResults.
Verdict == unexpected \/ fatalSignal

Judge(r) ==
    /\ pc[r] = "join" /\ AllReceived
    /\ unexpected' = Verdict
    /\ Goto(r, "finish")
    /\ UNCHANGED <<bound, open, cancelled, stopped, flags, fatalSignal, shutdown, loops, results,
                   received, answer, handlers, history>>

Finish(r) ==
    /\ pc[r] = "finish"
    /\ finished' = TRUE
    /\ Answer(r, IF unexpected THEN "error" ELSE "nil")
    /\ UNCHANGED <<bound, open, cancelled, stopped, runStarted, closeRequested, closeSignal,
                   fatalSignal, shutdown, loops, results, local, handlers, history>>

RunStep(r) ==
    \/ StartLoops(r) \/ Select(r) \/ CancelRun(r)
    \/ RunShutdown(r) \/ CloseListener(r, "join")
    \/ Receive(r) \/ Judge(r) \/ Finish(r)
-----------------------------------------------------------------------------
(***************************************************************************)
(* The surroundings: the caller's context and HTTP requests.               *)
(***************************************************************************)
Cancel ==
    /\ ~cancelled /\ bound = Ready
    /\ cancelled' = TRUE
    /\ UNCHANGED <<bound, open, stopped, flags, fatalSignal, shutdown, loops, results, local, pc,
                   answer, handlers, history>>

RequestArrives ==
    /\ handlers < MaxHandlers
    /\ \E l \in {"management", "player"} : loops[l] = "serving" /\ l \in open
    /\ handlers' = handlers + 1
    /\ UNCHANGED <<bound, open, cancelled, stopped, flags, fatalSignal, shutdown, loops, results,
                   local, pc, answer, history>>

\* A handler returns, after notifyFatal if it met the failure of the random source.
RequestDone ==
    /\ handlers > 0
    /\ handlers' = handlers - 1
    /\ \E fatal \in BOOLEAN :
          /\ fatalSignal' = (fatalSignal \/ fatal)
          /\ alarm' = (alarm \/ (fatal /\ ~AllReceived))
    /\ UNCHANGED <<bound, open, cancelled, stopped, flags, shutdown, loops, results, local, pc,
                   answer, failure>>

Next ==
    \/ Bind \/ BindFails \/ Constructed
    \/ \E l \in Loop : LoopEnds(l) \/ LoopFails(l) \/ Report(l)
    \/ \E p \in Closer : CloseRequest(p) \/ CloseStep(p)
    \/ \E r \in Runner : RunEnters(r) \/ RunStep(r)
    \/ Cancel \/ RequestArrives \/ RequestDone

Spec == Init /\ [][Next]_vars

\* A goroutine that can go on does, and a loop whose socket or context is gone
\* notices.  Nobody has to call Run or Close, cancel, send a request, or finish
\* handling one, and nothing has to fail.
Fairness ==
    /\ \A l \in Loop : WF_vars(LoopEnds(l) \/ Report(l))
    /\ \A p \in Closer : WF_vars(CloseStep(p))
    /\ \A r \in Runner : WF_vars(RunStep(r))

FairSpec == Spec /\ Fairness
-----------------------------------------------------------------------------
TypeOK ==
    /\ bound \in 0 .. Refused
    /\ open \subseteq Listener
    /\ {cancelled, stopped, runStarted, closeRequested, finished, closeSignal, fatalSignal,
        unexpected} \subseteq BOOLEAN
    /\ shutdown \in {"no", "busy", "done"}
    /\ loops \in [Loop -> {"none", "serving", "ended", "failed", "reported"}]
    /\ results \in Seq(BOOLEAN) /\ Len(results) <= Cardinality(Loop)
    /\ received \in 0 .. Cardinality(Loop)
    /\ pc \in [Process -> {"idle", "signal", "shutdown", "closing", "start", "select", "cancel",
                            "stop", "join", "finish", "done"}]
    /\ answer \in [Runner -> {"none", "nil", "already", "error"}]
    /\ handlers \in 0 .. MaxHandlers
    /\ {failure, alarm} \subseteq BOOLEAN

Returned(p) == pc[p] = "done"

\* Nothing is left behind: when New fails no listener stays bound, when Close
\* returns, to whichever caller, the listeners are closed, and when Run returns
\* its four loops have ended and reported besides (TRD, section on the server:
\* after Run joins, the addresses are reusable).
NothingLeftBehind ==
    /\ TypeOK
    /\ bound = Refused => open = {}
    /\ (\E p \in Closer : Returned(p)) => open = {}
    /\ finished => open = {} /\ results = <<>> /\ \A l \in Loop : loops[l] = "reported"

\* A failure is reported: a loop that failed and was classified before anyone
\* asked to stop, or a fatal handler before the join was complete, makes Run
\* return the error, whatever else the first select chose from.
FailureReported == finished /\ alarm => \E r \in Runner : answer[r] = "error"

\* No false alarm: a stop that was asked for, by the context or by Close at any
\* point of Run, is never reported as a failure of the loops it ended.
NoFalseAlarm == (\E r \in Runner : answer[r] = "error") => fatalSignal \/ failure

Asked ==
    \/ cancelled \/ closeSignal \/ fatalSignal
    \/ results # <<>> \/ \E l \in Loop : loops[l] \in {"ended", "failed"}

\* A call that has to come to its end: Close always, Run once it is asked to stop.
Due(p) ==
    IF p \in Runner THEN pc[p] \notin {"idle", "done"} /\ (pc[p] = "select" => Asked)
    ELSE pc[p] \notin {"idle", "done"}

\* Everybody returns: Run once it is asked to stop or one of its loops ended,
\* and every Close, however many are called at once.  (Calls are finitely many
\* and each stays due until it returns, so that this is its leading to a return.)
EverybodyReturns == []<>(\A p \in Process : ~Due(p))
=============================================================================
