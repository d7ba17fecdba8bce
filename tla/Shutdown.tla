---- MODULE Shutdown ----
(***************************************************************************)
(* The bounded, ordered shutdown of router.py close(): the consumer and    *)
(* the turns of SignalConsumer, control requests, reload reapers, and the  *)
(* executor workers that cancelled tasks leave behind, against one drain   *)
(* deadline and one settlement deadline.  A wait of close() is its set     *)
(* `awaited`; it goes on when all of them are done or the deadline passed, *)
(* and only a later step looks at what was started meanwhile.              *)
(***************************************************************************)
EXTENDS SignalConsumer

CONSTANTS
    Requests, \* slots for control requests
    Reader,   \* the consumer as one of the tasks that close() awaits
    Observer  \* the cleanup task that waits for executor workers

ASSUME ShutdownNames ==
    /\ IsFiniteSet(Requests) /\ Requests \cap Tasks = {}
    /\ {Reader, Observer} \cap (Tasks \cup Requests) = {}
    /\ Reader # Observer

VARIABLES
    stage,      \* the step of close() that is under way
    awaited,    \* what its asyncio.wait still waits for
    overdue,    \* the drain deadline has passed
    late,       \* the settlement deadline has passed
    stragglers, \* cancelled by close() and handed to _settle_cancelled
    incomplete, \* what close() will return
    request,    \* request[q]: free or running
    worker      \* worker[x]: the executor worker x left behind

shutdownVars == <<stage, awaited, overdue, late, stragglers, incomplete,
                  request, worker>>
vars == <<consumerVars, shutdownVars>>

Workmen == Turns \cup Requests

TypeOKShutdown ==
    /\ TypeOK
    /\ stage \in {"serving", "turns", "routes", "requests", "reapers", "settling",
                  "workers", "teardown", "closed"}
    /\ awaited \subseteq Tasks \cup Requests \cup {Reader}
    /\ overdue \in BOOLEAN /\ late \in BOOLEAN
    /\ stragglers \subseteq Tasks \cup Requests \cup {Reader}
    /\ incomplete \subseteq Tasks \cup Requests \cup {Reader, Observer}
    /\ request \in [Requests -> {"free", "running"}]
    /\ worker \in [Workmen -> {"none", "claim", "other", "release"}]

InitShutdown ==
    /\ Init
    /\ stage = "serving"
    /\ awaited = {} /\ stragglers = {} /\ incomplete = {}
    /\ overdue = FALSE /\ late = FALSE
    /\ request = [q \in Requests |-> "free"]
    /\ worker = [x \in Workmen |-> "none"]

(* task.done() is false. *)
Unfinished ==
    Running \cup {q \in Requests : request[q] = "running"}
            \cup (IF consumer = "ended" THEN {} ELSE {Reader})

Busy(x) == worker[x] # "none"

-----------------------------------------------------------------------------
(* The loop beside close() *)

(* What leaves close() alone. *)
Beside(A) == A /\ UNCHANGED shutdownVars

(* A frame is dispatched.  Slots are used again when nothing of the former  *)
(* turn is left.                                                            *)
Accept(t, n) == ~Busy(t) /\ t \notin incomplete /\ Beside(Dispatch(t, n))

(* A control request that is admitted, for a turn or a reload; one that     *)
(* comes after the fence is answered BUSY and does nothing.                 *)
Admit(q) ==
    /\ ~closing /\ request[q] = "free" /\ ~Busy(q)
    /\ request' = [request EXCEPT ![q] = "running"]
    /\ UNCHANGED <<consumerVars, stage, awaited, overdue, late, stragglers,
                   incomplete, worker>>

(* A reload request that times out gives up on its parse, whose worker goes *)
(* on; one that ends otherwise, and a turn, leaves no worker behind.        *)
ParseGivenUp(x) == IF x \in Requests THEN {"none", "other"} ELSE {"none"}

(* A task that was cancelled abandons the worker it awaited: the claim of   *)
(* an identity, or any other.                                               *)
LeavesBehind(x) ==
    IF x \in stragglers THEN {"none", "claim", "other"} ELSE ParseGivenUp(x)

(* A turn ends. *)
TurnEnds(t) ==
    /\ t \in Turns /\ TaskEnds(t)
    /\ \E w \in LeavesBehind(t) : worker' = [worker EXCEPT ![t] = w]
    /\ UNCHANGED <<stage, awaited, overdue, late, stragglers, incomplete, request>>

RequestEnds(q) ==
    /\ request[q] = "running"
    /\ request' = [request EXCEPT ![q] = "free"]
    /\ \E w \in LeavesBehind(q) : worker' = [worker EXCEPT ![q] = w]
    /\ UNCHANGED <<consumerVars, stage, awaited, overdue, late, stragglers, incomplete>>

(* A reload request swaps the configuration, schedules its reaper and ends; *)
(* one that was cancelled before does not get there.                        *)
ReloadDone(q, r) ==
    /\ request[q] = "running" /\ q \notin stragglers
    /\ StartReaper(r)
    /\ request' = [request EXCEPT ![q] = "free"]
    /\ UNCHANGED <<stage, awaited, overdue, late, stragglers, incomplete, worker>>

MayReap == ~closing

(* A turn or a probe heals what a reaper left to it. *)
SelfHeal(r) == MayReap /\ Beside(StartReaper(r))

(* A reaper that could not drain every route schedules its follow-up and    *)
(* ends.                                                                    *)
FollowUp(r, s) ==
    /\ MayReap
    /\ state[r] = "running" /\ state[s] = "free"
    /\ state' = [state EXCEPT ![r] = "done", ![s] = "running"]
    /\ UNCHANGED <<consumer, woken, cancelled, bytes, value, size, waits, closing,
                   shutdownVars>>

(* An executor worker finishes.  The done callback of an abandoned claim    *)
(* that was granted dispatches the release of the row.                      *)
WorkerEnds(x) ==
    /\ Busy(x)
    /\ \E w \in (IF worker[x] = "claim" THEN {"none", "release"} ELSE {"none"}) :
          worker' = [worker EXCEPT ![x] = w]
    /\ awaited' = IF stage = "workers" THEN awaited \ {x} ELSE awaited
    /\ UNCHANGED <<consumerVars, stage, overdue, late, stragglers, incomplete, request>>

-----------------------------------------------------------------------------
(* close() *)

(* The drain deadline passes, then the settlement deadline. *)
TimeFlies ==
    /\ stage # "serving"
    /\ \/ ~overdue /\ overdue' = TRUE /\ UNCHANGED late
       \/ overdue /\ ~late /\ late' = TRUE /\ UNCHANGED overdue
    /\ UNCHANGED <<consumerVars, stage, awaited, stragglers, incomplete, request, worker>>

(* SIGTERM before run_forever has returned *)
Fence == Beside(BeginShutdown)

CloseBegins ==
    /\ stage = "serving"
    /\ BeginShutdown
    /\ stage' = "turns" /\ awaited' = Running
    /\ UNCHANGED <<overdue, late, stragglers, incomplete, request, worker>>

WaitsForever == awaited \cap Unfinished = {}
WaitOver == awaited \cap Unfinished = {} \/ overdue

(* _drain_tasks returns; what is not done was cancelled.  The next wait is  *)
(* for `next`.                                                              *)
Drained(from, to, next) ==
    /\ stage = from /\ WaitOver
    /\ stragglers' = stragglers \cup (awaited \cap Unfinished)
    /\ stage' = to /\ awaited' = next
    /\ UNCHANGED <<overdue, late, incomplete, request, worker>>

TurnsDrained == Drained("turns", "routes", {}) /\ UNCHANGED consumerVars

(* Every route lock was acquired or given up. *)
RoutesDrained ==
    /\ Drained("routes", "requests", Unfinished \cap Requests)
    /\ UNCHANGED consumerVars

ReapersForgotten == {}
ReapersLeft == Unfinished \cap Reapers

RequestsDrained ==
    /\ Drained("requests", "reapers", ReapersLeft)
    /\ UNCHANGED consumerVars

(* The consumer, should it not be done, is cancelled with the stragglers.   *)
ReapersDrained ==
    LET left == awaited \cap Unfinished
        all == stragglers \cup left \cup (Unfinished \cap {Reader})
    IN /\ stage = "reapers" /\ WaitOver
       /\ cancelled' = (cancelled \/ Reader \in Unfinished)
       /\ stragglers' = all
       /\ stage' = "settling" /\ awaited' = all \cap Unfinished
       /\ UNCHANGED <<consumer, woken, bytes, value, state, size, waits, closing,
                      overdue, late, incomplete, request, worker>>

Abandoned == awaited \cap Unfinished

(* _settle_cancelled returns what is abandoned; the workers are observed.   *)
Settled ==
    /\ stage = "settling" /\ (awaited \cap Unfinished = {} \/ late)
    /\ incomplete' = Abandoned
    /\ stage' = "workers" /\ awaited' = {x \in Workmen : Busy(x)}
    /\ UNCHANGED <<consumerVars, overdue, late, stragglers, request, worker>>

(* The observer of the workers is done or was cancelled. *)
ObserverLeft == IF awaited = {} THEN {} ELSE {Observer}

WorkersObserved ==
    /\ stage = "workers" /\ (awaited = {} \/ late)
    /\ incomplete' = incomplete \cup ObserverLeft
    /\ stage' = "teardown" /\ awaited' = {}
    /\ UNCHANGED <<consumerVars, overdue, late, stragglers, request, worker>>

(* Control server, Signal client and supervisor are closed, each in bounded *)
(* time, and last the store.                                                *)
StoreClosed ==
    /\ stage = "teardown"
    /\ stage' = "closed"
    /\ UNCHANGED <<consumerVars, awaited, overdue, late, stragglers, incomplete,
                   request, worker>>

CloseStep ==
    \/ CloseBegins \/ TurnsDrained \/ RoutesDrained \/ RequestsDrained
    \/ ReapersDrained \/ Settled \/ WorkersObserved \/ StoreClosed

-----------------------------------------------------------------------------
NextShutdown ==
    \/ Beside(ConsumerStep) \/ Beside(StreamEnds) \/ Beside(StreamFails)
    \/ \E t \in Turns, n \in Sizes : Accept(t, n)
    \/ \E t \in Turns : TurnEnds(t)
    \/ \E r \in Reapers : Beside(TaskEnds(r)) \/ SelfHeal(r)
    \/ \E r, s \in Reapers : FollowUp(r, s)
    \/ \E t \in Tasks : Beside(Settle(t))
    \/ \E q \in Requests : Admit(q) \/ RequestEnds(q)
    \/ \E q \in Requests, r \in Reapers : ReloadDone(q, r)
    \/ \E x \in Workmen : WorkerEnds(x)
    \/ Fence \/ TimeFlies \/ CloseStep

SpecShutdown == InitShutdown /\ [][NextShutdown]_vars

(* close() gets on and its clocks run.  Nothing is assumed of turns,        *)
(* requests, reapers and workers: they may hang and resist cancellation.    *)
FairShutdown ==
    /\ SpecShutdown
    /\ WF_vars(CloseStep /\ stage # "serving")
    /\ WF_vars(TimeFlies)

-----------------------------------------------------------------------------
(* Properties *)

(* "Returns the tasks whose cleanup did not complete (empty on a clean      *)
(* shutdown)": when it is empty, no turn, request, reaper or consumer that  *)
(* could touch the store or a profile is left when the store closes.        *)
CleanMeansQuiet == stage = "closed" /\ incomplete = {} => Unfinished = {}

(* The snapshots are complete.  Once close() looked at the turns no turn    *)
(* and no request starts, and once it looked at the reapers ("now that no   *)
(* reload request can still be running") no reaper does.                    *)
NothingStartsAfterSnapshot ==
    [][/\ (stage # "serving") => Unfinished' \subseteq Unfinished \cup Reapers
       /\ (stage \in {"reapers", "settling", "workers", "teardown", "closed"})
             => Unfinished' \subseteq Unfinished]_vars

(* A worker that outlives a close() which met its deadlines is the late     *)
(* release of an abandoned claim.                                           *)
LeftoverIsRelease ==
    stage \in {"teardown", "closed"} /\ incomplete = {} =>
        \A x \in Workmen : worker[x] \in {"none", "release"}

(* close() is bounded, whoever hangs, and leaves no more than that behind. *)
CloseReturns == stage # "serving" ~> stage = "closed"

CloseEndsWell == CloseReturns /\ []LeftoverIsRelease
====
