---- MODULE SignalConsumer ----
(***************************************************************************)
(* The reader of the Signal event stream and its backpressure: router.py   *)
(* _run_signal_events with the dispatch permits, the byte budget and the   *)
(* done callbacks that return both (_settle_signal_turn_task), the final   *)
(* drain of a stream that ended, and begin_shutdown.  The reapers of       *)
(* reloads are here as far as they share the set of tracked tasks.  One    *)
(* action is what the loop runs between two awaits; a done callback is a   *)
(* step of its own, after the task is done.                                *)
(***************************************************************************)
EXTENDS Integers, FiniteSets, FiniteSetsExt

CONSTANTS
    Turns,    \* slots for dispatched events, used again once settled
    Reapers,  \* slots for reload reapers
    Sizes,    \* what _estimate_raw_payload_bytes may return
    Limit,    \* _inflight_dispatch_bytes_limit
    Permits   \* permits of _inflight_dispatch_semaphore

ASSUME TasksFinite == IsFiniteSet(Turns) /\ IsFiniteSet(Reapers) /\ Turns \cap Reapers = {}
ASSUME LimitOK == Limit \in Nat \ {0} /\ Sizes \subseteq 0..Limit
ASSUME BufferOK == Permits \in Nat \ {0}

Tasks == Turns \cup Reapers

VARIABLES
    consumer,  \* the await at which _run_signal_events is
    woken,     \* whether the future it is parked on has its result
    cancelled, \* task.cancel() was called on it
    bytes,     \* _inflight_dispatch_bytes
    value,     \* _inflight_dispatch_semaphore._value
    state,     \* state[t]: free, running, or done and not yet settled
    size,      \* _signal_turn_task_bytes, 0 for what is not in it
    waits,     \* tasks the final drain still waits for
    closing    \* _closing

consumerVars == <<consumer, woken, cancelled, bytes, value, state, size, waits, closing>>

Parked == {"onBytes", "onPermit"}

TypeOK ==
    /\ consumer \in Parked \cup {"fresh", "reading", "draining", "ended"}
    /\ woken \in BOOLEAN /\ cancelled \in BOOLEAN /\ closing \in BOOLEAN
    /\ bytes \in Nat
    /\ value \in 0..Permits
    /\ state \in [Tasks -> {"free", "running", "done"}]
    /\ size \in [Turns -> 0..Limit]
    /\ waits \subseteq Tasks

Init ==
    /\ consumer = "fresh"
    /\ woken = FALSE /\ cancelled = FALSE /\ closing = FALSE
    /\ bytes = 0
    /\ value = Permits
    /\ state = [t \in Tasks |-> "free"]
    /\ size = [t \in Turns |-> 0]
    /\ waits = {}

(* Those of _signal_turn_tasks that are not done. *)
Running == {t \in Tasks : state[t] = "running"}

-----------------------------------------------------------------------------
(* The consumer *)

(* From the top of its loop to its next await, with b bytes charged and v   *)
(* permits on hand.  The event is cleared before the consumer parks on it,  *)
(* and nothing runs between the two, so a park is never on a set event.     *)
LoopTop(b, v) ==
    /\ woken' = FALSE
    /\ \/ b >= Limit /\ consumer' = "onBytes" /\ value' = v
       \/ b < Limit /\ v > 0 /\ consumer' = "reading" /\ value' = v - 1
       \/ b < Limit /\ v = 0 /\ consumer' = "onPermit" /\ value' = v

(* run_forever has created the task. *)
Begin ==
    /\ consumer = "fresh" /\ ~cancelled
    /\ LoopTop(bytes, value)
    /\ UNCHANGED <<cancelled, bytes, state, size, waits, closing>>

(* Bytes were freed: it looks again. *)
BytesFreed ==
    /\ consumer = "onBytes" /\ woken /\ ~cancelled
    /\ LoopTop(bytes, value)
    /\ UNCHANGED <<cancelled, bytes, state, size, waits, closing>>

(* A permit was handed over. *)
PermitGranted ==
    /\ consumer = "onPermit" /\ woken /\ ~cancelled
    /\ consumer' = "reading" /\ woken' = FALSE
    /\ UNCHANGED <<cancelled, bytes, value, state, size, waits, closing>>

MayRead == consumer = "reading" /\ ~cancelled

(* A frame of n bytes is read and dispatched as task t, and the loop goes   *)
(* on to its next await.  The permit is now the task's.                     *)
Dispatch(t, n) ==
    /\ MayRead /\ state[t] = "free"
    /\ state' = [state EXCEPT ![t] = "running"]
    /\ size' = [size EXCEPT ![t] = n]
    /\ bytes' = bytes + n
    /\ LoopTop(bytes + n, value)
    /\ UNCHANGED <<cancelled, waits, closing>>

(* The stream ends by itself: the unused permit is released, and the tasks  *)
(* that are not done are awaited.                                           *)
StreamEnds ==
    /\ MayRead
    /\ value' = value + 1
    /\ waits' = Running
    /\ consumer' = IF Running = {} THEN "ended" ELSE "draining"
    /\ UNCHANGED <<woken, cancelled, bytes, state, size, closing>>

(* The stream raises. *)
StreamFails ==
    /\ MayRead
    /\ value' = value + 1
    /\ consumer' = "ended"
    /\ UNCHANGED <<woken, cancelled, bytes, state, size, waits, closing>>

DrainOver ==
    /\ consumer = "draining" /\ waits = {} /\ ~cancelled
    /\ consumer' = "ended"
    /\ UNCHANGED <<woken, cancelled, bytes, value, state, size, waits, closing>>

ReturnsWhileReading == IF consumer = "reading" THEN 1 ELSE 0
PermitToReturn ==
    IF consumer = "reading" \/ (consumer = "onPermit" /\ woken) THEN 1 ELSE 0

(* CancelledError: the permit it holds, or was handed and never saw, goes   *)
(* back.                                                                    *)
Unwind ==
    /\ cancelled /\ consumer # "ended"
    /\ value' = value + PermitToReturn
    /\ consumer' = "ended" /\ woken' = FALSE /\ waits' = {}
    /\ UNCHANGED <<cancelled, bytes, state, size, closing>>

ConsumerStep == Begin \/ BytesFreed \/ PermitGranted \/ DrainOver \/ Unwind

-----------------------------------------------------------------------------
(* The tasks *)

(* A turn or reaper returns, raises or is cancelled. *)
TaskEnds(t) ==
    /\ state[t] = "running"
    /\ state' = [state EXCEPT ![t] = "done"]
    /\ UNCHANGED <<consumer, woken, cancelled, bytes, value, size, waits, closing>>

(* Event.set() and Semaphore.release() wake the consumer unless its future  *)
(* was cancelled; a released permit is handed over at once.                 *)
NeverWakes(t) == FALSE
FreedBytes(t) == size[t] > 0
WakesForBytes(t) == consumer = "onBytes" /\ FreedBytes(t) /\ ~cancelled
TakesPermit == consumer = "onPermit" /\ ~woken /\ ~cancelled

(* _settle_signal_turn_task *)
Refund(t) == size[t]

SettleTurn(t) ==
    /\ t \in Turns /\ state[t] = "done"
    /\ state' = [state EXCEPT ![t] = "free"]
    /\ waits' = waits \ {t}
    /\ bytes' = bytes - Refund(t)
    /\ size' = [size EXCEPT ![t] = 0]
    /\ woken' = (woken \/ WakesForBytes(t) \/ TakesPermit)
    /\ value' = value + (IF TakesPermit THEN 0 ELSE 1)
    /\ UNCHANGED <<consumer, cancelled, closing>>

(* A reload schedules its reaper among the tracked tasks ... *)
StartReaper(r) ==
    /\ r \in Reapers /\ state[r] = "free"
    /\ state' = [state EXCEPT ![r] = "running"]
    /\ UNCHANGED <<consumer, woken, cancelled, bytes, value, size, waits, closing>>

(* ... and _settle_tracked_task takes it out: no permit, no bytes. *)
SettleReaper(r) ==
    /\ r \in Reapers /\ state[r] = "done"
    /\ state' = [state EXCEPT ![r] = "free"]
    /\ waits' = waits \ {r}
    /\ UNCHANGED <<consumer, woken, cancelled, bytes, value, size, closing>>

Settle(t) == SettleTurn(t) \/ SettleReaper(t)

-----------------------------------------------------------------------------
CancelConsumer == cancelled \/ consumer # "ended"

(* begin_shutdown, or run_forever that is cancelled itself *)
BeginShutdown ==
    /\ closing' = TRUE
    /\ cancelled' = CancelConsumer
    /\ UNCHANGED <<consumer, woken, bytes, value, state, size, waits>>

Next ==
    \/ ConsumerStep \/ StreamEnds \/ StreamFails
    \/ \E t \in Turns, n \in Sizes : Dispatch(t, n)
    \/ \E t \in Tasks : TaskEnds(t) \/ Settle(t)
    \/ \E r \in Reapers : StartReaper(r)
    \/ BeginShutdown

Spec == Init /\ [][Next]_consumerVars

-----------------------------------------------------------------------------
(* Properties *)

Unsettled == {t \in Turns : state[t] # "free"}

(* Each permit is on hand, with a task that is not settled, or with the     *)
(* consumer, that may not have noticed yet: none leaks through a stream     *)
(* that ends, fails or is cancelled.                                        *)
ConsumersPermit ==
    IF consumer = "reading" \/ (consumer = "onPermit" /\ woken) THEN 1 ELSE 0
PermitsBalance == value + Cardinality(Unsettled) + ConsumersPermit = Permits

(* The bytes charged are those of the tasks that are not settled.           *)
BytesBalance == bytes = MapThenSumSet(LAMBDA t : size[t], Turns)

(* Neither budget of the dispatcher leaks or grows, however the stream and  *)
(* the turns end.                                                           *)
BudgetsBalance == PermitsBalance /\ BytesBalance

(* The budget is exceeded by less than one frame, although it was checked   *)
(* before the wait for a permit and the wait for the frame.                 *)
WithinOneFrame == bytes < Limit \/ \E t \in Turns : bytes - size[t] < Limit

(* No wake-up is lost: a parked consumer whose resource is there was told   *)
(* so, or is being cancelled.                                               *)
NoLostWakeup ==
    ~cancelled =>
        /\ consumer = "onBytes" /\ bytes < Limit => woken
        /\ consumer = "onPermit" /\ value > 0 => woken

(* The fence: after begin_shutdown no event is dispatched, so close() has   *)
(* every accepted one in its snapshot.                                      *)
NothingBehindFence ==
    [][closing => \A t \in Turns : state[t] = "free" => state'[t] = "free"]_consumerVars
====
