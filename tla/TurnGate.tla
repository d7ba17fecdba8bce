---- MODULE TurnGate ----
(***************************************************************************)
(* Who may run a turn now: the route locks, the profile locks and the      *)
(* execution permits of router.py, taken by inbound turns                  *)
(* (handle_event, _run_signal_turn_gated), by jobs and notifications       *)
(* (_handle_synthetic_definition), by preflight probes                     *)
(* (_probe_profile_tool_surface) and by the shutdown                       *)
(* (_drain_route_locks).  All of them are tasks of one event loop: cpu is  *)
(* the task the loop runs, which keeps it until it awaits.  asyncio.Lock   *)
(* and asyncio.Semaphore are modelled as Python 3.12 implements them: a    *)
(* released lock reads unlocked until the waiter it woke is resumed, and a *)
(* waiter may be cancelled before or after it was woken.                   *)
(***************************************************************************)
EXTENDS Integers, SequencesExt, FiniteSetsExt

CONSTANTS
    Tasks,     \* the tasks that may come
    Kind,      \* what a task is: signal, job, probe or drain
    Patience,  \* its lock timeout: zero, timed or forever
    RouteOf,   \* the route of a task
    ProfileOf, \* the profile of a task
    Locks,     \* the route and profile locks
    Permits,   \* router.max_concurrent_turns
    Capacity,  \* the queue of the execution semaphore
    Nobody

ASSUME PermitsOK == Permits \in Nat \ {0}
ASSUME TasksFinite == IsFiniteSet(Tasks)
ASSUME NamesOK == Capacity \notin Locks /\ Nobody \notin Tasks
ASSUME TasksOK ==
    /\ Kind \in [Tasks -> {"signal", "job", "probe", "drain"}]
    /\ Patience \in [Tasks -> {"zero", "timed", "forever"}]
    /\ RouteOf \in [Tasks -> Locks]
    /\ ProfileOf \in [Tasks -> Locks]
    /\ \A t, u \in Tasks : RouteOf[t] # ProfileOf[u]

VARIABLES
    cpu,     \* the task that runs, or Nobody between two
    pc,      \* pc[t]: where the coroutine of t is
    fut,     \* fut[t]: the future t awaits in a lock or the semaphore
    queue,   \* queue[l]: the waiters of l, in order
    locked,  \* locked[l]: asyncio.Lock._locked
    value,   \* asyncio.Semaphore._value
    held,    \* held[t]: the locks t has to release
    permit   \* permit[t]: permit_held

vars == <<cpu, pc, fut, queue, locked, value, held, permit>>

(* Bodies that take their time and hold what they hold. *)
Bodies == {"running", "skipping", "probing", "freezing"}

TypeOK ==
    /\ cpu \in Tasks \cup {Nobody}
    /\ pc \in [Tasks -> Bodies \cup
                 {"idle", "gone", "askRoute", "inRoute", "askProfile",
                  "inProfile", "askPermit"}]
    /\ fut \in [Tasks -> {"none", "pending", "woken", "cancelled", "late"}]
    /\ queue \in [Locks \cup {Capacity} -> Seq(Tasks)]
    /\ locked \in [Locks -> BOOLEAN]
    /\ value \in 0..Permits
    /\ held \in [Tasks -> SUBSET Locks]
    /\ permit \in [Tasks -> BOOLEAN]

Init ==
    /\ cpu = Nobody
    /\ pc = [t \in Tasks |-> "idle"]
    /\ fut = [t \in Tasks |-> "none"]
    /\ queue = [l \in Locks \cup {Capacity} |-> <<>>]
    /\ locked = [l \in Locks |-> FALSE]
    /\ value = Permits
    /\ held = [t \in Tasks |-> {}]
    /\ permit = [t \in Tasks |-> FALSE]

-----------------------------------------------------------------------------
(* asyncio *)

(* What t waits for while it has a future. *)
Wanted(t) == IF pc[t] = "askRoute" THEN RouteOf[t]
             ELSE IF pc[t] = "askProfile" THEN ProfileOf[t] ELSE Capacity

(* Lock.acquire() succeeds at once: unlocked, and nobody is before us. *)
Free(l) == ~locked[l] /\ \A i \in DOMAIN queue[l] : fut[queue[l][i]] = "cancelled"

(* Lock.release() wakes the first waiter, unless that one is done already. *)
LockHeirs(q, S) ==
    {Head(q[l]) : l \in {k \in S : q[k] # <<>> /\ fut[Head(q[k])] = "pending"}}

(* Semaphore.release() hands the permit to the first waiter not yet done.   *)
PermitHeirs(q) ==
    LET Pending(i) == fut[q[Capacity][i]] = "pending"
    IN {q[Capacity][i] : i \in {j \in DOMAIN q[Capacity] :
            Pending(j) /\ \A k \in 1..(j - 1) : ~Pending(k)}}

(* The loop is left to others. *)
Suspend == cpu' = Nobody

(* t leaves the waiters of l. *)
Without(t, l) ==
    [queue EXCEPT ![l] = RemoveAt(@, CHOOSE i \in DOMAIN @ : @[i] = t)]

(* t joins the waiters of l. *)
Park(t, l) ==
    /\ queue' = [queue EXCEPT ![l] = Append(@, t)]
    /\ fut' = [fut EXCEPT ![t] = "pending"]

Woken(f, heirs) == [u \in Tasks |-> IF u \in heirs THEN "woken" ELSE f[u]]

-----------------------------------------------------------------------------
(* What a task owes the semaphore when it ends, and who it is handed to:    *)
(* its own permit, and one that came too late.                              *)
OwesNothing(t) == 0
Owes(t) == (IF permit[t] THEN 1 ELSE 0)
           + (IF pc[t] = "askPermit" /\ fut[t] = "late" THEN 1 ELSE 0)

NotHandedOn(t, q) == {}
HandedOn(t, q) == IF Owes(t) > 0 THEN PermitHeirs(q) ELSE {}

(* How a task ends: its finally blocks return the permit and the locks.     *)
(* The queues are now q, and `next` takes over what t did not get.          *)
Leave(t, q, next) ==
    /\ queue' = q
    /\ fut' = Woken([fut EXCEPT ![t] = "none"],
                    next \cup LockHeirs(q, held[t]) \cup HandedOn(t, q))
    /\ locked' = [l \in Locks |-> locked[l] /\ l \notin held[t]]
    /\ value' = value + Owes(t) - Cardinality(HandedOn(t, q))
    /\ held' = [held EXCEPT ![t] = {}]
    /\ permit' = [permit EXCEPT ![t] = FALSE]
    /\ pc' = [pc EXCEPT ![t] = "gone"]
    /\ Suspend

End(t) == Leave(t, queue, {})

-----------------------------------------------------------------------------
(* Starting, and taking locks *)

Behind(t, l) == IF l = RouteOf[t] THEN "inRoute" ELSE "inProfile"

(* The coroutine goes on behind an acquired lock. *)
Enter(t, l) ==
    /\ locked' = [locked EXCEPT ![l] = TRUE]
    /\ held' = [held EXCEPT ![t] = @ \cup {l}]
    /\ pc' = [pc EXCEPT ![t] = Behind(t, l)]

(* await lock.acquire() *)
Acquire(t, l) ==
    /\ IF Free(l)
       THEN Enter(t, l) /\ UNCHANGED <<cpu, fut, queue>>
       ELSE Park(t, l) /\ Suspend /\ UNCHANGED <<locked, held, pc>>
    /\ UNCHANGED <<value, permit>>

Goto(t, where) ==
    /\ pc' = [pc EXCEPT ![t] = where]
    /\ UNCHANGED <<fut, queue, locked, value, held, permit>>

(* A task is created and runs its first step.  A job with attachments reads *)
(* the store and freezes them before it asks for a lock.                    *)
Start(t) ==
    /\ cpu = Nobody /\ pc[t] = "idle"
    /\ \/ Goto(t, IF Kind[t] = "probe" THEN "askProfile" ELSE "askRoute") /\ cpu' = t
       \/ Kind[t] = "job" /\ Goto(t, "freezing") /\ UNCHANGED cpu

(* It would be busy at once, cannot be delivered, or was handled already.   *)
FreezeFails(t) == cpu = Nobody /\ pc[t] = "freezing" /\ End(t)

Frozen(t) ==
    /\ cpu = Nobody /\ pc[t] = "freezing"
    /\ Goto(t, "askRoute") /\ cpu' = t

(* _acquire_route_lock: at timeout 0 a locked lock is BUSY ...              *)
Busy(t) ==
    /\ cpu = t /\ pc[t] \in {"askRoute", "askProfile"}
    /\ Patience[t] = "zero" /\ locked[Wanted(t)]
    /\ End(t)

(* ... and otherwise it is awaited. *)
AskIfUnlocked(t) ==
    /\ cpu = t /\ pc[t] \in {"askRoute", "askProfile"}
    /\ ~(Patience[t] = "zero" /\ locked[Wanted(t)])
    /\ IF locked[Wanted(t)]
       THEN Acquire(t, Wanted(t))
       ELSE Enter(t, Wanted(t)) /\ UNCHANGED <<cpu, fut, queue, value, permit>>
Ask(t) ==
    /\ cpu = t /\ pc[t] \in {"askRoute", "askProfile"}
    /\ ~(Patience[t] = "zero" /\ locked[Wanted(t)])
    /\ Acquire(t, Wanted(t))

(* The loop resumes a waiter that was woken: the lock is its own. *)
Resume(t) ==
    /\ cpu = Nobody /\ pc[t] # "askPermit" /\ fut[t] = "woken"
    /\ LET l == Wanted(t) IN
       /\ queue' = Without(t, l)
       /\ fut' = [fut EXCEPT ![t] = "none"]
       /\ Enter(t, l)
    /\ cpu' = t
    /\ UNCHANGED <<value, permit>>

(* Behind the route lock: an empty or stale event is marked skipped, the    *)
(* drain releases at once, a turn goes for its profile lock.                *)
Skip(t) ==
    /\ cpu = t /\ pc[t] = "inRoute" /\ Kind[t] = "signal"
    /\ Goto(t, "skipping") /\ Suspend

Drained(t) == cpu = t /\ pc[t] = "inRoute" /\ Kind[t] = "drain" /\ End(t)

Onward(t) ==
    /\ cpu = t /\ pc[t] = "inRoute" /\ Kind[t] \in {"signal", "job"}
    /\ Goto(t, "askProfile") /\ UNCHANGED cpu

(* Behind the profile lock: a job runs, a probe gets its subprocess. *)
Run(t) ==
    /\ cpu = t /\ pc[t] = "inProfile" /\ Kind[t] # "signal"
    /\ Goto(t, IF Kind[t] = "job" THEN "running" ELSE "probing") /\ Suspend

-----------------------------------------------------------------------------
(* The gate of inbound turns *)

(* The fast path: a permit is there and taken in the same step. *)
TakePermit(t) ==
    /\ cpu = t /\ pc[t] = "inProfile" /\ Kind[t] = "signal" /\ value > 0
    /\ value' = value - 1
    /\ permit' = [permit EXCEPT ![t] = TRUE]
    /\ pc' = [pc EXCEPT ![t] = "running"]
    /\ Suspend
    /\ UNCHANGED <<fut, queue, locked, held>>

(* What is released before the capacity wait. *)
LetGo(t) == {ProfileOf[t]}

(* No permit: the profile lock is released for the wait. *)
AwaitPermit(t) ==
    /\ cpu = t /\ pc[t] = "inProfile" /\ Kind[t] = "signal" /\ value = 0
    /\ queue' = [queue EXCEPT ![Capacity] = Append(@, t)]
    /\ fut' = Woken([fut EXCEPT ![t] = "pending"], LockHeirs(queue, LetGo(t)))
    /\ locked' = [l \in Locks |-> locked[l] /\ l \notin LetGo(t)]
    /\ held' = [held EXCEPT ![t] = @ \ LetGo(t)]
    /\ pc' = [pc EXCEPT ![t] = "askPermit"]
    /\ Suspend
    /\ UNCHANGED <<value, permit>>

(* _try_claim_uncontended *)
Claimable(l) == Free(l)

(* The loop resumes a turn that was handed a permit, and the profile lock   *)
(* is immediately its own.                                                  *)
Reenter(t) ==
    /\ cpu = Nobody /\ pc[t] = "askPermit" /\ fut[t] = "woken"
    /\ Claimable(ProfileOf[t])
    /\ locked' = [locked EXCEPT ![ProfileOf[t]] = TRUE]
    /\ held' = [held EXCEPT ![t] = @ \cup {ProfileOf[t]}]
    /\ permit' = [permit EXCEPT ![t] = TRUE]
    /\ queue' = Without(t, Capacity)
    /\ fut' = [fut EXCEPT ![t] = "none"]
    /\ pc' = [pc EXCEPT ![t] = "running"]
    /\ UNCHANGED <<cpu, value>>

(* Somebody got in first: the permit is passed on and the turn queues again *)
(* for the profile lock.                                                    *)
GiveBack(t) ==
    /\ cpu = Nobody /\ pc[t] = "askPermit" /\ fut[t] = "woken"
    /\ ~Claimable(ProfileOf[t])
    /\ LET q == Without(t, Capacity) IN
       /\ queue' = q
       /\ fut' = Woken([fut EXCEPT ![t] = "none"], PermitHeirs(q))
       /\ value' = value + 1 - Cardinality(PermitHeirs(q))
    /\ pc' = [pc EXCEPT ![t] = "askProfile"]
    /\ cpu' = t
    /\ UNCHANGED <<locked, held, permit>>

(* The body of the turn, the skip or the probe is over. *)
Finish(t) ==
    /\ cpu = Nobody /\ pc[t] \in {"running", "skipping", "probing"}
    /\ End(t)

-----------------------------------------------------------------------------
(* A lock timeout expires, or task.cancel() reaches a waiting task, which   *)
(* the shutdown does and the model allows at any time.  The future is       *)
(* cancelled, unless it is done: then the task is told later.  A body that  *)
(* is cancelled ends as Finish or FreezeFails say.                          *)
Interrupt(t) ==
    /\ cpu = Nobody /\ fut[t] \in {"pending", "woken"}
    /\ fut' = [fut EXCEPT ![t] = IF @ = "pending" THEN "cancelled" ELSE "late"]
    /\ UNCHANGED <<cpu, pc, queue, locked, value, held, permit>>

(* CancelledError is raised at the await: a permit handed to the task goes  *)
(* back, an unlocked lock is passed on to the next waiter, and the task     *)
(* unwinds.                                                                 *)
Unwind(t) ==
    /\ cpu = Nobody /\ fut[t] \in {"cancelled", "late"}
    /\ LET l == Wanted(t)
           q == Without(t, l)
           next == IF l # Capacity /\ ~locked[l] THEN LockHeirs(q, {l}) ELSE {}
       IN Leave(t, q, next)

-----------------------------------------------------------------------------
Step(t) ==
    \/ FreezeFails(t) \/ Frozen(t)
    \/ Busy(t) \/ Ask(t) \/ Resume(t)
    \/ Skip(t) \/ Drained(t) \/ Onward(t) \/ Run(t)
    \/ TakePermit(t) \/ AwaitPermit(t) \/ Reenter(t) \/ GiveBack(t)
    \/ Finish(t) \/ Unwind(t)

Next == \E t \in Tasks : Start(t) \/ Step(t) \/ Interrupt(t)

Spec == Init /\ [][Next]_vars

(* The loop resumes every task that is ready, and turns, freezes and probes *)
(* end: they are bounded by timeouts.  Nothing makes anybody start a task   *)
(* or cancel one.                                                           *)
FairSpec == Spec /\ \A t \in Tasks : SF_vars(Step(t))

-----------------------------------------------------------------------------
(* Properties *)

Holders(l) == {t \in Tasks : l \in held[t]}

(* One turn at a time on a route and on a profile, and a lock reads locked  *)
(* exactly while somebody has to release it.                                *)
OneHolder ==
    \A l \in Locks : Cardinality(Holders(l)) = IF locked[l] THEN 1 ELSE 0

(* No permit is lost or minted, whatever is cancelled when: those on hand,  *)
(* those held, and those handed to a waiter that was not resumed yet.       *)
PermitsConserved ==
    Permits = value
              + Cardinality({t \in Tasks : permit[t]})
              + Cardinality({t \in Tasks : pc[t] = "askPermit" /\ fut[t] \in {"woken", "late"}})

(* "It never holds one resource while waiting for the other": who queues    *)
(* for a lock has no permit, and who queues for a permit no profile lock.   *)
NothingHeldWhileWaiting ==
    \A t \in Tasks : fut[t] # "none" =>
        ~permit[t] /\ ProfileOf[t] \notin held[t]

(* Nobody waits for what is free: the first waiter of a lock that reads     *)
(* unlocked was told so, or is about to unwind, and while permits are on    *)
(* hand nobody waits for one untold.                                        *)
NothingFreeWhileWaiting ==
    /\ \A l \in Locks : queue[l] # <<>> /\ fut[Head(queue[l])] = "pending" => locked[l]
    /\ value > 0 => \A t \in Tasks : pc[t] = "askPermit" => fut[t] # "pending"

(* Not everyone waits for everyone: of the tasks that are there one runs,   *)
(* is in its body, or is resumed next.                                      *)
CanGoOn(t) ==
    IF cpu = Nobody THEN pc[t] \in Bodies \/ fut[t] \in {"woken", "late", "cancelled"}
    ELSE cpu = t
NobodyStuck ==
    (\E t \in Tasks : pc[t] \notin {"idle", "gone"}) => \E t \in Tasks : CanGoOn(t)

(* Whoever is cancelled when and whoever was woken too late: exclusion, no  *)
(* leak, nothing held that somebody else waits for meanwhile, nothing left  *)
(* free that somebody waits for, and no circle of waiters.                  *)
LocksAndPermitsKept ==
    /\ OneHolder /\ PermitsConserved /\ NothingHeldWhileWaiting
    /\ NothingFreeWhileWaiting /\ NobodyStuck

(* Events of a route run in the order in which they arrived: nobody, event, *)
(* job or drain, gets past one that waits for the route lock already.       *)
RouteOrder ==
    [][\A t, u \in Tasks :
          /\ Kind[u] = "signal" /\ RouteOf[t] = RouteOf[u]
          /\ pc[u] = "askRoute" /\ fut[u] \in {"pending", "woken"}
          /\ pc[t] = "askRoute" /\ pc'[t] = "inRoute"
          => \E i, j \in DOMAIN queue[RouteOf[t]] :
                i <= j /\ queue[RouteOf[t]][i] = t /\ queue[RouteOf[t]][j] = u
      ]_vars

(* "0 means acquire the lock immediately or return busy"                    *)
(* (docs/scheduled-synthetic-events.md:213).  Nearly: a timeout of 0 waits  *)
(* as well, but only on a lock that reads unlocked since it was promised to *)
(* the first waiter, or is passed on as that one unwinds.                   *)
ZeroWaitsBehindPromise ==
    [][\A t \in Tasks :
          /\ Patience[t] = "zero" /\ cpu = t /\ pc[t] \in {"askRoute", "askProfile"}
          /\ fut'[t] # "none"
          => /\ ~locked[Wanted(t)] /\ queue[Wanted(t)] # <<>>
             /\ fut[Head(queue[Wanted(t)])] \in {"woken", "late", "cancelled"}]_vars

(* The locks go to those who wait, in their order, and nobody who must not  *)
(* wait does, but in that window.                                           *)
LocksInTurn == RouteOrder /\ ZeroWaitsBehindPromise

(* Once no more tasks come, everyone that is there gets through, however    *)
(* locks and permits were passed around before.                             *)
EveryoneGetsThrough == []<>(\A t \in Tasks : pc[t] \in {"idle", "gone"})
====
