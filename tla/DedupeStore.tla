---- MODULE DedupeStore ----
(***************************************************************************)
(* dedupe.py: the SQLite store of event identities, shared by router       *)
(* processes that may start while another still lives, and used inside a   *)
(* process by executor threads (turn operations and one retention sweep)   *)
(* and by the event loop (close).  A step is what a thread does under one  *)
(* of the two locks of the store, _state_lock or _lock.                    *)
(***************************************************************************)
EXTENDS Integers, FiniteSets

CONSTANTS
    Procs,       \* router processes; a name is used again after a restart
    Turns,       \* callers of turn operations, each with one identity at a time
    Keys,        \* identities (route_key, source_uuid, timestamp)
    Home,        \* the process each caller runs in
    NoProc, NoKey, Free,
    Retention,   \* dedupe_handled_seconds, in ticks
    ChunkRows,   \* PRUNE_CHUNK_ROWS
    MaxTime,     \* bound: last tick of the wall clock
    MaxFree      \* bound: pages on the freelist

ASSUME NamesDiffer ==
    /\ NoProc \notin Procs
    /\ NoKey \notin Keys
    /\ Free \notin Turns \cup Procs
    /\ Turns \cap Procs = {}
ASSUME ActorsFinite == IsFiniteSet(Turns) /\ IsFiniteSet(Procs)
ASSUME HomeOK == Home \in [Turns -> Procs]
ASSUME NumbersOK ==
    /\ Retention \in Nat
    /\ ChunkRows \in Nat \ {0}
    /\ MaxTime \in Nat
    /\ MaxFree \in Nat

(* The sweep worker of process p goes by the name of p. *)
Workers == Turns \cup Procs

At(w) == IF w \in Procs THEN w ELSE Home[w]

VARIABLES
    rows, stamp,         \* dedupe_events: status and updated_at_ms by identity
    freelist,            \* PRAGMA freelist_count of the file
    now,                 \* the wall clock, _clock_ms
    fileOwner,           \* holder of SQLite's exclusive file lock
    store,               \* store[p]: where the DedupeStore of p is in its life
    closeRequested,      \* closeRequested[p]: _close_requested
    active,              \* active[p]: _active_operations
    stateLock, stmtLock, \* _state_lock when kept across a wait, and _lock
    op, step,            \* the operation of each worker and its progress
    key, has,            \* a turn's identity, and whether it owns it
    cutoff, pruned, lastFree   \* the locals of the sweep worker

dataVars == <<rows, stamp, freelist>>
storeVars == <<fileOwner, store, closeRequested>>
guardVars == <<active, stateLock>>
workVars == <<op, step>>
turnVars == <<key, has>>
sweepVars == <<cutoff, pruned, lastFree>>
vars == <<dataVars, now, storeVars, guardVars, stmtLock, workVars, turnVars,
          sweepVars>>

TurnOps == {"claim", "mark", "release", "read"}
SweepOps == {"prune", "vacuum"}
Steps == {"idle", "queued", "begun", "ready", "stmt", "done", "closing"}

TypeOK ==
    /\ rows \in [Keys -> {"none", "processing", "handled"}]
    /\ stamp \in [Keys -> 0..MaxTime]
    /\ freelist \in 0..MaxFree
    /\ now \in 0..MaxTime
    /\ fileOwner \in Procs \cup {NoProc}
    /\ store \in [Procs -> {"absent", "connected", "owning", "open", "closed"}]
    /\ closeRequested \in [Procs -> BOOLEAN]
    /\ active \in [Procs -> Int]
    /\ stateLock \in [Procs -> Workers \cup {Free}]
    /\ stmtLock \in [Procs -> Workers \cup {Free}]
    /\ op \in [Workers -> TurnOps \cup SweepOps \cup {"none"}]
    /\ step \in [Workers -> Steps]
    /\ key \in [Turns -> Keys \cup {NoKey}]
    /\ has \in [Turns -> BOOLEAN]
    /\ cutoff \in [Procs -> Int]
    /\ pruned \in [Procs -> BOOLEAN]
    /\ lastFree \in [Procs -> -1..MaxFree]

Init ==
    /\ rows = [k \in Keys |-> "none"]
    /\ stamp = [k \in Keys |-> 0]
    /\ freelist = 0
    /\ now = 0
    /\ fileOwner = NoProc
    /\ store = [p \in Procs |-> "absent"]
    /\ closeRequested = [p \in Procs |-> FALSE]
    /\ active = [p \in Procs |-> 0]
    /\ stateLock = [p \in Procs |-> Free]
    /\ stmtLock = [p \in Procs |-> Free]
    /\ op = [w \in Workers |-> "none"]
    /\ step = [w \in Workers |-> "idle"]
    /\ key = [t \in Turns |-> NoKey]
    /\ has = [t \in Turns |-> FALSE]
    /\ cutoff = [p \in Procs |-> 0]
    /\ pruned = [p \in Procs |-> FALSE]
    /\ lastFree = [p \in Procs |-> -1]

-----------------------------------------------------------------------------
(* The life of a store: __init__, close, and the death of the process.     *)

Tick ==
    /\ now < MaxTime
    /\ now' = now + 1
    /\ UNCHANGED <<dataVars, storeVars, guardVars, stmtLock, workVars,
                   turnVars, sweepVars>>

Connect(p) ==
    /\ store[p] = "absent"
    /\ store' = [store EXCEPT ![p] = "connected"]
    /\ UNCHANGED <<dataVars, now, fileOwner, closeRequested, guardVars,
                   stmtLock, workVars, turnVars, sweepVars>>

FileLockIgnored == TRUE
FileLockFree == fileOwner = NoProc

(* locking_mode=EXCLUSIVE: the first access takes the file lock, or fails   *)
(* "database is locked" and the constructor closes and raises.              *)
LockFile(p) ==
    /\ store[p] = "connected"
    /\ \/ /\ FileLockFree
          /\ fileOwner' = p
          /\ store' = [store EXCEPT ![p] = "owning"]
       \/ /\ ~FileLockFree
          /\ store' = [store EXCEPT ![p] = "absent"]
          /\ UNCHANGED fileOwner
    /\ UNCHANGED <<dataVars, now, closeRequested, guardVars, stmtLock,
                   workVars, turnVars, sweepVars>>

(* The status a row has after the startup's DELETE. *)
Reclaimed(s) == IF s = "processing" THEN "none" ELSE s

(* _reclaim_orphaned_claims, the last step of the constructor. *)
ReclaimOrphans(p) ==
    /\ store[p] = "owning"
    /\ rows' = [k \in Keys |-> Reclaimed(rows[k])]
    /\ store' = [store EXCEPT ![p] = "open"]
    /\ UNCHANGED <<stamp, freelist, now, fileOwner, closeRequested, guardVars,
                   stmtLock, workVars, turnVars, sweepVars>>

CloseNow(p) ==
    /\ store' = [store EXCEPT ![p] = "closed"]
    /\ fileOwner' = IF fileOwner = p THEN NoProc ELSE fileOwner

CloseDefersNever(p) == FALSE
CloseMustDefer(p) == active[p] > 0

(* close(): never waits for a statement; with an operation in flight it     *)
(* only asks for the close.                                                 *)
Close(p) ==
    /\ store[p] = "open"
    /\ stateLock[p] = Free
    /\ \/ /\ CloseMustDefer(p)
          /\ closeRequested' = [closeRequested EXCEPT ![p] = TRUE]
          /\ UNCHANGED <<store, fileOwner>>
       \/ /\ ~CloseMustDefer(p)
          /\ CloseNow(p)
          /\ UNCHANGED closeRequested
    /\ UNCHANGED <<dataVars, now, guardVars, stmtLock, workVars, turnVars,
                   sweepVars>>

(* The process ends, cleanly or not: its threads and its locks are gone,    *)
(* what it committed stays.                                                 *)
ProcessEnds(p) ==
    /\ store[p] # "absent"
    /\ store' = [store EXCEPT ![p] = "absent"]
    /\ fileOwner' = IF fileOwner = p THEN NoProc ELSE fileOwner
    /\ closeRequested' = [closeRequested EXCEPT ![p] = FALSE]
    /\ active' = [active EXCEPT ![p] = 0]
    /\ stateLock' = [stateLock EXCEPT ![p] = Free]
    /\ stmtLock' = [stmtLock EXCEPT ![p] = Free]
    /\ op' = [w \in Workers |-> IF At(w) = p THEN "none" ELSE op[w]]
    /\ step' = [w \in Workers |-> IF At(w) = p THEN "idle" ELSE step[w]]
    /\ key' = [t \in Turns |-> IF Home[t] = p THEN NoKey ELSE key[t]]
    /\ has' = [t \in Turns |-> IF Home[t] = p THEN FALSE ELSE has[t]]
    /\ cutoff' = [cutoff EXCEPT ![p] = 0]
    /\ pruned' = [pruned EXCEPT ![p] = FALSE]
    /\ lastFree' = [lastFree EXCEPT ![p] = -1]
    /\ UNCHANGED <<dataVars, now>>

-----------------------------------------------------------------------------
(* An operation: begin under _state_lock, statements under _lock, end       *)
(* under _state_lock.                                                       *)

Admits(p) == store[p] = "open" /\ ~closeRequested[p]

(* A turn calls claim, status or is_handled for some identity, or mark_     *)
(* handled or release for the one it owns.                                  *)
Call(t, o, k) ==
    /\ step[t] = "idle"
    /\ store[Home[t]] \notin {"absent", "connected", "owning"}
    /\ IF has[t] THEN o \in {"mark", "release"} /\ k = key[t]
                 ELSE o \in {"claim", "read"}
    /\ op' = [op EXCEPT ![t] = o]
    /\ step' = [step EXCEPT ![t] = "queued"]
    /\ key' = [key EXCEPT ![t] = k]
    /\ UNCHANGED <<dataVars, now, storeVars, guardVars, stmtLock, has,
                   sweepVars>>

(* _run_retention_sweep_once fixes the cutoff before its worker starts. *)
StartSweep(p) ==
    /\ step[p] = "idle"
    /\ store[p] \notin {"absent", "connected", "owning"}
    /\ op' = [op EXCEPT ![p] = "prune"]
    /\ step' = [step EXCEPT ![p] = "queued"]
    /\ cutoff' = [cutoff EXCEPT ![p] = now - Retention]
    /\ UNCHANGED <<dataVars, now, storeVars, guardVars, stmtLock, turnVars,
                   pruned, lastFree>>

Rest(w) ==
    /\ op' = [op EXCEPT ![w] = "none"]
    /\ step' = [step EXCEPT ![w] = "idle"]

ForgetSweep(w) ==
    IF w \in Procs
    THEN /\ cutoff' = [cutoff EXCEPT ![w] = 0]
         /\ pruned' = [pruned EXCEPT ![w] = FALSE]
         /\ lastFree' = [lastFree EXCEPT ![w] = -1]
    ELSE UNCHANGED sweepVars

(* A caller whose operation ended keeps its identity only while it owns it. *)
ForgetTurn(w) ==
    IF w \in Turns /\ ~has[w]
    THEN key' = [key EXCEPT ![w] = NoKey]
    ELSE UNCHANGED key

(* _begin_turn_operation and _begin_sweep_operation. *)
Begin(w) ==
    /\ step[w] = "queued"
    /\ stateLock[At(w)] = Free
    /\ Admits(At(w))
    /\ active' = [active EXCEPT ![At(w)] = @ + 1]
    /\ step' = [step EXCEPT ![w] = IF w \in Procs THEN "begun" ELSE "ready"]
    /\ UNCHANGED <<dataVars, now, storeVars, stateLock, stmtLock, op,
                   turnVars, sweepVars>>

CountWhenRefused(p) == active[p]

(* The same refused: a turn operation raises, so an owner that wanted to    *)
(* finish loses its claim; a sweep operation returns at once.               *)
BeginRefused(w) ==
    /\ step[w] = "queued"
    /\ stateLock[At(w)] = Free
    /\ ~Admits(At(w))
    /\ active' = [active EXCEPT ![At(w)] = CountWhenRefused(At(w))]
    /\ Rest(w)
    /\ ForgetSweep(w)
    /\ IF w \in Turns
       THEN /\ has' = [has EXCEPT ![w] = FALSE]
            /\ key' = [key EXCEPT ![w] = NoKey]
       ELSE UNCHANGED turnVars
    /\ UNCHANGED <<dataVars, now, storeVars, stateLock, stmtLock>>

(* Before each chunk a sweep looks whether a close was requested. *)
CheckClose(p) ==
    /\ step[p] = "begun"
    /\ stateLock[p] = Free
    /\ step' = [step EXCEPT ![p] = IF closeRequested[p] THEN "done" ELSE "ready"]
    /\ UNCHANGED <<dataVars, now, storeVars, guardVars, stmtLock, op,
                   turnVars, sweepVars>>

LockStatement(w) ==
    /\ step[w] = "ready"
    /\ stmtLock[At(w)] = Free
    /\ stmtLock' = [stmtLock EXCEPT ![At(w)] = w]
    /\ step' = [step EXCEPT ![w] = "stmt"]
    /\ UNCHANGED <<dataVars, now, storeVars, guardVars, op, turnVars,
                   sweepVars>>

-----------------------------------------------------------------------------
(* The statements, each with its commit.                                    *)

Executes(w, o) == step[w] = "stmt" /\ op[w] = o /\ store[At(w)] = "open"

(* The worker leaves _lock and goes on at step s. *)
Leaves(w, s) ==
    /\ step' = [step EXCEPT ![w] = s]
    /\ stmtLock' = [stmtLock EXCEPT ![At(w)] = Free]
    /\ UNCHANGED <<now, storeVars, guardVars, op, key>>

(* Pages freed by a deletion stay on the freelist until a vacuum. *)
FreesPages == freelist' \in {freelist, IF freelist < MaxFree THEN freelist + 1
                                       ELSE freelist}

Claimable(k) == rows[k] = "none"

(* claim: INSERT, or IntegrityError when any row has the identity. *)
ExecClaim(t) ==
    /\ Executes(t, "claim")
    /\ IF Claimable(key[t])
       THEN /\ rows' = [rows EXCEPT ![key[t]] = "processing"]
            /\ stamp' = [stamp EXCEPT ![key[t]] = now]
            /\ has' = [has EXCEPT ![t] = TRUE]
       ELSE UNCHANGED <<rows, stamp, has>>
    /\ Leaves(t, "done")
    /\ UNCHANGED <<freelist, sweepVars>>

StampOnMark == now

(* mark_handled: an upsert that stamps the retention clock. *)
ExecMark(t) ==
    /\ Executes(t, "mark")
    /\ rows' = [rows EXCEPT ![key[t]] = "handled"]
    /\ stamp' = [stamp EXCEPT ![key[t]] = StampOnMark]
    /\ has' = [has EXCEPT ![t] = FALSE]
    /\ Leaves(t, "done")
    /\ UNCHANGED <<freelist, sweepVars>>

(* release: DELETE ... AND status = 'processing'. *)
ExecRelease(t) ==
    /\ Executes(t, "release")
    /\ IF rows[key[t]] = "processing"
       THEN /\ rows' = [rows EXCEPT ![key[t]] = "none"]
            /\ stamp' = [stamp EXCEPT ![key[t]] = 0]
            /\ FreesPages
       ELSE UNCHANGED dataVars
    /\ has' = [has EXCEPT ![t] = FALSE]
    /\ Leaves(t, "done")
    /\ UNCHANGED sweepVars

(* status and is_handled. *)
ExecRead(t) ==
    /\ Executes(t, "read")
    /\ Leaves(t, "done")
    /\ UNCHANGED <<dataVars, has, sweepVars>>

DoomedAtCutoff(c) == {k \in Keys : rows[k] = "handled" /\ stamp[k] <= c}
Doomed(c) == {k \in Keys : rows[k] = "handled" /\ stamp[k] < c}

(* prune_handled_before: one chunk of at most ChunkRows rows; an empty      *)
(* chunk ends the loop.                                                     *)
ExecPrune(p) ==
    /\ Executes(p, "prune")
    /\ \E C \in SUBSET Doomed(cutoff[p]) :
          /\ \/ Cardinality(C) = ChunkRows
             \/ C = Doomed(cutoff[p]) /\ Cardinality(C) <= ChunkRows
          /\ rows' = [k \in Keys |-> IF k \in C THEN "none" ELSE rows[k]]
          /\ stamp' = [k \in Keys |-> IF k \in C THEN 0 ELSE stamp[k]]
          /\ IF C = {} THEN UNCHANGED freelist ELSE FreesPages
          /\ pruned' = [pruned EXCEPT ![p] = @ \/ C # {}]
          /\ Leaves(p, IF C = {} THEN "done" ELSE "begun")
    /\ UNCHANGED <<has, cutoff, lastFree>>

VacuumStops(f, last) == f <= 0 \/ (last # -1 /\ f >= last)

(* incremental_vacuum: one chunk, which may reclaim nothing; the loop ends  *)
(* on an empty freelist or at the second look without progress.             *)
ExecVacuum(p) ==
    /\ Executes(p, "vacuum")
    /\ \E f \in 0..freelist :
          /\ freelist' = f
          /\ lastFree' = [lastFree EXCEPT ![p] = f]
          /\ Leaves(p, IF VacuumStops(f, lastFree[p]) THEN "done" ELSE "begun")
    /\ UNCHANGED <<rows, stamp, has, cutoff, pruned>>

(* A statement fails and changes nothing: the operation raises.  A turn     *)
(* that failed to finish an identity has nothing left to finish it with,    *)
(* and a failed sweep does not go on to the vacuum.                         *)
ExecFails(w) ==
    /\ step[w] = "stmt"
    /\ Leaves(w, "done")
    /\ has' = IF w \in Turns THEN [has EXCEPT ![w] = FALSE] ELSE has
    /\ pruned' = IF w \in Procs THEN [pruned EXCEPT ![w] = FALSE] ELSE pruned
    /\ UNCHANGED <<dataVars, cutoff, lastFree>>

-----------------------------------------------------------------------------
(* _end_operation. *)

ForgetsDeferredClose(p) == FALSE
LastOneOut(p) == active[p] = 1 /\ closeRequested[p] /\ store[p] # "closed"

(* The worker is through with its operation; a sweep that pruned something  *)
(* goes on to the vacuum.                                                   *)
Finish(w) ==
    IF w \in Procs /\ op[w] = "prune" /\ pruned[w]
    THEN /\ op' = [op EXCEPT ![w] = "vacuum"]
         /\ step' = [step EXCEPT ![w] = "queued"]
         /\ UNCHANGED <<sweepVars, key>>
    ELSE /\ Rest(w)
         /\ ForgetSweep(w)
         /\ ForgetTurn(w)

End(w) ==
    /\ step[w] = "done"
    /\ stateLock[At(w)] = Free
    /\ ~LastOneOut(At(w))
    /\ active' = [active EXCEPT ![At(w)] = @ - 1]
    /\ Finish(w)
    /\ UNCHANGED <<dataVars, now, storeVars, stateLock, stmtLock, has>>

(* The last operation out owes the deferred close: it keeps _state_lock     *)
(* while it waits for _lock.                                                *)
EndOwingClose(w) ==
    /\ step[w] = "done"
    /\ stateLock[At(w)] = Free
    /\ LastOneOut(At(w))
    /\ active' = [active EXCEPT ![At(w)] = @ - 1]
    /\ stateLock' = [stateLock EXCEPT ![At(w)] = w]
    /\ step' = [step EXCEPT ![w] = "closing"]
    /\ UNCHANGED <<dataVars, now, storeVars, stmtLock, op, turnVars,
                   sweepVars>>

DeferredClose(w) ==
    /\ step[w] = "closing"
    /\ stmtLock[At(w)] = Free
    /\ CloseNow(At(w))
    /\ stateLock' = [stateLock EXCEPT ![At(w)] = Free]
    /\ Finish(w)
    /\ UNCHANGED <<dataVars, now, closeRequested, active, stmtLock, has>>

-----------------------------------------------------------------------------
WorkerStep(w) ==
    \/ Begin(w)
    \/ BeginRefused(w)
    \/ LockStatement(w)
    \/ ExecFails(w)
    \/ End(w)
    \/ EndOwingClose(w)
    \/ DeferredClose(w)

TurnStatement(t) == ExecClaim(t) \/ ExecMark(t) \/ ExecRelease(t) \/ ExecRead(t)
SweepStatement(p) == CheckClose(p) \/ ExecPrune(p) \/ ExecVacuum(p)

Next ==
    \/ Tick
    \/ \E p \in Procs :
          \/ Connect(p)
          \/ LockFile(p)
          \/ ReclaimOrphans(p)
          \/ Close(p)
          \/ ProcessEnds(p)
          \/ StartSweep(p)
          \/ SweepStatement(p)
    \/ \E t \in Turns :
          \/ TurnStatement(t)
          \/ \E o \in TurnOps, k \in Keys : Call(t, o, k)
    \/ \E w \in Workers : WorkerStep(w)

Spec == Init /\ [][Next]_vars

-----------------------------------------------------------------------------
(* Properties *)

InFlight(p) == {w \in Workers : At(w) = p /\ step[w] \in {"begun", "ready", "stmt", "done"}}

(* _active_operations is the number of operations between their begin and   *)
(* their end, whatever refused, failed or stopped early in between: one     *)
(* miscount and close() either never closes or closes under a statement.    *)
ActiveCounts == \A p \in Procs : active[p] = Cardinality(InFlight(p))

(* No thread executes on a connection that was closed: neither close() nor  *)
(* the deferred finalizer gets in while a statement holds _lock.            *)
NoStatementOnClosed ==
    \A w \in Workers : step[w] \in {"ready", "stmt"} => store[At(w)] = "open"

(* A turn that was told "claimed" finds its row still there whatever other  *)
(* turns, the sweep, and other processes starting on the file do, for as    *)
(* long as its store is open.                                               *)
LiveClaimsKept ==
    \A t \in Turns :
        has[t] /\ store[Home[t]] = "open" => rows[key[t]] = "processing"

(* No two live turns of any process own the same identity. *)
OneOwnerPerKey ==
    \A t, u \in Turns :
        /\ has[t] /\ store[Home[t]] = "open"
        /\ has[u] /\ store[Home[u]] = "open"
        /\ key[t] = key[u]
        => t = u

(* A handled identity goes only by retention, and not before its window     *)
(* has passed: nothing that was answered is answered again sooner.          *)
HandledOutlivesWindow ==
    [][\A k \in Keys : rows[k] = "handled" /\ rows'[k] # "handled" =>
           rows'[k] = "none" /\ now - stamp[k] > Retention]_vars

(* A close() that was put off is not forgotten: as long as the store stays  *)
(* open, some operation is under way that will find itself the last one.    *)
NoForgottenClose ==
    \A p \in Procs : closeRequested[p] /\ store[p] = "open" =>
        \E w \in Workers : At(w) = p /\ step[w] \in {"begun", "ready", "stmt", "done", "closing"}

(* The store seen as a ClaimTable. *)
SeenAs(s) == IF s = "none" THEN "free"
             ELSE IF s = "processing" THEN "claimed" ELSE "handled"
TableStatus == [k \in Keys |-> SeenAs(rows[k])]
TableHeld == [t \in Turns |-> IF has[t] /\ store[Home[t]] = "open"
                              THEN key[t] ELSE NoKey]

Promise == INSTANCE ClaimTable WITH
    Claimants <- Turns, status <- TableStatus, held <- TableHeld

(* Locks, threads, deferred closes and restarts together behave like the    *)
(* atomic claim table the router is written against.                        *)
ImplementsClaimTable == Promise!TableSpec
====
