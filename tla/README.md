# A formal model of signal-hermes-router

TLA+ modules, TLC configurations and TLAPS proofs about the router in
`src/src/signal_hermes_router`. Source lines are quoted as `file.py:line`
relative to that directory.

## 1. The system

One asyncio event loop owns one Signal account. It reads Signal events over SSE,
routes each allowlisted one to a Hermes profile (one ACP subprocess per profile),
and sends the reply back to Signal. Local automation reaches the same path over a
private control socket. Blocking work (SQLite, media files, reload parses) runs in
executor threads; everything else interleaves only at `await`.

### 1.1 Components, their state and operations

| component | source | state | operations |
|---|---|---|---|
| Dedupe store | dedupe.py | rows `(route, sender, timestamp) -> processing/handled`, retention clock per row, SQLite exclusive file lock, `_active_operations`, `_close_requested`, `_closed`, `_lock` | open (lock, migrate, reclaim), claim, is_handled, status, mark_handled, release, prune, vacuum, close (deferred) |
| Routed turn | router.py `_run_turn`, `_claim_dedupe_identity`, `_finalize_dedupe_claims`, `_mark_signal_turn_skipped` | claimed identities, `handled`, rate token, live media, frozen attachments | claim identities, gate, rate admission, media, session, prompt, reply, finalise; cancellation at every await |
| Turn gate | router.py `handle_event`, `_run_signal_turn_gated`, `_handle_synthetic_definition`, `_acquire_route_lock`, `_probe_profile_tool_surface` | one asyncio.Lock per route, one per profile, `_turn_execution_semaphore` | inbound gate loop, synthetic try-lock, preflight try-lock, release |
| Breaker and route state | circuit.py, router.py `_effective_turn_state`, `_handle_hermes_failure`, `_maybe_clear_breaker_override` | failure windows, `route_state_overrides`, `_trip_times`, `_reload_cleared_overrides` | fail, trip, recover, gate |
| Config reload | router.py `_reload_config_locked`, `_do_reload_config`, `_detach_hung_reload_executor` | `config`, generation, tombstones, reload lock, reload executor, abandoned executors, saturation flag | parse, reject, swap, detach, unsaturate |
| Reload reaper | router.py `_reap_retired_runtime_state`, `_reap_after_drain` | reap tasks, drain/contested/force sets | drain, evict, retire, follow up, force |
| Sessions | sessions.py `SessionRegistry` | session cache, turn counts, ages | get, rotate, resume or recreate, evict |
| Profile supervisor | sessions.py `ProfileSupervisor` | profile cache, cooldown stamps, acquire locks | get, start, exit report, restart, retire, close |
| ACP peer | acp.py | pending requests, reader/stderr/watcher tasks, exit evidence, update queues, prompt locks | start, request, response, notification, exit, close, prompt |
| Signal consumer | router.py `_run_signal_events`, `_settle_signal_turn_task` | dispatch permits, byte budget and its event, tracked tasks | park, read, dispatch, settle |
| Signal transport | signal.py, events.py | SSE frame buffer, reconnect delay | stream, parse, send with one pre-send retry |
| Rate limiting | ratelimit.py, router.py `_reserve_inbound_rate_token` | tokens, last refill, bucket table | acquire, refund, refill, prune on reload |
| Media | media.py, outbound_media.py, router.py `_freeze_outbound_attachments`, `_execute_media_sweep_plan` | files, sweep plan, `_live_media`, `_media_io_inflight` | store, freeze, discard, plan, execute |
| Busy notice | router.py `_long_running_notice` | notice task, last notice time | wait, send, stop |
| Shutdown | router.py `begin_shutdown`, `close` and its helpers | `_closing`, deadlines, stragglers | fence, drain, cancel, settle, observe, finalise |
| Control socket | router.py `_run_control_server`, `_handle_control_client`, `_handle_control_line` | listener, client tasks, request tasks | accept, admit, dispatch, respond |
| Permissions | permissions.py, preflight.py | per-session static policy | decide, probe, report |
| Prompt and reply text | context.py, outbound.py, payloads.py, redaction.py, failures.py | none | pure functions |
| Configuration, CLI | config.py, cli.py, secrets.py, private_fs.py | files | parse, validate, one-shot client |

### 1.2 How the parts interact

- **Consumer -> turn.** The consumer creates one task per Signal event. Each task runs
  `handle_event`: admission snapshot of the route, route lock, profile lock and execution
  permit, claim of the identities, gate on the state of the route, session, prompt, reply,
  finalisation. An empty or stale event is claimed and consumed under the route lock alone.
- **Turn -> store.** Every store call of a turn goes through `_dispatch_io_worker`
  (`loop.run_in_executor`): a synchronous method on an executor thread, under the store's
  `threading.Lock`. A cancelled await leaves
  the thread running. The turn therefore keeps the futures it started, and its last
  `finally` (or a done callback, when the loop is cancelled twice) settles them.
- **Turn -> breaker.** The configuration a turn started with is *not* the one it gates
  on: `_effective_turn_state` reads the live tables after each lock wait. A failed
  prompt writes an override and a trip time; a successful one clears both.
- **Reload -> everything.** The parse runs on an executor thread under the reload lock,
  the swap is one step of the loop. Retired profiles are reaped by background tasks
  that drain the route locks first.
- **Control socket -> turn.** Jobs and notifications take the same locks with a timeout
  (possibly 0) and are answered BUSY; preflight probes take profile locks only.
- **Shutdown.** Fences new turns, waits for the running ones, cancels stragglers, and
  closes the store last. `DedupeStore.close` defers to the operations still active.

### 1.3 What is hard here

| behaviour | where | module |
|---|---|---|
| cancellation at any await, while an executor thread carries on | `_claim_dedupe_identity`, `_finalize_dedupe_claims` | RoutedTurn |
| two identities of one event resolved by separate, fallible statements | `_run_turn` | RoutedTurn |
| close() while operations run; an operation started before, executed after | dedupe.py | DedupeStore |
| a crashed process, its successor reclaiming orphan rows, two processes at once | dedupe.py `__init__` | DedupeStore |
| retention pruning by chunks while claims are made | dedupe.py `prune_handled_before` | DedupeStore |
| a lock that reads unlocked but is promised to a woken waiter | `_acquire_route_lock`, `_try_claim_uncontended` | TurnGate |
| cancellation of a waiter that was already woken | asyncio, and every lock wait | TurnGate |
| two resources (profile lock, permit) taken in either order | `_run_signal_turn_gated` | TurnGate |
| tables read before an await and used after it, with a reload between | `_effective_turn_state`, `_handle_hermes_failure` | BreakerGate |
| overrides and trip times that must appear and vanish together | `_maybe_clear_breaker_override`, `_do_reload_config` | BreakerGate |
| ACP pending requests when the reader task dies; close() called twice, cancelled, or after a death | acp.py `_read_loop`, `close` | AcpPeer |
| a profile registered before it has started, evicted by its exit report, replaced, retired | sessions.py `_acquire_profile`, `_handle_profile_exit` | ProfileSupervisor |
| a session cached for a process that is gone, with the permission policy of another turn | sessions.py `get`, `replace_after_restart` | ProfileSupervisor |
| turns that keep the configuration of their admission, while reapers drain by the current one | `_reap_after_drain`, the `finally` of `_run_turn` | ReloadReaper |
| a permit held, or handed over and not yet seen, when the consumer is cancelled; a wake-up event cleared and set by different callbacks | `_run_signal_events` | SignalConsumer |
| drains in an order in which each may create what the next waits for; work that outlives its cancelled task | `close` | Shutdown |
| reload executor hung, abandoned, replaced; files edited during a parse | `_detach_hung_reload_executor`, `_parse_reload_candidate` | ReloadParse |
| media sweep deleting while attachments are stored, frozen and used | `_execute_media_sweep_plan` | TurnIO |
| a token refunded after its bucket was replaced, a clock that steps back | ratelimit.py, the `finally` of `_run_turn` | TurnIO |
| a notice cancelled while it is being sent; a send tried again | `_stop_busy_notice`, signal.py `_send` | TurnIO |

### 1.4 What makes each component correct

- *Store*: an identity has one claimant from claim to release; a claim of a live
  process is never reclaimed; a handled row outlives the retention window; no statement
  runs on a closed connection; a deferred close happens.
- *Routed turn*: work (prompt, send) happens only while every identity of the event is
  owned by that turn; identities are resolved together; whatever happens to the task,
  somebody remains who will resolve the claim; a handled identity is never released.
- *Turn gate*: one turn per route and per profile; permits are conserved; nothing is
  held while waiting for another resource, so no deadlock; no lost wake-up; events of a
  route keep their order.
- *Breaker*: an override masks only an active route, expires by its trip time, survives
  a reload that keeps the route, is not resurrected by one that removes it; no prompt on
  a masked route or before the cool-down.
- *Reload*: a rejected file changes nothing; one swap at a time; a hung parse never
  swaps later; the number of abandoned executors is bounded.
- *Reaper*: a profile is closed only when no turn can use it; each retired one is closed.
- *Supervisor, sessions*: at most one subprocess per profile; an exit report of an old
  peer does not retire the new one; a session belongs to the live peer.
- *ACP peer*: every request gets one answer, an error or a timeout; updates reach the
  prompt that is running; a dead process is noticed.
- *Consumer*: the byte budget and the permits are conserved; a parked read is resumed;
  every dispatched task is settled.
- *Rate limiting*: tokens stay within the burst; a refund restores what was taken.
- *Media*: a file a turn still needs is not swept.
- *Shutdown*: no turn starts behind the fence; the store closes after its last user.

## 2. Plan

Order: the behaviour that must not go wrong (an event is worked on at most once, and
answered) first, then what guards it, then the life cycle of the resources it uses.

| step | module | composes or implements | main question | proofs |
|---|---|---|---|---|
| done | ClaimTable | abstract specification | who owns an identity | DedupeStoreProofs |
| done | DedupeStore | implements ClaimTable | threads, processes, retention, close | DedupeStoreProofs |
| done | RoutedTurn | uses ClaimTable | cancellation and finalisation | RoutedTurnProofs |
| done | TurnGate | - | locks, permits, wake-ups | TurnGateProofs |
| done | BreakerGate | - | overrides under reloads | BreakerGateProofs |
| done | SignalConsumer | dispatches to turns | byte budget, permits, backpressure | ShutdownProofs |
| done | Shutdown | extends SignalConsumer | fence, deadlines, order of closing | ShutdownProofs |
| done | ReloadParse | its swap is BreakerGate's `Reload` | hung parses, saturation, drift | ReloadProofs |
| done | ReloadReaper | scheduled by the swap | drain, eviction, follow-ups, force | ReloadProofs |
| done | ProfileSupervisor | turns, probes, reaper, shutdown | one process per profile, sessions, policies | ProfileSupervisorProofs |
| done | AcpPeer | what the supervisor closes | exit, reader, close | BoundaryProofs |
| done | TurnIO | a turn with the sweep and the clock | files, tokens, notice, chunks | BoundaryProofs |
| open | DedupeMigration, chunk widths | - | see 6 | - |

## 3. Modules and code

**ClaimTable** is what the rest of the router may believe about the store: a table of
identities, each free, claimed by one claimant, or handled. One action per promise
(`Claim`, `MarkHandled`, `Release`, `Lose` for a crash, `Reclaim`, `Expire`).

**DedupeStore** is `dedupe.py` with its threads. A worker (`step[w]`) goes through
`_begin_turn_operation` or `_begin_sweep_operation`, the state lock, one SQL statement with its commit, and
`_end_operation`; the retention sweep is one more worker per process that prunes and vacuums by chunks.
`Connect`, `LockFile` and `ReclaimOrphans` are `__init__`; `ProcessEnds` is a crash or
an exit at any point. The clock is `Tick`. A statement may fail (`ExecFails`), in which
case it changes nothing. The refinement mapping (`Promise`) sends a row to its
claimant, which is a history variable: the code's rows carry no owner.

**RoutedTurn** is `_run_turn` from the route lock to the last finalizer. `pc[t]` is the
await at which the coroutine stands, `jobs` the executor workers it left behind, `mine` the
list `claimed_dedupe`, `fate` the flag `handled`. `Cancel` is a cancellation at any await up to the finalizers,
`CancelFinish` one at a finalizer: the turn leaves that worker alone (`skipped`), awaits the next ones and
raises at the end, so that the route lock may be free while finalizers are still in flight. A finalizer that
raises (`broken`) ends the turn at once, with the same effect.
The store is used through ClaimTable (`UsesClaimTable`): that the real store keeps the
same promise is `ImplementsClaimTable`.

**TurnGate** is the scheduling around a turn. `cpu` is the task the loop runs: code
between two awaits is atomic because no other task can have the `cpu`. asyncio's Lock
and Semaphore are modelled with their waiter queues and futures, because the code
depends on their details (`_try_claim_uncontended` asks a lock whether it is free
without awaiting it). `Leave` is the unwinding of a coroutine, `finally` blocks included.

**BreakerGate** is the circuit breaker and its interplay with reloads: `config` is the
live table, `turn[t]` what a turn captured at admission, `override` and `age` the overrides and
the time since their trips, `cleared` the generation at which a reload dropped an override,
`tombstone` `_route_profile_tombstones`, which pins the profile of a route ever configured. `Reload`
is the swap of `_do_reload_config` with its rejections; parsing is not part of the module.

**SignalConsumer** is `_run_signal_events` with the two budgets that throttle it. `consumer` is the
await at which it stands: parked on the byte event (`onBytes`) or on the permit semaphore (`onPermit`), in the
read of the stream (`reading`, with a permit), or in the final wait for its tasks. `woken` tells a park
whose future has its result from one that still waits; `Unwind` is the `CancelledError` at any of them, with the
`finally` that returns the permit. A task's done callback (`SettleTurn`) is a step after the task's end,
as in asyncio. Reapers of reloads share the set of tracked tasks but neither budget. That the stream
ends, fails or delivers a frame of some size is the environment's choice.

**Shutdown** extends it with `close()`. `stage` is the drain under way, `awaited` the set its
`asyncio.wait` was given, so that what starts later is visibly *not* in it. The drain deadline
(`overdue`) and the settlement deadline (`late`) may pass at any point. Stragglers are cancelled, but nothing
obliges a task to end when cancelled; one that does may leave an executor worker behind (`LeavesBehind`), as may
a reload request that nobody cancelled but whose parse timed out (`ParseGivenUp`). The worker of an abandoned claim may
leave the release of its row (`WorkerEnds`). `incomplete` is what `close()` returns.

**ReloadParse** is a reload request up to its swap. `line` is the reload lock with its waiters, `work[e]` the parses given to
executor `e`, `alive` the executors with a live thread, `probe` the executor whose future tells when a saturated router may
parse again. A parse is three steps of a thread, each of which may never come: config.yaml, routes.yaml with its secrets,
config.yaml again. The timeout may pass at any time, also between an answer and the resumption of the request, in which case the
answer is lost (`TimesOut`). A routes file is a version number.

**ReloadReaper** is what the swap schedules: `_reap_after_drain` with its snapshot of tasks, its walk over the route locks, eviction,
retirement and follow-ups, all as the record `reaper[x]`. Turns keep the policy of their admission; a turn that ends
late looks at the current configuration and schedules a reaper itself, unless one of its finalizers raises: that takes it out of
the `finally` at `router.py:1987`, before the self-heal. The history variable `unhealed` keeps the sessions of such turns
until the next reload. `Cut` names what a step takes from under a prompt.

**ProfileSupervisor** is `ProfileSupervisor` and `SessionRegistry` on one profile. `entry` is the cached `ACPProfile`,
`child[i]` the process of instance `i`, `acquiring` and `lock` the supervisor's and the router's lock, `pc[a]` the await at
which an actor stands: turns of a route or a job, preflight probes, the reaper, the shutdown. Processes exit, close their stdout
and fail to start as they like; `policy[i][s]` says whether process `i` knows session `s` and under whose policy.
A restart goes on after its `close()` or is given up when that raises. `unhealed` is as in ReloadReaper: the process that was cached when
a turn ended without the self-heal it owed.

**AcpPeer** is one `JsonRpcStdioPeer`: reader, stderr drain and exit watcher with their cancellations, calls of `request()` and of
`close()`. `child` becomes `dead` before the loop has `reaped` it. `held` says that a grandchild keeps the pipes, `late` which requests
were registered when there was no reader any more. Two assumptions on time are built in: the bound of the hand-off to the
watcher is longer than the kernel and the loop need to reap a dead process.

**TurnIO** is what a turn does outside the router. `file` and `live` are the archive with its references, `worker[t]` the thread of
a store or a freeze, which goes on when its turn has given up; `sweep` the plan of the retention sweep, deleted batch by batch.
`rate` is the bucket with two history fields, `first` and `spent`; `accepted[t]` counts how often Signal took each chunk. A turn's store
is assumed to take less than `MEDIA_SWEEP_MIN_AGE`, on which the sweep itself relies.

The map of definitions to lines is in `PROJECT.json`. Definitions that precede a
guard or a helper under another name (`AskIfUnlocked`, `NeverReleased`, ...) are
not used by the specifications: they are the faulty variants that `PROJECT.json` substitutes to
show that a property notices them.

## 4. Runs

| run | instance | distinct states | shows |
|---|---|---|---|
| dedupe | 2 processes, a caller and the sweep each, 1 identity, time to 2 | 1.27 million | `NoStatementOnClosed`, `NoForgottenClose`, `ImplementsClaimTable`, `HandledOutlivesWindow` |
| routed_turn | 3 turns, 2 identities | 424 thousand | `OwnsWhatItTouches`, `EveryClaimHasAnHeir`, `IdentitiesTogether`, `UsesClaimTable`, `ClaimsResolve` |
| turn_gate | 3 events, a job, a probe, the drain; 5 locks; 1 permit | 93 thousand | `LocksAndPermitsKept`, `LocksInTurn`, `EveryoneGetsThrough` |
| breaker | 2 turns, 1 route, 2 profiles, 3 reloads | 34 thousand | `ClosesOnlyWhenDue`, `NoPromptBeforeCooldown`, `NoPromptWhileMasked`, `BreakerRecovers` |
| shutdown | 2 turn slots, 1 request, 2 reapers, 1 permit, frames of 0 to 3 units, budget 3 | 1.12 million | `CleanMeansQuiet`, `BudgetsBalance`, `NoLostWakeup`, `CloseEndsWell` |
| reload_parse | 2 clients, cap 2, 2 edits of routes.yaml and one of config.yaml | 152 thousand | `SwapsAreCurrent`, `WorkersBounded`, `SaturationLifts` |
| reload_reaper | 2 turns, 2 reapers, 2 routes, 2 reloads, 1 follow-up | 4.75 million | `NothingForgotten`, `ChainsEnd`, `CutOnlyByForce` |
| reload_reaper_cut | the same | counterexample | `HealthyTurnKept` is violated |
| profile_supervisor | a turn, a probe, the reaper, the shutdown; 3 instances, 2 session ids | 3.4 million | `NoStrayProcess`, `PromptsKnownSession`, `OwnPolicy`, `ProbeKeepsProfile` |
| acp_peer | a request, 2 calls of close(), a request of the agent, junk | 929 thousand | `NoProcessLeft`, `DeathReported`, `ToldOfExit`, `AnswersAreHarmless`, `CloseEndsUnheld` |
| acp_close | a request, a call of close() | counterexample | `CloseEnds` is violated |
| turn_io | 2 events of a limited route, an event or notification of another, 2 chunks | 1.5 million | `InUseKept`, `ArtifactsGone`, `RateCap`, `NoticeNeverLate`, `ChunksOnce` |

Several properties are conjunctions of named parts, stated apart in the module: `LocksAndPermitsKept` (`OneHolder`,
`PermitsConserved`, `NothingHeldWhileWaiting`, `NothingFreeWhileWaiting`, `NobodyStuck`), `LocksInTurn` (`RouteOrder`,
`ZeroWaitsBehindPromise`), `BudgetsBalance` (`PermitsBalance`, `BytesBalance`), `OwnsWhatItTouches` (`WorkOwnsAll`, `OwnerDiscipline`), `CloseEndsWell`
(`CloseReturns`, `LeftoverIsRelease`), `NoStrayProcess` (`NoOrphan`, `OneChild`, `LeftoversAreDue`), `NothingForgotten` (`StaleIsDue`,
`ProcessIsDue`), `InUseKept` (`FilesInUseStay`, `LiveBalances`), `SwapsAreCurrent` (`NeverOlder`, `RoutesOnly`).
Every module states its type invariant. Section 5 proves all of them; the configurations
leave them out and list the properties that say more.

**Why the bounds are enough.** *Store*: a caller and the sweep on either side give every pair of
concurrent operations and the close() that one of them owes; `Retention = 1` with time to 2
puts rows before, on and behind the cutoff. Two
processes are the overlap a restart produces; identities are independent except for
the sweep's chunks, so one suffices. *Routed turn*: a turn of two identities between two others
gives partial claims on either side; the third turn can claim what the second gives up.
*Turn gate*: two events on one route with the drain behind them, two routes on one profile and one permit for all
give each kind of queue a second waiter and somebody who could overtake it. *Breaker*: three reloads let a route be removed, re-added
and changed again while the same turn is in flight; threshold 2 with window 1 makes a failure
that expires and one that counts. *Shutdown*: with more slots than permits the
consumer parks for a permit, and one frame of three units exhausts the budget, so it also
parks for bytes; a request can become a reaper, a reaper another
one (hence two), and each can hang, end late or leave a worker behind; a request can give up on its parse before the fence. *ReloadParse*: the cap of 2 (3 in the code) is reached
with executors still wedged behind it, and two clients keep the lock contested. *ReloadReaper*: two reloads retire a
route in two ways, and a chain of one follow-up (3 in the code) meets a younger chain. One thing
the two routes of the run do not reach: a reload can prolong a chain by two passes, not by one, when a third route is
retired after the pass before had begun. The attempt to prove the bound showed that; `ChainsEnd` states it, and `ChainsBounded` proves it for
any number of routes. `MaxPasses`, which keeps the counter finite, lies above that bound and is never reached. *ProfileSupervisor*: with one turn slot used again and again, a third instance exists while the first is
still being closed and the second starts. *AcpPeer*: two closes are enough for one to find the other at any await. Requests
meet each other only at `_write_lock`, whose wait is part of the stage `writing`, so one is enough.
*TurnIO*: two turns of a route share a bucket and an archive path, the third shares the path only. The proofs of section 5 do not depend on the bounds.

**Fairness.** *RoutedTurn*: weak fairness for each executor worker, which depends on no
other; strong for each turn, whose prompt and sends are bounded by timeouts and whose route
lock is FIFO. *TurnGate*: strong fairness per task, none for arrivals or cancellations. With
endless arrivals a turn that returns its permit (`GiveBack`) may be overtaken each time;
tasks therefore come once. *BreakerGate*: time passes,
prompts end, and events keep arriving (`BreakerRecovers`: a route without events keeps its
override, which is how the code is written; the override is cleared lazily). *Shutdown*:
only the steps of `close()` and its clocks. Turns, requests, reapers and workers may hang for ever and ignore their
cancellation; `CloseReturns` is the promise that this does not matter. *AcpPeer*: the loop runs its tasks, deadlines pass and the
kernel delivers a SIGKILL and a death; nothing is assumed of the process. *ReloadParse*: `SaturationLifts` is conditional on the hung resolvers coming back,
so the threads are fair there, and on an operator who keeps asking; timeouts are free.
The other modules have safety properties only.

**Deadlock** is checked except where the system may come to rest: in turn_gate, where all tasks have gone, and in
reload_reaper and turn_io, whose reloads and turns are bounded.

**Findings.** *A drained key is not protected any more.* `docs/configuration.md:201` says "All of this happens only after in-flight turns
on the affected routes drain", and line 208 that a "healthy long-running prompt is always waited out".
`_reap_after_drain` takes and at once releases the lock of each key (`router.py:3042`) and evicts only after it
has gone through all of them. While it waits for the lock of a second key, a reload may make the first route active again, a turn may begin
to prompt on it, and another reload may make that session stale. The re-validation (`router.py:3045`) looks at the
configuration, not at turns, and the key is in `drained`: the session of the healthy turn goes on the reaper's first pass. reload_reaper_cut
shows the interleaving; `CutOnlyByForce` says what does hold, for the turns that were there when the reaper looked.

*close() of a peer may never end.* `docs/configuration.md:696` promises that cleanup takes "a few more seconds of SIGTERM grace". After the SIGKILL
`await self.process.wait()` (`acp.py:155`) has no timeout, and asyncio resolves it only when the pipes are disconnected as well.
A grandchild that inherited them keeps close() waiting, and with it the start, restart or retirement that called it. acp_close shows it;
`CloseEndsUnheld` that it is the only way.

Remarks without a run of their own. A lock timeout of 0 "means acquire the lock immediately or return `busy`" (`docs/scheduled-synthetic-events.md:213`).
`_acquire_route_lock` asks `lock.locked()` first (`router.py:3209`), which is false between a release and the resumption of the waiter that was woken;
the job then queues behind that waiter, for as long as the waiter keeps the lock. turn_gate reaches this with its probe. `ZeroWaitsBehindPromise` says, and `ZeroHardlyWaits` proves,
that this window is the only one. The release of an
abandoned claim (`router.py:2060`) may be dispatched after close() took the workers it observes (`router.py:806`), and is then
refused by the closed store; the row is left to the reclaim of the next start, and `LeftoverIsRelease` says that nothing else is left.
A turn that ends on a route that is not active any more schedules a reaper, so that what it has
started does not "linger until the next reload or shutdown" (`router.py:1996-1997`). It does so after `await self._finalize_dedupe_claims(...)`
(`router.py:1987`) in the same `finally`: when a finalizer raises, for instance on an SQLite error, lines 1988-2022 are skipped and the
session and the process do linger until then. `LeftoversAreDue`, `StaleIsDue` and `ProcessIsDue` except exactly these, and a reload ends the exception;
they say that nothing else is ever left to nobody.
The comment at `router.py:957` says the done callback keeps the number of tracked tasks
within the dispatch buffer. Reapers join that set without a permit (`router.py:2918`), so the set may be larger;
the number of *turns* in it is bounded, which `BudgetsBalance` shows.

## 5. Proofs

All theorems are for every value of the constants, under the named assumptions of the modules. Each component has
an inductive invariant, named below, from which the properties of its runs follow.

- **DedupeStoreProofs**
  - `LiveClaims`, `OneOwner` from `ClaimInv`: the owner of a claimed row is a worker of the process that
    holds the file lock, and its pending call is about that row. The file lock is why a start-up reclaim cannot meet a live claim;
    without it as a conjunct the invariant is not inductive.
  - `HandledSurvives` from `CutoffPast`: a sweep's cutoff is at least `Retention` old. It
    was computed once, and time only moves on, so it stays so over all chunks.
  - `CountIsExact`, `StatementsSafe` from `CloseInv`: `_active_operations` is the number of workers between
    begin and end, and the connection is closed only at zero.
  - `CloseNotForgotten` from `PutOffInv`: a close that is owed has an operation under way that will see the request, or the last
    of them is already the closer. It needs that requests are made of open stores only (`RequestsMadeOpen`).
  - `Implements`: initial states map to initial states and, under `ClaimInv`, each
    step to a step of ClaimTable or a stutter. `StoreExclusive` carries `Exclusive`, proved of ClaimTable alone, over to the store.
- **RoutedTurnProofs**: `TurnsOwnWhatTheyTouch`, `ClaimsHaveHeirs`, `IdentitiesShareFate` and the refinement `TurnsUseTheTable` from
  `RoutedTurnInv`. A turn's state is spread over the coroutine, its list of claims, its executor workers and the
  rows; `Stages` says for each await what the four have to do with each other, for instance that a turn that awaits a claim has exactly that
  worker or its answer (`Claiming`) and that each identity of a finishing turn has its worker, failed, or is settled (`Settles`).
  `OneJobPerKey` and `FinalsOwn` are what makes a late worker of a turn that gave up harmless to the next one.
- **TurnGateProofs**: `OrderKept` from `GateInv`, `GateHolds` and `ZeroHardlyWaits` from `ProgressInv`; `LocksPassOn` joins the two on who gets a lock. asyncio's lock reads unlocked while a woken waiter has not resumed; `WokenFirst`
  says that there is one such waiter, at the head of the queue. `QueuesExact` (a task waits in one queue, once) and
  `PermitsAddUp` (a permit handed to a waiter that has not noticed counts) are the rest of the argument. `ProgressInv` adds that
  nobody waits untold for what is free. With it there is no circle of waiters (`NoCircle`): if nobody could go on, everybody
  there would wait untold for a lock that is held or for permits that are out. Who waits holds no permit, so the permits are on hand and
  nobody waits for one; a lock that is waited for has an owner, which waits as well and holds a route lock only, hence waits for a profile
  lock; but that one would have to be the route lock of its owner too. This is the safety half of `EveryoneGetsThrough`; that those who can go
  on do is fairness.
- **BreakerGateProofs**: `OnlyActiveMasked`, `MasksExpire`, `MasksCloseWhenDue`, `ProfilesStay`, `HeldUntilCooldown`,
  `MaskedNotPrompted` from `LiveTurns` (a turn in flight has a capture of an earlier or the current
  generation), `Masks` (override and trip time exist together, on active routes), `Tombstones` (the
  tombstone of a route is its profile, in the live table and in every capture) and `HeldBack` (a turn
  admitted under an open breaker still sees that override or a younger one, or its cool-down is over, or a reload
  after its admission dropped it).
- **ShutdownProofs**
  - Of SignalConsumer `PermitsKept`, `WakeupsKept`, `BudgetHolds`, `FenceHolds` from `ConsumerInv`. It adds to the properties that
    the consumer past the byte gate has an unexhausted budget (`PastByteGate`: only the consumer itself adds to it, so a
    check made before the wait for a permit is still good after it) and that a fence has stopped the consumer (`Stopped`).
  - `BudgetsKept`, `ConsumerTypes` and `SomebodyWakes` from `BytesInv` beside it: the charged bytes are the sum of the sizes, and a free
    slot has no charge left (`FreeOwesNothing`), without which a dispatch would forget one. The sum is `MapThenSumSet`, a
    recursion over sets. `SumExists` shows that its equation has a solution, by a counterexample of least cardinality, and
    `SumChanges` that changing one summand changes the sum by the difference, by another one; both use the least element of a set of numbers, not an induction
    scheme. `SomebodyWakes` is the other side of `NoLostWakeup`: as long as a parked consumer was told nothing, an unsettled turn holds
    what it waits for.
  - `BudgetsSurviveClose`, `BudgetsKeptByClose`, `ShutdownTypes`: the same invariants over the steps of Shutdown, with its cancelled tasks.
  - `CleanIsQuiet`, `SnapshotsComplete` from `ShutdownInv`, whose core is `Covered`: at each stage,
    whoever is not finished is awaited now, was cancelled at the deadline of its drain, or is of a kind whose drain
    is still to come. A reload request is what makes it subtle: it may start a reaper until it is drained
    itself, so the snapshot of the reapers has to be taken after the requests are finished or cancelled.
  - `OnlyReleasesLeft` from `Observing` as well: while the workers are observed and nobody was abandoned, a worker that is no release
    is in the snapshot, because by `Covered` whoever could leave another one behind has finished.
- **ReloadProofs**
  - Of ReloadParse `HungParsesBounded`, `SwapsCurrent` from `ParseInv`. A parse belongs to the holder of the reload lock or is the
    one that saturated the executor (`Turnstile`); what it read is no newer than the files, and no older than what applies (`Current`), so
    that a late answer cannot take the routes back.
  - Of ReloadReaper `RetiredIsCleared`, `ChainsBounded`, `CutsAreForced` from `ReaperInv`. `Seen` and `Cleared` say which reaper, or which
    turn, will look at a stale session or an idle process, but for those that a raised finalizer has left (`unhealed`). The bound on the chains needs the most: `Slack` is what a chain may still do; without
    slack it has tried every key that is not clean (`LastOne`), so that its pass leaves nothing over (`LastPass`), which holds only because a pass
    that no reload has met knows every turn on a retired route (`KeysOld`).
- **ProfileSupervisorProofs**: `ProcessesAccountedFor`, `SessionsKnown`, `PoliciesApart`, `ProbesKeepTheirs` from `SupervisorInv`. The acquire lock is
  held over every start but not over the close of a restart (`AcquireHeld`); that the reaper and a restart exclude each other all the same, as each begins with an
  entry and leaves none, is `Registered`. `Sheltered` says in whose hands a process that is being started is, `Jobs` that the policy of a job is in force
  only while its turn has the profile lock. `LocksGivenBack` is the converse of the first: a lock is held only by somebody who is at work, so
  no failure, refusal or cancellation leaves one behind.
- **BoundaryProofs**
  - Of AcpPeer `CloseKillsTheProcess`, `DeathIsReported`, `RequestsAreTold`, `AnswersNeverHarm` from `PeerInv`: `Registered` (a request that
    waits is one the reader will find) and `ReportDue` (while the watcher lives the report is still to come, unless close() expects the exit).
  - Of TurnIO `MediaKept`, `NoCopyLeft`, `RateLimited`, `NoticeBeforeReply`, `ChunksInOrder` from `IOInv`. Between a store and the
    registration of its reference nothing but the age of the file protects it: `Young` says that it is too young for a plan and that
    older plans know another mtime. `Counted` gives the references a number, the turns that hold them; `TokensCovered` is the
    bucket's balance, with the tokens lent as the cardinality of a set.

Assumptions. They are those of the modules: finite sets of actors where something is counted, names that do not meet (a turn is not a probe, `None` is
nobody), positive limits, and two that say more. `ExecutorsOK` (ReloadParse) gives the model a name for each thread that the cap allows and for a new
one. `MaxFollowups` of ReloadReaper is positive, as it is in the code; with none, a chain would begin with its forced pass.
`MaxReloads`, `MaxEdits`, `MaxClock` and `MaxTime` are any naturals and `MaxChunks` any positive one, so the theorems hold for runs of any length.

Some theorems have no run of their own, as they hold by proof for every instance: type correctness, `OneOwnerPerKey`, `OverrideOnlyActive`,
`ProfileOfRouteStays`, `WithinOneFrame`, `HasWaker`, `LocksInUse`, `NothingBehindFence`, `NothingStartsAfterSnapshot`, `ClaimExclusive`.

Not proved, model-checked only:

- all liveness (`ClaimsResolve`, `EveryoneGetsThrough`, `BreakerRecovers`, `CloseReturns`, `SaturationLifts`, `CloseEndsUnheld`), since
  liveness under fairness needs ENABLED;
- the two runs that expect a violation, whose result is a behaviour, not a theorem.

## 6. Not modelled

The text of prompts and replies, redaction, permission policy tables and configuration parsing are
pure functions without state; the CLI is a one-shot client. Inside the modelled parts:

- *Store*: SQLite is one atomic statement with its commit. What an implicit transaction keeps after a failed commit, and the backup and
  schema migration at startup, depend on SQLite and the file system and are left out.
- *Turn*: RoutedTurn sees media, session and rate steps as single awaits; their own modules have them in detail.
- *Breaker*: time is in whole units.
- *Consumer and shutdown*: frames that the HTTP decoder buffers; idle control connections, the
  retention worker and the closing of transport and profiles only take time, so they are part
  of a wait that lasts until its deadline or of `StoreClosed`.
- *Reload*: what the parser accepts; a candidate file other than routes.yaml is one more version of it. An edit of config.yaml is
  not taken back. `close()` during a parse is in Shutdown (a request that is cancelled and leaves a worker).
- *Reaper*: that it schedules nothing any more while the router closes is in Shutdown, not in ReloadReaper; there all routes are of one profile.
- *Sessions*: rotation by age and number of turns; several routes on one profile.
- *Peer*: the update queues of prompts, the text of stderr and what the router answers to requests of the agent.
- *Transport*: reconnect delays and the parsing of frames. *Media*: names, sizes and MIME types, empty directories. *Notice*: its cooldown.
