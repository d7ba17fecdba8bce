---- MODULE TurnIO ----
(***************************************************************************)
(* What a turn does to the world outside (router.py, media.py, signal.py): *)
(* it takes a token of its route's rate bucket, stores the attachments of  *)
(* a Signal event in the media archive or freezes the files of a           *)
(* notification, prompts, sends a busy notice and the chunks of its reply, *)
(* and gives back what it held, against the media sweep, executor threads  *)
(* that outlive a cancelled turn, reloads of the limit, and a wall clock   *)
(* that may step.  An action is what the event loop runs between two       *)
(* awaits, or a thread's work.                                             *)
(***************************************************************************)
EXTENDS Integers, FiniteSets

CONSTANTS
    Turns,     \* a turn is also the path of its frozen attachment
    Files,     \* paths in the archive, named after their content
    RouteOf,   \* RouteOf[t]: turns of a route run one at a time
    KindsOf,   \* KindsOf[t]: what t may be, "signal" or "notify"
    Limited,   \* the routes with an inbound rate limit, at most one
    Capacity,  \* of its bucket; a token comes back per unit of time
    MaxChunks, \* bounds the chunks of a reply
    MaxClock   \* bounds the wall clock

ASSUME IOConstantsOK ==
    /\ KindsOf \in [Turns -> SUBSET {"signal", "notify"}] /\ DOMAIN RouteOf = Turns
    /\ Turns \cap Files = {} /\ IsFiniteSet(Turns)
    /\ Capacity \in Nat \ {0} /\ MaxChunks \in Nat \ {0} /\ MaxClock \in Nat

VARIABLES
    turn,     \* turn[t]: its stage, kind, token and progress
    worker,   \* worker[t]: the executor thread that t dispatched
    file,     \* file[p]: whether p exists, its mtime, and whether that is long ago
    live,     \* _live_media
    sweep,    \* groups the media sweep is to delete, with the mtimes it saw
    notice,   \* notice[t]: the busy notice task of t
    accepted, \* accepted[t]: how often Signal took each chunk of t
    clock,    \* the wall clock
    rate      \* the route's bucket in _inbound_rate_buckets

ioVars == <<turn, worker, file, live, sweep, notice, accepted, clock, rate>>
mediaVars == <<worker, file, live, sweep>>
rateVars == <<clock, rate>>

Paths == Files \cup Turns
Chunks == 1..MaxChunks
Stages == {"storing", "stored", "ready", "prompting", "stopping", "sending", "retrying", "replied"}
TurnRecords ==
    [at : {"idle", "freezing", "copied", "queued", "over"} \cup Stages,
     kind : {"signal", "notify"}, token : {"none", "held", "orphan"},
     chunk : 0..MaxChunks, chunks : 0..MaxChunks]
FileRecords == [there : BOOLEAN, mtime : Nat, old : BOOLEAN]
Buckets == [tokens : 0..Capacity, last : -1..MaxClock, first : -1..MaxClock, spent : Nat]
NoBucket == [tokens |-> 0, last |-> -1, first |-> -1, spent |-> 0]

IOTypeOK ==
    /\ turn \in [Turns -> TurnRecords]
    /\ worker \in [Turns -> {"none", "store", "copy", "abandoned"}]
    /\ file \in [Paths -> FileRecords]
    /\ live \in [Paths -> Nat]
    /\ sweep \subseteq Paths \X Nat
    /\ notice \in [Turns -> {"none", "waiting", "sending", "over"}]
    /\ accepted \in [Turns -> [Chunks -> 0..2]]
    /\ clock \in 0..MaxClock
    /\ rate \in Buckets

Without(stage) ==
    [at |-> stage, kind |-> "signal", token |-> "none", chunk |-> 0, chunks |-> 0]

(* The archive may hold a file already, from long ago. *)
IOInit ==
    /\ turn = [t \in Turns |-> Without("idle")]
    /\ worker = [t \in Turns |-> "none"]
    /\ \E S \in SUBSET Files :
          file = [p \in Paths |-> [there |-> p \in S, mtime |-> 0, old |-> TRUE]]
    /\ live = [p \in Paths |-> 0]
    /\ sweep = {}
    /\ notice = [t \in Turns |-> "none"]
    /\ accepted = [t \in Turns |-> [i \in Chunks |-> 0]]
    /\ clock = 0 /\ rate = NoBucket

Go(t, stage) == turn' = [turn EXCEPT ![t].at = stage]
Signal(t) == turn[t].kind = "signal"

-----------------------------------------------------------------------------
(* The wall clock, reloads, and the rate bucket *)

ClockSteps(now) ==
    /\ now # clock /\ clock' = now
    /\ UNCHANGED <<turn, mediaVars, notice, accepted, rate>>

(* A reload that changes the limit drops the bucket; a turn keeps the one   *)
(* its token came from.                                                     *)
ReloadLimit ==
    /\ rate # NoBucket /\ rate' = NoBucket
    /\ turn' = [t \in Turns |-> IF turn[t].token = "held" THEN [turn[t] EXCEPT !.token = "orphan"]
                                ELSE turn[t]]
    /\ UNCHANGED <<mediaVars, notice, accepted, clock>>

Capped(n) == IF n > Capacity THEN Capacity ELSE n

(* A clock that stalls or steps back mints nothing. *)
Refilled ==
    IF clock <= rate.last THEN rate
    ELSE [rate EXCEPT !.tokens = Capped(@ + clock - rate.last), !.last = clock]
Bucket ==
    IF rate = NoBucket
    THEN [tokens |-> Capacity, last |-> clock, first |-> clock, spent |-> 0]
    ELSE Refilled

RefundableAlways(t) == turn[t].token = "held"
Refundable(t) == turn[t].token = "held" /\ turn[t].at \in {"storing", "stored", "ready"}

-----------------------------------------------------------------------------
(* Media threads.  The guard _media_io_inflight counts those that run.      *)

MediaIdle == \A t \in Turns : worker[t] = "none"
Rewritten(p) == [there |-> TRUE, mtime |-> file[p].mtime + 1, old |-> FALSE]

(* write_attachment stores the content or refreshes the mtime of a file     *)
(* that is there; _copy_outbound_attachment writes the turn's own copy.     *)
(* Either may fail and leave nothing.  The loop hears of it: the guard goes *)
(* down, and the turn is woken.                                             *)
StoreDone(t) ==
    /\ worker[t] = "store" /\ worker' = [worker EXCEPT ![t] = "none"]
    /\ \/ file' = [p \in Paths |-> IF p \in Files THEN Rewritten(p) ELSE file[p]]
          /\ IF turn[t].at = "storing" THEN Go(t, "stored") ELSE UNCHANGED turn
       \/ turn[t].at = "over" /\ UNCHANGED <<file, turn>>
    /\ UNCHANGED <<live, sweep, notice, accepted, rateVars>>

CopyDone(t) ==
    /\ worker[t] = "copy" /\ worker' = [worker EXCEPT ![t] = "none"]
    /\ file' = [file EXCEPT ![t] = Rewritten(t)] /\ Go(t, "copied")
    /\ UNCHANGED <<live, sweep, notice, accepted, rateVars>>

(* The copy of a freeze that was cancelled is deleted on its completion. *)
KeepsArtifact(t) == [file EXCEPT ![t] = Rewritten(t)]
Discarded(t) == file
AbandonedCopyDone(t) ==
    /\ worker[t] = "abandoned" /\ worker' = [worker EXCEPT ![t] = "none"]
    /\ file' = Discarded(t)
    /\ UNCHANGED <<turn, live, sweep, notice, accepted, rateVars>>

-----------------------------------------------------------------------------
(* The media sweep *)

(* Time passes: what is on disk grows old.  A turn that waits for its store *)
(* does not wait that long.                                                 *)
Age ==
    /\ \A t \in Turns : turn[t].at \notin {"storing", "stored", "freezing", "copied"}
    /\ \E p \in Paths : file[p].there /\ ~file[p].old
    /\ file' = [p \in Paths |-> [file[p] EXCEPT !.old = TRUE]]
    /\ UNCHANGED <<turn, worker, live, sweep, notice, accepted, rateVars>>

(* The plan is made in a thread: old files by age, the oldest by size. *)
Plan(P) ==
    /\ sweep = {} /\ P # {}
    /\ \A p \in P : file[p].there /\ file[p].old
    /\ sweep' = {<<p, file[p].mtime>> : p \in P}
    /\ UNCHANGED <<turn, worker, file, live, notice, accepted, rateVars>>

(* One batch: not at all while a media thread runs; no group that is live,  *)
(* gone, or was written since the plan was made.                            *)
SweptUnchecked(p, mtime) == live[p] = 0 /\ file[p].there
Swept(p, mtime) == live[p] = 0 /\ file[p].there /\ file[p].mtime = mtime

SweepBatch(p, mtime) ==
    /\ <<p, mtime>> \in sweep
    /\ IF MediaIdle
       THEN /\ file' = IF Swept(p, mtime) THEN [file EXCEPT ![p].there = FALSE] ELSE file
            /\ sweep' = sweep \ {<<p, mtime>>}
       ELSE UNCHANGED file /\ sweep' = {}
    /\ UNCHANGED <<turn, worker, live, notice, accepted, rateVars>>

-----------------------------------------------------------------------------
(* A turn begins *)

Free(r) == \A t \in Turns : RouteOf[t] = r => turn[t].at \notin Stages
Uses(t, p) == live' = [live EXCEPT ![p] = @ + 1]

(* _run_turn of a Signal event under its route lock: over the limit it is   *)
(* skipped, else its attachments are stored.                                *)
StartSignal(t) ==
    /\ turn[t].at = "idle" /\ "signal" \in KindsOf[t] /\ Free(RouteOf[t])
    /\ IF RouteOf[t] \in Limited
       THEN /\ rate' = IF Bucket.tokens = 0 THEN Bucket ELSE [Bucket EXCEPT !.tokens = @ - 1]
            /\ turn' = [turn EXCEPT ![t].at = IF Bucket.tokens = 0 THEN "over" ELSE "storing",
                                    ![t].token = IF Bucket.tokens = 0 THEN "none" ELSE "held"]
       ELSE Go(t, "storing") /\ UNCHANGED rate
    /\ worker' = IF turn'[t].at = "storing" THEN [worker EXCEPT ![t] = "store"] ELSE worker
    /\ UNCHANGED <<file, live, sweep, notice, accepted, clock>>

(* The turn runs again, and its files are live until it is over. *)
Stored(t) ==
    /\ turn[t].at = "stored" /\ Go(t, "ready")
    /\ live' = [p \in Paths |-> IF p \in Files THEN live[p] + 1 ELSE live[p]]
    /\ UNCHANGED <<worker, file, sweep, notice, accepted, rateVars>>

(* _handle_synthetic_definition freezes its file before it has the lock. *)
StartNotify(t) ==
    /\ turn[t].at = "idle" /\ "notify" \in KindsOf[t]
    /\ turn' = [turn EXCEPT ![t].at = "freezing", ![t].kind = "notify"]
    /\ worker' = [worker EXCEPT ![t] = "copy"]
    /\ UNCHANGED <<file, live, sweep, notice, accepted, rateVars>>

Frozen(t) ==
    /\ turn[t].at = "copied" /\ Go(t, "queued") /\ Uses(t, t)
    /\ UNCHANGED <<worker, file, sweep, notice, accepted, rateVars>>

(* The lock; the inner freeze passes the copy on with a reference of its own. *)
RunNotify(t) ==
    /\ turn[t].at = "queued" /\ Free(RouteOf[t]) /\ Go(t, "ready") /\ Uses(t, t)
    /\ UNCHANGED <<worker, file, sweep, notice, accepted, rateVars>>

-----------------------------------------------------------------------------
(* A turn ends: cleanup by whatever stage it is in *)

(* References the turn holds: a notification's freeze, and the nested one. *)
References(t) ==
    [p \in Paths |->
        IF Signal(t)
        THEN IF p \in Files /\ turn[t].at \in Stages \ {"storing", "stored"} THEN 1 ELSE 0
        ELSE IF p # t \/ turn[t].at \notin {"queued"} \cup Stages THEN 0
        ELSE IF turn[t].at = "queued" THEN 1 ELSE 2]
Released(t) == References(t)

(* The finally blocks, from the innermost that is open; the artifact goes   *)
(* with the first cleanup, an unfinished store is left to its thread.       *)
End(t) ==
    /\ turn' = [turn EXCEPT ![t] = Without("over")]
    /\ live' = [p \in Paths |-> live[p] - Released(t)[p]]
    /\ file' = IF Signal(t) \/ worker[t] = "copy" THEN file
               ELSE [file EXCEPT ![t].there = FALSE]
    /\ worker' = IF worker[t] = "copy" THEN [worker EXCEPT ![t] = "abandoned"] ELSE worker
    /\ notice' = [notice EXCEPT ![t] = IF @ = "none" THEN @ ELSE "over"]
    /\ rate' = IF Refundable(t) THEN [rate EXCEPT !.tokens = Capped(@ + 1)] ELSE rate
    /\ UNCHANGED <<sweep, accepted, clock>>

(* A failure or a cancellation before the prompt, or a cancellation in it.  *)
(* One that meets the turn while it stops its notice is swallowed.          *)
GiveUp(t) ==
    /\ turn[t].at \in ({"freezing", "copied", "queued"} \cup Stages) \ {"stopping"}
    /\ End(t)

-----------------------------------------------------------------------------
(* The prompt, the busy notice and the reply *)

(* The token is spent once a session was had. *)
Prompt(t) ==
    /\ turn[t].at = "ready" /\ Go(t, "prompting")
    /\ notice' = [notice EXCEPT ![t] = "waiting"]
    /\ rate' = IF turn[t].token = "held" THEN [rate EXCEPT !.spent = @ + 1] ELSE rate
    /\ UNCHANGED <<mediaVars, accepted, clock>>

(* _long_running_notice: the deadline passes, unless its cooldown holds it  *)
(* back or the turn is done; then the post ends.                            *)
NoticeDue(t) ==
    /\ notice[t] = "waiting" /\ turn[t].at = "prompting"
    /\ \E next \in {"sending", "over"} : notice' = [notice EXCEPT ![t] = next]
    /\ UNCHANGED <<turn, mediaVars, accepted, rateVars>>
NoticeSent(t) ==
    /\ notice[t] = "sending" /\ notice' = [notice EXCEPT ![t] = "over"]
    /\ UNCHANGED <<turn, mediaVars, accepted, rateVars>>

(* The prompt ends or fails with a reply of some chunks, none for the       *)
(* no-reply sentinel; the notice task is cancelled and awaited.             *)
Answered(t, n) ==
    /\ turn[t].at = "prompting"
    /\ turn' = [turn EXCEPT ![t].at = "stopping", ![t].chunks = n]
    /\ UNCHANGED <<mediaVars, notice, accepted, rateVars>>
NoticeCancelled(t) ==
    /\ turn[t].at = "stopping" /\ notice[t] # "over"
    /\ notice' = [notice EXCEPT ![t] = "over"]
    /\ UNCHANGED <<turn, mediaVars, accepted, rateVars>>

NoticeAnyhow(t) == TRUE
NoticeStopped(t) == notice[t] = "over"
Reply(t) ==
    /\ turn[t].at = "stopping" /\ NoticeStopped(t)
    /\ IF turn[t].chunks = 0 THEN Go(t, "replied")
       ELSE turn' = [turn EXCEPT ![t].at = "sending", ![t].chunk = 1]
    /\ UNCHANGED <<mediaVars, notice, accepted, rateVars>>

Sending(t) == turn[t].at \in {"sending", "retrying"}
Accepted(t) == accepted' = [accepted EXCEPT ![t][turn[t].chunk] = @ + 1]

Posted(t) ==
    /\ Sending(t) /\ Accepted(t)
    /\ IF turn[t].chunk = turn[t].chunks THEN Go(t, "replied")
       ELSE turn' = [turn EXCEPT ![t].at = "sending", ![t].chunk = @ + 1]
    /\ UNCHANGED <<mediaVars, notice, rateVars>>

(* A chunk is posted again, once, when the post never left; any other       *)
(* failure, after which Signal may have it or not, ends the reply.          *)
RetriesAny(t, error) == turn[t].at = "sending"
Retries(t, error) == turn[t].at = "sending" /\ error = "unsent"
PostFails(t, error) ==
    /\ Sending(t) /\ Go(t, IF Retries(t, error) THEN "retrying" ELSE "replied")
    /\ IF error = "taken" THEN Accepted(t) ELSE UNCHANGED accepted
    /\ UNCHANGED <<mediaVars, notice, rateVars>>

Finish(t) == turn[t].at = "replied" /\ End(t)

-----------------------------------------------------------------------------
Thread(t) == StoreDone(t) \/ CopyDone(t) \/ AbandonedCopyDone(t)
Begin(t) == StartSignal(t) \/ Stored(t) \/ StartNotify(t) \/ Frozen(t) \/ RunNotify(t)
Talk(t) ==
    \/ Prompt(t) \/ NoticeDue(t) \/ NoticeSent(t) \/ NoticeCancelled(t)
    \/ \E n \in 0..MaxChunks : Answered(t, n)
    \/ Reply(t) \/ Posted(t) \/ \E e \in {"unsent", "taken", "refused"} : PostFails(t, e)
Sweep == (\E P \in SUBSET Paths : Plan(P)) \/ \E e \in sweep : SweepBatch(e[1], e[2])

IONext ==
    \/ \E t \in Turns : Begin(t) \/ Thread(t) \/ Talk(t) \/ GiveUp(t) \/ Finish(t)
    \/ Age \/ Sweep
    \/ ReloadLimit \/ \E now \in 0..MaxClock : ClockSteps(now)

IOSpec == IOInit /\ [][IONext]_ioVars

-----------------------------------------------------------------------------
(* Properties *)

(* A file that a turn stored or froze stays on disk until the turn is over, *)
(* whatever the sweep had planned and other turns release.                  *)
InUse(t, p) ==
    IF Signal(t) THEN p \in Files /\ turn[t].at \in Stages \ {"storing"}
    ELSE p = t /\ turn[t].at \in ({"copied", "queued"} \cup Stages)
FilesInUseStay == \A t \in Turns, p \in Paths : InUse(t, p) => file[p].there

(* References balance: a path is exempt from the sweep exactly as long as   *)
(* somebody holds it.                                                       *)
LiveBalances ==
    \A p \in Paths : live[p] > 0 <=> \E t \in Turns : References(t)[p] > 0

(* What a turn works with is kept, and nothing is kept for ever. *)
InUseKept == FilesInUseStay /\ LiveBalances

(* A frozen copy never outlives its turn and the thread that wrote it.      *)
ArtifactsGone ==
    \A t \in Turns : turn[t].at = "over" /\ worker[t] = "none" => ~file[t].there

(* However turns give up and the clock steps, the prompts of a bucket and   *)
(* the tokens it has left or lent are covered by its capacity and the time  *)
(* that really passed.                                                      *)
RateCap ==
    rate # NoBucket =>
        rate.tokens + rate.spent + Cardinality({t \in Turns : Refundable(t)})
            <= Capacity + rate.last - rate.first

(* A busy notice is never under way once the reply is being sent. *)
NoticeNeverLate == \A t \in Turns : Sending(t) => notice[t] = "over"

(* Signal takes the chunks of a reply in order, and none of them twice. *)
ChunksOnce ==
    \A t \in Turns, i \in Chunks :
        accepted[t][i] <= 1 /\ (i > 1 /\ accepted[t][i] > 0 => accepted[t][i - 1] = 1)
====
