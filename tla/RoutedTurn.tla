---- MODULE RoutedTurn ----
(***************************************************************************)
(* The turns of one route, from admission to the end of their identities:  *)
(* router.py _run_turn, _mark_signal_turn_skipped, _claim_dedupe_identity, *)
(* _release_abandoned_claim and _finalize_dedupe_claims.  The turns are    *)
(* coroutines on the event loop; their claims, marks and releases run in   *)
(* executor workers that outlive a cancelled coroutine.  The store behind  *)
(* the workers is DedupeStore, seen through its promise, ClaimTable.       *)
(***************************************************************************)
EXTENDS Naturals, SequencesExt

CONSTANTS
    Turns,      \* slots for turns, used again after a turn ended
    Keys,       \* dedupe identities of the route
    Identities, \* the identity sequences a turn may carry: (primary, secondary)
    None, NoKey

ASSUME TurnNames == None \notin Turns
ASSUME KeyNames == NoKey \notin Keys
ASSUME IdentitiesOK ==
    \A s \in Identities : /\ s \in Seq(Keys) /\ s # <<>>
                          /\ \A i, j \in DOMAIN s : s[i] = s[j] => i = j

VARIABLES
    proc,     \* the router process: up, closing, shut (store closed), down
    rows,     \* the store: status by identity
    owner,    \* owner[k]: the turn whose worker inserted the row of k
    jobs,     \* executor workers that have not finished
    pc,       \* pc[t]: where the coroutine of t is
    kind, ids, mine, fate,  \* origin, identities, claimed_dedupe, handled
    answer,   \* answer[t]: result of the claim t awaits
    broken,   \* broken[t]: the identities whose finalizer failed
    skipped   \* skipped[t]: those whose finalizer t was cancelled at

turnVars == <<pc, kind, ids, mine, fate, answer, broken, skipped>>
vars == <<proc, rows, owner, jobs, turnVars>>

Jobs == [op : {"claim", "mark", "release"}, turn : Turns, key : Keys,
         awaited : BOOLEAN]
Live == {"claiming", "gate", "prompting", "replying", "finishing"}

TypeOK ==
    /\ proc \in {"up", "closing", "shut", "down"}
    /\ rows \in [Keys -> {"none", "processing", "handled"}]
    /\ owner \in [Keys -> Turns \cup {None}]
    /\ jobs \subseteq Jobs
    /\ pc \in [Turns -> Live \cup {"idle", "waiting"}]
    /\ kind \in [Turns -> {"signal", "synthetic"}]
    /\ ids \in [Turns -> Identities \cup {<<>>}]
    /\ \A t \in Turns : IsPrefix(mine[t], ids[t])
    /\ DOMAIN mine = Turns
    /\ fate \in [Turns -> BOOLEAN]
    /\ answer \in [Turns -> {"none", "true", "false", "error"}]
    /\ broken \in [Turns -> SUBSET Keys] /\ skipped \in [Turns -> SUBSET Keys]

Each(v) == [t \in Turns |-> v]

Init ==
    /\ proc = "up"
    /\ rows = [k \in Keys |-> "none"]
    /\ owner = [k \in Keys |-> None]
    /\ jobs = {}
    /\ pc = Each("idle") /\ kind = Each("signal")
    /\ ids = Each(<<>>) /\ mine = Each(<<>>) /\ answer = Each("none")
    /\ fate = Each(FALSE) /\ broken = Each({}) /\ skipped = Each({})

-----------------------------------------------------------------------------
(* Workers *)

Job(o, t, k, a) == [op |-> o, turn |-> t, key |-> k, awaited |-> a]

FinalJobs(t) == {j \in jobs : j.turn = t /\ j.awaited /\ j.op # "claim"}

(* What _release_abandoned_claim dispatches when an abandoned claim worker  *)
(* is done with result r.                                                   *)
NeverReleased(j, r) == {}
ReleasedUnasked(j, r) == {Job("release", j.turn, j.key, FALSE)}
ReleaseAbandoned(j, r) ==
    IF r = "true" THEN {Job("release", j.turn, j.key, FALSE)} ELSE {}

(* A claim worker returns r: to the coroutine that awaits it, or to the     *)
(* done callback of an abandoned claim.                                     *)
DropsErrors(j, r) ==
    IF j.awaited
    THEN /\ answer' = [answer EXCEPT ![j.turn] = IF r = "error" THEN @ ELSE r]
         /\ jobs' = jobs \ {j}
    ELSE /\ jobs' = (jobs \ {j}) \cup ReleaseAbandoned(j, r)
         /\ UNCHANGED answer
Deliver(j, r) ==
    IF j.awaited
    THEN /\ answer' = [answer EXCEPT ![j.turn] = r]
         /\ jobs' = jobs \ {j}
    ELSE /\ jobs' = (jobs \ {j}) \cup ReleaseAbandoned(j, r)
         /\ UNCHANGED answer

(* INSERT, refused with an IntegrityError while the row exists. *)
Insertable(k) == rows[k] = "none"

RunClaim(j) ==
    /\ proc \in {"up", "closing"} /\ j.op = "claim"
    /\ IF Insertable(j.key)
       THEN /\ rows' = [rows EXCEPT ![j.key] = "processing"]
            /\ owner' = [owner EXCEPT ![j.key] = j.turn]
            /\ Deliver(j, "true")
       ELSE /\ Deliver(j, "false")
            /\ UNCHANGED <<rows, owner>>
    /\ UNCHANGED <<proc, pc, kind, ids, mine, fate, broken, skipped>>

(* mark_handled upserts; release deletes the row if it is processing,       *)
(* whoever inserted it.                                                     *)
RunFinal(j) ==
    /\ proc \in {"up", "closing"} /\ j.op \in {"mark", "release"}
    /\ rows' = [rows EXCEPT ![j.key] =
                  IF j.op = "mark" THEN "handled"
                  ELSE IF @ = "processing" THEN "none" ELSE @]
    /\ owner' = [owner EXCEPT ![j.key] = None]
    /\ jobs' = jobs \ {j}
    /\ UNCHANGED <<proc, turnVars>>

(* The store raises: an SQLite error, or it is closed. *)
FailJob(j) ==
    /\ IF j.op = "claim"
       THEN /\ Deliver(j, "error")
            /\ UNCHANGED <<owner, broken>>
       ELSE /\ jobs' = jobs \ {j}
            /\ owner' = [owner EXCEPT ![j.key] = IF @ = j.turn THEN None ELSE @]
            /\ broken' = [broken EXCEPT ![j.turn] =
                             IF j.awaited THEN @ \cup {j.key} ELSE @]
            /\ UNCHANGED answer
    /\ UNCHANGED <<proc, rows, pc, kind, ids, mine, fate, skipped>>

-----------------------------------------------------------------------------
(* The coroutine of a turn *)

(* A new event, job or notification; it queues for the route lock.  The     *)
(* slot is one whose former turn has no worker left.                        *)
Admit(t) ==
    /\ proc = "up" /\ pc[t] = "idle"
    /\ \A j \in jobs : j.turn # t
    /\ \E s \in Identities, o \in {"signal", "synthetic"} :
          /\ ids' = [ids EXCEPT ![t] = s]
          /\ kind' = [kind EXCEPT ![t] = o]
    /\ pc' = [pc EXCEPT ![t] = "waiting"]
    /\ broken' = [broken EXCEPT ![t] = {}]
    /\ UNCHANGED <<proc, rows, owner, jobs, mine, fate, answer, skipped>>

LockFree == \A u \in Turns : pc[u] \notin Live

(* The route lock is acquired and the first claim dispatched. *)
EnterRoute(t) ==
    /\ proc # "down" /\ pc[t] = "waiting" /\ LockFree
    /\ pc' = [pc EXCEPT ![t] = "claiming"]
    /\ jobs' = jobs \cup {Job("claim", t, ids[t][1], TRUE)}
    /\ UNCHANGED <<proc, rows, owner, kind, ids, mine, fate, answer, broken, skipped>>

(* _finalize_dedupe_claims: one worker per claimed identity, all dispatched *)
(* before any is awaited.                                                   *)
FinalizesFirstOnly(t, handled) ==
    {Job(IF handled THEN "mark" ELSE "release", t, mine[t][1], TRUE)}
Finalizers(t, handled) ==
    {Job(IF handled THEN "mark" ELSE "release", t, mine[t][i], TRUE) :
        i \in DOMAIN mine[t]}

(* The frame of the coroutine is gone and the route lock is free. *)
Forget(t) ==
    /\ pc' = [pc EXCEPT ![t] = "idle"]
    /\ ids' = [ids EXCEPT ![t] = <<>>]
    /\ mine' = [mine EXCEPT ![t] = <<>>]
    /\ kind' = [kind EXCEPT ![t] = "signal"]
    /\ fate' = [fate EXCEPT ![t] = FALSE]
    /\ skipped' = [skipped EXCEPT ![t] = {}]

(* The coroutine reaches its finally with `handled` as given; with nothing  *)
(* claimed it is through.                                                   *)
FinishWith(t, handled, others) ==
    /\ answer' = [answer EXCEPT ![t] = "none"]
    /\ IF mine[t] = <<>>
       THEN Forget(t) /\ jobs' = others
       ELSE /\ pc' = [pc EXCEPT ![t] = "finishing"]
            /\ fate' = [fate EXCEPT ![t] = handled]
            /\ jobs' = others \cup Finalizers(t, handled)
            /\ UNCHANGED <<kind, ids, mine, skipped>>
    /\ UNCHANGED <<proc, rows, owner, broken>>

Finish(t, handled) == FinishWith(t, handled, jobs)

(* The awaited claim said yes: the next identity, or the gate. *)
Claimed(t) ==
    /\ pc[t] = "claiming" /\ answer[t] = "true"
    /\ LET n == Len(mine[t]) + 1 IN
       /\ mine' = [mine EXCEPT ![t] = Append(@, ids[t][n])]
       /\ IF n < Len(ids[t])
          THEN /\ jobs' = jobs \cup {Job("claim", t, ids[t][n + 1], TRUE)}
               /\ UNCHANGED pc
          ELSE /\ pc' = [pc EXCEPT ![t] = "gate"]
               /\ UNCHANGED jobs
    /\ answer' = [answer EXCEPT ![t] = "none"]
    /\ UNCHANGED <<proc, rows, owner, kind, ids, fate, broken, skipped>>

(* It said no, or raised: everything claimed so far is released. *)
Deduped(t) ==
    /\ pc[t] = "claiming" /\ answer[t] \in {"false", "error"}
    /\ Finish(t, FALSE)

(* Empty, stale, disabled, over the rate limit, shadowed: consumed unseen.  *)
Discard(t) == pc[t] = "gate" /\ Finish(t, TRUE)

(* Maintenance reply, or failure to get a session, with its failure reply:  *)
(* a Signal event is consumed, a synthetic job may be retried.              *)
Refuse(t) == pc[t] = "gate" /\ Finish(t, kind[t] = "signal")

(* Media that cannot be stored, attachments that cannot be frozen.          *)
GiveUp(t) == pc[t] = "gate" /\ Finish(t, FALSE)

StartPrompt(t) ==
    /\ pc[t] = "gate"
    /\ pc' = [pc EXCEPT ![t] = "prompting"]
    /\ UNCHANGED <<proc, rows, owner, jobs, kind, ids, mine, fate, answer, broken,
                   skipped>>

PromptAnswered(t) ==
    /\ pc[t] = "prompting"
    /\ pc' = [pc EXCEPT ![t] = "replying"]
    /\ UNCHANGED <<proc, rows, owner, jobs, kind, ids, mine, fate, answer, broken,
                   skipped>>

(* The prompt raised or came back empty: the failure reply goes out. *)
PromptFailed(t) == pc[t] = "prompting" /\ Finish(t, kind[t] = "signal")

(* The reply was sent, suppressed, or its delivery failed: all the same.    *)
Replied(t) == pc[t] = "replying" /\ Finish(t, TRUE)

(* task.cancel() by the shutdown, at the await where the coroutine is.  A   *)
(* claim whose worker still runs, or whose answer was not read, is handed   *)
(* to _release_abandoned_claim; the finally still finalizes.                *)
Cancel(t) ==
    /\ proc \in {"closing", "shut"}
    /\ pc[t] \in {"waiting", "claiming", "gate", "prompting", "replying"}
    /\ LET claims == {j \in jobs : j.turn = t /\ j.op = "claim" /\ j.awaited}
           read == Job("claim", t, ids[t][Len(mine[t]) + 1], FALSE)
       IN FinishWith(t, FALSE,
             (jobs \ claims) \cup {[j EXCEPT !.awaited = FALSE] : j \in claims}
             \cup IF pc[t] = "claiming" /\ claims = {}
                  THEN ReleaseAbandoned(read, answer[t]) ELSE {})

(* Finalizers are awaited in order, but those of S.  After the last one, or *)
(* the first that raised, the turn is over and the route lock is free,      *)
(* whichever workers are still in flight.                                   *)
InFlight(t) == {j.key : j \in FinalJobs(t)}
Through(t, S) ==
    \/ InFlight(t) \subseteq S
    \/ \E i \in DOMAIN mine[t] :
          /\ mine[t][i] \in broken[t] \ S
          /\ \A h \in 1..(i - 1) : mine[t][h] \notin InFlight(t) \ S

Done(t) ==
    /\ pc[t] = "finishing" /\ Through(t, skipped[t])
    /\ Forget(t)
    /\ UNCHANGED <<proc, rows, owner, jobs, answer, broken>>

(* task.cancel() at the finalizer that t awaits, the first that is in       *)
(* flight or whose exception was not read: t leaves that worker alone and   *)
(* goes on to the next.                                                     *)
CancelFinish(t) ==
    /\ proc \in {"closing", "shut"} /\ pc[t] = "finishing"
    /\ LET unread == (InFlight(t) \cup broken[t]) \ skipped[t] IN
       \E i \in DOMAIN mine[t] :
          /\ mine[t][i] \in unread /\ \A h \in 1..(i - 1) : mine[t][h] \notin unread
          /\ IF Through(t, skipped[t] \cup {mine[t][i]}) THEN Forget(t)
             ELSE /\ skipped' = [skipped EXCEPT ![t] = @ \cup {mine[t][i]}]
                  /\ UNCHANGED <<pc, kind, ids, mine, fate>>
    /\ UNCHANGED <<proc, rows, owner, jobs, answer, broken>>

-----------------------------------------------------------------------------
(* The process *)

BeginShutdown ==
    /\ proc = "up"
    /\ proc' = "closing"
    /\ UNCHANGED <<rows, owner, jobs, turnVars>>

(* close() reaches its deadline and closes the store under whoever is left. *)
CloseStore ==
    /\ proc = "closing"
    /\ proc' = "shut"
    /\ UNCHANGED <<rows, owner, jobs, turnVars>>

(* The process ends, after close() or by a crash: only rows survive. *)
ProcessEnds ==
    /\ proc # "down"
    /\ proc' = "down"
    /\ owner' = [k \in Keys |-> None]
    /\ jobs' = {}
    /\ pc' = Each("idle") /\ kind' = Each("signal")
    /\ ids' = Each(<<>>) /\ mine' = Each(<<>>) /\ answer' = Each("none")
    /\ fate' = Each(FALSE) /\ broken' = Each({}) /\ skipped' = Each({})
    /\ UNCHANGED rows

(* A new process opens the store, which reclaims what the dead one claimed. *)
StartProcess ==
    /\ proc = "down"
    /\ proc' = "up"
    /\ rows' = [k \in Keys |-> IF rows[k] = "processing" THEN "none" ELSE rows[k]]
    /\ UNCHANGED <<owner, jobs, turnVars>>

-----------------------------------------------------------------------------
WorkerStep(t, k) ==
    \E j \in jobs : j.turn = t /\ j.key = k /\ (RunClaim(j) \/ RunFinal(j) \/ FailJob(j))

TurnStep(t) ==
    \/ EnterRoute(t)
    \/ Claimed(t)
    \/ Deduped(t)
    \/ Discard(t)
    \/ Refuse(t)
    \/ GiveUp(t)
    \/ StartPrompt(t)
    \/ PromptAnswered(t)
    \/ PromptFailed(t)
    \/ Replied(t)
    \/ Done(t)

Next ==
    \/ \E t \in Turns, k \in Keys : WorkerStep(t, k)
    \/ \E t \in Turns : Admit(t) \/ TurnStep(t) \/ Cancel(t) \/ CancelFinish(t)
    \/ BeginShutdown
    \/ CloseStore
    \/ ProcessEnds
    \/ StartProcess

Spec == Init /\ [][Next]_vars

(* Executor workers finish, coroutines that can go on do (a prompt and a    *)
(* send are bounded by their timeouts), the route lock is handed out in     *)
(* turn, and an operator brings a router that was stopped up again.         *)
FairSpec ==
    /\ Spec
    /\ \A t \in Turns, k \in Keys : WF_vars(WorkerStep(t, k))
    /\ \A t \in Turns : SF_vars(TurnStep(t))
    /\ WF_vars(proc # "up" /\ (CloseStore \/ ProcessEnds \/ StartProcess))

-----------------------------------------------------------------------------
(* Properties *)

(* A turn reaches the gate, the prompt and the reply only while it owns     *)
(* every identity it carries: no other worker, abandoned or not, takes one  *)
(* from under it.                                                           *)
WorkOwnsAll ==
    \A t \in Turns : pc[t] \in {"gate", "prompting", "replying"} =>
        \A i \in DOMAIN ids[t] :
            owner[ids[t][i]] = t /\ rows[ids[t][i]] = "processing"

(* mark and release name a row, not an owner: they are only ever in flight  *)
(* for rows the turn itself inserted.  DedupeStore assumes this of callers. *)
OwnerDiscipline ==
    \A j \in jobs : j.op # "claim" /\ proc # "down" =>
        owner[j.key] = j.turn /\ rows[j.key] = "processing"

(* No work and no statement on a row of another turn. *)
OwnsWhatItTouches == WorkOwnsAll /\ OwnerDiscipline

(* Who will resolve the row of k: its turn, an answer on its way, a worker. *)
HasHeir(k) ==
    LET t == owner[k] IN
    \/ pc[t] \in Live \ {"finishing"} /\ \E i \in DOMAIN mine[t] : mine[t][i] = k
    \/ pc[t] = "claiming" /\ answer[t] = "true" /\ ids[t][Len(mine[t]) + 1] = k
    \/ \E j \in jobs : j.op # "claim" /\ j.turn = t /\ j.key = k

(* Whatever was cancelled where, every inserted row has such an heir.       *)
EveryClaimHasAnHeir == \A k \in Keys : owner[k] # None => HasHeir(k)

(* The identities of a turn share its fate: when its finalizers are through *)
(* none is left behind, and all are handled or none is.                     *)
IdentitiesTogether ==
    \A t \in Turns :
        pc[t] = "finishing" /\ FinalJobs(t) = {} /\ broken[t] = {} =>
            \A i \in DOMAIN mine[t] :
                rows[mine[t][i]] = "handled" <=> fate[t]

(* No claim is forgotten: whatever is cancelled or fails, a claim of a live *)
(* process is marked or released, or the worker that had to do it failed    *)
(* and left the row to the reclaim of the next start.                       *)
ClaimsResolve == \A k \in Keys : owner[k] # None ~> owner[k] = None

(* The turns use the store as ClaimTable allows. *)
SeenAs(s) == IF s = "none" THEN "free"
             ELSE IF s = "processing" THEN "claimed" ELSE "handled"
TableStatus == [k \in Keys |-> SeenAs(rows[k])]
TableHeld == [c \in Turns \X Keys |-> IF owner[c[2]] = c[1] THEN c[2] ELSE NoKey]

Table == INSTANCE ClaimTable WITH
    Claimants <- Turns \X Keys, status <- TableStatus, held <- TableHeld

UsesClaimTable == Table!TableSpec
====
