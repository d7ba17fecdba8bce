---- MODULE ReloadReaper ----
(***************************************************************************)
(* What a config reload leaves behind, and who clears it away: the         *)
(* background reapers of router.py (_reap_retired_runtime_state,           *)
(* _reap_after_drain and the self-heal in the finally of _run_turn), which *)
(* wait until the turns on retired routes have drained, evict sessions and *)
(* retire the Hermes process, against turns that keep the config of their  *)
(* admission.  All routes are of one profile.  An action is what the event *)
(* loop runs between two awaits; deadlines may pass at any time.           *)
(***************************************************************************)
EXTENDS Integers, FiniteSets

CONSTANTS
    Routes,       \* route keys, in their sorted order
    Policies,     \* session policies
    Configurations, \* what the config file may say of the routes
    First,        \* the one the router starts with
    Turns,        \* slots for turns
    Reapers,      \* slots for reaper tasks
    MaxFollowups, \* REAP_MAX_FOLLOWUP_ATTEMPTS
    MaxReloads    \* bounds the reloads of a behaviour

ASSUME ConstantsOK ==
    /\ Routes \subseteq Nat /\ IsFiniteSet(Routes)
    /\ MaxFollowups \in Nat \ {0} /\ MaxReloads \in Nat

Configs == [state : {"active", "off", "removed"}, policy : Policies]

ASSUME ConfigurationsOK ==
    Configurations \subseteq [Routes -> Configs] /\ First \in Configurations

VARIABLES
    config,   \* config[r]: state and session policy of r in the current config
    reloads,  \* reloads so far
    turn,     \* turn[t]: where t is, its route, and the policy it was admitted with
    sessions, \* the cached sessions, by route and policy
    profile,  \* the supervisor has a process of the profile cached
    reaper,   \* reaper[x]: a task of _reap_after_drain, with its locals
    unhealed  \* history: the sessions of turns that ended, since the last reload,
              \* without the self-heal they owed

vars == <<config, reloads, turn, sessions, profile, reaper, unhealed>>

SessionKeys == [route : Routes, policy : Policies]

(* Bounds the count of follow-ups, past the budget that matters. *)
MaxPasses == MaxFollowups + 2 * MaxReloads

NoTurn == [pc |-> "idle"]
NoReaper == [pc |-> "idle"]
Scheduled(extra, attempt, eligible) ==
    [pc |-> "scheduled", extra |-> extra, attempt |-> attempt, eligible |-> eligible]

TurnsAtWork ==
    [pc : {"fresh", "waiting", "locked", "prompting", "ending"},
     route : Routes, policy : Policies]
Waiters == [pc : {"scheduled"}, extra : SUBSET Routes, attempt : 0..MaxPasses,
            eligible : SUBSET Routes]
Passes == [pc : {"turns", "locks"}, extra : SUBSET Routes, attempt : 0..MaxPasses,
           eligible : SUBSET Routes, keys : SUBSET Routes, relevant : SUBSET Turns,
           todo : SUBSET Routes, drained : SUBSET Routes]

TypeOK ==
    /\ config \in [Routes -> Configs]
    /\ reloads \in 0..MaxReloads
    /\ turn \in [Turns -> {NoTurn} \cup TurnsAtWork]
    /\ sessions \subseteq SessionKeys /\ profile \in BOOLEAN
    /\ reaper \in [Reapers -> {NoReaper} \cup Waiters \cup Passes]
    /\ unhealed \subseteq SessionKeys

Init ==
    /\ config = First
    /\ reloads = 0
    /\ turn = [t \in Turns |-> NoTurn]
    /\ sessions = {} /\ profile = FALSE
    /\ reaper = [x \in Reapers |-> NoReaper]
    /\ unhealed = {}

-----------------------------------------------------------------------------
Live == {r \in Routes : config[r].state = "active"}
Inflight == {t \in Turns : turn[t] # NoTurn}
FreeSlots == {x \in Reapers : reaper[x] = NoReaper}

(* A session that no turn of its route can use as the config is now. *)
Stale(s) == config[s.route].state # "active" \/ config[s.route].policy # s.policy

(* _track_reap_task *)
Track(extra) ==
    /\ FreeSlots # {}
    /\ reaper' = [reaper EXCEPT ![CHOOSE x \in FreeSlots : TRUE] = Scheduled(extra, 0, {})]

-----------------------------------------------------------------------------
(* Reloads *)

(* Routes whose session policy differs from that of the old config, and     *)
(* those with a session of another policy cached.                           *)
PolicyChanged(old, new) ==
    {r \in Routes : /\ old[r].state # "removed" /\ new[r].state # "removed"
                    /\ old[r].policy # new[r].policy}
    \cup {s.route : s \in {s \in sessions : /\ new[s.route].state # "removed"
                                            /\ new[s.route].policy # s.policy}}

(* The validated swap, and the reaper it schedules when a key ever seen is  *)
(* not live; whatever was left unhealed is its business now.                *)
Reload(c) ==
    /\ reloads < MaxReloads /\ reloads' = reloads + 1
    /\ c # config /\ config' = c
    /\ LET changed == PolicyChanged(config, config')
           retired == {k \in Routes : config'[k].state # "active"}
       IN IF changed \cup retired = {} THEN UNCHANGED reaper ELSE Track(changed)
    /\ unhealed' = {}
    /\ UNCHANGED <<turn, sessions, profile>>

-----------------------------------------------------------------------------
(* Turns *)

Go(t, where) == turn' = [turn EXCEPT ![t].pc = where]

(* A task is created while its route is active and keeps that Route; its    *)
(* task has no route attribute yet.                                         *)
Admit(t, r) ==
    /\ turn[t] = NoTurn /\ r \in Live
    /\ turn' = [turn EXCEPT ![t] = [pc |-> "fresh", route |-> r, policy |-> config[r].policy]]
    /\ UNCHANGED <<config, reloads, sessions, profile, reaper, unhealed>>

(* _attribute_turn_task, then what is done before the route lock. *)
Attribute(t) ==
    /\ turn[t].pc = "fresh" /\ Go(t, "waiting")
    /\ UNCHANGED <<config, reloads, sessions, profile, reaper, unhealed>>

Holding == {"locked", "prompting", "ending"}
Free(r) == \A t \in Inflight : turn[t].route = r => turn[t].pc \notin Holding

Lock(t) ==
    /\ turn[t].pc = "waiting" /\ Free(turn[t].route)
    /\ Go(t, "locked")
    /\ UNCHANGED <<config, reloads, sessions, profile, reaper, unhealed>>

SessionOf(t) == [route |-> turn[t].route, policy |-> turn[t].policy]

(* SessionRegistry.get spawns the process and caches the session, or fails. *)
GetSession(t) ==
    /\ turn[t].pc = "locked"
    /\ profile' = TRUE
    /\ \/ sessions' = sessions \cup {SessionOf(t)} /\ Go(t, "prompting")
       \/ UNCHANGED sessions /\ Go(t, "ending")
    /\ UNCHANGED <<config, reloads, reaper, unhealed>>

(* What a turn that is over owes: one whose route was retired or changed    *)
(* its policy meanwhile, after it asked for a session, has to schedule a    *)
(* reaper of its own.                                                       *)
NoSelfHeal(t) == "none"
SelfHeal(t) ==
    IF turn[t].pc = "locked" THEN "none"
    ELSE IF turn[t].route \notin Live THEN "retired"
    ELSE IF config[turn[t].route].policy # turn[t].policy THEN "changed" ELSE "none"

WithoutTurn(t) ==
    [x \in Reapers |-> IF reaper[x].pc \in {"turns", "locks"}
                       THEN [reaper[x] EXCEPT !.relevant = @ \ {t}] ELSE reaper[x]]

(* A reaper that waits for the task of the turn hears of its end.  The      *)
(* self-heal is the last thing in the finally of the turn: a finalizer of   *)
(* its identities that raises before it leaves what it owed undone.         *)
EndTurn(t) ==
    /\ turn[t].pc \in Holding
    /\ turn' = [turn EXCEPT ![t] = NoTurn]
    /\ \/ /\ SelfHeal(t) = "none"
          /\ reaper' = WithoutTurn(t) /\ UNCHANGED unhealed
       \/ /\ SelfHeal(t) # "none" /\ FreeSlots # {}
          /\ reaper' = [WithoutTurn(t) EXCEPT ![CHOOSE x \in FreeSlots : TRUE] =
                          Scheduled(IF SelfHeal(t) = "changed" THEN {turn[t].route} ELSE {},
                                    0, {})]
          /\ UNCHANGED unhealed
       \/ /\ SelfHeal(t) # "none"
          /\ reaper' = WithoutTurn(t) /\ unhealed' = unhealed \cup {SessionOf(t)}
    /\ UNCHANGED <<config, reloads, sessions, profile>>

-----------------------------------------------------------------------------
(* _reap_after_drain *)

(* The task runs: the keys to drain, and the turns that may touch them,     *)
(* those not attributed yet included.                                       *)
Relevant(keys) ==
    {t \in Inflight : turn[t].pc = "fresh" \/ turn[t].route \in keys}

(* The keys that a turn which outlasted the wait may still touch. *)
Contested(pass) ==
    UNION {IF turn[t].pc = "fresh" THEN pass.keys ELSE {turn[t].route} : t \in pass.relevant}

(* The route locks that are had without waiting, up to the first taken one. *)
FreeRun(S) == {k \in S : \A j \in S : j <= k => Free(j)}

(* What this pass did not drain and what may be completed all the same:     *)
(* only keys that the chain has failed to drain before.                     *)
LeftPolicy(pass) == (pass.extra \cap Live) \ pass.drained
Left(pass) == LeftPolicy(pass) \cup ((Routes \ Live) \ pass.drained)
ForceKeysAll(pass) == Left(pass) \cap pass.keys
ForceKeys(pass) == Left(pass) \cap pass.keys \cap pass.eligible
Forces(pass) == ForceKeys(pass) # {} /\ pass.attempt >= MaxFollowups

(* The keys a pass evicts and retires under. *)
Scope(pass) == pass.drained \cup (IF Forces(pass) THEN ForceKeys(pass) ELSE {})

(* drop_sessions_not_in and drop_sessions_with_mismatched_policy: a removed *)
(* route has no current policy, and is not live.                            *)
Evicted(scope) == {s \in sessions : s.route \in scope /\ Stale(s)}

(* The profile goes when no route is active and every route that could have *)
(* a turn on it is in scope.                                                *)
Retires(scope) == Live = {} /\ Routes \subseteq scope

FollowUpForgetful(pass) ==
    Scheduled(LeftPolicy(pass),
              IF pass.attempt < MaxPasses THEN pass.attempt + 1 ELSE pass.attempt, {})
FollowUp(pass) ==
    Scheduled(LeftPolicy(pass),
              IF pass.attempt < MaxPasses THEN pass.attempt + 1 ELSE pass.attempt,
              Left(pass))

(* Evict, retire, and leave the rest to a follow-up. *)
Sweep(x, pass) ==
    /\ sessions' = sessions \ Evicted(Scope(pass))
    /\ profile' = (profile /\ ~Retires(Scope(pass)))
    /\ reaper' = [reaper EXCEPT ![x] =
         IF Left(pass) = {} \/ Forces(pass) THEN NoReaper ELSE FollowUp(pass)]

(* The loop takes the locks it can get, and sweeps after the last one in    *)
(* the same step.                                                           *)
TakeLocks(x, pass, todo) ==
    LET on == [pass EXCEPT !.pc = "locks", !.todo = todo \ FreeRun(todo),
                           !.drained = @ \cup FreeRun(todo)]
    IN IF on.todo = {} THEN Sweep(x, on)
       ELSE reaper' = [reaper EXCEPT ![x] = on] /\ UNCHANGED <<sessions, profile>>

(* Nothing to wait for: on to the locks in the same step. *)
Begin(x) ==
    /\ reaper[x].pc = "scheduled"
    /\ LET keys == (Routes \ Live) \cup reaper[x].extra
           pass == [pc |-> "turns", extra |-> reaper[x].extra, attempt |-> reaper[x].attempt,
                    eligible |-> reaper[x].eligible, keys |-> keys, relevant |-> Relevant(keys),
                    todo |-> {}, drained |-> {}]
       IN IF Relevant(keys) = {} THEN TakeLocks(x, pass, keys)
          ELSE reaper' = [reaper EXCEPT ![x] = pass] /\ UNCHANGED <<sessions, profile>>
    /\ UNCHANGED <<config, reloads, turn, unhealed>>

TurnsDone(x) ==
    /\ reaper[x].pc = "turns" /\ reaper[x].relevant = {}
    /\ TakeLocks(x, reaper[x], reaper[x].keys)
    /\ UNCHANGED <<config, reloads, turn, unhealed>>

TurnsOverdue(x) ==
    /\ reaper[x].pc = "turns" /\ reaper[x].relevant # {}
    /\ TakeLocks(x, reaper[x], reaper[x].keys \ Contested(reaper[x]))
    /\ UNCHANGED <<config, reloads, turn, unhealed>>

LockTaken(x) ==
    /\ reaper[x].pc = "locks" /\ FreeRun(reaper[x].todo) # {}
    /\ TakeLocks(x, reaper[x], reaper[x].todo)
    /\ UNCHANGED <<config, reloads, turn, unhealed>>

LockOverdue(x) ==
    /\ reaper[x].pc = "locks"
    /\ Sweep(x, reaper[x])
    /\ UNCHANGED <<config, reloads, turn, unhealed>>

-----------------------------------------------------------------------------
Reap(x) == Begin(x) \/ TurnsDone(x) \/ TurnsOverdue(x) \/ LockTaken(x) \/ LockOverdue(x)
Work(t) == Attribute(t) \/ Lock(t) \/ GetSession(t) \/ EndTurn(t)

Next ==
    \/ \E c \in Configurations : Reload(c)
    \/ \E t \in Turns : Work(t) \/ \E r \in Routes : Admit(t, r)
    \/ \E x \in Reapers : Reap(x)

Spec == Init /\ [][Next]_vars

-----------------------------------------------------------------------------
(* Properties *)

(* The turns whose session a step takes, or whose process. *)
Cut == {t \in Inflight : turn[t].pc = "prompting" /\ turn'[t] = turn[t] /\
            \/ SessionOf(t) \in sessions /\ SessionOf(t) \notin sessions'
            \/ profile /\ ~profile'}

(* "All of this happens only after in-flight turns on the affected routes   *)
(* drain" (docs/configuration.md:201), but for the bounded escape: whoever  *)
(* evicts or retires has waited out the turns it knew of; one it cuts       *)
(* anyway is on a key that the chain failed to drain in an earlier pass.    *)
CutOnlyByForce ==
    [][\A x \in Reapers : reaper[x].pc \in {"turns", "locks"} /\ reaper'[x] # reaper[x] =>
          \A t \in Cut \cap reaper[x].relevant :
              reaper[x].attempt >= MaxFollowups /\ turn[t].route \in reaper[x].eligible]_vars

(* "A healthy long-running prompt is always waited out"                     *)
(* (docs/configuration.md:208): no pass takes the session of a turn before  *)
(* its last follow-up.                                                      *)
HealthyTurnKept ==
    [][\A x \in Reapers : reaper[x].pc \in {"turns", "locks"} /\ reaper'[x] # reaper[x]
          /\ reaper[x].attempt < MaxFollowups => Cut = {}]_vars

(* A session that is of no use any more is never forgotten: a reaper will   *)
(* look at its route, or a turn of that route will schedule one.  The one   *)
(* exception is the session of a turn whose finalizer raised: it lingers    *)
(* "until the next reload or shutdown" (router.py:1997), not longer.        *)
StaleIsDue ==
    \A s \in sessions : Stale(s) =>
        \/ \E x \in Reapers : \/ reaper[x].pc = "scheduled"
                              \/ reaper[x].pc # "idle" /\ s.route \in reaper[x].keys
        \/ \E t \in Inflight : turn[t].route = s.route
        \/ s \in unhealed

(* Nor is the process of a profile that no route is active on, with the     *)
(* same exception.                                                          *)
ProcessIsDue ==
    profile /\ Live = {} => Inflight # {} \/ FreeSlots # Reapers \/ unhealed # {}

(* What a reload retires is never forgotten, however its reapers and the    *)
(* turns meet: it is due to a reaper or a turn, but for what a turn whose   *)
(* finalizer raised has left, and that only until the next reload.          *)
NothingForgotten == StaleIsDue /\ ProcessIsDue

(* No chain of reapers goes on for ever under a wedged turn: past the       *)
(* budget of follow-ups a pass leaves keys over only when a reload retired  *)
(* them, or gave them another policy, after the pass before had begun, so   *)
(* that a reload prolongs a chain by two passes at most.                    *)
ChainsEnd ==
    \A x \in Reapers : reaper[x].pc # "idle" =>
        reaper[x].attempt <= MaxFollowups + 2 * (reloads - 1)
====
