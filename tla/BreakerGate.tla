---- MODULE BreakerGate ----
(***************************************************************************)
(* The circuit breaker of a route against reloads of the configuration and *)
(* turns admitted before them: circuit.py, and router.py                   *)
(* _effective_turn_state, _maybe_clear_breaker_override,                   *)
(* _handle_hermes_failure, _reload_config_locked (its checks and the swap) *)
(* and _do_reload_config.  All of it runs on the event loop without an     *)
(* await inside, so each is one step; between them a turn waits for locks, *)
(* media and its prompt.  The monotonic clock is kept as ages, which stop  *)
(* growing where nothing depends on them any more.                         *)
(***************************************************************************)
EXTENDS Integers, Sequences

CONSTANTS
    Turns,      \* slots for turns
    Routes,     \* route keys
    Profiles,   \* Hermes profiles
    Start,      \* the configuration at startup
    Threshold,  \* circuit failures
    Window,     \* circuit window_seconds
    Recovery,   \* recovery_seconds
    MaxReloads, \* bound on the reloads that are applied
    Absent, None

States == {"active", "shadow", "disabled", "maintenance"}
Configs == [Routes -> [state : States, profile : Profiles] \cup {Absent}]

(* What a turn keeps of the moment it was admitted. *)
Captured == [route : Routes, state : States, profile : Profiles,
             admitted : States, generation : 0..MaxReloads]

ASSUME BreakerOK == Threshold \in Nat \ {0} /\ Window \in Nat /\ Recovery \in Nat
ASSUME ReloadsOK == MaxReloads \in Nat
ASSUME StartOK == Start \in Configs
ASSUME NoneOK == None \notin Int \cup Captured \cup Profiles

VARIABLES
    config,     \* self.config: what a reload may change of it
    generation, \* _config_generation
    cleared,    \* _reload_cleared_overrides, -1 where there is none
    override,   \* routes in route_state_overrides (always MAINTENANCE)
    age,        \* age[r]: time since _trip_times[r], or None
    failures,   \* failures[r]: ages of the last failures, oldest first
    tombstone,  \* _route_profile_tombstones
    stage,      \* stage[t]: idle, admitted, prompting
    turn,       \* turn[t]: what the turn captured at admission, or None
    since       \* since[t]: age of the trip t was admitted under, or None

vars == <<config, generation, cleared, override, age, failures, tombstone,
          stage, turn, since>>

TypeOK ==
    /\ config \in Configs
    /\ generation \in 0..MaxReloads
    /\ cleared \in [Routes -> -1..MaxReloads]
    /\ override \subseteq Routes
    /\ age \in [Routes -> 0..Recovery \cup {None}]
    /\ failures \in [Routes -> Seq(0..(Window + 1))]
    /\ \A r \in Routes : Len(failures[r]) <= Threshold
    /\ tombstone \in [Routes -> Profiles \cup {None}]
    /\ stage \in [Turns -> {"idle", "admitted", "prompting"}]
    /\ turn \in [Turns -> Captured \cup {None}]
    /\ since \in [Turns -> 0..Recovery \cup {None}]

Init ==
    /\ config = Start
    /\ generation = 0
    /\ cleared = [r \in Routes |-> -1]
    /\ override = {}
    /\ age = [r \in Routes |-> None]
    /\ failures = [r \in Routes |-> <<>>]
    /\ tombstone = [r \in Routes |-> IF Start[r] = Absent THEN None ELSE Start[r].profile]
    /\ stage = [t \in Turns |-> "idle"]
    /\ turn = [t \in Turns |-> None]
    /\ since = [t \in Turns |-> None]

-----------------------------------------------------------------------------
Older(a, limit) == IF a = None \/ a = limit THEN a ELSE a + 1

Tick ==
    /\ age' = [r \in Routes |-> Older(age[r], Recovery)]
    /\ since' = [t \in Turns |-> Older(since[t], Recovery)]
    /\ failures' = [r \in Routes |->
                      [i \in DOMAIN failures[r] |-> Older(failures[r][i], Window + 1)]]
    /\ UNCHANGED <<config, generation, cleared, override, tombstone, stage, turn>>

IsActive(r) == config[r] # Absent /\ config[r].state = "active"

(* An event or a control request is read: its route, the overrides and the  *)
(* generation are those of this moment, whenever the turn comes to run.     *)
Admit(t, r) ==
    /\ stage[t] = "idle" /\ config[r] # Absent
    /\ stage' = [stage EXCEPT ![t] = "admitted"]
    /\ turn' = [turn EXCEPT ![t] =
          [route |-> r, state |-> config[r].state, profile |-> config[r].profile,
           admitted |-> IF r \in override THEN "maintenance" ELSE config[r].state,
           generation |-> generation]]
    /\ since' = [since EXCEPT ![t] = IF r \in override THEN age[r] ELSE None]
    /\ UNCHANGED <<config, generation, cleared, override, age, failures, tombstone>>

-----------------------------------------------------------------------------
(* _maybe_clear_breaker_override *)
Recovered(r) == r \in override /\ age[r] # None /\ age[r] = Recovery

MaybeClear(r) ==
    IF Recovered(r)
    THEN /\ override' = override \ {r}
         /\ age' = [age EXCEPT ![r] = None]
         /\ failures' = [failures EXCEPT ![r] = <<>>]
    ELSE UNCHANGED <<override, age, failures>>

(* _effective_turn_state, behind MaybeClear.                                *)
StateAtAdmission(t) == turn[t].admitted
StateNow(t) ==
    LET r == turn[t].route IN
    IF r \in override /\ ~Recovered(r) THEN "maintenance" ELSE turn[t].state

GateUntilActive(t) ==
    turn[t].admitted = "maintenance" /\ ~IsActive(turn[t].route)
KeepsGate(t) ==
    /\ turn[t].admitted = "maintenance"
    /\ ~IsActive(turn[t].route) \/ cleared[turn[t].route] > turn[t].generation

EffectiveState(t) == IF KeepsGate(t) THEN "maintenance" ELSE StateNow(t)

Ended(t) ==
    /\ stage' = [stage EXCEPT ![t] = "idle"]
    /\ turn' = [turn EXCEPT ![t] = None]
    /\ since' = [since EXCEPT ![t] = None]

(* A job with attachments consults the state before it freezes them. *)
Consult(t) ==
    /\ stage[t] = "admitted"
    /\ MaybeClear(turn[t].route)
    /\ UNCHANGED <<config, generation, cleared, tombstone, stage, turn, since>>

(* The turn holds its route lock and reaches its state gate: an active one  *)
(* goes on to its prompt, any other ends with a maintenance reply or unseen.*)
Gate(t) ==
    /\ stage[t] = "admitted"
    /\ \A u \in Turns : stage[u] = "prompting" => turn[u].route # turn[t].route
    /\ MaybeClear(turn[t].route)
    /\ IF EffectiveState(t) = "active"
       THEN stage' = [stage EXCEPT ![t] = "prompting"] /\ UNCHANGED <<turn, since>>
       ELSE Ended(t)
    /\ UNCHANGED <<config, generation, cleared, tombstone>>

(* Deduped, stale, over the rate limit, failed before the prompt, cancelled,*)
(* an empty completion, an undelivered reply: the breaker does not see it.  *)
Drop(t) ==
    /\ stage[t] # "idle"
    /\ Ended(t)
    /\ UNCHANGED <<config, generation, cleared, override, age, failures, tombstone>>

Succeed(t) ==
    /\ stage[t] = "prompting"
    /\ failures' = [failures EXCEPT ![turn[t].route] = <<>>]
    /\ Ended(t)
    /\ UNCHANGED <<config, generation, cleared, override, age, tombstone>>

-----------------------------------------------------------------------------
(* record_failure appends this one and drops those before the window.       *)
(* Failures beyond the last Threshold decide nothing and are left out.      *)
WithFailure(r) ==
    LET all == Append(failures[r], 0)
        Kept(i) == all[i] <= Window /\ Len(all) - i < Threshold
        first == CHOOSE i \in DOMAIN all : Kept(i) /\ \A j \in 1..(i - 1) : ~Kept(j)
    IN SubSeq(all, first, Len(all))

(* What a trip masks: never a state that was reloaded meanwhile. *)
MayMask(r) == IsActive(r)

TripsTimeless(r) == override' = override \cup {r} /\ UNCHANGED age
Trip(r) ==
    /\ override' = override \cup {r}
    /\ age' = [age EXCEPT ![r] = 0]

(* The session could not be acquired or the prompt failed. *)
Fail(t) ==
    /\ stage[t] = "prompting"
    /\ LET r == turn[t].route IN
       /\ failures' = [failures EXCEPT ![r] = WithFailure(r)]
       /\ IF Len(WithFailure(r)) >= Threshold /\ MayMask(r)
          THEN Trip(r)
          ELSE UNCHANGED <<override, age>>
    /\ Ended(t)
    /\ UNCHANGED <<config, generation, cleared, tombstone>>

-----------------------------------------------------------------------------
(* A route key keeps its profile, also while it is not configured. *)
KeepsProfiles(new) ==
    \A r \in Routes : new[r] # Absent /\ tombstone[r] # None =>
        new[r].profile = tombstone[r]

(* The overrides a swap to `new` takes away. *)
AllCleared(new) == override
Cleared(new) == {r \in override : new[r] = Absent \/ new[r].state # "active"}

(* A candidate that passed the parser: applied, or rejected without a trace.*)
Reload(new) ==
    /\ generation < MaxReloads
    /\ KeepsProfiles(new)
    /\ config' = new
    /\ generation' = generation + 1
    /\ tombstone' = [r \in Routes |->
                       IF new[r] = Absent THEN tombstone[r] ELSE new[r].profile]
    /\ override' = override \ Cleared(new)
    /\ age' = [r \in Routes |-> IF r \in Cleared(new) THEN None ELSE age[r]]
    /\ cleared' = [r \in Routes |->
                     IF r \in Cleared(new) THEN generation + 1 ELSE cleared[r]]
    /\ UNCHANGED <<failures, stage, turn, since>>

-----------------------------------------------------------------------------
TurnStep(t) == Consult(t) \/ Gate(t) \/ Drop(t) \/ Succeed(t) \/ Fail(t)

Next ==
    \/ Tick
    \/ \E t \in Turns : (\E r \in Routes : Admit(t, r)) \/ TurnStep(t)
    \/ \E new \in Configs : Reload(new)

Spec == Init /\ [][Next]_vars

(* Time passes, prompts end (they are bounded by a timeout), events keep    *)
(* coming on every configured route, and not all of them are dropped before *)
(* their gate.                                                              *)
FairSpec ==
    /\ Spec
    /\ WF_vars(Tick)
    /\ \A t \in Turns :
          /\ SF_vars(Gate(t))
          /\ WF_vars(Drop(t) \/ Succeed(t) \/ Fail(t))
          /\ \A r \in Routes : SF_vars(Admit(t, r))

-----------------------------------------------------------------------------
(* Properties *)

(* The breaker masks only routes the operator currently wants active: no    *)
(* trip, however late, and no reload leaves a mask on any other route.      *)
OverrideOnlyActive == \A r \in override : IsActive(r)

(* Every mask can expire: it has its trip time, and a trip time its mask.   *)
OverrideHasTripTime == \A r \in Routes : r \in override <=> age[r] # None

(* A mask ends by its cooldown or by a reload that changes the route's      *)
(* state: a reload never silently resets a tripped breaker.                 *)
ClosesOnlyWhenDue ==
    [][\A r \in override \ override' :
          age[r] = Recovery \/ config'[r] = Absent \/ config'[r].state # "active"
      ]_vars

(* A turn admitted under an open breaker prompts only after the cooldown of *)
(* that trip: reloads between its admission and its gate, a removal and     *)
(* return of the route included, do not let it through.                     *)
NoPromptBeforeCooldown ==
    [][\A t \in Turns :
          stage[t] = "admitted" /\ stage'[t] = "prompting" /\ since[t] # None =>
            since[t] = Recovery
      ]_vars

(* Nor does a turn of any age prompt while its route is masked. *)
NoPromptWhileMasked ==
    [][\A t \in Turns :
          stage[t] = "admitted" /\ stage'[t] = "prompting" =>
            turn[t].route \notin override'
      ]_vars

(* Sessions and circuits are kept by route key: no turn in flight and no    *)
(* later configuration disagree about the profile of a route.               *)
ProfileOfRouteStays ==
    \A t \in Turns : turn[t] # None =>
        LET now == config[turn[t].route] IN
        now # Absent => now.profile = turn[t].profile

(* While events keep coming, every mask is lifted some day: no event that   *)
(* finds the breaker open, and no reload, postpones its recovery.           *)
BreakerRecovers == \A r \in Routes : r \in override ~> r \notin override
====
