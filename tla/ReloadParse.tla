---- MODULE ReloadParse ----
(***************************************************************************)
(* Reload requests up to the swap of the configuration: the reload lock,   *)
(* the bounded parse on an executor of its own, the executors that hung    *)
(* parses occupy, and the two looks at config.yaml around the parse        *)
(* (router.py _handle_reload_config_control, _reload_config_locked,        *)
(* _dispatch_reload_parse_worker, _detach_hung_reload_executor,            *)
(* _parse_reload_candidate).  Workers and the operator run beside the      *)
(* event loop; a request runs from one await to the next in one step.  The *)
(* swap itself is BreakerGate!Reload, what close() does is in Shutdown.    *)
(***************************************************************************)
EXTENDS Integers, Sequences, FiniteSets

CONSTANTS
    Requests,     \* slots for reload requests
    Executors,    \* names for executors, used again when the thread is gone
    MaxAbandoned, \* MAX_ABANDONED_RELOAD_EXECUTORS
    MaxEdits,     \* bound on the edits of routes.yaml
    None

ASSUME CapOK == MaxAbandoned \in Nat /\ MaxEdits \in Nat
ASSUME NamesOK == None \notin Requests \cup Executors \cup Int
(* Names for all the threads there can be, and a new one.                   *)
ASSUME ExecutorsOK == IsFiniteSet(Executors) /\ Cardinality(Executors) > MaxAbandoned

VARIABLES
    routes,    \* the version of routes.yaml on disk
    edited,    \* the version that was there when config.yaml was edited, or None
    line,      \* _reload_lock: its holder first, then who waits for it
    answer,    \* answer[q]: what the parse of q answered, None while it runs
    executor,  \* _reload_executor
    abandoned, \* _abandoned_reload_executors
    alive,     \* executors whose thread is alive
    work,      \* work[e]: the parses submitted to e and not done, in order
    saturated, \* _reload_parse_saturated
    probe,     \* the executor of _saturated_parse_future
    applied    \* the version of routes.yaml that self.config was made from

parseVars == <<routes, edited, line, answer, executor, abandoned, alive, work,
          saturated, probe, applied>>
requestVars == <<line, executor, abandoned, saturated, probe, applied>>

Versions == 0..MaxEdits
Parses == [step : {"queued", "parsing", "parsed"}, read : Versions, of : Requests \cup {None}]
Failed == -1 \* the parser raised, or config.yaml was found changed

ParseTypeOK ==
    /\ routes \in Versions /\ applied \in Versions
    /\ edited \in Versions \cup {None}
    /\ line \in Seq(Requests)
    /\ answer \in [Requests -> Versions \cup {Failed, None}]
    /\ executor \in Executors \cup {None} /\ probe \in Executors \cup {None}
    /\ abandoned \subseteq Executors /\ alive \subseteq Executors
    /\ work \in [Executors -> Seq(Parses)]
    /\ saturated \in BOOLEAN

ParseInit ==
    /\ routes = 0 /\ applied = 0 /\ edited = None
    /\ line = <<>>
    /\ answer = [q \in Requests |-> None]
    /\ executor = None /\ probe = None
    /\ abandoned = {} /\ alive = {}
    /\ work = [e \in Executors |-> <<>>]
    /\ saturated = FALSE

-----------------------------------------------------------------------------
(* The operator *)

EditRoutes ==
    /\ routes < MaxEdits
    /\ routes' = routes + 1
    /\ UNCHANGED <<edited, answer, alive, work, requestVars>>

(* A change of router-level settings, which the fingerprint tells apart and *)
(* which the operator does not take back.                                   *)
EditConfig ==
    /\ edited = None
    /\ edited' = routes
    /\ UNCHANGED <<routes, answer, alive, work, requestVars>>

-----------------------------------------------------------------------------
(* The worker threads *)

(* The first parse of e goes on, or is done and answers its request unless  *)
(* that gave up.                                                            *)
Proceed(e, parse) ==
    /\ work' = [work EXCEPT ![e][1] = parse]
    /\ UNCHANGED answer
Answer(e, a) ==
    /\ work' = [work EXCEPT ![e] = Tail(@)]
    /\ answer' = IF work[e][1].of = None THEN answer
                 ELSE [answer EXCEPT ![work[e][1].of] = a]

(* The fingerprint of config.yaml before and after the parse.               *)
Drifted == edited # None
NotLookedAgain == FALSE
DriftedMeanwhile == edited # None

(* _parse_reload_candidate: config.yaml, routes.yaml with its secrets, and  *)
(* config.yaml again.  A parse may hang before any of them.                 *)
ParseStep(e) ==
    /\ work[e] # <<>>
    /\ LET parse == work[e][1] IN
       \/ /\ parse.step = "queued"
          /\ IF Drifted THEN Answer(e, Failed)
             ELSE Proceed(e, [parse EXCEPT !.step = "parsing"])
       \/ /\ parse.step = "parsing"
          /\ \/ Proceed(e, [parse EXCEPT !.step = "parsed", !.read = routes])
             \/ Answer(e, Failed)
       \/ /\ parse.step = "parsed"
          /\ Answer(e, IF DriftedMeanwhile THEN Failed ELSE parse.read)
    /\ UNCHANGED <<routes, edited, alive, requestVars>>

(* The thread of an executor that was shut down is through with its queue.  *)
ThreadExits(e) ==
    /\ e \in alive /\ e # executor /\ work[e] = <<>>
    /\ alive' = alive \ {e}
    /\ UNCHANGED <<routes, edited, answer, work, requestVars>>

-----------------------------------------------------------------------------
(* The requests *)

Parsing(q) == \E e \in Executors : \E i \in DOMAIN work[e] : work[e][i].of = q
InLine(q) == \E i \in DOMAIN line : line[i] = q
Holds(q) == line # <<>> /\ Head(line) = q
Starts(q) == Holds(q) /\ ~Parsing(q) /\ answer[q] = None

Arrive(q) ==
    /\ ~InLine(q)
    /\ line' = Append(line, q)
    /\ UNCHANGED <<routes, edited, answer, executor, abandoned, alive, work,
                   saturated, probe, applied>>

(* The request is answered and the lock handed on. *)
Leave(q) ==
    /\ line' = Tail(line)
    /\ answer' = [answer EXCEPT ![q] = None]

StillAlive == abandoned \cap alive

(* Every worker that hung is through: the abandoned ones and, its future    *)
(* tells, the one that was kept, whose thread lives on.                     *)
WedgeClearsByThread == StillAlive = {} /\ probe \notin alive
WedgeClears == StillAlive = {} /\ work[probe] = <<>>

(* config_parse_saturated *)
FailFast(q) ==
    /\ Starts(q) /\ saturated /\ ~WedgeClears
    /\ abandoned' = StillAlive
    /\ Leave(q)
    /\ UNCHANGED <<routes, edited, executor, alive, work, saturated, probe, applied>>

(* A request that is let through clears the saturation, even one that is    *)
(* then refused for the paths it names.                                     *)
PassesGate(q) ==
    /\ Starts(q) /\ (saturated => WedgeClears)
    /\ saturated' = FALSE /\ probe' = None
    /\ abandoned' = IF saturated THEN StillAlive ELSE abandoned

Refused(q) ==
    /\ PassesGate(q)
    /\ Leave(q)
    /\ UNCHANGED <<routes, edited, executor, alive, work, applied>>

Unused == Executors \ (alive \cup abandoned)

(* _dispatch_reload_parse_worker: on the executor that is there, or a new   *)
(* one.                                                                     *)
Dispatch(q) ==
    /\ executor' = IF executor # None THEN executor ELSE CHOOSE e \in Unused : TRUE
    /\ alive' = alive \cup {executor'}
    /\ work' = [work EXCEPT ![executor'] =
                  Append(@, [step |-> "queued", read |-> 0, of |-> q])]

Submit(q) ==
    /\ PassesGate(q)
    /\ Dispatch(q)
    /\ UNCHANGED <<routes, edited, line, answer, applied>>

CapReachedLate == Cardinality(StillAlive) > MaxAbandoned
CapReached == Cardinality(StillAlive) >= MaxAbandoned

(* _detach_hung_reload_executor: unless there are too many already.         *)
Detach ==
    IF CapReached
    THEN /\ saturated' = TRUE /\ probe' = executor /\ abandoned' = StillAlive
         /\ UNCHANGED executor
    ELSE /\ abandoned' = StillAlive \cup {executor} /\ executor' = None
         /\ UNCHANGED <<saturated, probe>>

(* config_parse_timeout, also when the answer arrived a moment before. *)
TimesOut(q) ==
    /\ Holds(q) /\ (Parsing(q) \/ answer[q] # None)
    /\ Detach
    /\ work' = [e \in Executors |->
                  [i \in DOMAIN work[e] |->
                     IF work[e][i].of = q THEN [work[e][i] EXCEPT !.of = None]
                     ELSE work[e][i]]]
    /\ Leave(q)
    /\ UNCHANGED <<routes, edited, alive, applied>>

(* The candidate is applied, or rejected: the parse failed, or a route key  *)
(* would change its profile.                                                *)
Apply(q) ==
    /\ Holds(q) /\ answer[q] # None
    /\ applied' \in {applied} \cup {v \in Versions : v = answer[q]}
    /\ Leave(q)
    /\ UNCHANGED <<routes, edited, executor, abandoned, alive, work, saturated, probe>>

-----------------------------------------------------------------------------
RequestStep(q) == FailFast(q) \/ Refused(q) \/ Submit(q) \/ TimesOut(q) \/ Apply(q)
ThreadStep(e) == ParseStep(e) \/ ThreadExits(e)

ParseNext ==
    \/ EditRoutes \/ EditConfig
    \/ \E e \in Executors : ThreadStep(e)
    \/ \E q \in Requests : Arrive(q) \/ RequestStep(q)

ParseSpec == ParseInit /\ [][ParseNext]_parseVars

(* What every parse hung on comes back some day, the loop serves requests,  *)
(* and the operator keeps asking.                                           *)
FairParseSpec ==
    /\ ParseSpec
    /\ \A e \in Executors : WF_parseVars(ThreadStep(e))
    /\ \A q \in Requests : WF_parseVars(RequestStep(q)) /\ WF_parseVars(Arrive(q))

-----------------------------------------------------------------------------
(* Properties *)

(* Commands apply in order: a swap never goes back to an older routes file. *)
NeverOlder == applied' >= applied

(* A reload is routes-only: it never takes a routes file that was written   *)
(* after config.yaml had changed, not even when both change during a parse. *)
RoutesOnly == applied' # applied /\ edited # None => applied' <= edited

SwapsAreCurrent == [][NeverOlder /\ RoutesOnly]_applied

(* Hung parses do not pile up: there are never more threads than the cap    *)
(* and the executor in place, and no parse waits behind another one.        *)
WorkersBounded ==
    /\ Cardinality(alive) <= MaxAbandoned + 1
    /\ \A e \in Executors : Len(work[e]) <= 1

(* "The saturation clears on its own" once what the parses hung on came     *)
(* back: no number of wedges makes reloads fail for good.                   *)
SaturationLifts == saturated ~> ~saturated
====
