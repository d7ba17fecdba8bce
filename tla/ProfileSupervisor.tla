---- MODULE ProfileSupervisor ----
(***************************************************************************)
(* The Hermes subprocess of one profile and the cached session of a route  *)
(* on it: ProfileSupervisor and SessionRegistry of sessions.py, with the   *)
(* turns, preflight probes, reload reaper and shutdown of router.py that   *)
(* call them, and with the subprocess and its exit watcher, which act on   *)
(* their own.  Turns and probes take the router's profile lock first,      *)
(* get_profile and retire_profile the acquire lock of the supervisor.      *)
(* Every action is what the event loop runs between two awaits.            *)
(***************************************************************************)
EXTENDS Integers, FiniteSets

CONSTANTS
    Turns,     \* slots for turns of the route
    Probes,    \* slots for preflight probes of the profile
    Reaper,    \* the reload reaper
    Closer,    \* the call of supervisor.close()
    Instances, \* names for ACPProfile objects, used again when forgotten
    Ids,       \* names for session ids, used again when forgotten
    None

Callers == Turns \cup Probes
Actors == Callers \cup {Reaper, Closer}
Sessions == [inst : Instances, id : Ids]

ASSUME NamesOK ==
    /\ Turns \cap Probes = {} /\ Reaper # Closer
    /\ {Reaper, Closer} \cap Callers = {}
    /\ None \notin Actors \cup Instances \cup Ids \cup Sessions

VARIABLES
    entry,     \* supervisor._profiles[profile], or None
    cooling,   \* _last_restart[profile] is less than the cooldown ago
    acquiring, \* who holds _acquire_locks[profile]
    child,     \* child[i]: the subprocess of i; "exited" until that is reported
    evidence,  \* evidence[i]: i.exit_suspected()
    policy,    \* policy[i][s]: "unknown" while the subprocess of i has no
               \* session s, else i.permission_policies[s]
    cached,    \* the session in SessionRegistry._sessions, or None
    lock,      \* who holds the profile lock of the router
    pc,        \* pc[a]: the await at which a is
    mine,      \* mine[a]: the ACPProfile a works with
    prev,      \* prev[t]: the session id that turn t resumes
    sess,      \* sess[t]: the session of turn t
    kind,      \* kind[t]: whose policy turn t brings, the route's or a job's
    ephemeral, \* route.session_policy == EPHEMERAL
    active,    \* the current config has an active route on the profile
    due,       \* a reaper is scheduled
    shutting,  \* router._closing
    unhealed   \* history: the entry when a turn ended, since the last reload,
               \* without the self-heal it owed

supervisor == <<entry, cooling, acquiring>>
children == <<child, evidence, policy>>
registry == <<cached, sess, prev>>
callers == <<lock, pc, mine, kind>>
router == <<ephemeral, active, due, shutting, unhealed>>
vars == <<supervisor, children, registry, callers, router>>

Closing == {"evicting", "undoing", "abandoning", "discarding", "restarting",
            "retiring", "closing"}
Starting == {"spawning", "initializing", "settling"}

TypeOK ==
    /\ entry \in Instances \cup {None}
    /\ cooling \in BOOLEAN /\ acquiring \in Actors \cup {None}
    /\ child \in [Instances -> {"none", "spawning", "alive", "exited"}]
    /\ evidence \in [Instances -> BOOLEAN]
    /\ policy \in [Instances -> [Ids -> {"unknown", "none", "route", "job"}]]
    /\ cached \in Sessions \cup {None}
    /\ sess \in [Turns -> Sessions \cup {None}] /\ prev \in [Turns -> Ids \cup {None}]
    /\ lock \in Callers \cup {None}
    /\ pc \in [Actors -> Closing \cup Starting \cup
                 {"idle", "queued", "asking", "resuming", "creating",
                  "prompting", "replying", "probing", "ending", "done"}]
    /\ mine \in [Actors -> Instances \cup {None}]
    /\ kind \in [Turns -> {"route", "job"}]
    /\ ephemeral \in BOOLEAN /\ active \in BOOLEAN
    /\ due \in BOOLEAN /\ shutting \in BOOLEAN
    /\ unhealed \in Instances \cup {None}

NoSessions == [s \in Ids |-> "unknown"]

Init ==
    /\ entry = None /\ cooling = FALSE /\ acquiring = None
    /\ child = [i \in Instances |-> "none"]
    /\ evidence = [i \in Instances |-> FALSE]
    /\ policy = [i \in Instances |-> NoSessions]
    /\ cached = None
    /\ sess = [t \in Turns |-> None] /\ prev = [t \in Turns |-> None]
    /\ lock = None
    /\ pc = [a \in Actors |-> "idle"] /\ mine = [a \in Actors |-> None]
    /\ kind = [t \in Turns |-> "route"]
    /\ ephemeral \in BOOLEAN
    /\ active = TRUE /\ due = FALSE /\ shutting = FALSE /\ unhealed = None

-----------------------------------------------------------------------------
(* The subprocess *)

(* It exits, and leaves evidence of it; or it closes its stdout and lives.  *)
Exit(i) ==
    /\ child[i] = "alive" /\ child' = [child EXCEPT ![i] = "exited"]
    /\ UNCHANGED <<supervisor, evidence, policy, registry, callers, router>>

Notice(i) ==
    /\ child[i] \in {"alive", "exited"} /\ ~evidence[i]
    /\ evidence' = [evidence EXCEPT ![i] = TRUE]
    /\ UNCHANGED <<supervisor, child, policy, registry, callers, router>>

(* No process is left of i, and nothing to report about it. *)
Gone(i) ==
    /\ child' = [child EXCEPT ![i] = "none"]
    /\ evidence' = [evidence EXCEPT ![i] = FALSE]
    /\ policy' = [policy EXCEPT ![i] = NoSessions]

(* _handle_profile_exit evicts its own instance, not a successor.           *)
EntryWithout(i) == IF entry = i THEN None ELSE entry

ReportExit(i) ==
    /\ child[i] = "exited" /\ evidence[i]
    /\ Gone(i)
    /\ entry' = EntryWithout(i)
    /\ UNCHANGED <<cooling, acquiring, registry, callers, router>>

CoolOff ==
    /\ cooling /\ cooling' = FALSE
    /\ UNCHANGED <<entry, acquiring, children, registry, callers, router>>

(* ACPProfile.close(): the process of mine[a] ends and its watcher with it. *)
(* There may be no process yet; then nothing is closed.                     *)
Closable(i) == child[i] \in {"alive", "exited"}
Closed(a) == ~Closable(mine[a])

Terminate(a) ==
    /\ pc[a] \in Closing /\ Closable(mine[a])
    /\ Gone(mine[a])
    /\ UNCHANGED <<supervisor, registry, callers, router>>

Goto(a, where) == pc' = [pc EXCEPT ![a] = where]
WorksWith(a, i) == mine' = [mine EXCEPT ![a] = i]

-----------------------------------------------------------------------------
(* SessionRegistry *)

(* set_permission_policy, where the process has that session. *)
Installed(x, p) == [policy EXCEPT ![x.inst][x.id] = IF @ = "unknown" THEN @ ELSE p]

(* Turn t has its session x, and pol are the policies now: a turn that gets *)
(* its session installs its own policy.  After a restart the replacement is *)
(* cached for the next turn under the policy of the route, and t keeps the  *)
(* session it had.                                                          *)
ReplacementPolicyOf(t) == kind[t]
ReplacementPolicy(t) == "route"

PolicyFor(t) == IF sess[t] = None THEN kind[t] ELSE ReplacementPolicy(t)

Establish(t, x) ==
    /\ cached' = IF ephemeral THEN None ELSE x
    /\ sess' = [sess EXCEPT ![t] = IF @ = None THEN x ELSE @]
    /\ prev' = [prev EXCEPT ![t] = None]
    /\ Goto(t, IF sess[t] = None THEN "prompting" ELSE "ending")

(* ACPProfile.release_session, which the process does not hear of. *)
Released(x) == Installed(x, "none")

AnySession(i) == TRUE
SameProfile(i) == cached.inst = i

(* SessionRegistry.get with profile instance i: a cached session whose      *)
(* rotation budget is spent is dropped, one of this instance is reused, one *)
(* of an earlier instance is resumed.                                       *)
Lookup(t, i) ==
    \/ /\ cached = None
       /\ Goto(t, "creating")
       /\ UNCHANGED <<registry, policy>>
    \/ /\ cached # None
       /\ cached' = None
       /\ policy' = IF cached.inst = i THEN Released(cached) ELSE policy
       /\ Goto(t, "creating")
       /\ UNCHANGED <<sess, prev>>
    \/ /\ cached # None /\ SameProfile(i)
       /\ Establish(t, [inst |-> i, id |-> cached.id])
       /\ policy' = Installed([inst |-> i, id |-> cached.id], PolicyFor(t))
    \/ /\ cached # None /\ ~SameProfile(i)
       /\ prev' = [prev EXCEPT ![t] = cached.id]
       /\ Goto(t, "resuming")
       /\ UNCHANGED <<cached, sess, policy>>

-----------------------------------------------------------------------------
(* ProfileSupervisor.get_profile *)

(* It returns i: a probe lets the profile lock go and asks for the tool     *)
(* surface, a turn goes on to its session, or to the replacement of it.     *)
Returns(a, i) ==
    /\ acquiring' = None
    /\ WorksWith(a, i)
    /\ lock' = IF a \in Probes THEN None ELSE lock
    /\ \/ a \in Probes /\ Goto(a, "probing") /\ UNCHANGED <<registry, policy>>
       \/ a \in Turns /\ sess[a] = None /\ Lookup(a, i)
       \/ /\ a \in Turns /\ sess[a] # None
          /\ prev' = [prev EXCEPT ![a] = sess[a].id]
          /\ Goto(a, "resuming")
          /\ UNCHANGED <<cached, sess, policy>>
    /\ UNCHANGED <<kind, router>>

(* The end of a probe: the last one sees to a profile that the reaper has   *)
(* left alone for it.                                                       *)
ProbesInflight == {p \in Probes : pc[p] # "idle"}
LastLooks(p) == ProbesInflight = {p} /\ ~shutting /\ ~active /\ entry # None

ProbeEnds(p) ==
    /\ lock' = IF lock = p THEN None ELSE lock
    /\ WorksWith(p, None) /\ Goto(p, "idle")
    /\ due' = (due \/ LastLooks(p))
    /\ UNCHANGED <<kind, ephemeral, active, shutting, unhealed>>

(* A turn that fails before it has a session, or at its prompt, sends its   *)
(* failure reply, and recovers its profile if the route was active before.  *)
AfterFailure(a) ==
    IF (sess[a] = None \/ pc[a] = "prompting") /\ active
    THEN "replying" ELSE "ending"

Raises(a) ==
    /\ acquiring' = None
    /\ \/ a \in Probes /\ ProbeEnds(a)
       \/ /\ a \in Turns
          /\ WorksWith(a, None) /\ Goto(a, AfterFailure(a))
          /\ UNCHANGED <<lock, kind, router>>
    /\ UNCHANGED registry

(* Nobody refers to i any more. *)
Forgotten(i) ==
    /\ child[i] = "none" /\ entry # i
    /\ i \notin {mine[a] : a \in Actors}
    /\ \A x \in ({sess[t] : t \in Turns} \cup {cached}) \ {None} : x.inst # i

(* No usable entry: within the cooldown of a failed start it is refused,    *)
(* else a new instance is registered before it has started.                 *)
Replace(a) ==
    \/ cooling /\ Raises(a) /\ UNCHANGED <<entry, cooling, children>>
    \/ /\ ~cooling /\ \E i \in Instances : Forgotten(i)
       /\ LET i == CHOOSE i \in Instances : Forgotten(i) IN
          /\ entry' = i
          /\ child' = [child EXCEPT ![i] = "spawning"]
          /\ WorksWith(a, i)
       /\ acquiring' = a
       /\ Goto(a, "spawning")
       /\ UNCHANGED <<cooling, evidence, policy, registry, lock, kind, router>>

Acquire(a) ==
    /\ a \in Callers /\ pc[a] = "asking" /\ acquiring = None
    /\ \/ entry = None /\ Replace(a)
       \/ /\ entry # None /\ ~evidence[entry]
          /\ Returns(a, entry)
          /\ UNCHANGED <<entry, cooling, child, evidence>>
       \/ /\ entry # None /\ evidence[entry]
          /\ entry' = None /\ WorksWith(a, entry)
          /\ acquiring' = a /\ Goto(a, "evicting")
          /\ UNCHANGED <<cooling, children, registry, lock, kind, router>>

Evicted(a) == pc[a] = "evicting" /\ Closed(a) /\ Replace(a)

(* The process is there, or could not be executed. *)
Spawned(a) ==
    /\ pc[a] = "spawning"
    /\ child' = [child EXCEPT ![mine[a]] = "alive"]
    /\ Goto(a, "initializing")
    /\ UNCHANGED <<supervisor, evidence, policy, registry, lock, mine, kind, router>>

SpawnFails(a) ==
    /\ pc[a] = "spawning"
    /\ child' = [child EXCEPT ![mine[a]] = "none"]
    /\ entry' = EntryWithout(mine[a]) /\ cooling' = TRUE
    /\ Raises(a)
    /\ UNCHANGED <<evidence, policy>>

(* initialize is answered, or fails: start() closes what it has started,    *)
(* and the failed start is stamped.                                         *)
Initialized(a) ==
    /\ pc[a] = "initializing" /\ Goto(a, "settling")
    /\ UNCHANGED <<supervisor, children, registry, lock, mine, kind, router>>

InitializeFails(a) ==
    /\ pc[a] = "initializing" /\ Goto(a, "undoing")
    /\ UNCHANGED <<supervisor, children, registry, lock, mine, kind, router>>

Undone(a) ==
    /\ pc[a] = "undoing" /\ Closed(a)
    /\ entry' = EntryWithout(mine[a]) /\ cooling' = TRUE
    /\ Raises(a)
    /\ UNCHANGED children

(* The last look before the instance is handed out. *)
FitUnchecked(i) == ~evidence[i]
Fit(i) == entry = i /\ ~evidence[i]

Settled(a) ==
    /\ pc[a] = "settling"
    /\ \/ /\ Fit(mine[a])
          /\ Returns(a, mine[a])
          /\ UNCHANGED <<entry, cooling, child, evidence>>
       \/ /\ ~Fit(mine[a])
          /\ entry' = EntryWithout(mine[a])
          /\ Goto(a, "discarding")
          /\ UNCHANGED <<cooling, acquiring, children, registry, lock, mine,
                         kind, router>>

Discarded(a) ==
    /\ pc[a] = "discarding" /\ Closed(a)
    /\ Raises(a)
    /\ UNCHANGED <<entry, cooling, children>>

-----------------------------------------------------------------------------
(* Turns *)

(* A turn is admitted while its route is active, and waits for its locks.   *)
Admit(t, k) ==
    /\ t \in Turns /\ pc[t] = "idle" /\ active /\ ~shutting
    /\ kind' = [kind EXCEPT ![t] = k]
    /\ Goto(t, "queued")
    /\ UNCHANGED <<supervisor, children, registry, lock, mine, router>>

TakeLock(a) ==
    /\ a \in Callers /\ pc[a] = "queued" /\ lock = None
    /\ lock' = a
    /\ Goto(a, "asking")
    /\ UNCHANGED <<supervisor, children, registry, mine, kind, router>>

(* session/resume is answered ... *)
Resumed(t) ==
    /\ pc[t] = "resuming" /\ child[mine[t]] = "alive"
    /\ policy' = [policy EXCEPT ![mine[t]][prev[t]] = PolicyFor(t)]
    /\ Establish(t, [inst |-> mine[t], id |-> prev[t]])
    /\ UNCHANGED <<supervisor, child, evidence, lock, mine, kind, router>>

(* ... or not supported, or failed on a route that recreates its session.   *)
Recreate(t) ==
    /\ pc[t] = "resuming"
    /\ Goto(t, "creating")
    /\ UNCHANGED <<supervisor, children, registry, lock, mine, kind, router>>

NewIds == Ids \ {x.id : x \in ({sess[t] : t \in Turns} \cup {cached}) \ {None}}

Created(t) ==
    /\ pc[t] = "creating" /\ child[mine[t]] = "alive" /\ NewIds # {}
    /\ LET s == CHOOSE s \in NewIds : TRUE IN
       /\ policy' = [i \in Instances |-> [policy[i] EXCEPT ![s] =
                        IF i = mine[t] THEN PolicyFor(t) ELSE "unknown"]]
       /\ Establish(t, [inst |-> mine[t], id |-> s])
    /\ UNCHANGED <<supervisor, child, evidence, lock, mine, kind, router>>

(* The request for a session, or the prompt, fails. *)
Fail(t) ==
    /\ pc[t] \in {"resuming", "creating", "prompting"}
    /\ Goto(t, AfterFailure(t))
    /\ UNCHANGED <<supervisor, children, registry, lock, mine, kind, router>>

Answered(t) ==
    /\ pc[t] = "prompting" /\ child[mine[t]] = "alive"
    /\ Goto(t, "ending")
    /\ UNCHANGED <<supervisor, children, registry, lock, mine, kind, router>>

(* Recovery: restart_profile takes whatever is registered, without the      *)
(* acquire lock, and closes it; a persistent session is then replaced,      *)
(* unless close() raised what the reader task had failed with.              *)
AfterRestart(t) == IF sess[t] # None /\ ~ephemeral THEN "asking" ELSE "ending"

Restart(t) ==
    /\ pc[t] = "replying"
    /\ entry' = None
    /\ WorksWith(t, entry)
    /\ Goto(t, IF entry = None THEN AfterRestart(t) ELSE "restarting")
    /\ UNCHANGED <<cooling, acquiring, children, registry, lock, kind, router>>

Restarted(t) ==
    /\ pc[t] = "restarting" /\ Closed(t)
    /\ WorksWith(t, None)
    /\ Goto(t, AfterRestart(t)) \/ Goto(t, "ending")
    /\ UNCHANGED <<supervisor, children, registry, lock, kind, router>>

(* The finally blocks of a turn: its session goes back to the policy of the *)
(* route, or is released.  A turn whose route is not active any more owes a *)
(* reaper for what it has started.  It schedules it last, unless a          *)
(* finalizer of its identities raises before it gets there.                 *)
SelfHeals == ~active /\ ~shutting

EndTurn(t) ==
    /\ t \in Turns /\ pc[t] = "ending"
    /\ policy' = IF sess[t] = None \/ (~ephemeral /\ kind[t] = "route") THEN policy
                 ELSE IF ephemeral THEN Released(sess[t])
                 ELSE Installed(sess[t], "route")
    /\ sess' = [sess EXCEPT ![t] = None] /\ prev' = [prev EXCEPT ![t] = None]
    /\ kind' = [kind EXCEPT ![t] = "route"]
    /\ lock' = IF lock = t THEN None ELSE lock
    /\ WorksWith(t, None) /\ Goto(t, "idle")
    /\ \/ due' = (due \/ SelfHeals) /\ UNCHANGED unhealed
       \/ SelfHeals /\ unhealed' = entry /\ UNCHANGED due
    /\ UNCHANGED <<supervisor, child, evidence, cached, ephemeral, active, shutting>>

-----------------------------------------------------------------------------
(* Probes *)

(* Counted in _preflight_probes_inflight from here to its end. *)
StartProbe(p) ==
    /\ p \in Probes /\ pc[p] = "idle" /\ ~shutting
    /\ Goto(p, "queued")
    /\ UNCHANGED <<supervisor, children, registry, lock, mine, kind, router>>

(* No route to start it for, the lock timeout, the answer, or none. *)
ProbeOver(p) ==
    /\ p \in Probes /\ pc[p] \in {"queued", "probing"}
    /\ ProbeEnds(p)
    /\ UNCHANGED <<supervisor, children, registry>>

-----------------------------------------------------------------------------
(* Reload, reaper and shutdown *)

Reload ==
    /\ ~shutting
    /\ active' = ~active
    /\ due' = (due \/ active)
    /\ unhealed' = None
    /\ UNCHANGED <<supervisor, children, registry, callers, ephemeral, shutting>>

RetirableUnprobed == ~active
Retirable == ~active /\ ProbesInflight = {}

(* A pass of the reaper, once the turns of the route have drained, or by    *)
(* force: sessions of a route that is not active go, and their profile is   *)
(* to be retired.                                                           *)
Pass(forced) ==
    /\ due /\ pc[Reaper] = "idle"
    /\ forced \/ \A t \in Turns : pc[t] = "idle"
    /\ due' = FALSE
    /\ IF active \/ cached = None THEN UNCHANGED <<cached, policy>>
       ELSE cached' = None /\ policy' = Released(cached)
    /\ Goto(Reaper, IF Retirable /\ entry # None THEN "asking" ELSE "idle")
    /\ UNCHANGED <<supervisor, child, evidence, sess, prev, lock, mine, kind,
                   ephemeral, active, shutting, unhealed>>

(* retire_profile: the verdict is taken again under the acquire lock. *)
Retire ==
    /\ pc[Reaper] = "asking" /\ acquiring = None
    /\ IF Retirable /\ entry # None
       THEN /\ acquiring' = Reaper /\ entry' = None
            /\ WorksWith(Reaper, entry) /\ Goto(Reaper, "retiring")
       ELSE Goto(Reaper, "idle") /\ UNCHANGED <<acquiring, entry, mine>>
    /\ UNCHANGED <<cooling, children, registry, lock, kind, router>>

Retired ==
    /\ pc[Reaper] = "retiring" /\ Closed(Reaper)
    /\ acquiring' = None
    /\ WorksWith(Reaper, None) /\ Goto(Reaper, "idle")
    /\ UNCHANGED <<entry, cooling, children, registry, lock, kind, router>>

BeginShutdown ==
    /\ ~shutting /\ shutting' = TRUE
    /\ UNCHANGED <<supervisor, children, registry, callers, ephemeral, active, due,
                   unhealed>>

(* CancelledError takes a to its finally blocks. *)
Unwinds(a) ==
    \/ a \in Probes /\ ProbeEnds(a)
    \/ /\ a \notin Probes
       /\ WorksWith(a, None)
       /\ Goto(a, IF a = Reaper THEN "idle" ELSE "ending")
       /\ UNCHANGED <<lock, kind, router>>

(* close() cancels the stragglers before it closes the supervisor.  A       *)
(* close() that is cancelled kills what it was closing, a start that is     *)
(* cancelled closes what it has started and stamps nothing.                 *)
Cancel(a) ==
    /\ shutting /\ pc[Closer] = "idle" /\ a \in Callers \cup {Reaper}
    /\ pc[a] \notin {"idle", "ending", "initializing", "abandoning", "undoing"}
    /\ IF pc[a] \in Closing \cup {"spawning"} THEN Gone(mine[a]) ELSE UNCHANGED children
    /\ entry' = IF pc[a] = "spawning" THEN EntryWithout(mine[a]) ELSE entry
    /\ acquiring' = IF acquiring = a THEN None ELSE acquiring
    /\ Unwinds(a)
    /\ UNCHANGED <<cooling, registry>>

CancelInitialize(a) ==
    /\ shutting /\ pc[Closer] = "idle"
    /\ pc[a] = "initializing" /\ Goto(a, "abandoning")
    /\ UNCHANGED <<supervisor, children, registry, lock, mine, kind, router>>

Abandoned(a) ==
    /\ pc[a] = "abandoning" /\ Closed(a)
    /\ entry' = EntryWithout(mine[a]) /\ acquiring' = None
    /\ Unwinds(a)
    /\ UNCHANGED <<cooling, children, registry>>

(* supervisor.close() *)
CloseAll ==
    /\ shutting /\ pc[Closer] = "idle"
    /\ entry' = None
    /\ WorksWith(Closer, entry)
    /\ Goto(Closer, IF entry = None THEN "done" ELSE "closing")
    /\ UNCHANGED <<cooling, acquiring, children, registry, lock, kind, router>>

AllClosed ==
    /\ pc[Closer] = "closing" /\ Closed(Closer)
    /\ WorksWith(Closer, None) /\ Goto(Closer, "done")
    /\ UNCHANGED <<supervisor, children, registry, lock, kind, router>>

Over ==
    /\ pc[Closer] = "done" /\ \A a \in Actors \ {Closer} : pc[a] = "idle"
    /\ UNCHANGED vars

-----------------------------------------------------------------------------
Child(i) == Exit(i) \/ Notice(i)

TurnStep(t) ==
    \/ Resumed(t) \/ Recreate(t) \/ Created(t) \/ Fail(t) \/ Answered(t)
    \/ Restart(t) \/ Restarted(t) \/ EndTurn(t)

GetStep(a) ==
    \/ Evicted(a) \/ Spawned(a) \/ SpawnFails(a) \/ Initialized(a) \/ InitializeFails(a)
    \/ Undone(a) \/ Settled(a) \/ Discarded(a) \/ Abandoned(a)

Next ==
    \/ \E i \in Instances : Child(i) \/ ReportExit(i)
    \/ CoolOff
    \/ \E t \in Turns : TurnStep(t) \/ \E k \in {"route", "job"} : Admit(t, k)
    \/ \E p \in Probes : StartProbe(p) \/ ProbeOver(p)
    \/ \E a \in Callers : TakeLock(a) \/ Acquire(a) \/ GetStep(a) \/ CancelInitialize(a)
    \/ \E a \in Actors : Terminate(a) \/ Cancel(a)
    \/ Reload \/ Pass(FALSE) \/ Pass(TRUE) \/ Retire \/ Retired
    \/ BeginShutdown \/ CloseAll \/ AllClosed \/ Over

Spec == Init /\ [][Next]_vars

-----------------------------------------------------------------------------
(* Properties *)

(* Whatever evicts an entry and whenever a start, a restart, a retirement   *)
(* or a shutdown is cancelled: no Hermes process lives that is neither      *)
(* registered nor in the hands of somebody who will close it or finish      *)
(* starting it.                                                             *)
NoOrphan ==
    \A i \in Instances : child[i] = "alive" =>
        entry = i \/ \E a \in Actors : mine[a] = i /\ pc[a] \in Closing \cup Starting

(* There are never two processes of one profile, although eviction, failed  *)
(* starts, restarts and retirement all close one and let another begin.     *)
OneChild ==
    pc[Closer] = "idle" =>
        Cardinality({i \in Instances : child[i] \in {"spawning", "alive"}}) <= 1

(* A prompt goes to a process that created or resumed that session itself,  *)
(* although sessions outlive processes in the cache.                        *)
PromptsKnownSession ==
    \A t \in Turns : pc[t] = "prompting" /\ child[sess[t].inst] = "alive" =>
        policy[sess[t].inst][sess[t].id] # "unknown"

(* "prevents a synthetic turn and a human Signal turn for the same route    *)
(* session from swapping permission policies mid-turn"                      *)
(* (docs/scheduled-synthetic-events.md:209): a prompt is answered under its *)
(* own policy, or under none once the session was evicted by force, and no  *)
(* policy of a job outlives it, in a replaced session neither.              *)
OwnPolicy ==
    /\ \A t \in Turns : pc[t] = "prompting" =>
          policy[sess[t].inst][sess[t].id] \in {kind[t], "none", "unknown"}
    /\ lock = None /\ ~shutting =>
          \A i \in Instances, s \in Ids : policy[i][s] # "job"

(* Retirement does not close the process under a preflight probe. *)
ProbeKeepsProfile ==
    pc[Reaper] = "retiring" =>
        \A p \in Probes : pc[p] = "probing" => mine[p] # mine[Reaper]

(* A process that no route needs any more is never left behind: whoever     *)
(* started it, and whoever kept the reaper of that reload from retiring it, *)
(* a reaper is scheduled or somebody at work will schedule one.  The one    *)
(* exception is the process of a turn whose finalizer raised: it lingers    *)
(* "until the next reload or shutdown" (router.py:1997), not longer.        *)
LeftoversAreDue ==
    entry # None /\ ~active /\ ~shutting =>
        due \/ unhealed = entry \/ \E a \in Actors : pc[a] # "idle"

(* No process is lost or doubled, and none is left over that nobody is due  *)
(* to retire, but the one of a turn whose finalizer raised.                 *)
NoStrayProcess == NoOrphan /\ OneChild /\ LeftoversAreDue
====
