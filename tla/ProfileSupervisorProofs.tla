---- MODULE ProfileSupervisorProofs ----
(***************************************************************************)
(* Proofs about ProfileSupervisor, for any number of turns, probes,        *)
(* instances and session ids.                                              *)
(***************************************************************************)
EXTENDS ProfileSupervisor, FiniteSetTheorems, TLAPS

USE NamesOK DEF Actors, Callers

-----------------------------------------------------------------------------
(* The inductive invariant, one operator per idea. *)

(* Who is where.  A caller that is past its wait for the profile lock has   *)
(* it, until it goes on without it: a probe that asks, a turn that ends.    *)
Roles ==
    /\ pc[Reaper] \in {"idle", "asking", "retiring"}
    /\ pc[Closer] \in {"idle", "closing", "done"}
    /\ pc[Closer] # "idle" => shutting
    /\ \A a \in Callers : pc[a] \notin {"retiring", "closing", "done"}
    /\ \A t \in Turns : pc[t] # "probing"
    /\ \A p \in Probes : pc[p] \notin {"resuming", "creating", "prompting", "replying",
                                       "restarting", "ending"}
    /\ \A a \in Callers : pc[a] \notin {"idle", "queued", "probing", "ending"} => lock = a

(* What an actor works with is there while it works with it. *)
InHand ==
    /\ \A a \in Actors :
          pc[a] \in Closing \cup Starting \cup {"resuming", "creating"} => mine[a] \in Instances
    /\ \A t \in Turns : pc[t] = "resuming" => prev[t] \in Ids
    /\ \A t \in Turns : pc[t] = "prompting" => sess[t] # None
    /\ \A t \in Turns : sess[t] # None => lock = t /\ pc[t] \notin {"idle", "queued"}

(* The acquire lock is held over every start and over every close but that  *)
(* of a restart and of a shutdown.                                          *)
Getting == Starting \cup {"evicting", "undoing", "abandoning", "discarding", "retiring"}

AcquireHeld == \A a \in Actors : pc[a] \in Getting => acquiring = a

(* The entry while somebody starts or closes a process: nobody else's.  The *)
(* reaper and a restart exclude each other although only one of them takes  *)
(* the acquire lock: each begins with an entry and leaves none.             *)
Registered ==
    /\ \A a \in Callers :
          /\ pc[a] \in Starting \cup {"undoing", "abandoning"} => entry \in {None, mine[a]}
          /\ pc[a] \in {"evicting", "discarding", "restarting"} => entry = None
    /\ pc[Reaper] = "retiring" =>
          entry = None /\ \A a \in Callers : pc[a] \notin {"restarting", "probing"}

(* A process that is being started is in the hands of its starter, and a    *)
(* start that nobody has interfered with is still registered.               *)
Sheltered ==
    /\ NoOrphan
    /\ \A i \in Instances : child[i] = "spawning" =>
          \E a \in Callers : pc[a] = "spawning" /\ mine[a] = i
    /\ \A a \in Callers : pc[a] = "spawning" => child[mine[a]] = "spawning"
    /\ \A a \in Callers :
          pc[a] \in Starting /\ pc[Closer] = "idle" /\ child[mine[a]] \in {"spawning", "alive"} =>
             entry = mine[a]

(* A session that somebody refers to is one its process knows, if that      *)
(* lives: the name of a process is used again only when nobody refers to it.*)
Kept(x) ==
    /\ child[x.inst] # "spawning"
    /\ child[x.inst] = "alive" => policy[x.inst][x.id] # "unknown"

Known ==
    /\ cached # None => Kept(cached)
    /\ \A t \in Turns : sess[t] # None => Kept(sess[t])

(* The policy of a job is in force only for the turn of that job. *)
Jobs ==
    \A i \in Instances, s \in Ids : policy[i][s] = "job" =>
        \E t \in Turns : lock = t /\ kind[t] = "job" /\ sess[t] = [inst |-> i, id |-> s]

Answering ==
    \A t \in Turns : pc[t] = "prompting" =>
        policy[sess[t].inst][sess[t].id] \in {kind[t], "none", "unknown"}

SupervisorInv ==
    /\ TypeOK /\ Roles /\ InHand /\ AcquireHeld /\ Registered /\ Sheltered /\ Known
    /\ Jobs /\ Answering /\ LeftoversAreDue

(* The state by the parts of the router that own it. *)
Places == Closing \cup Starting \cup
            {"idle", "queued", "asking", "resuming", "creating",
             "prompting", "replying", "probing", "ending", "done"}

SupervisorTyped ==
    /\ entry \in Instances \cup {None}
    /\ cooling \in BOOLEAN /\ acquiring \in Actors \cup {None}

ChildrenTyped ==
    /\ child \in [Instances -> {"none", "spawning", "alive", "exited"}]
    /\ evidence \in [Instances -> BOOLEAN]
    /\ policy \in [Instances -> [Ids -> {"unknown", "none", "route", "job"}]]

RegistryTyped ==
    /\ cached \in Sessions \cup {None}
    /\ sess \in [Turns -> Sessions \cup {None}] /\ prev \in [Turns -> Ids \cup {None}]

CallersTyped ==
    /\ lock \in Callers \cup {None}
    /\ pc \in [Actors -> Places]
    /\ mine \in [Actors -> Instances \cup {None}]
    /\ kind \in [Turns -> {"route", "job"}]

RouterTyped ==
    /\ ephemeral \in BOOLEAN /\ active \in BOOLEAN
    /\ due \in BOOLEAN /\ shutting \in BOOLEAN /\ unhealed \in Instances \cup {None}

LEMMA TypeParts ==
  TypeOK <=> /\ SupervisorTyped /\ ChildrenTyped /\ RegistryTyped
             /\ CallersTyped /\ RouterTyped
  BY DEF TypeOK, SupervisorTyped, ChildrenTyped, RegistryTyped, CallersTyped, RouterTyped, Places

LEMMA TypePartsNext ==
  TypeOK' <=> /\ SupervisorTyped' /\ ChildrenTyped' /\ RegistryTyped'
              /\ CallersTyped' /\ RouterTyped'
  BY DEF TypeOK, SupervisorTyped, ChildrenTyped, RegistryTyped, CallersTyped, RouterTyped, Places

LEMMA InvInit == Init => SupervisorInv
<1> SUFFICES ASSUME Init PROVE SupervisorInv
  OBVIOUS
<1> USE DEF Init
<1>1. TypeOK
  BY DEF TypeOK, NoSessions
<1>2. Roles /\ InHand /\ AcquireHeld /\ Registered
  BY DEF Roles, InHand, AcquireHeld, Getting, Registered, Closing, Starting
<1>3. Sheltered /\ Known /\ LeftoversAreDue
  BY DEF Sheltered, NoOrphan, Known, LeftoversAreDue, Starting
<1>4. Jobs /\ Answering
  BY DEF Jobs, Answering, NoSessions
<1> QED
  BY <1>1, <1>2, <1>3, <1>4 DEF SupervisorInv

-----------------------------------------------------------------------------
(* What the helpers of get_profile and of the registry do. *)

(* What a caller that is refused, or whose start fails, leaves. *)
Ousted(a) ==
    /\ acquiring' = None /\ mine' = [mine EXCEPT ![a] = None]
    /\ UNCHANGED <<registry, kind, ephemeral, active, shutting, unhealed>>
    /\ \/ /\ a \in Probes
          /\ lock' = (IF lock = a THEN None ELSE lock)
          /\ pc' = [pc EXCEPT ![a] = "idle"]
          /\ due' = (due \/ LastLooks(a))
       \/ /\ a \in Turns
          /\ lock' = lock /\ due' = due
          /\ \/ pc' = [pc EXCEPT ![a] = "replying"]
             \/ pc' = [pc EXCEPT ![a] = "ending"]

LEMMA RaisesDoes ==
  ASSUME NEW a, Raises(a) PROVE Ousted(a)
BY DEF Raises, Ousted, ProbeEnds, AfterFailure, Goto, WorksWith, registry, router

(* The start of an instance i under a name that nobody uses. *)
Starts(a, i) ==
    /\ Forgotten(i) /\ entry' = i
    /\ child' = [child EXCEPT ![i] = "spawning"]
    /\ mine' = [mine EXCEPT ![a] = i] /\ acquiring' = a
    /\ pc' = [pc EXCEPT ![a] = "spawning"]
    /\ UNCHANGED <<cooling, evidence, policy, registry, lock, kind, router>>

LEMMA ReplaceDoes ==
  ASSUME NEW a, Replace(a)
  PROVE  \/ Ousted(a) /\ UNCHANGED <<entry, cooling, children>>
         \/ \E i \in Instances : Starts(a, i)
<1>1. CASE cooling /\ Raises(a) /\ UNCHANGED <<entry, cooling, children>>
  BY <1>1, RaisesDoes
<1>2. CASE ~(cooling /\ Raises(a) /\ UNCHANGED <<entry, cooling, children>>)
  <2> DEFINE i == CHOOSE i \in Instances : Forgotten(i)
  <2>1. i \in Instances /\ Forgotten(i)
    BY <1>2 DEF Replace
  <2>2. Starts(a, i)
    BY <1>2, <2>1 DEF Replace, Starts, Goto, WorksWith
  <2> QED
    BY <2>1, <2>2
<1> QED
  BY <1>1, <1>2

(* get_profile hands i to a, which goes on: a probe, a turn that has to     *)
(* create its session, one that uses the cached one, one that resumes.      *)
Handed(a, i) ==
    /\ acquiring' = None /\ mine' = [mine EXCEPT ![a] = i]
    /\ lock' = (IF a \in Probes THEN None ELSE lock)
    /\ UNCHANGED <<kind, router>>

Asks(a) ==
    /\ a \in Probes /\ pc' = [pc EXCEPT ![a] = "probing"]
    /\ UNCHANGED <<registry, policy>>

Creates(t) ==
    /\ t \in Turns /\ sess[t] = None /\ pc' = [pc EXCEPT ![t] = "creating"]
    /\ UNCHANGED <<sess, prev>>
    /\ \/ UNCHANGED <<cached, policy>>
       \/ cached # None /\ cached' = None /\ (policy' = policy \/ policy' = Released(cached))

Reuses(t) ==
    /\ t \in Turns /\ sess[t] = None /\ pc' = [pc EXCEPT ![t] = "prompting"]
    /\ cached # None /\ (cached' = cached \/ cached' = None)
    /\ sess' = [sess EXCEPT ![t] = cached] /\ prev' = [prev EXCEPT ![t] = None]
    /\ policy' = Installed(cached, kind[t])

Resumes(t) ==
    /\ t \in Turns /\ pc' = [pc EXCEPT ![t] = "resuming"]
    /\ \E s \in Ids : prev' = [prev EXCEPT ![t] = s]
    /\ UNCHANGED <<cached, sess, policy>>

Served(a, i) == Handed(a, i) /\ (Asks(a) \/ Creates(a) \/ Reuses(a) \/ Resumes(a))

(* a closes the entry whose process has left evidence of its exit. *)
Evicts(a) ==
    /\ entry \in Instances /\ entry' = None
    /\ mine' = [mine EXCEPT ![a] = entry] /\ acquiring' = a
    /\ pc' = [pc EXCEPT ![a] = "evicting"]
    /\ UNCHANGED <<cooling, children, registry, lock, kind, router>>

(* What a has started is not what is registered, or has exited. *)
Discards(a) ==
    /\ ~(entry = mine[a] /\ ~evidence[mine[a]])
    /\ entry' = EntryWithout(mine[a])
    /\ pc' = [pc EXCEPT ![a] = "discarding"]
    /\ UNCHANGED <<cooling, acquiring, children, registry, lock, mine, kind, router>>

LEMMA ReturnsDoes ==
  ASSUME RegistryTyped, NEW a \in Callers, NEW i \in Instances, Returns(a, i)
  PROVE  Served(a, i)
<1> USE DEF Goto, WorksWith, registry
<1>1. Handed(a, i)
  BY DEF Returns, Handed, router
<1>2. CASE a \in Probes /\ pc' = [pc EXCEPT ![a] = "probing"] /\ UNCHANGED <<registry, policy>>
  BY <1>1, <1>2 DEF Asks, Served
<1>3. CASE a \in Turns /\ sess[a] = None /\ Lookup(a, i)
  <2>1. CASE cached = None
    BY <1>1, <1>3, <2>1 DEF Lookup, Creates, registry, Served
  <2>2. CASE cached # None /\ cached' = None /\ pc' = [pc EXCEPT ![a] = "creating"]
               /\ policy' = (IF cached.inst = i THEN Released(cached) ELSE policy)
               /\ UNCHANGED <<sess, prev>>
    BY <1>1, <1>3, <2>2 DEF Creates, Served
  <2>3. CASE /\ cached # None /\ cached.inst = i
             /\ Establish(a, [inst |-> i, id |-> cached.id])
             /\ policy' = Installed([inst |-> i, id |-> cached.id], PolicyFor(a))
    <3>1. cached = [inst |-> i, id |-> cached.id]
      BY <2>3 DEF RegistryTyped, Sessions
    <3>2. PolicyFor(a) = kind[a]
      BY <1>3 DEF PolicyFor
    <3>3. sess' = [sess EXCEPT ![a] = cached] /\ (cached' = cached \/ cached' = None)
      BY <1>3, <2>3, <3>1 DEF Establish, RegistryTyped
    <3> QED
      BY <1>1, <1>3, <2>3, <3>1, <3>2, <3>3 DEF Establish, Reuses, Served
  <2>4. CASE cached # None /\ prev' = [prev EXCEPT ![a] = cached.id]
               /\ pc' = [pc EXCEPT ![a] = "resuming"] /\ UNCHANGED <<cached, sess, policy>>
    BY <1>1, <1>3, <2>4 DEF Served, Resumes, RegistryTyped, Sessions
  <2> QED
    BY <1>3, <2>1, <2>2, <2>3, <2>4 DEF Lookup, SameProfile
<1>4. CASE /\ a \in Turns /\ sess[a] # None
           /\ prev' = [prev EXCEPT ![a] = sess[a].id]
           /\ pc' = [pc EXCEPT ![a] = "resuming"]
           /\ UNCHANGED <<cached, sess, policy>>
  BY <1>1, <1>4 DEF Served, Resumes, RegistryTyped, Sessions
<1> QED
  BY <1>1, <1>2, <1>3, <1>4 DEF Returns, Served

(* What get_profile does once it may. *)
LEMMA AcquireDoes ==
  ASSUME SupervisorTyped, RegistryTyped, NEW a \in Callers, Acquire(a)
  PROVE  /\ pc[a] = "asking" /\ acquiring = None
         /\ \/ Ousted(a) /\ UNCHANGED <<entry, cooling, children>>
            \/ entry = None /\ \E i \in Instances : Starts(a, i)
            \/ /\ entry \in Instances /\ Served(a, entry)
               /\ UNCHANGED <<entry, cooling, child, evidence>>
            \/ Evicts(a)
<1>1. CASE entry = None /\ Replace(a)
  BY <1>1, ReplaceDoes DEF Acquire
<1>2. CASE entry # None /\ ~evidence[entry] /\ Returns(a, entry)
             /\ UNCHANGED <<entry, cooling, child, evidence>>
  <2>1. entry \in Instances
    BY <1>2 DEF SupervisorTyped
  <2> QED
    BY <1>2, <2>1, ReturnsDoes DEF Acquire
<1>3. CASE /\ entry # None /\ evidence[entry] /\ entry' = None /\ WorksWith(a, entry)
           /\ acquiring' = a /\ Goto(a, "evicting")
           /\ UNCHANGED <<cooling, children, registry, lock, kind, router>>
  BY <1>3 DEF Acquire, Evicts, SupervisorTyped, Goto, WorksWith
<1> QED
  BY <1>1, <1>2, <1>3 DEF Acquire

LEMMA SettledDoes ==
  ASSUME RegistryTyped, NEW a \in Callers, mine[a] \in Instances, Settled(a)
  PROVE  /\ pc[a] = "settling"
         /\ \/ /\ entry = mine[a] /\ Served(a, mine[a])
               /\ UNCHANGED <<entry, cooling, child, evidence>>
            \/ Discards(a)
  BY ReturnsDoes DEF Settled, Fit, Discards, Goto, children

(* A turn that gets its session from its process. *)
Gains(t, s) ==
    /\ Establish(t, [inst |-> mine[t], id |-> s])
    /\ \/ policy' = [policy EXCEPT ![mine[t]][s] = PolicyFor(t)]
       \/ /\ s \in NewIds
          /\ policy' = [i \in Instances |-> [policy[i] EXCEPT ![s] =
                           IF i = mine[t] THEN PolicyFor(t) ELSE "unknown"]]

LEMMA SessionDoes ==
  ASSUME InHand, NEW t \in Turns, Resumed(t) \/ Created(t)
  PROVE  /\ pc[t] \in {"resuming", "creating"}
         /\ mine[t] \in Instances /\ child[mine[t]] = "alive"
         /\ \E s \in Ids : Gains(t, s)
         /\ UNCHANGED <<supervisor, child, evidence, lock, mine, kind, router>>
<1>1. CASE Resumed(t)
  BY <1>1 DEF Resumed, InHand, Gains
<1>2. CASE Created(t)
  <2> DEFINE s == CHOOSE s \in NewIds : TRUE
  <2>1. s \in NewIds /\ s \in Ids
    BY <1>2 DEF Created, NewIds
  <2>2. Gains(t, s)
    BY <1>2, <2>1 DEF Created, Gains
  <2> HIDE DEF s
  <2> QED
    BY <1>2, <2>1, <2>2 DEF Created, InHand
<1> QED
  BY <1>1, <1>2

(* A caller that is cancelled takes to its finally blocks. *)
Unwound(a) ==
    /\ mine' = [mine EXCEPT ![a] = None] /\ UNCHANGED <<kind, ephemeral, active, shutting, unhealed>>
    /\ \/ /\ a \in Probes /\ pc' = [pc EXCEPT ![a] = "idle"]
          /\ lock' = (IF lock = a THEN None ELSE lock)
          /\ due' = (due \/ LastLooks(a))
       \/ /\ a \in Turns /\ pc' = [pc EXCEPT ![a] = "ending"]
          /\ lock' = lock /\ due' = due
       \/ /\ a = Reaper /\ pc' = [pc EXCEPT ![a] = "idle"]
          /\ lock' = lock /\ due' = due

LEMMA UnwindsDoes ==
  ASSUME NEW a \in Callers \cup {Reaper}, Unwinds(a) PROVE Unwound(a)
  BY DEF Unwinds, Unwound, ProbeEnds, Goto, WorksWith, router

(* Who is cancelled, where, and what becomes of what it has in hand. *)
LEMMA CancelDoes ==
  ASSUME NEW a \in Actors, Cancel(a)
  PROVE  /\ a \in Callers \cup {Reaper} /\ Unwound(a) /\ shutting /\ pc[Closer] = "idle"
         /\ pc[a] \notin {"idle", "ending", "initializing", "abandoning", "undoing"}
         /\ IF pc[a] \in Closing \cup {"spawning"} THEN Gone(mine[a]) ELSE UNCHANGED children
         /\ entry' = IF pc[a] = "spawning" THEN EntryWithout(mine[a]) ELSE entry
         /\ acquiring' = IF acquiring = a THEN None ELSE acquiring
         /\ UNCHANGED <<cooling, registry>>
  BY UnwindsDoes DEF Cancel

-----------------------------------------------------------------------------
(* Types *)

Policies == {"unknown", "none", "route", "job"}

LEMMA InstalledTyped ==
  ASSUME ChildrenTyped, NEW x \in Sessions, NEW p \in Policies
  PROVE  Installed(x, p) \in [Instances -> [Ids -> Policies]]
  BY DEF ChildrenTyped, Installed, Sessions, Policies

LEMMA GoneTyped ==
  ASSUME ChildrenTyped, NEW i, Gone(i)
  PROVE  ChildrenTyped'
<1>1. NoSessions \in [Ids -> Policies]
  BY DEF NoSessions, Policies
<1> QED
  BY <1>1 DEF ChildrenTyped, Gone, Policies

LEMMA OustedTyped ==
  ASSUME TypeOK, NEW a \in Callers, Ousted(a)
  PROVE  /\ acquiring' = None /\ RegistryTyped' /\ CallersTyped' /\ RouterTyped'
<1> USE TypeParts DEF Ousted, registry
<1>1. RegistryTyped'
  BY DEF RegistryTyped
<1>2. CallersTyped'
  BY DEF CallersTyped, Places
<1>3. RouterTyped'
  BY DEF RouterTyped, LastLooks
<1> QED
  BY <1>1, <1>2, <1>3

LEMMA StartsTyped ==
  ASSUME TypeOK, NEW a \in Callers, NEW i \in Instances, Starts(a, i)
  PROVE  TypeOK'
<1> USE TypeParts DEF Starts, registry, router
<1>1. SupervisorTyped' /\ RegistryTyped' /\ RouterTyped'
  BY DEF SupervisorTyped, RegistryTyped, RouterTyped
<1>2. ChildrenTyped'
  BY DEF ChildrenTyped
<1>3. CallersTyped'
  BY DEF CallersTyped, Places, Starting
<1> QED
  BY <1>1, <1>2, <1>3, TypePartsNext

LEMMA HandedTyped ==
  ASSUME TypeOK, NEW a \in Callers, NEW i \in Instances, Served(a, i)
  PROVE  /\ acquiring' = None /\ RegistryTyped' /\ CallersTyped' /\ RouterTyped'
         /\ policy' \in [Instances -> [Ids -> Policies]]
<1> USE TypeParts DEF Served, Handed, registry, router
<1>1. RegistryTyped'
  BY DEF RegistryTyped, Asks, Creates, Reuses, Resumes
<1>2. CallersTyped' /\ RouterTyped'
  BY DEF CallersTyped, RouterTyped, Places, Asks, Creates, Reuses, Resumes
<1>3. policy \in [Instances -> [Ids -> Policies]]
  BY DEF ChildrenTyped, Policies
<1>4. cached # None => /\ Released(cached) \in [Instances -> [Ids -> Policies]]
                       /\ a \in Turns => Installed(cached, kind[a]) \in [Instances -> [Ids -> Policies]]
  BY InstalledTyped DEF RegistryTyped, CallersTyped, Released, Policies
<1>5. policy' \in [Instances -> [Ids -> Policies]]
  BY <1>3, <1>4 DEF Asks, Creates, Reuses, Resumes
<1> QED
  BY <1>1, <1>2, <1>5

LEMMA EstablishTyped ==
  ASSUME RegistryTyped, CallersTyped, NEW t \in Turns, NEW x \in Sessions, Establish(t, x)
  PROVE  RegistryTyped' /\ pc' \in [Actors -> Places]
  BY DEF RegistryTyped, CallersTyped, Establish, Goto, Places

LEMMA TypeStep == TypeOK /\ InHand /\ [Next]_vars => TypeOK'
<1> SUFFICES ASSUME TypeOK, InHand, [Next]_vars PROVE TypeOK'
  OBVIOUS
<1>p. SupervisorTyped /\ ChildrenTyped /\ RegistryTyped /\ CallersTyped /\ RouterTyped
  BY TypeParts
<1>m. \A a \in Actors : pc[a] \in Closing \cup Starting \cup {"resuming", "creating"} =>
         mine[a] \in Instances
  BY DEF InHand
<1> USE <1>p, TypePartsNext
        DEF supervisor, children, registry, callers, router, Goto, WorksWith
(* The subprocess. *)
<1>1. ASSUME NEW i \in Instances, Exit(i) \/ Notice(i) \/ ReportExit(i) PROVE TypeOK'
  <2>1. ChildrenTyped'
    BY <1>1, GoneTyped DEF Exit, Notice, ReportExit, ChildrenTyped
  <2> QED
    BY <1>1, <2>1 DEF Exit, Notice, ReportExit, EntryWithout,
                      SupervisorTyped, RegistryTyped, CallersTyped, RouterTyped
<1>2. ASSUME NEW a \in Actors, Terminate(a) PROVE TypeOK'
  <2>1. ChildrenTyped'
    BY <1>2, GoneTyped DEF Terminate
  <2> QED
    BY <1>2, <2>1 DEF Terminate, SupervisorTyped, RegistryTyped, CallersTyped, RouterTyped
(* Steps that leave the processes and the registry alone. *)
<1>3. ASSUME UNCHANGED <<children, registry>>, SupervisorTyped', CallersTyped', RouterTyped'
      PROVE  TypeOK'
  BY <1>3 DEF ChildrenTyped, RegistryTyped
<1>4. CASE CoolOff \/ Reload \/ BeginShutdown \/ Over \/ CloseAll \/ AllClosed \/ Retire \/ Retired
  <2>1. CASE CoolOff \/ Reload \/ BeginShutdown \/ Over
    BY <1>3, <2>1 DEF CoolOff, Reload, BeginShutdown, Over, vars, SupervisorTyped, CallersTyped,
       RouterTyped
  <2>2. CASE CloseAll \/ AllClosed
    BY <1>3, <2>2 DEF CloseAll, AllClosed, SupervisorTyped, CallersTyped, RouterTyped, Places,
       Closing
  <2>3. CASE Retire \/ Retired
    BY <1>3, <2>3 DEF Retire, Retired, SupervisorTyped, CallersTyped, RouterTyped, Places, Closing
  <2> QED
    BY <1>4, <2>1, <2>2, <2>3
<1>5. ASSUME NEW t \in Turns,
             Recreate(t) \/ Fail(t) \/ Answered(t) \/ Restart(t) \/ Restarted(t)
      PROVE  TypeOK'
  BY <1>3, <1>5 DEF Recreate, Fail, AfterFailure, Answered, Restart, Restarted, AfterRestart,
       SupervisorTyped, CallersTyped, RouterTyped, Places, Closing
<1>6. ASSUME NEW t \in Turns, NEW k \in {"route", "job"}, Admit(t, k) PROVE TypeOK'
  BY <1>3, <1>6 DEF Admit, SupervisorTyped, CallersTyped, RouterTyped, Places
<1>7. ASSUME NEW p \in Probes, StartProbe(p) \/ ProbeOver(p) PROVE TypeOK'
  BY <1>3, <1>7 DEF StartProbe, ProbeOver, ProbeEnds, LastLooks, SupervisorTyped, CallersTyped,
       RouterTyped, Places
<1>8. ASSUME NEW a \in Callers,
             TakeLock(a) \/ Initialized(a) \/ InitializeFails(a) \/ CancelInitialize(a)
      PROVE  TypeOK'
  BY <1>3, <1>8 DEF TakeLock, Initialized, InitializeFails, CancelInitialize, SupervisorTyped,
       CallersTyped, RouterTyped, Places, Closing, Starting
(* Sessions. *)
<1>9. ASSUME NEW t \in Turns, Resumed(t) \/ Created(t) PROVE TypeOK'
  <2>1. PICK s \in Ids : Gains(t, s)
    BY <1>9, SessionDoes
  <2>2. mine[t] \in Instances /\ UNCHANGED <<supervisor, child, evidence, lock, mine, kind, router>>
    BY <1>9, SessionDoes
  <2>3. PolicyFor(t) \in Policies
    BY DEF PolicyFor, ReplacementPolicy, CallersTyped, Policies
  <2>4. ASSUME NEW i \in Instances
        PROVE  [policy[i] EXCEPT ![s] = IF i = mine[t] THEN PolicyFor(t) ELSE "unknown"]
                  \in [Ids -> Policies]
    BY <2>3 DEF ChildrenTyped, Policies
  <2>5. policy' \in [Instances -> [Ids -> Policies]]
    <3>1. CASE policy' = [policy EXCEPT ![mine[t]][s] = PolicyFor(t)]
      BY <2>2, <2>3, <3>1 DEF ChildrenTyped, Policies
    <3>2. CASE policy' = [i \in Instances |-> [policy[i] EXCEPT ![s] =
                             IF i = mine[t] THEN PolicyFor(t) ELSE "unknown"]]
      BY <2>4, <3>2
    <3> QED
      BY <2>1, <3>1, <3>2 DEF Gains
  <2>6. RegistryTyped' /\ pc' \in [Actors -> Places]
    BY <2>1, <2>2, EstablishTyped DEF Gains, Sessions
  <2> QED
    BY <2>2, <2>5, <2>6 DEF SupervisorTyped, ChildrenTyped, CallersTyped, RouterTyped, Policies
<1>11. ASSUME NEW t \in Turns, EndTurn(t) PROVE TypeOK'
  <2>1. sess[t] # None => /\ Released(sess[t]) \in [Instances -> [Ids -> Policies]]
                          /\ Installed(sess[t], "route") \in [Instances -> [Ids -> Policies]]
    BY InstalledTyped DEF RegistryTyped, Released, Policies
  <2>2. ChildrenTyped'
    BY <1>11, <2>1 DEF EndTurn, ChildrenTyped, Policies
  <2> QED
    BY <1>11, <2>2 DEF EndTurn, SelfHeals, SupervisorTyped, RegistryTyped, CallersTyped,
       RouterTyped, Places
<1>12. ASSUME NEW f \in BOOLEAN, Pass(f) PROVE TypeOK'
  <2>1. cached # None => Released(cached) \in [Instances -> [Ids -> Policies]]
    BY InstalledTyped DEF RegistryTyped, Released, Policies
  <2>2. ChildrenTyped' /\ RegistryTyped'
    BY <1>12, <2>1 DEF Pass, ChildrenTyped, RegistryTyped, Policies
  <2> QED
    BY <1>12, <2>2 DEF Pass, SupervisorTyped, CallersTyped, RouterTyped, Places
(* get_profile. *)
<1>13. ASSUME NEW a \in Callers, Ousted(a), SupervisorTyped', ChildrenTyped' PROVE TypeOK'
  BY <1>13, OustedTyped
<1>14. ASSUME NEW a \in Callers, NEW i \in Instances, Served(a, i),
              UNCHANGED <<entry, cooling, child, evidence>>
       PROVE  TypeOK'
  <2>1. /\ acquiring' = None /\ RegistryTyped' /\ CallersTyped' /\ RouterTyped'
        /\ policy' \in [Instances -> [Ids -> Policies]]
    BY <1>14, HandedTyped
  <2> QED
    BY <1>14, <2>1 DEF SupervisorTyped, ChildrenTyped, Policies
<1>15. ASSUME NEW a \in Callers, Acquire(a) PROVE TypeOK'
  <2>1. CASE Ousted(a) /\ UNCHANGED <<entry, cooling, children>>
    BY <2>1, <1>13 DEF Ousted, SupervisorTyped, ChildrenTyped
  <2>2. CASE \E i \in Instances : Starts(a, i)
    BY <2>2, StartsTyped
  <2>3. CASE /\ entry \in Instances /\ Served(a, entry)
             /\ UNCHANGED <<entry, cooling, child, evidence>>
    BY <2>3, <1>14
  <2>4. CASE Evicts(a)
    BY <2>4, <1>3 DEF Evicts, SupervisorTyped, CallersTyped, RouterTyped, Places, Closing
  <2> QED
    BY <1>15, <2>1, <2>2, <2>3, <2>4, AcquireDoes
<1>16. ASSUME NEW a \in Callers, Evicted(a) PROVE TypeOK'
  <2>1. CASE Ousted(a) /\ UNCHANGED <<entry, cooling, children>>
    BY <2>1, <1>13 DEF Ousted, SupervisorTyped, ChildrenTyped
  <2>2. CASE \E i \in Instances : Starts(a, i)
    BY <2>2, StartsTyped
  <2> QED
    BY <1>16, <2>1, <2>2, ReplaceDoes DEF Evicted
<1>17. ASSUME NEW a \in Callers, Settled(a) PROVE TypeOK'
  <2>1. mine[a] \in Instances
    BY <1>17, <1>m DEF Settled, Starting
  <2>2. CASE Served(a, mine[a]) /\ UNCHANGED <<entry, cooling, child, evidence>>
    BY <2>1, <2>2, <1>14
  <2>3. CASE Discards(a)
    BY <2>3, <1>3 DEF Discards, EntryWithout, SupervisorTyped, CallersTyped, RouterTyped, Places,
       Closing
  <2> QED
    BY <1>17, <2>1, <2>2, <2>3, SettledDoes
<1>18. ASSUME NEW a \in Callers, Spawned(a) PROVE TypeOK'
  BY <1>18 DEF Spawned, SupervisorTyped, ChildrenTyped, RegistryTyped, CallersTyped, RouterTyped,
     Places, Starting
<1>19. ASSUME NEW a \in Callers, SpawnFails(a) \/ Undone(a) \/ Discarded(a) PROVE TypeOK'
  <2>1. Ousted(a)
    BY <1>19, RaisesDoes DEF SpawnFails, Undone, Discarded
  <2>2. SupervisorTyped' /\ ChildrenTyped'
    BY <1>19, <2>1 DEF SpawnFails, Undone, Discarded, Ousted, EntryWithout, SupervisorTyped,
       ChildrenTyped
  <2> QED
    BY <2>1, <2>2, <1>13
(* Cancellation. *)
<1>20. ASSUME NEW a \in Callers \cup {Reaper}, Unwinds(a) PROVE CallersTyped' /\ RouterTyped'
  BY <1>20, UnwindsDoes DEF Unwound, CallersTyped, RouterTyped, Places, LastLooks
<1>21. ASSUME NEW a \in Callers, Abandoned(a) PROVE TypeOK'
  BY <1>20, <1>21 DEF Abandoned, EntryWithout, SupervisorTyped, ChildrenTyped, RegistryTyped
<1>22. ASSUME NEW a \in Actors, Cancel(a) PROVE TypeOK'
  <2>1. CallersTyped' /\ RouterTyped'
    BY <1>20, <1>22 DEF Cancel
  <2>2. ChildrenTyped'
    BY <1>22, GoneTyped DEF Cancel, ChildrenTyped
  <2> QED
    BY <1>22, <2>1, <2>2 DEF Cancel, EntryWithout, SupervisorTyped, RegistryTyped
<1>23. CASE UNCHANGED vars
  BY <1>23, <1>3 DEF vars, SupervisorTyped, CallersTyped, RouterTyped
<1> QED
  BY <1>1, <1>2, <1>4, <1>5, <1>6, <1>7, <1>8, <1>9, <1>11, <1>12, <1>15, <1>16, <1>17,
     <1>18, <1>19, <1>21, <1>22, <1>23 DEF Next, Child, TurnStep, GetStep

-----------------------------------------------------------------------------
(* Who is where *)

LEMMA RolesStep == TypeOK /\ InHand /\ Roles /\ [Next]_vars => Roles'
<1> SUFFICES ASSUME TypeOK, InHand, Roles, [Next]_vars PROVE Roles'
  OBVIOUS
<1>n. Next \/ UNCHANGED vars
  OBVIOUS
<1>p. SupervisorTyped /\ RegistryTyped /\ pc \in [Actors -> Places]
  BY TypeParts DEF CallersTyped
<1>m. \A a \in Actors : pc[a] \in Closing \cup Starting => mine[a] \in Instances
  BY DEF InHand
<1> USE <1>p, <1>m DEF Roles, supervisor, children, registry, callers, router, Goto, WorksWith,
                       Closing, Starting, Places
<1>1. ASSUME NEW i \in Instances, Exit(i) \/ Notice(i) \/ ReportExit(i) PROVE Roles'
  BY <1>1 DEF Exit, Notice, ReportExit
<1>2. ASSUME NEW a \in Actors, Terminate(a) PROVE Roles'
  BY <1>2 DEF Terminate
<1>3. CASE CoolOff \/ Reload \/ UNCHANGED vars
  BY <1>3 DEF CoolOff, Reload, vars
<1>4. ASSUME NEW t \in Turns, Recreate(t) \/ Fail(t) \/ Answered(t)
      PROVE Roles'
  BY <1>4 DEF Recreate, Fail, AfterFailure, Answered
<1>5. ASSUME NEW t \in Turns, Restart(t) \/ Restarted(t) PROVE Roles'
  BY <1>5 DEF Restart, Restarted, AfterRestart
<1>6. ASSUME NEW t \in Turns, EndTurn(t) PROVE Roles'
  BY <1>6 DEF EndTurn
<1>7. ASSUME NEW t \in Turns, NEW k \in {"route", "job"}, Admit(t, k) PROVE Roles'
  BY <1>7 DEF Admit
<1>8. ASSUME NEW t \in Turns, Resumed(t) \/ Created(t) PROVE Roles'
  <2>1. PICK s \in Ids : Gains(t, s)
    BY <1>8, SessionDoes
  <2> QED
    BY <1>8, <2>1, SessionDoes DEF Gains, Establish
<1>9. ASSUME NEW p \in Probes, StartProbe(p) \/ ProbeOver(p) PROVE Roles'
  BY <1>9 DEF StartProbe, ProbeOver, ProbeEnds
<1>10. ASSUME NEW a \in Callers, TakeLock(a) \/ Spawned(a) \/ Initialized(a) \/ InitializeFails(a)
                               \/ CancelInitialize(a)
       PROVE Roles'
  BY <1>10 DEF TakeLock, Spawned, Initialized, InitializeFails, CancelInitialize
<1>11. ASSUME NEW a \in Callers, Acquire(a) PROVE Roles'
  BY <1>11, AcquireDoes DEF Ousted, Starts, Evicts, Served, Handed, Asks, Creates, Reuses, Resumes
<1>12. ASSUME NEW a \in Callers, Evicted(a) PROVE Roles'
  BY <1>12, ReplaceDoes DEF Evicted, Ousted, Starts
<1>13. ASSUME NEW a \in Callers, Settled(a) PROVE Roles'
  <2>1. mine[a] \in Instances
    BY <1>13, <1>m DEF Settled
  <2> QED
    BY <1>13, <2>1, SettledDoes DEF Discards, Served, Handed, Asks, Creates, Reuses, Resumes,
       EntryWithout
<1>14. ASSUME NEW a \in Callers, SpawnFails(a) \/ Undone(a) \/ Discarded(a) PROVE Roles'
  BY <1>14, RaisesDoes DEF SpawnFails, Undone, Discarded, Ousted
<1>15. ASSUME NEW a \in Callers, Abandoned(a) PROVE Roles'
  BY <1>15, UnwindsDoes DEF Abandoned, Unwound, EntryWithout
<1>16. ASSUME NEW a \in Actors, Cancel(a) PROVE Roles'
  BY <1>16, CancelDoes DEF Unwound, EntryWithout
<1>17. ASSUME NEW f \in BOOLEAN, Pass(f) PROVE Roles'
  BY <1>17 DEF Pass
<1>18. CASE Retire \/ Retired
  BY <1>18 DEF Retire, Retired
<1>19. CASE BeginShutdown \/ CloseAll \/ AllClosed \/ Over
  BY <1>19 DEF BeginShutdown, CloseAll, AllClosed, Over, vars
<1> QED
  BY ONLY <1>n, <1>1, <1>2, <1>3, <1>4, <1>5, <1>6, <1>7, <1>8, <1>9, <1>10, <1>11, <1>12, <1>13,
     <1>14, <1>15, <1>16, <1>17, <1>18, <1>19 DEF Next, Child, TurnStep, GetStep

LEMMA AcquireStep == TypeOK /\ Roles /\ InHand /\ AcquireHeld /\ [Next]_vars => AcquireHeld'
<1> SUFFICES ASSUME TypeOK, Roles, InHand, AcquireHeld, [Next]_vars PROVE AcquireHeld'
  OBVIOUS
<1>n. Next \/ UNCHANGED vars
  OBVIOUS
<1>p. SupervisorTyped /\ RegistryTyped /\ pc \in [Actors -> Places]
  BY TypeParts DEF CallersTyped
<1>m. \A a \in Actors : pc[a] \in Closing \cup Starting => mine[a] \in Instances
  BY DEF InHand
<1> USE <1>p, <1>m DEF AcquireHeld, Getting, Roles, supervisor, children, registry, callers, router,
                       Goto, WorksWith, Closing, Starting, Places
<1>1. ASSUME NEW i \in Instances, Exit(i) \/ Notice(i) \/ ReportExit(i) PROVE AcquireHeld'
  BY <1>1 DEF Exit, Notice, ReportExit
<1>2. ASSUME NEW a \in Actors, Terminate(a) PROVE AcquireHeld'
  BY <1>2 DEF Terminate
<1>3. CASE CoolOff \/ Reload \/ UNCHANGED vars
  BY <1>3 DEF CoolOff, Reload, vars
<1>4. ASSUME NEW t \in Turns, Recreate(t) \/ Fail(t) \/ Answered(t)
      PROVE AcquireHeld'
  BY <1>4 DEF Recreate, Fail, AfterFailure, Answered
<1>5. ASSUME NEW t \in Turns, Restart(t) \/ Restarted(t) PROVE AcquireHeld'
  BY <1>5 DEF Restart, Restarted, AfterRestart
<1>6. ASSUME NEW t \in Turns, EndTurn(t) PROVE AcquireHeld'
  BY <1>6 DEF EndTurn
<1>7. ASSUME NEW t \in Turns, NEW k \in {"route", "job"}, Admit(t, k) PROVE AcquireHeld'
  BY <1>7 DEF Admit
<1>8. ASSUME NEW t \in Turns, Resumed(t) \/ Created(t) PROVE AcquireHeld'
  <2>1. PICK s \in Ids : Gains(t, s)
    BY <1>8, SessionDoes
  <2> QED
    BY <1>8, <2>1, SessionDoes DEF Gains, Establish
<1>9. ASSUME NEW p \in Probes, StartProbe(p) \/ ProbeOver(p) PROVE AcquireHeld'
  BY <1>9 DEF StartProbe, ProbeOver, ProbeEnds
<1>10. ASSUME NEW a \in Callers, TakeLock(a) \/ Spawned(a) \/ Initialized(a) \/ InitializeFails(a)
                               \/ CancelInitialize(a)
       PROVE AcquireHeld'
  BY <1>10 DEF TakeLock, Spawned, Initialized, InitializeFails, CancelInitialize
<1>11. ASSUME NEW a \in Callers, Acquire(a) PROVE AcquireHeld'
  BY <1>11, AcquireDoes DEF Ousted, Starts, Evicts, Served, Handed, Asks, Creates, Reuses, Resumes
<1>12. ASSUME NEW a \in Callers, Evicted(a) PROVE AcquireHeld'
  BY <1>12, ReplaceDoes DEF Evicted, Ousted, Starts
<1>13. ASSUME NEW a \in Callers, Settled(a) PROVE AcquireHeld'
  <2>1. mine[a] \in Instances
    BY <1>13, <1>m DEF Settled
  <2> QED
    BY <1>13, <2>1, SettledDoes DEF Discards, Served, Handed, Asks, Creates, Reuses, Resumes,
       EntryWithout
<1>14. ASSUME NEW a \in Callers, SpawnFails(a) \/ Undone(a) \/ Discarded(a) PROVE AcquireHeld'
  BY <1>14, RaisesDoes DEF SpawnFails, Undone, Discarded, Ousted
<1>15. ASSUME NEW a \in Callers, Abandoned(a) PROVE AcquireHeld'
  BY <1>15, UnwindsDoes DEF Abandoned, Unwound, EntryWithout
<1>16. ASSUME NEW a \in Actors, Cancel(a) PROVE AcquireHeld'
  BY <1>16, CancelDoes DEF Unwound, EntryWithout
<1>17. ASSUME NEW f \in BOOLEAN, Pass(f) PROVE AcquireHeld'
  BY <1>17 DEF Pass
<1>18. CASE Retire \/ Retired
  BY <1>18 DEF Retire, Retired
<1>19. CASE BeginShutdown \/ CloseAll \/ AllClosed \/ Over
  BY <1>19 DEF BeginShutdown, CloseAll, AllClosed, Over, vars
<1> QED
  BY ONLY <1>n, <1>1, <1>2, <1>3, <1>4, <1>5, <1>6, <1>7, <1>8, <1>9, <1>10, <1>11, <1>12, <1>13,
     <1>14, <1>15, <1>16, <1>17, <1>18, <1>19 DEF Next, Child, TurnStep, GetStep

LEMMA RegisteredStep ==
  TypeOK /\ Roles /\ InHand /\ AcquireHeld /\ Registered /\ [Next]_vars => Registered'
<1> SUFFICES ASSUME TypeOK, Roles, InHand, AcquireHeld, Registered, [Next]_vars PROVE Registered'
  OBVIOUS
<1>n. Next \/ UNCHANGED vars
  OBVIOUS
<1>p. SupervisorTyped /\ RegistryTyped /\ pc \in [Actors -> Places] /\ mine \in [Actors -> Instances \cup {None}]
  BY TypeParts DEF CallersTyped
<1>m. \A a \in Actors : pc[a] \in Closing \cup Starting => mine[a] \in Instances
  BY DEF InHand
<1> USE <1>p, <1>m DEF Registered, EntryWithout, Retirable, ProbesInflight, AcquireHeld, Getting,
   Roles, supervisor, children, registry, callers, router,
                       Goto, WorksWith, Closing, Starting, Places
<1>1. ASSUME NEW i \in Instances, Exit(i) \/ Notice(i) \/ ReportExit(i) PROVE Registered'
  BY <1>1 DEF Exit, Notice, ReportExit
<1>2. ASSUME NEW a \in Actors, Terminate(a) PROVE Registered'
  BY <1>2 DEF Terminate
<1>3. CASE CoolOff \/ Reload \/ UNCHANGED vars
  BY <1>3 DEF CoolOff, Reload, vars
<1>4. ASSUME NEW t \in Turns, Recreate(t) \/ Fail(t) \/ Answered(t)
      PROVE Registered'
  BY <1>4 DEF Recreate, Fail, AfterFailure, Answered
<1>5. ASSUME NEW t \in Turns, Restart(t) \/ Restarted(t) PROVE Registered'
  BY <1>5 DEF Restart, Restarted, AfterRestart
<1>6. ASSUME NEW t \in Turns, EndTurn(t) PROVE Registered'
  BY <1>6 DEF EndTurn
<1>7. ASSUME NEW t \in Turns, NEW k \in {"route", "job"}, Admit(t, k) PROVE Registered'
  BY <1>7 DEF Admit
<1>8. ASSUME NEW t \in Turns, Resumed(t) \/ Created(t) PROVE Registered'
  <2>1. PICK s \in Ids : Gains(t, s)
    BY <1>8, SessionDoes
  <2> QED
    BY <1>8, <2>1, SessionDoes DEF Gains, Establish
<1>9. ASSUME NEW p \in Probes, StartProbe(p) \/ ProbeOver(p) PROVE Registered'
  BY <1>9 DEF StartProbe, ProbeOver, ProbeEnds
<1>10. ASSUME NEW a \in Callers, TakeLock(a) \/ Spawned(a) \/ Initialized(a) \/ InitializeFails(a)
                               \/ CancelInitialize(a)
       PROVE Registered'
  BY <1>10 DEF TakeLock, Spawned, Initialized, InitializeFails, CancelInitialize
<1>11. ASSUME NEW a \in Callers, Acquire(a) PROVE Registered'
  BY <1>11, AcquireDoes DEF Ousted, Starts, Evicts, Served, Handed, Asks, Creates, Reuses, Resumes
<1>12. ASSUME NEW a \in Callers, Evicted(a) PROVE Registered'
  BY <1>12, ReplaceDoes DEF Evicted, Ousted, Starts
<1>13. ASSUME NEW a \in Callers, Settled(a) PROVE Registered'
  <2>1. mine[a] \in Instances
    BY <1>13, <1>m DEF Settled
  <2> QED
    BY <1>13, <2>1, SettledDoes DEF Discards, Served, Handed, Asks, Creates, Reuses, Resumes,
       EntryWithout
<1>14. ASSUME NEW a \in Callers, SpawnFails(a) \/ Undone(a) \/ Discarded(a) PROVE Registered'
  BY <1>14, RaisesDoes DEF SpawnFails, Undone, Discarded, Ousted
<1>15. ASSUME NEW a \in Callers, Abandoned(a) PROVE Registered'
  BY <1>15, UnwindsDoes DEF Abandoned, Unwound, EntryWithout
<1>16. ASSUME NEW a \in Actors, Cancel(a) PROVE Registered'
  BY <1>16, CancelDoes DEF Unwound, EntryWithout
<1>17. ASSUME NEW f \in BOOLEAN, Pass(f) PROVE Registered'
  BY <1>17 DEF Pass
<1>18. CASE Retire \/ Retired
  BY <1>18 DEF Retire, Retired
<1>19. CASE BeginShutdown \/ CloseAll \/ AllClosed \/ Over
  BY <1>19 DEF BeginShutdown, CloseAll, AllClosed, Over, vars
<1> QED
  BY ONLY <1>n, <1>1, <1>2, <1>3, <1>4, <1>5, <1>6, <1>7, <1>8, <1>9, <1>10, <1>11, <1>12, <1>13,
     <1>14, <1>15, <1>16, <1>17, <1>18, <1>19 DEF Next, Child, TurnStep, GetStep

LEMMA InHandStep == TypeOK /\ Roles /\ InHand /\ [Next]_vars => InHand'
<1> SUFFICES ASSUME TypeOK, Roles, InHand, [Next]_vars PROVE InHand'
  OBVIOUS
<1>n. Next \/ UNCHANGED vars
  OBVIOUS
<1>p. SupervisorTyped /\ RegistryTyped /\ pc \in [Actors -> Places] /\ mine \in [Actors -> Instances \cup {None}]
  BY TypeParts DEF CallersTyped
<1>m. \A a \in Actors : pc[a] \in Closing \cup Starting => mine[a] \in Instances
  BY DEF InHand
<1> USE <1>p, <1>m DEF InHand, SupervisorTyped, RegistryTyped, Sessions, Roles, supervisor,
   children, registry, callers, router,
                       Goto, WorksWith, Closing, Starting, Places
<1>1. ASSUME NEW i \in Instances, Exit(i) \/ Notice(i) \/ ReportExit(i) PROVE InHand'
  BY <1>1 DEF Exit, Notice, ReportExit
<1>2. ASSUME NEW a \in Actors, Terminate(a) PROVE InHand'
  BY <1>2 DEF Terminate
<1>3. CASE CoolOff \/ Reload \/ UNCHANGED vars
  BY <1>3 DEF CoolOff, Reload, vars
<1>4. ASSUME NEW t \in Turns, Recreate(t) \/ Fail(t) \/ Answered(t)
      PROVE InHand'
  BY <1>4 DEF Recreate, Fail, AfterFailure, Answered
<1>5. ASSUME NEW t \in Turns, Restart(t) \/ Restarted(t) PROVE InHand'
  BY <1>5 DEF Restart, Restarted, AfterRestart
<1>6. ASSUME NEW t \in Turns, EndTurn(t) PROVE InHand'
  BY <1>6 DEF EndTurn
<1>7. ASSUME NEW t \in Turns, NEW k \in {"route", "job"}, Admit(t, k) PROVE InHand'
  BY <1>7 DEF Admit
<1>8. ASSUME NEW t \in Turns, Resumed(t) \/ Created(t) PROVE InHand'
  <2>1. PICK s \in Ids : Gains(t, s)
    BY <1>8, SessionDoes
  <2> QED
    BY <1>8, <2>1, SessionDoes DEF Gains, Establish
<1>9. ASSUME NEW p \in Probes, StartProbe(p) \/ ProbeOver(p) PROVE InHand'
  BY <1>9 DEF StartProbe, ProbeOver, ProbeEnds
<1>10. ASSUME NEW a \in Callers, TakeLock(a) \/ Spawned(a) \/ Initialized(a) \/ InitializeFails(a)
                               \/ CancelInitialize(a)
       PROVE InHand'
  BY <1>10 DEF TakeLock, Spawned, Initialized, InitializeFails, CancelInitialize
<1>11. ASSUME NEW a \in Callers, Acquire(a) PROVE InHand'
  BY <1>11, AcquireDoes DEF Ousted, Starts, Evicts, Served, Handed, Asks, Creates, Reuses, Resumes
<1>12. ASSUME NEW a \in Callers, Evicted(a) PROVE InHand'
  BY <1>12, ReplaceDoes DEF Evicted, Ousted, Starts
<1>13. ASSUME NEW a \in Callers, Settled(a) PROVE InHand'
  <2>1. mine[a] \in Instances
    BY <1>13, <1>m DEF Settled
  <2> QED
    BY <1>13, <2>1, SettledDoes DEF Discards, Served, Handed, Asks, Creates, Reuses, Resumes,
       EntryWithout
<1>14. ASSUME NEW a \in Callers, SpawnFails(a) \/ Undone(a) \/ Discarded(a) PROVE InHand'
  BY <1>14, RaisesDoes DEF SpawnFails, Undone, Discarded, Ousted
<1>15. ASSUME NEW a \in Callers, Abandoned(a) PROVE InHand'
  BY <1>15, UnwindsDoes DEF Abandoned, Unwound, EntryWithout
<1>16. ASSUME NEW a \in Actors, Cancel(a) PROVE InHand'
  BY <1>16, CancelDoes DEF Unwound, EntryWithout
<1>17. ASSUME NEW f \in BOOLEAN, Pass(f) PROVE InHand'
  BY <1>17 DEF Pass
<1>18. CASE Retire \/ Retired
  BY <1>18 DEF Retire, Retired
<1>19. CASE BeginShutdown \/ CloseAll \/ AllClosed \/ Over
  BY <1>19 DEF BeginShutdown, CloseAll, AllClosed, Over, vars
<1> QED
  BY ONLY <1>n, <1>1, <1>2, <1>3, <1>4, <1>5, <1>6, <1>7, <1>8, <1>9, <1>10, <1>11, <1>12, <1>13,
     <1>14, <1>15, <1>16, <1>17, <1>18, <1>19 DEF Next, Child, TurnStep, GetStep

LEMMA ShelterStep ==
  TypeOK /\ Roles /\ InHand /\ AcquireHeld /\ Registered /\ Sheltered /\ [Next]_vars => Sheltered'
<1> SUFFICES ASSUME TypeOK, Roles, InHand, AcquireHeld, Registered, Sheltered, [Next]_vars
             PROVE  Sheltered'
  OBVIOUS
<1>n. Next \/ UNCHANGED vars
  OBVIOUS
<1>p. /\ SupervisorTyped /\ RegistryTyped /\ pc \in [Actors -> Places]
      /\ mine \in [Actors -> Instances \cup {None}]
      /\ child \in [Instances -> {"none", "spawning", "alive", "exited"}]
  BY TypeParts DEF CallersTyped, ChildrenTyped
<1>m. \A a \in Actors : pc[a] \in Closing \cup Starting => mine[a] \in Instances
  BY DEF InHand
<1> USE <1>p, <1>m DEF Sheltered, NoOrphan, Registered, AcquireHeld, Getting, Roles,
   SupervisorTyped,
         EntryWithout, Closed, Closable, Gone,
         supervisor, children, registry, callers, router, Goto, WorksWith, Closing, Starting
<1>1. ASSUME NEW i \in Instances, Exit(i) \/ Notice(i) \/ ReportExit(i) PROVE Sheltered'
  BY <1>1 DEF Exit, Notice, ReportExit
<1>2. ASSUME NEW a \in Actors, Terminate(a) PROVE Sheltered'
  BY <1>2 DEF Terminate
<1>3. CASE CoolOff \/ Reload \/ UNCHANGED vars
  BY <1>3 DEF CoolOff, Reload, vars
<1>4. ASSUME NEW t \in Turns, Recreate(t) \/ Fail(t) \/ Answered(t)
      PROVE Sheltered'
  BY <1>4 DEF Recreate, Fail, AfterFailure, Answered
<1>5. ASSUME NEW t \in Turns, Restart(t) \/ Restarted(t) PROVE Sheltered'
  BY <1>5 DEF Restart, Restarted, AfterRestart
<1>6. ASSUME NEW t \in Turns, EndTurn(t) PROVE Sheltered'
  BY <1>6 DEF EndTurn
<1>7. ASSUME NEW t \in Turns, NEW k \in {"route", "job"}, Admit(t, k) PROVE Sheltered'
  BY <1>7 DEF Admit
<1>8. ASSUME NEW t \in Turns, Resumed(t) \/ Created(t) PROVE Sheltered'
  <2>1. PICK s \in Ids : Gains(t, s)
    BY <1>8, SessionDoes
  <2>2. \E w \in {"prompting", "ending"} : pc' = [pc EXCEPT ![t] = w]
    BY <2>1 DEF Gains, Establish
  <2>3. /\ pc[t] \in {"resuming", "creating"}
        /\ UNCHANGED <<entry, child, lock, mine, shutting>>
    BY <1>8, SessionDoes
  <2> QED
    BY <2>2, <2>3
<1>9. ASSUME NEW p \in Probes, StartProbe(p) \/ ProbeOver(p) PROVE Sheltered'
  BY <1>9 DEF StartProbe, ProbeOver, ProbeEnds
<1>10. ASSUME NEW a \in Callers, TakeLock(a) \/ Spawned(a) \/ Initialized(a) \/ InitializeFails(a)
                               \/ CancelInitialize(a)
       PROVE Sheltered'
  BY <1>10 DEF TakeLock, Spawned, Initialized, InitializeFails, CancelInitialize
<1>11. ASSUME NEW a \in Callers, Acquire(a) PROVE Sheltered'
  BY <1>11, AcquireDoes DEF Ousted, Starts, Evicts, Served, Handed, Asks, Creates, Reuses, Resumes
<1>12. ASSUME NEW a \in Callers, Evicted(a) PROVE Sheltered'
  BY <1>12, ReplaceDoes DEF Evicted, Ousted, Starts
<1>13. ASSUME NEW a \in Callers, Settled(a) PROVE Sheltered'
  <2>1. mine[a] \in Instances
    BY <1>13, <1>m DEF Settled
  <2> QED
    BY <1>13, <2>1, SettledDoes DEF Discards, Served, Handed, Asks, Creates, Reuses, Resumes,
       EntryWithout
<1>14. ASSUME NEW a \in Callers, SpawnFails(a) \/ Undone(a) \/ Discarded(a) PROVE Sheltered'
  BY <1>14, RaisesDoes DEF SpawnFails, Undone, Discarded, Ousted
<1>15. ASSUME NEW a \in Callers, Abandoned(a) PROVE Sheltered'
  BY <1>15, UnwindsDoes DEF Abandoned, Unwound, EntryWithout
<1>16. ASSUME NEW a \in Actors, Cancel(a) PROVE Sheltered'
  BY <1>16, CancelDoes DEF Unwound, EntryWithout
<1>17. ASSUME NEW f \in BOOLEAN, Pass(f) PROVE Sheltered'
  BY <1>17 DEF Pass
<1>18. CASE Retire \/ Retired
  BY <1>18 DEF Retire, Retired
<1>19. CASE BeginShutdown \/ CloseAll \/ AllClosed \/ Over
  BY <1>19 DEF BeginShutdown, CloseAll, AllClosed, Over, vars
<1> QED
  BY ONLY <1>n, <1>1, <1>2, <1>3, <1>4, <1>5, <1>6, <1>7, <1>8, <1>9, <1>10, <1>11, <1>12, <1>13,
     <1>14, <1>15, <1>16, <1>17, <1>18, <1>19 DEF Next, Child, TurnStep, GetStep

-----------------------------------------------------------------------------
(* Sessions and their processes *)

(* A policy is installed only where the process has the session. *)
LEMMA InstalledWhere ==
  ASSUME ChildrenTyped, NEW x \in Sessions, NEW p \in Policies \ {"unknown"},
         NEW i \in Instances, NEW s \in Ids
  PROVE  /\ Installed(x, p)[i][s] = "unknown" <=> policy[i][s] = "unknown"
         /\ Installed(x, p)[i][s] \in {policy[i][s], p}
         /\ Installed(x, p)[i][s] # policy[i][s] => x = [inst |-> i, id |-> s]
         /\ x = [inst |-> i, id |-> s] => Installed(x, p)[i][s] \in {p, "unknown"}
  BY DEF ChildrenTyped, Installed, Sessions, Policies

KeptNext(y) ==
    /\ child'[y.inst] # "spawning"
    /\ child'[y.inst] = "alive" => policy'[y.inst][y.id] # "unknown"

Referred(y) == y = cached \/ \E t \in Turns : y = sess[t]

(* References that were there are kept, and at most x is new. *)
LEMMA KnownKept ==
  ASSUME RegistryTyped, RegistryTyped', Known, NEW x, x = None \/ KeptNext(x),
         \A y \in Sessions : Referred(y) /\ Kept(y) => KeptNext(y),
         cached' \in {cached, x, None},
         \A t \in Turns : sess'[t] \in {sess[t], cached, x, None}
  PROVE  Known'
<1>1. ASSUME NEW y, y # None, Referred(y) PROVE KeptNext(y)
  <2>1. y \in Sessions /\ Kept(y)
    BY <1>1 DEF Referred, RegistryTyped, Known
  <2> QED
    BY <1>1, <2>1
<1>2. cached' # None => KeptNext(cached')
  BY <1>1 DEF Referred
<1>3. ASSUME NEW t \in Turns, sess'[t] # None PROVE KeptNext(sess'[t])
  BY <1>1, <1>3 DEF Referred
<1> QED
  BY <1>2, <1>3 DEF Known, Kept, KeptNext

LEMMA KnownStep ==
  TypeOK /\ TypeOK' /\ Roles /\ InHand /\ Sheltered /\ Known /\ [Next]_vars => Known'
<1> SUFFICES ASSUME TypeOK, TypeOK', Roles, InHand, Sheltered, Known, [Next]_vars PROVE Known'
  OBVIOUS
<1>n. Next \/ UNCHANGED vars
  OBVIOUS
<1>p. SupervisorTyped /\ ChildrenTyped /\ RegistryTyped /\ CallersTyped /\ RegistryTyped'
  BY TypeParts, TypePartsNext
<1>m. \A a \in Actors : pc[a] \in Closing \cup Starting => mine[a] \in Instances
  BY DEF InHand
<1>k. None \notin Instances /\ \A y \in Sessions : y.inst \in Instances /\ y.id \in Ids
  BY DEF Sessions
<1> USE <1>p, <1>k DEF supervisor, children, registry, callers, router, Goto, WorksWith
(* Steps that have no part in it. *)
<1>1. ASSUME UNCHANGED <<child, policy, registry>> PROVE Known'
  BY <1>1 DEF Known, Kept
<1>2. CASE \/ CoolOff \/ Reload \/ BeginShutdown \/ CloseAll \/ AllClosed \/ Over \/ Retire \/ Retired
           \/ UNCHANGED vars
  BY <1>1, <1>2 DEF CoolOff, Reload, BeginShutdown, CloseAll, AllClosed, Over, Retire, Retired, vars
<1>3. ASSUME NEW t \in Turns,
             Recreate(t) \/ Fail(t) \/ Answered(t) \/ Restart(t) \/ Restarted(t)
      PROVE  Known'
  BY <1>1, <1>3 DEF Recreate, Fail, Answered, Restart, Restarted
<1>4. ASSUME NEW t \in Turns, NEW k \in {"route", "job"}, Admit(t, k) PROVE Known'
  BY <1>1, <1>4 DEF Admit
<1>5. ASSUME NEW p \in Probes, StartProbe(p) \/ ProbeOver(p) PROVE Known'
  BY <1>1, <1>5 DEF StartProbe, ProbeOver
<1>6. ASSUME NEW a \in Callers,
             \/ TakeLock(a) \/ Initialized(a) \/ InitializeFails(a) \/ CancelInitialize(a)
             \/ Undone(a) \/ Discarded(a) \/ Abandoned(a)
      PROVE  Known'
  BY <1>1, <1>6 DEF TakeLock, Initialized, InitializeFails, CancelInitialize, Undone, Discarded,
       Abandoned, Raises
(* The subprocess. *)
<1>7. ASSUME NEW i, Gone(i), UNCHANGED registry PROVE Known'
  <2>1. ASSUME NEW y \in Sessions, Kept(y) PROVE KeptNext(y)
    BY <1>7, <2>1 DEF Gone, Kept, KeptNext, ChildrenTyped
  <2> QED
    BY <1>7, <2>1, KnownKept
<1>8. ASSUME NEW i \in Instances, Exit(i) \/ Notice(i) \/ ReportExit(i) PROVE Known'
  <2>1. CASE Exit(i)
    <3>1. ASSUME NEW y \in Sessions, Kept(y) PROVE KeptNext(y)
      BY <2>1, <3>1 DEF Exit, Kept, KeptNext, ChildrenTyped
    <3> QED
      BY <2>1, <3>1, KnownKept DEF Exit
  <2> QED
    BY <1>1, <1>7, <1>8, <2>1 DEF Notice, ReportExit
<1>9. ASSUME NEW a \in Actors, Terminate(a) \/ Cancel(a) PROVE Known'
  BY <1>1, <1>7, <1>9 DEF Terminate, Cancel
(* A start: nobody refers to the name, and nobody does until it is alive.   *)
<1>10. ASSUME NEW a \in Callers, NEW i \in Instances, Starts(a, i) PROVE Known'
  <2>1. ASSUME NEW y \in Sessions, Referred(y), Kept(y) PROVE KeptNext(y)
    <3>1. y.inst # i
      BY <1>10, <2>1 DEF Starts, Forgotten, Referred
    <3> QED
      BY <1>10, <2>1, <3>1 DEF Starts, Kept, KeptNext, ChildrenTyped
  <2> QED
    BY <1>10, <2>1, KnownKept DEF Starts
<1>11. ASSUME NEW a \in Callers, Spawned(a) \/ SpawnFails(a) PROVE Known'
  <2>1. mine[a] \in Instances /\ child[mine[a]] = "spawning"
    BY <1>11, <1>m DEF Spawned, SpawnFails, Sheltered, Starting
  <2>2. ASSUME NEW y \in Sessions, Kept(y) PROVE KeptNext(y)
    BY <1>11, <2>1, <2>2 DEF Spawned, SpawnFails, Kept, KeptNext, ChildrenTyped
  <2> QED
    BY <1>11, <2>2, KnownKept DEF Spawned, SpawnFails, Raises
(* Sessions. *)
<1>12. ASSUME NEW x \in Sessions, NEW p \in Policies \ {"unknown"}, policy' = Installed(x, p),
              child' = child, NEW y \in Sessions, Kept(y)
       PROVE  KeptNext(y)
  BY <1>12, InstalledWhere DEF Kept, KeptNext
<1>13. ASSUME NEW a \in Callers, NEW i \in Instances, Served(a, i), child' = child PROVE Known'
  <2>1. ASSUME NEW y \in Sessions, Kept(y) PROVE KeptNext(y)
    <3>1. CASE policy' = policy
      BY <1>13, <2>1, <3>1 DEF Kept, KeptNext
    <3>2. CASE policy' # policy
      <4>1. cached \in Sessions
        BY <1>13, <3>2 DEF Served, Asks, Creates, Reuses, Resumes, RegistryTyped
      <4>2. \E p \in Policies \ {"unknown"} : policy' = Installed(cached, p)
        BY <1>13, <3>2 DEF Served, Asks, Creates, Reuses, Resumes, Released, Policies, CallersTyped
      <4> QED
        BY <1>12, <1>13, <2>1, <4>1, <4>2
    <3> QED
      BY <3>1, <3>2
  <2>2. cached' \in {cached, None} /\ \A t \in Turns : sess'[t] \in {sess[t], cached}
    BY <1>13 DEF Served, Asks, Creates, Reuses, Resumes, RegistryTyped
  <2> QED
    BY <2>1, <2>2, KnownKept
<1>14. ASSUME NEW t \in Turns, Resumed(t) \/ Created(t) PROVE Known'
  <2>1. mine[t] \in Instances /\ child[mine[t]] = "alive" /\ child' = child
    BY <1>14, SessionDoes
  <2>2. PICK s \in Ids : Gains(t, s)
    BY <1>14, SessionDoes
  <2> DEFINE x == [inst |-> mine[t], id |-> s]
  <2>3. PolicyFor(t) # "unknown"
    BY DEF PolicyFor, ReplacementPolicy, CallersTyped
  <2>4. x \in Sessions /\ KeptNext(x)
    BY <2>1, <2>2, <2>3 DEF Gains, KeptNext, ChildrenTyped, Sessions
  <2>5. ASSUME NEW y \in Sessions, Referred(y), Kept(y) PROVE KeptNext(y)
    <3>1. CASE policy' = [policy EXCEPT ![mine[t]][s] = PolicyFor(t)]
      BY <2>1, <2>3, <2>5, <3>1 DEF Kept, KeptNext, ChildrenTyped
    <3>2. CASE /\ s \in NewIds
               /\ policy' = [i \in Instances |-> [policy[i] EXCEPT ![s] =
                                IF i = mine[t] THEN PolicyFor(t) ELSE "unknown"]]
      <4>1. y.id # s
        BY <2>5, <3>2 DEF NewIds, Referred
      <4>2. policy'[y.inst][y.id] = policy[y.inst][y.id]
        BY <3>2, <4>1 DEF ChildrenTyped
      <4> QED
        BY <2>1, <2>5, <4>2 DEF Kept, KeptNext
    <3> QED
      BY <2>2, <3>1, <3>2 DEF Gains
  <2>6. cached' \in {x, None} /\ \A u \in Turns : sess'[u] \in {sess[u], x}
    BY <2>2 DEF Gains, Establish, RegistryTyped
  <2> HIDE DEF x
  <2> QED
    BY <2>4, <2>5, <2>6, KnownKept
<1>15. ASSUME NEW t \in Turns, EndTurn(t) PROVE Known'
  <2>1. policy' = policy \/ (sess[t] \in Sessions /\ \E p \in Policies \ {"unknown"} : policy' = Installed(sess[t], p))
    BY <1>15 DEF EndTurn, Released, Policies, RegistryTyped
  <2>2. child' = child /\ cached' = cached /\ \A u \in Turns : sess'[u] \in {sess[u], None}
    BY <1>15 DEF EndTurn, RegistryTyped
  <2>3. ASSUME NEW y \in Sessions, Kept(y) PROVE KeptNext(y)
    BY <1>12, <2>1, <2>2, <2>3 DEF Kept, KeptNext
  <2> QED
    BY <2>2, <2>3, KnownKept
<1>16. ASSUME NEW f \in BOOLEAN, Pass(f) PROVE Known'
  <2>1. policy' = policy \/ (cached \in Sessions /\ \E p \in Policies \ {"unknown"} : policy' = Installed(cached, p))
    BY <1>16 DEF Pass, Released, Policies, RegistryTyped
  <2>2. child' = child /\ cached' \in {cached, None} /\ sess' = sess
    BY <1>16 DEF Pass
  <2>3. ASSUME NEW y \in Sessions, Kept(y) PROVE KeptNext(y)
    BY <1>12, <2>1, <2>2, <2>3 DEF Kept, KeptNext
  <2> QED
    BY <2>2, <2>3, KnownKept
(* get_profile. *)
<1>17. ASSUME NEW a \in Callers, Acquire(a) \/ Evicted(a) \/ Settled(a) PROVE Known'
  <2>1. CASE Ousted(a) /\ UNCHANGED children
    BY <1>1, <2>1 DEF Ousted
  <2>2. CASE Evicts(a) \/ Discards(a)
    BY <1>1, <2>2 DEF Evicts, Discards
  <2>3. CASE Acquire(a)
    BY <1>10, <1>13, <2>1, <2>2, <2>3, AcquireDoes
  <2>4. CASE Evicted(a)
    BY <1>10, <2>1, <2>4, ReplaceDoes DEF Evicted
  <2>5. CASE Settled(a)
    BY <1>13, <1>m, <2>2, <2>5, SettledDoes DEF Settled, Starting
  <2> QED
    BY <1>17, <2>3, <2>4, <2>5
<1> QED
  BY ONLY <1>n, <1>2, <1>3, <1>4, <1>5, <1>6, <1>8, <1>9, <1>11, <1>14, <1>15, <1>16, <1>17
     DEF Next, Child, TurnStep, GetStep

-----------------------------------------------------------------------------
(* Policies *)

(* A step that only takes policies away. *)
LEMMA PolicyKept ==
  ASSUME RegistryTyped, InHand, Jobs, Answering,
         \A i \in Instances, s \in Ids : policy'[i][s] \in {policy[i][s], "none", "unknown"},
         sess' = sess, \A t \in Turns : sess[t] # None => kind'[t] = kind[t],
         \A t \in Turns : lock = t /\ sess[t] # None => lock' = t,
         \A t \in Turns : pc'[t] = "prompting" => pc[t] = "prompting"
  PROVE  Jobs' /\ Answering'
<1>1. ASSUME NEW i \in Instances, NEW s \in Ids, policy'[i][s] = "job"
      PROVE  \E t \in Turns : lock' = t /\ kind'[t] = "job" /\ sess'[t] = [inst |-> i, id |-> s]
  <2>1. PICK t \in Turns : lock = t /\ kind[t] = "job" /\ sess[t] = [inst |-> i, id |-> s]
    BY <1>1 DEF Jobs
  <2>2. sess[t] # None
    BY <2>1 DEF Sessions
  <2> QED
    BY <2>1, <2>2
<1>2. ASSUME NEW t \in Turns, pc'[t] = "prompting"
      PROVE  policy'[sess[t].inst][sess[t].id] \in {kind'[t], "none", "unknown"}
  <2>1. sess[t] # None /\ sess[t].inst \in Instances /\ sess[t].id \in Ids
    BY <1>2 DEF InHand, RegistryTyped, Sessions
  <2>2. policy[sess[t].inst][sess[t].id] \in {kind[t], "none", "unknown"} /\ kind'[t] = kind[t]
    BY <1>2, <2>1 DEF Answering
  <2> QED
    BY <2>1, <2>2
<1> QED
  BY <1>1, <1>2 DEF Jobs, Answering

(* A turn that gets the session x under its own policy, or under the one of *)
(* the route if it had a session before.                                    *)
LEMMA PolicyGained ==
  ASSUME TypeOK, Roles, InHand, Jobs, NEW t \in Turns, lock = t, NEW x \in Sessions, kind' = kind, lock' = lock,
         sess' = [sess EXCEPT ![t] = IF @ = None THEN x ELSE @],
         \A u \in Turns \ {t} : pc'[u] = pc[u],
         pc'[t] = "prompting" => sess[t] = None,
         \A i \in Instances, s \in Ids :
            \/ policy'[i][s] \in {policy[i][s], "none", "unknown"} /\ x # [inst |-> i, id |-> s]
            \/ policy'[i][s] \in {PolicyFor(t), "unknown"} /\ x = [inst |-> i, id |-> s]
  PROVE  Jobs' /\ Answering'
<1>p. RegistryTyped /\ CallersTyped /\ ChildrenTyped
  BY TypeParts
<1> USE <1>p
<1>1. ASSUME NEW i \in Instances, NEW s \in Ids, policy'[i][s] = "job"
      PROVE  kind[t] = "job" /\ sess'[t] = [inst |-> i, id |-> s]
  <2>1. CASE policy[i][s] = "job" /\ x # [inst |-> i, id |-> s]
    <3>1. kind[t] = "job" /\ sess[t] = [inst |-> i, id |-> s]
      BY <2>1 DEF Jobs
    <3>2. sess[t] # None
      BY <3>1 DEF Sessions
    <3> QED
      BY <3>1, <3>2 DEF RegistryTyped
  <2>2. CASE PolicyFor(t) = "job" /\ x = [inst |-> i, id |-> s]
    <3>1. sess[t] = None /\ kind[t] = "job"
      BY <2>2 DEF PolicyFor, ReplacementPolicy
    <3> QED
      BY <2>2, <3>1 DEF RegistryTyped
  <2> QED
    BY <1>1, <2>1, <2>2
<1>2. ASSUME NEW u \in Turns, pc'[u] = "prompting"
      PROVE  policy'[sess'[u].inst][sess'[u].id] \in {kind'[u], "none", "unknown"}
  <2>1. u = t
    BY <1>2 DEF Roles
  <2>2. sess[t] = None /\ PolicyFor(t) = kind[t] /\ sess'[t] = x
    BY <1>2, <2>1 DEF PolicyFor, RegistryTyped
  <2>3. x = [inst |-> x.inst, id |-> x.id] /\ x.inst \in Instances /\ x.id \in Ids
    BY DEF Sessions
  <2> QED
    BY <2>1, <2>2, <2>3
<1> QED
  BY <1>1, <1>2 DEF Jobs, Answering

LEMMA PolicyStep ==
  TypeOK /\ Roles /\ InHand /\ Jobs /\ Answering /\ [Next]_vars => Jobs' /\ Answering'
<1> SUFFICES ASSUME TypeOK, Roles, InHand, Jobs, Answering, [Next]_vars PROVE Jobs' /\ Answering'
  OBVIOUS
<1>n. Next \/ UNCHANGED vars
  OBVIOUS
<1>p. SupervisorTyped /\ ChildrenTyped /\ RegistryTyped /\ CallersTyped
  BY TypeParts
<1>m. \A a \in Actors : pc[a] \in Closing \cup Starting => mine[a] \in Instances
  BY DEF InHand
<1>q. pc \in [Actors -> Places] /\ kind \in [Turns -> {"route", "job"}]
  BY <1>p DEF CallersTyped
<1>l. \A a \in Callers : pc[a] \notin {"idle", "queued", "probing", "ending"} => lock = a
  BY DEF Roles
<1> USE <1>p, <1>q DEF supervisor, children, registry, callers, router, Goto, WorksWith
(* Steps that leave the policies alone. *)
<1>1. ASSUME UNCHANGED <<policy, sess>>, \A t \in Turns : sess[t] # None => kind'[t] = kind[t],
             \A t \in Turns : lock = t => lock' = t,
             \A t \in Turns : pc'[t] = "prompting" => pc[t] = "prompting"
      PROVE  Jobs' /\ Answering'
  BY <1>1, PolicyKept
<1>2. CASE \/ CoolOff \/ Reload \/ BeginShutdown \/ CloseAll \/ AllClosed \/ Over \/ Retire \/ Retired
           \/ UNCHANGED vars
  BY <1>1, <1>2 DEF CoolOff, Reload, BeginShutdown, CloseAll, AllClosed, Over, Retire, Retired, vars
<1>3. ASSUME NEW t \in Turns,
             Recreate(t) \/ Fail(t) \/ Answered(t) \/ Restart(t) \/ Restarted(t)
      PROVE  Jobs' /\ Answering'
  BY <1>1, <1>3 DEF Recreate, Fail, AfterFailure, Answered, Restart, Restarted, AfterRestart
<1>4. ASSUME NEW t \in Turns, NEW k \in {"route", "job"}, Admit(t, k) PROVE Jobs' /\ Answering'
  <2>1. sess[t] = None
    BY <1>4 DEF Admit, InHand
  <2> QED
    BY <1>1, <1>4, <2>1 DEF Admit
<1>5. ASSUME NEW p \in Probes, StartProbe(p) \/ ProbeOver(p) PROVE Jobs' /\ Answering'
  BY <1>1, <1>5 DEF StartProbe, ProbeOver, ProbeEnds
<1>6. ASSUME NEW a \in Callers,
             \/ TakeLock(a) \/ Spawned(a) \/ Initialized(a) \/ InitializeFails(a)
             \/ CancelInitialize(a)
      PROVE  Jobs' /\ Answering'
  BY <1>1, <1>6 DEF TakeLock, Spawned, Initialized, InitializeFails, CancelInitialize
<1>7. ASSUME NEW a \in Callers, Ousted(a), policy' = policy PROVE Jobs' /\ Answering'
  BY <1>1, <1>7 DEF Ousted
<1>8. ASSUME NEW a \in Callers, SpawnFails(a) \/ Undone(a) \/ Discarded(a)
      PROVE  Jobs' /\ Answering'
  BY <1>7, <1>8, RaisesDoes DEF SpawnFails, Undone, Discarded
<1>9. ASSUME NEW a \in Callers, Abandoned(a) PROVE Jobs' /\ Answering'
  <2>1. Unwound(a) /\ UNCHANGED <<children, registry>>
    BY <1>9, UnwindsDoes DEF Abandoned
  <2> QED
    BY <1>1, <2>1 DEF Unwound
(* Nobody has a session of a process that is gone. *)
<1>10. ASSUME NEW i, Gone(i), NEW j \in Instances, NEW s \in Ids
       PROVE  policy'[j][s] \in {policy[j][s], "unknown"}
  BY <1>10 DEF Gone, NoSessions, ChildrenTyped
<1>11. ASSUME NEW i \in Instances, Exit(i) \/ Notice(i) \/ ReportExit(i) PROVE Jobs' /\ Answering'
  <2>1. CASE Exit(i) \/ Notice(i)
    BY <1>1, <2>1 DEF Exit, Notice
  <2>2. CASE ReportExit(i)
    BY <1>10, <2>2, PolicyKept DEF ReportExit
  <2> QED
    BY <1>11, <2>1, <2>2
<1>12. ASSUME NEW a \in Actors, Terminate(a) PROVE Jobs' /\ Answering'
  BY <1>10, <1>12, PolicyKept DEF Terminate
<1>13. ASSUME NEW a \in Actors, Cancel(a) PROVE Jobs' /\ Answering'
  <2>1. \A j \in Instances, s \in Ids : policy'[j][s] \in {policy[j][s], "unknown"}
    BY <1>10, <1>13, CancelDoes
  <2>2. Unwound(a) /\ sess' = sess
    BY <1>13, CancelDoes
  <2>3. /\ \A t \in Turns : lock = t => lock' = t
        /\ \A t \in Turns : pc'[t] = "prompting" => pc[t] = "prompting"
        /\ kind' = kind
    BY <2>2 DEF Unwound
  <2> QED
    BY <2>1, <2>2, <2>3, PolicyKept
(* A release, and the end of a turn. *)
<1>14. ASSUME NEW x \in Sessions, policy' = Released(x), NEW j \in Instances, NEW s \in Ids
       PROVE  policy'[j][s] \in {policy[j][s], "none"}
  BY <1>14, InstalledWhere DEF Released, Policies
<1>15. ASSUME NEW f \in BOOLEAN, Pass(f) PROVE Jobs' /\ Answering'
  <2>1. policy' = policy \/ (cached \in Sessions /\ policy' = Released(cached))
    BY <1>15 DEF Pass, RegistryTyped
  <2>2. \A j \in Instances, s \in Ids : policy'[j][s] \in {policy[j][s], "none"}
    BY <1>14, <2>1
  <2> QED
    BY <1>15, <2>2, PolicyKept DEF Pass
<1>16. ASSUME NEW t \in Turns, EndTurn(t) PROVE Jobs' /\ Answering'
  <2>1. CASE sess[t] = None
    <3>1. policy' = policy /\ sess' = sess
      BY <1>16, <2>1 DEF EndTurn, RegistryTyped
    <3>2. \A u \in Turns : sess[u] # None => kind'[u] = kind[u]
      BY <1>16, <2>1 DEF EndTurn
    <3> QED
      BY <1>16, <2>1, <3>1, <3>2, PolicyKept DEF EndTurn
  <2>2. CASE sess[t] # None
    <3>1. lock = t
      BY <2>2 DEF InHand
    <3>2. ASSUME NEW i \in Instances, NEW s \in Ids PROVE policy'[i][s] # "job"
      <4>1. CASE policy[i][s] = "job"
        <5>1. kind[t] = "job" /\ sess[t] = [inst |-> i, id |-> s] /\ sess[t] \in Sessions
          <6>1. PICK u \in Turns : lock = u /\ kind[u] = "job" /\ sess[u] = [inst |-> i, id |-> s]
            BY <4>1 DEF Jobs
          <6> QED
            BY <2>2, <3>1, <6>1 DEF RegistryTyped
        <5>2. \E p \in {"none", "route"} : policy' = Installed(sess[t], p)
          BY <1>16, <2>2, <5>1 DEF EndTurn, Released
        <5> QED
          BY <5>1, <5>2, InstalledWhere DEF Policies
      <4>2. CASE policy[i][s] # "job"
        <5>1. policy' = policy \/ \E p \in {"none", "route"} : policy' = Installed(sess[t], p)
          BY <1>16 DEF EndTurn, Released
        <5>2. sess[t] \in Sessions
          BY <2>2 DEF RegistryTyped
        <5> QED
          BY <4>2, <5>1, <5>2, InstalledWhere DEF Policies
      <4> QED
        BY <4>1, <4>2
    <3>3. \A u \in Turns : pc'[u] # "prompting"
      BY <1>16, <1>l, <3>1 DEF EndTurn
    <3> QED
      BY <3>2, <3>3 DEF Jobs, Answering
  <2> QED
    BY <2>1, <2>2
(* Sessions. *)
<1>17. ASSUME NEW a \in Callers, NEW i \in Instances, lock = a, Served(a, i) PROVE Jobs' /\ Answering'
  <2>1. kind' = kind /\ (a \in Turns => lock' = lock) /\ \A t \in Turns : lock = t => lock' = t
    BY <1>17 DEF Served, Handed
  <2>2. CASE Asks(a) \/ Resumes(a)
    BY <1>1, <2>1, <2>2 DEF Asks, Resumes
  <2>3. CASE Creates(a)
    <3>1. policy' = policy \/ (cached \in Sessions /\ policy' = Released(cached))
      BY <2>3 DEF Creates, RegistryTyped
    <3>2. \A j \in Instances, s \in Ids : policy'[j][s] \in {policy[j][s], "none"}
      BY <1>14, <3>1
    <3> QED
      BY <2>1, <2>3, <3>2, PolicyKept DEF Creates
  <2>4. CASE Reuses(a)
    <3>1. /\ cached \in Sessions /\ a \in Turns /\ PolicyFor(a) = kind[a]
          /\ kind[a] \in Policies \ {"unknown"} /\ sess[a] = None
      BY <2>4 DEF Reuses, RegistryTyped, PolicyFor, Policies
    <3>2. sess' = [sess EXCEPT ![a] = IF @ = None THEN cached ELSE @]
          /\ \A u \in Turns \ {a} : pc'[u] = pc[u]
      BY <2>4, <3>1 DEF Reuses
    <3>3. ASSUME NEW j \in Instances, NEW s \in Ids
          PROVE  \/ policy'[j][s] \in {policy[j][s], "none", "unknown"} /\ cached # [inst |-> j, id |-> s]
                 \/ policy'[j][s] \in {PolicyFor(a), "unknown"} /\ cached = [inst |-> j, id |-> s]
      BY <2>4, <3>1, InstalledWhere DEF Reuses
    <3> QED
      BY <1>17, <2>1, <3>1, <3>2, <3>3, PolicyGained, ZenonT(60)
  <2> QED
    BY <1>17, <2>2, <2>3, <2>4 DEF Served
<1>18. ASSUME NEW t \in Turns, Resumed(t) \/ Created(t) PROVE Jobs' /\ Answering'
  <2>1. pc[t] \in {"resuming", "creating"} /\ mine[t] \in Instances /\ UNCHANGED <<lock, kind>>
    BY <1>18, SessionDoes
  <2>2. PICK s \in Ids : Gains(t, s)
    BY <1>18, SessionDoes
  <2> DEFINE x == [inst |-> mine[t], id |-> s]
  <2>3. x \in Sessions /\ lock = t
    BY <1>l, <2>1 DEF Sessions
  <2>4. /\ sess' = [sess EXCEPT ![t] = IF @ = None THEN x ELSE @]
        /\ \A u \in Turns \ {t} : pc'[u] = pc[u]
        /\ pc'[t] = "prompting" => sess[t] = None
    BY <2>2 DEF Gains, Establish
  <2>5. ASSUME NEW j \in Instances, NEW r \in Ids
        PROVE  \/ policy'[j][r] \in {policy[j][r], "none", "unknown"} /\ x # [inst |-> j, id |-> r]
               \/ policy'[j][r] \in {PolicyFor(t), "unknown"} /\ x = [inst |-> j, id |-> r]
    <3>1. x = [inst |-> j, id |-> r] <=> mine[t] = j /\ s = r
      OBVIOUS
    <3>2. CASE policy' = [policy EXCEPT ![mine[t]][s] = PolicyFor(t)]
      BY <2>1, <3>1, <3>2 DEF ChildrenTyped
    <3>3. CASE policy' = [i \in Instances |-> [policy[i] EXCEPT ![s] =
                             IF i = mine[t] THEN PolicyFor(t) ELSE "unknown"]]
      BY <2>1, <3>1, <3>3 DEF ChildrenTyped
    <3> QED
      BY <2>2, <3>2, <3>3 DEF Gains
  <2> HIDE DEF x
  <2> QED
    BY <2>1, <2>3, <2>4, <2>5, PolicyGained
(* get_profile. *)
<1>19. ASSUME NEW a \in Callers, Acquire(a) \/ Evicted(a) \/ Settled(a) PROVE Jobs' /\ Answering'
  <2>1. lock = a
    BY <1>19, <1>l DEF Acquire, Evicted, Settled
  <2>2. CASE Ousted(a) /\ UNCHANGED children
    BY <1>7, <2>2
  <2>3. CASE Evicts(a) \/ Discards(a) \/ \E i \in Instances : Starts(a, i)
    BY <1>1, <2>3 DEF Evicts, Discards, Starts
  <2>4. CASE Acquire(a)
    BY <1>17, <2>1, <2>2, <2>3, <2>4, AcquireDoes
  <2>5. CASE Evicted(a)
    BY <2>2, <2>3, <2>5, ReplaceDoes DEF Evicted
  <2>6. CASE Settled(a)
    BY <1>17, <1>m, <2>1, <2>3, <2>6, SettledDoes DEF Settled, Starting
  <2> QED
    BY <1>19, <2>4, <2>5, <2>6
<1> QED
  BY ONLY <1>n, <1>2, <1>3, <1>4, <1>5, <1>6, <1>8, <1>9, <1>11, <1>12, <1>13, <1>15, <1>16,
     <1>18, <1>19 DEF Next, Child, TurnStep, GetStep

-----------------------------------------------------------------------------
(* What is left over *)

LEMMA LeftoverStep ==
  TypeOK /\ Roles /\ InHand /\ Registered /\ LeftoversAreDue /\ [Next]_vars => LeftoversAreDue'
<1> SUFFICES ASSUME TypeOK, Roles, InHand, Registered, LeftoversAreDue, [Next]_vars
             PROVE  LeftoversAreDue'
  OBVIOUS
<1>n. Next \/ UNCHANGED vars
  OBVIOUS
<1>p. /\ SupervisorTyped /\ RegistryTyped /\ pc \in [Actors -> Places]
      /\ due \in BOOLEAN /\ active \in BOOLEAN /\ shutting \in BOOLEAN
  BY TypeParts DEF CallersTyped, RouterTyped
<1>m. \A a \in Actors : pc[a] \in Closing \cup Starting => mine[a] \in Instances
  BY DEF InHand
(* The last probe looks; one that is not the last leaves another. *)
<1>e. ASSUME NEW p \in Probes, pc[p] # "idle", entry # None, ~active, ~shutting
      PROVE  LastLooks(p) \/ \E q \in Probes \ {p} : pc[q] # "idle"
  BY <1>e DEF LastLooks, ProbesInflight
<1>f. ASSUME NEW p \in Probes, pc[p] # "idle", pc' = [pc EXCEPT ![p] = "idle"],
             due' = (due \/ LastLooks(p)), UNCHANGED <<active, shutting, unhealed>>,
             entry' \in {entry, None}
      PROVE  LeftoversAreDue'
  BY <1>e, <1>f, <1>p DEF LeftoversAreDue
<1> USE <1>p, <1>m DEF LeftoversAreDue, Registered, Roles, SelfHeals,
         EntryWithout, supervisor, children, registry, callers, router, Goto, WorksWith, Closing, Starting
<1>1. ASSUME NEW i \in Instances, Exit(i) \/ Notice(i) \/ ReportExit(i) PROVE LeftoversAreDue'
  BY <1>1 DEF Exit, Notice, ReportExit
<1>2. ASSUME NEW a \in Actors, Terminate(a) PROVE LeftoversAreDue'
  BY <1>2 DEF Terminate
<1>3. CASE CoolOff \/ Reload \/ UNCHANGED vars
  BY <1>3 DEF CoolOff, Reload, vars
<1>4. ASSUME NEW t \in Turns, Recreate(t) \/ Fail(t) \/ Answered(t)
      PROVE LeftoversAreDue'
  BY <1>4 DEF Recreate, Fail, AfterFailure, Answered
<1>5. ASSUME NEW t \in Turns, Restart(t) \/ Restarted(t) PROVE LeftoversAreDue'
  BY <1>5 DEF Restart, Restarted, AfterRestart
<1>6. ASSUME NEW t \in Turns, EndTurn(t) PROVE LeftoversAreDue'
  BY <1>6 DEF EndTurn
<1>7. ASSUME NEW t \in Turns, NEW k \in {"route", "job"}, Admit(t, k) PROVE LeftoversAreDue'
  BY <1>7 DEF Admit
<1>8. ASSUME NEW t \in Turns, Resumed(t) \/ Created(t) PROVE LeftoversAreDue'
  <2>1. PICK s \in Ids : Gains(t, s)
    BY <1>8, SessionDoes
  <2> QED
    BY <1>8, <2>1, SessionDoes DEF Gains, Establish
<1>9. ASSUME NEW p \in Probes, StartProbe(p) \/ ProbeOver(p) PROVE LeftoversAreDue'
  <2>1. CASE StartProbe(p)
    BY <2>1 DEF StartProbe
  <2>2. CASE ProbeOver(p)
    BY <1>f, <2>2 DEF ProbeOver, ProbeEnds
  <2> QED
    BY <1>9, <2>1, <2>2
<1>10. ASSUME NEW a \in Callers, TakeLock(a) \/ Spawned(a) \/ Initialized(a) \/ InitializeFails(a)
                               \/ CancelInitialize(a)
       PROVE LeftoversAreDue'
  BY <1>10 DEF TakeLock, Spawned, Initialized, InitializeFails, CancelInitialize
<1>11. ASSUME NEW a \in Callers, Acquire(a) PROVE LeftoversAreDue'
  <2>1. pc[a] = "asking" /\ a # Reaper
    BY <1>11 DEF Acquire
  <2>2. CASE Ousted(a) /\ UNCHANGED <<entry, cooling, children>>
    BY <1>f, <2>1, <2>2 DEF Ousted
  <2> QED
    BY <1>11, <2>1, <2>2, AcquireDoes DEF Starts, Evicts, Served, Handed, Asks, Creates, Reuses,
       Resumes
<1>12. ASSUME NEW a \in Callers, Evicted(a) PROVE LeftoversAreDue'
  BY <1>12, ReplaceDoes DEF Evicted, Ousted, Starts
<1>13. ASSUME NEW a \in Callers, Settled(a) PROVE LeftoversAreDue'
  <2>1. mine[a] \in Instances
    BY <1>13, <1>m DEF Settled
  <2> QED
    BY <1>13, <2>1, SettledDoes DEF Discards, Served, Handed, Asks, Creates, Reuses, Resumes,
       EntryWithout
<1>14. ASSUME NEW a \in Callers, SpawnFails(a) \/ Undone(a) \/ Discarded(a) PROVE LeftoversAreDue'
  BY <1>14, RaisesDoes DEF SpawnFails, Undone, Discarded, Ousted
<1>15. ASSUME NEW a \in Callers, Abandoned(a) PROVE LeftoversAreDue'
  BY <1>15, UnwindsDoes DEF Abandoned, Unwound, EntryWithout
<1>16. ASSUME NEW a \in Actors, Cancel(a) PROVE LeftoversAreDue'
  BY <1>16, CancelDoes DEF Unwound, EntryWithout
<1>17. ASSUME NEW f \in BOOLEAN, Pass(f) PROVE LeftoversAreDue'
  BY <1>17 DEF Pass, Retirable, ProbesInflight
<1>18. CASE Retire \/ Retired
  BY <1>18 DEF Retire, Retired, Retirable, ProbesInflight
<1>19. CASE BeginShutdown \/ CloseAll \/ AllClosed \/ Over
  BY <1>19 DEF BeginShutdown, CloseAll, AllClosed, Over, vars
<1> QED
  BY ONLY <1>n, <1>1, <1>2, <1>3, <1>4, <1>5, <1>6, <1>7, <1>8, <1>9, <1>10, <1>11, <1>12, <1>13,
     <1>14, <1>15, <1>16, <1>17, <1>18, <1>19 DEF Next, Child, TurnStep, GetStep

-----------------------------------------------------------------------------
(* The properties *)

(* Everybody who starts or closes a process but the reaper has the profile  *)
(* lock, so there is one place where a process can be: the entry, or the    *)
(* hands of one actor while there is no entry for another.                  *)
LEMMA OneAtATime == SupervisorInv => OneChild
<1> SUFFICES ASSUME SupervisorInv, pc[Closer] = "idle"
             PROVE  Cardinality({i \in Instances : child[i] \in {"spawning", "alive"}}) <= 1
  BY DEF OneChild
<1> USE DEF SupervisorInv
<1> DEFINE Busy(a) == pc[a] \in Closing \cup Starting
           Live == {i \in Instances : child[i] \in {"spawning", "alive"}}
<1>1. ASSUME NEW i \in Live PROVE entry = i \/ \E a \in Actors : mine[a] = i /\ Busy(a)
  BY DEF Sheltered, NoOrphan, Starting
<1>2. ASSUME NEW a \in Actors, NEW b \in Actors, Busy(a), Busy(b) PROVE a = b
  BY <1>2 DEF Roles, AcquireHeld, Getting, Registered, Closing, Starting
<1>3. ASSUME NEW i \in Live, NEW a \in Actors, mine[a] = i, Busy(a), entry # None PROVE entry = i
  BY <1>3 DEF Roles, Registered, Closing, Starting
<1>4. ASSUME NEW i \in Live, NEW j \in Live PROVE i = j
  <2>1. i # None /\ j # None
    OBVIOUS
  <2> HIDE DEF Live, Busy
  <2> QED
    BY <1>1, <1>2, <1>3, <2>1
<1>5. CASE Live = {}
  BY <1>5, FS_EmptySet
<1>6. CASE Live # {}
  <2>1. PICK i : i \in Live
    BY <1>6
  <2>2. Live = {i}
    BY <1>4, <2>1
  <2>3. Cardinality({i}) = 1
    BY FS_Singleton
  <2> QED
    BY <2>2, <2>3
<1> QED
  BY <1>5, <1>6

LEMMA InvStep == SupervisorInv /\ [Next]_vars => SupervisorInv'
<1> SUFFICES ASSUME SupervisorInv, [Next]_vars PROVE SupervisorInv'
  OBVIOUS
<1> USE DEF SupervisorInv
<1>1. TypeOK' /\ Roles' /\ InHand' /\ AcquireHeld' /\ Registered'
  BY TypeStep, RolesStep, InHandStep, AcquireStep, RegisteredStep
<1>2. Sheltered' /\ Known' /\ Jobs' /\ Answering' /\ LeftoversAreDue'
  BY <1>1, ShelterStep, KnownStep, PolicyStep, LeftoverStep
<1> QED
  BY <1>1, <1>2

(* All parts of the invariant hold in every state. *)
THEOREM SupervisorIsConsistent == Spec => []SupervisorInv
<1>1. Init => SupervisorInv
  BY InvInit
<1>2. SupervisorInv /\ [Next]_vars => SupervisorInv'
  BY InvStep
<1> QED
  BY <1>1, <1>2, PTL DEF Spec

(* Every variable keeps its type. *)
THEOREM TypeCorrect == Spec => []TypeOK
<1>1. SupervisorInv => TypeOK
  BY DEF SupervisorInv
<1> QED
  BY <1>1, SupervisorIsConsistent, PTL

(* No Hermes process is lost, doubled or left over (sessions.py): whatever  *)
(* evicts, restarts or retires it and whenever that is cancelled, a process *)
(* that lives is registered or in the hands of somebody who closes it or    *)
(* finishes starting it; there is one at a time; and one that no route      *)
(* needs has a reaper due or somebody at work, but for the one that a turn  *)
(* whose finalizer raised has left since the last reload.                   *)
THEOREM ProcessesAccountedFor == Spec => []NoStrayProcess
<1>1. SupervisorInv => NoStrayProcess
  BY OneAtATime DEF SupervisorInv, Sheltered, NoStrayProcess
<1> QED
  BY <1>1, SupervisorIsConsistent, PTL

(* SessionRegistry.get: a prompt goes to a process that knows the session.  *)
THEOREM SessionsKnown == Spec => []PromptsKnownSession
<1>1. SupervisorInv => PromptsKnownSession
  BY DEF SupervisorInv, InHand, Known, Kept, PromptsKnownSession
<1> QED
  BY <1>1, SupervisorIsConsistent, PTL

(* set_permission_policy: a prompt is answered under its own policy, and    *)
(* the policy of a job does not outlive it.                                 *)
THEOREM PoliciesApart == Spec => []OwnPolicy
<1>1. SupervisorInv => OwnPolicy
  <2>1. None \notin Turns
    OBVIOUS
  <2>2. ASSUME Jobs, lock = None, NEW i \in Instances, NEW s \in Ids PROVE policy[i][s] # "job"
    BY <2>1, <2>2 DEF Jobs
  <2> QED
    BY <2>2 DEF SupervisorInv, Answering, OwnPolicy
<1> QED
  BY <1>1, SupervisorIsConsistent, PTL

(* retire_profile: no process is retired under a preflight probe.           *)
THEOREM ProbesKeepTheirs == Spec => []ProbeKeepsProfile
<1>1. SupervisorInv => ProbeKeepsProfile
  BY DEF SupervisorInv, Registered, ProbeKeepsProfile
<1> QED
  BY <1>1, SupervisorIsConsistent, PTL

-----------------------------------------------------------------------------
(* The locks are given back: whoever holds the acquire lock starts or       *)
(* closes a process, whoever holds the profile lock has a turn or a start   *)
(* of its own under way.  It is the converse of AcquireHeld and of the last *)
(* part of Roles, and inductive beside them.                                *)
LocksInUse ==
    /\ acquiring # None => pc[acquiring] \in Getting
    /\ lock # None => pc[lock] \notin {"idle", "queued", "probing"}

LEMMA LocksStep == TypeOK /\ Roles /\ InHand /\ LocksInUse /\ [Next]_vars => LocksInUse'
<1> SUFFICES ASSUME TypeOK, Roles, InHand, LocksInUse, [Next]_vars PROVE LocksInUse'
  OBVIOUS
<1>n. Next \/ UNCHANGED vars
  OBVIOUS
<1>p. /\ SupervisorTyped /\ RegistryTyped /\ pc \in [Actors -> Places]
      /\ lock \in Callers \cup {None} /\ acquiring \in Actors \cup {None}
  BY TypeParts DEF CallersTyped, SupervisorTyped
<1>m. \A a \in Actors : pc[a] \in Closing \cup Starting => mine[a] \in Instances
  BY DEF InHand
<1> USE <1>p, <1>m DEF LocksInUse, Getting, Roles, supervisor, children, registry, callers, router,
                       Goto, WorksWith, Closing, Starting, Places
<1>1. ASSUME NEW i \in Instances, Exit(i) \/ Notice(i) \/ ReportExit(i) PROVE LocksInUse'
  BY <1>1 DEF Exit, Notice, ReportExit
<1>2. ASSUME NEW a \in Actors, Terminate(a) PROVE LocksInUse'
  BY <1>2 DEF Terminate
<1>3. CASE CoolOff \/ Reload \/ UNCHANGED vars
  BY <1>3 DEF CoolOff, Reload, vars
<1>4. ASSUME NEW t \in Turns, Recreate(t) \/ Fail(t) \/ Answered(t)
      PROVE LocksInUse'
  BY <1>4 DEF Recreate, Fail, AfterFailure, Answered
<1>5. ASSUME NEW t \in Turns, Restart(t) \/ Restarted(t) PROVE LocksInUse'
  BY <1>5 DEF Restart, Restarted, AfterRestart
<1>6. ASSUME NEW t \in Turns, EndTurn(t) PROVE LocksInUse'
  BY <1>6 DEF EndTurn
<1>7. ASSUME NEW t \in Turns, NEW k \in {"route", "job"}, Admit(t, k) PROVE LocksInUse'
  BY <1>7 DEF Admit
<1>8. ASSUME NEW t \in Turns, Resumed(t) \/ Created(t) PROVE LocksInUse'
  <2>1. PICK s \in Ids : Gains(t, s)
    BY ONLY <1>8, InHand, SessionDoes
  <2>2. pc[t] \in {"resuming", "creating"} /\ UNCHANGED <<acquiring, lock>>
    BY ONLY <1>8, InHand, SessionDoes DEF supervisor
  <2>3. \E w \in {"prompting", "ending"} : pc' = [pc EXCEPT ![t] = w]
    BY ONLY <2>1 DEF Gains, Establish, Goto
  <2> QED
    BY ONLY <1>p, <2>2, <2>3, LocksInUse DEF LocksInUse, Getting, Starting
<1>9. ASSUME NEW p \in Probes, StartProbe(p) \/ ProbeOver(p) PROVE LocksInUse'
  BY <1>9 DEF StartProbe, ProbeOver, ProbeEnds
<1>10. ASSUME NEW a \in Callers, TakeLock(a) \/ Spawned(a) \/ Initialized(a) \/ InitializeFails(a)
                               \/ CancelInitialize(a)
       PROVE LocksInUse'
  BY <1>10 DEF TakeLock, Spawned, Initialized, InitializeFails, CancelInitialize
<1>11. ASSUME NEW a \in Callers, Acquire(a) PROVE LocksInUse'
  BY <1>11, AcquireDoes DEF Ousted, Starts, Evicts, Served, Handed, Asks, Creates, Reuses, Resumes
<1>12. ASSUME NEW a \in Callers, Evicted(a) PROVE LocksInUse'
  BY <1>12, ReplaceDoes DEF Evicted, Ousted, Starts
<1>13. ASSUME NEW a \in Callers, Settled(a) PROVE LocksInUse'
  <2>1. mine[a] \in Instances
    BY <1>13, <1>m DEF Settled
  <2> QED
    BY <1>13, <2>1, SettledDoes DEF Discards, Served, Handed, Asks, Creates, Reuses, Resumes,
       EntryWithout
<1>14. ASSUME NEW a \in Callers, SpawnFails(a) \/ Undone(a) \/ Discarded(a) PROVE LocksInUse'
  BY <1>14, RaisesDoes DEF SpawnFails, Undone, Discarded, Ousted
<1>15. ASSUME NEW a \in Callers, Abandoned(a) PROVE LocksInUse'
  BY <1>15, UnwindsDoes DEF Abandoned, Unwound, EntryWithout
<1>16. ASSUME NEW a \in Actors, Cancel(a) PROVE LocksInUse'
  BY <1>16, CancelDoes DEF Unwound, EntryWithout
<1>17. ASSUME NEW f \in BOOLEAN, Pass(f) PROVE LocksInUse'
  BY <1>17 DEF Pass
<1>18. CASE Retire \/ Retired
  BY <1>18 DEF Retire, Retired
<1>19. CASE BeginShutdown \/ CloseAll \/ AllClosed \/ Over
  BY <1>19 DEF BeginShutdown, CloseAll, AllClosed, Over, vars
<1> QED
  BY ONLY <1>n, <1>1, <1>2, <1>3, <1>4, <1>5, <1>6, <1>7, <1>8, <1>9, <1>10, <1>11, <1>12, <1>13,
     <1>14, <1>15, <1>16, <1>17, <1>18, <1>19 DEF Next, Child, TurnStep, GetStep

(* get_profile, retire_profile and the profile lock of the router: however  *)
(* a start, a restart, a probe or a turn ends, by a failure, a refusal or a *)
(* cancellation at any await, neither lock stays with somebody who has gone *)
(* on or away, and nobody queues for a lock that he has.                    *)
THEOREM LocksGivenBack == Spec => []LocksInUse
<1>1. Init => LocksInUse
  BY DEF Init, LocksInUse
<1>2. SupervisorInv /\ LocksInUse /\ [Next]_vars => LocksInUse'
  BY LocksStep DEF SupervisorInv
<1> QED
  BY <1>1, <1>2, SupervisorIsConsistent, PTL DEF Spec
====
