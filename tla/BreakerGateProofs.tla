---- MODULE BreakerGateProofs ----
(***************************************************************************)
(* Proofs about BreakerGate, for any number of turns, routes and profiles  *)
(* and any threshold, window, cooldown and number of reloads.              *)
(***************************************************************************)
EXTENDS BreakerGate, SequenceTheorems, WellFoundedInduction, TLAPS

USE BreakerOK, ReloadsOK, StartOK, NoneOK

(* A set of numbers that is not empty has a least element. *)
LEMMA LeastNumber ==
  ASSUME NEW T, T \subseteq Nat, T # {}
  PROVE  \E x \in T : \A y \in T : x <= y
<1>1. \E x \in T : \A y \in T : ~ (<<y, x>> \in OpToRel(<, Nat))
  BY NatLessThanWellFounded, WFMin, Zenon
<1>2. \A x, y \in Nat : y < x => <<y, x>> \in OpToRel(<, Nat)
  BY DEF OpToRel
<1>3. PICK x \in T : \A y \in T : ~ (<<y, x>> \in OpToRel(<, Nat))
  BY <1>1
<1>4. \A y \in T : ~ (y < x)
  BY <1>2, <1>3
<1>5. x \in Nat /\ \A y \in T : y \in Nat
  OBVIOUS
<1>6. \A y \in T : x <= y
  BY <1>4, <1>5
<1> QED
  BY <1>6

(* The deque of the circuit stays within its window and its threshold.      *)
LEMMA FailureTypes ==
  ASSUME TypeOK, NEW r \in Routes
  PROVE  /\ WithFailure(r) \in Seq(0..(Window + 1))
         /\ Len(WithFailure(r)) <= Threshold
<1> DEFINE all == Append(failures[r], 0)
           Kept(i) == all[i] <= Window /\ Len(all) - i < Threshold
           First(i) == Kept(i) /\ \A j \in 1..(i - 1) : ~Kept(j)
           first == CHOOSE i \in DOMAIN all : First(i)
<1>1. /\ all \in Seq(0..(Window + 1)) /\ Len(all) \in Nat \ {0}
      /\ all[Len(all)] = 0 /\ DOMAIN all = 1..Len(all)
  BY DEF TypeOK
<1>2. Kept(Len(all))
  BY <1>1
<1>3. \E i \in DOMAIN all : First(i)
  <2> DEFINE T == {i \in DOMAIN all : Kept(i)}
  <2>1. Len(all) \in T /\ \A i \in DOMAIN all : i \in Nat
    <3> HIDE DEF all, Kept
    <3> QED
      BY <1>1, <1>2
  <2>a. T \subseteq Nat /\ T # {}
    <3> HIDE DEF Kept, all
    <3> QED
      BY <2>1
  <2>2. PICK x \in T : \A y \in T : x <= y
    BY <2>a, LeastNumber
  <2>3. First(x)
    <3> SUFFICES ASSUME NEW j \in 1..(x - 1) PROVE ~Kept(j)
      BY <2>2
    <3>1. x \in 1..Len(all)
      BY <1>1
    <3>2. j \in DOMAIN all /\ ~(x <= j)
      BY <1>1, <3>1
    <3> QED
      BY <2>2, <3>2
  <2> QED
    BY <2>3
<1>4. first \in DOMAIN all /\ First(first)
  <2> HIDE DEF First
  <2> QED
    BY <1>3
<1>5. first \in 1..Len(all) /\ Len(all) - first < Threshold
  BY <1>1, <1>4
<1>6. /\ SubSeq(all, first, Len(all)) \in Seq(0..(Window + 1))
      /\ Len(SubSeq(all, first, Len(all))) = Len(all) - first + 1
  <2> HIDE DEF all, first
  <2>1. \A i \in first..Len(all) : all[i] \in 0..(Window + 1)
    BY <1>1, <1>5
  <2> QED
    BY <1>1, <1>5, <2>1, SubSeqProperties
<1>7. WithFailure(r) = SubSeq(all, first, Len(all))
  BY DEF WithFailure
<1> QED
  <2> HIDE DEF all, first
  <2> QED
    BY <1>1, <1>5, <1>6, <1>7

(* A turn in flight has captured what it was admitted under. *)
LiveTurns ==
  \A t \in Turns : /\ stage[t] # "idle" <=> turn[t] # None
                   /\ since[t] # None => turn[t] # None
                   /\ turn[t] # None => turn[t].generation <= generation

LEMMA InitTypes == Init => TypeOK /\ LiveTurns
<1> SUFFICES ASSUME Init PROVE TypeOK /\ LiveTurns
  OBVIOUS
<1>1. \A r \in Routes : failures[r] = <<>> /\ Len(failures[r]) = 0
  BY DEF Init
<1>2. failures \in [Routes -> Seq(0..(Window + 1))]
  BY DEF Init
<1>3. config \in Configs
  BY DEF Init
<1>4. tombstone \in [Routes -> Profiles \cup {None}]
  BY DEF Init, Configs
<1>5. cleared \in [Routes -> -1..MaxReloads]
  <2>1. -1 \in -1..MaxReloads
    OBVIOUS
  <2> QED
    BY <2>1, Zenon DEF Init
<1> QED
  BY <1>1, <1>2, <1>3, <1>4, <1>5 DEF Init, TypeOK, LiveTurns

LEMMA TurnTypes ==
  ASSUME TypeOK, LiveTurns, NEW t \in Turns, stage[t] # "idle"
  PROVE  turn[t] \in Captured /\ turn[t].route \in Routes
BY DEF TypeOK, LiveTurns, Captured

LEMMA MaybeClearTypes ==
  ASSUME TypeOK, NEW r \in Routes, MaybeClear(r)
  PROVE  /\ override' \subseteq Routes
         /\ age' \in [Routes -> 0..Recovery \cup {None}]
         /\ failures' \in [Routes -> Seq(0..(Window + 1))]
         /\ \A x \in Routes : Len(failures'[x]) <= Threshold
<1>1. CASE Recovered(r)
  <2>1. <<>> \in Seq(0..(Window + 1)) /\ Len(<<>>) = 0
    OBVIOUS
  <2>2. failures' = [failures EXCEPT ![r] = <<>>]
    BY <1>1 DEF MaybeClear
  <2>3. failures' \in [Routes -> Seq(0..(Window + 1))]
    BY <2>1, <2>2, Zenon DEF TypeOK
  <2>4. \A x \in Routes : failures'[x] = <<>> \/ failures'[x] = failures[x]
    BY <2>2, Zenon DEF TypeOK
  <2>5. \A x \in Routes : Len(failures'[x]) <= Threshold
    BY <2>1, <2>4 DEF TypeOK
  <2>6. override' \subseteq Routes /\ age' \in [Routes -> 0..Recovery \cup {None}]
    BY <1>1 DEF MaybeClear, TypeOK
  <2> QED
    BY <2>3, <2>5, <2>6
<1>2. CASE ~Recovered(r)
  BY <1>2 DEF MaybeClear, TypeOK
<1> QED
  BY <1>1, <1>2

LEMMA EndedTypes ==
  ASSUME TypeOK, LiveTurns, NEW t \in Turns, Ended(t), UNCHANGED generation
  PROVE  /\ stage' \in [Turns -> {"idle", "admitted", "prompting"}]
         /\ turn' \in [Turns -> Captured \cup {None}]
         /\ since' \in [Turns -> 0..Recovery \cup {None}]
         /\ LiveTurns'
BY DEF Ended, TypeOK, LiveTurns

LEMMA TickTypes == TypeOK /\ Tick => TypeOK'
<1> SUFFICES ASSUME TypeOK, Tick PROVE TypeOK'
  OBVIOUS
<1>1. /\ age' \in [Routes -> 0..Recovery \cup {None}]
      /\ since' \in [Turns -> 0..Recovery \cup {None}]
  BY DEF TypeOK, Tick, Older
<1>2. ASSUME NEW r \in Routes
      PROVE  /\ failures'[r] \in Seq(0..(Window + 1))
             /\ Len(failures'[r]) <= Threshold
  <2> DEFINE older == [i \in DOMAIN failures[r] |-> Older(failures[r][i], Window + 1)]
  <2>1. failures[r] \in Seq(0..(Window + 1)) /\ Len(failures[r]) <= Threshold
    BY DEF TypeOK
  <2>2. /\ Len(failures[r]) \in Nat
        /\ DOMAIN failures[r] = 1..Len(failures[r])
        /\ \A i \in 1..Len(failures[r]) : failures[r][i] \in 0..(Window + 1)
    BY <2>1
  <2>3. \A i \in 1..Len(failures[r]) : Older(failures[r][i], Window + 1) \in 0..(Window + 1)
    BY <2>2 DEF Older
  <2>4. older \in [1..Len(failures[r]) -> 0..(Window + 1)]
    BY <2>2, <2>3
  <2>5. older \in Seq(0..(Window + 1))
    <3> HIDE DEF older
    <3> QED
      BY <2>2, <2>4, SeqDef
  <2>6. Len(older) = Len(failures[r])
    <3> HIDE DEF older
    <3>1. DOMAIN older = 1..Len(failures[r])
      BY <2>4
    <3>2. Len(older) \in Nat /\ DOMAIN older = 1..Len(older)
      BY <2>5, LenProperties
    <3> QED
      BY <2>2, <3>1, <3>2
  <2>7. failures'[r] = older
    BY DEF Tick
  <2> QED
    BY <2>1, <2>5, <2>6, <2>7
<1>3. failures' \in [Routes -> Seq(0..(Window + 1))]
  <2>1. failures' = [r \in Routes |-> failures'[r]]
    BY DEF Tick
  <2> QED
    BY <1>2, <2>1
<1>4. UNCHANGED <<config, generation, cleared, override, tombstone, stage, turn>>
  BY DEF Tick
<1> QED
  BY <1>1, <1>2, <1>3, <1>4 DEF TypeOK

LEMMA TypeStep == TypeOK /\ LiveTurns /\ [Next]_vars => TypeOK' /\ LiveTurns'
<1> SUFFICES ASSUME TypeOK, LiveTurns, [Next]_vars PROVE TypeOK' /\ LiveTurns'
  OBVIOUS
<1>1. CASE Tick
  <2>1. LiveTurns'
    BY <1>1 DEF TypeOK, LiveTurns, Tick, Older
  <2> QED
    BY <1>1, <2>1, TickTypes
<1>2. ASSUME NEW t \in Turns, NEW r \in Routes, Admit(t, r)
      PROVE  TypeOK' /\ LiveTurns'
  <2>1. config[r] # Absent /\ config[r].state \in States /\ config[r].profile \in Profiles
    BY <1>2 DEF Admit, TypeOK, Configs
  <2>2. turn'[t] \in Captured /\ turn' = [turn EXCEPT ![t] = turn'[t]]
    BY <1>2, <2>1 DEF Admit, TypeOK, Captured, States
  <2>3. turn'[t] # None
    BY <2>2
  <2>4. since' \in [Turns -> 0..Recovery \cup {None}]
    BY <1>2 DEF Admit, TypeOK
  <2>5. turn' \in [Turns -> Captured \cup {None}]
    BY <2>2 DEF TypeOK
  <2>6. stage' \in [Turns -> {"idle", "admitted", "prompting"}]
    BY <1>2 DEF Admit, TypeOK
  <2>7. UNCHANGED <<config, generation, cleared, override, age, failures, tombstone>>
    BY <1>2 DEF Admit
  <2>8. TypeOK'
    BY <2>4, <2>5, <2>6, <2>7 DEF TypeOK
  <2>9. LiveTurns'
    BY <1>2, <2>2, <2>3 DEF Admit, TypeOK, LiveTurns
  <2> QED
    BY <2>8, <2>9
<1>3. ASSUME NEW t \in Turns, Consult(t) PROVE TypeOK' /\ LiveTurns'
  BY <1>3, TurnTypes, MaybeClearTypes DEF Consult, TypeOK, LiveTurns
<1>4. ASSUME NEW t \in Turns, Gate(t) PROVE TypeOK' /\ LiveTurns'
  <2>1. turn[t].route \in Routes
    BY <1>4, TurnTypes DEF Gate
  <2>2. UNCHANGED <<config, generation, cleared, tombstone>>
    BY <1>4 DEF Gate
  <2>3. /\ override' \subseteq Routes
        /\ age' \in [Routes -> 0..Recovery \cup {None}]
        /\ failures' \in [Routes -> Seq(0..(Window + 1))]
        /\ \A x \in Routes : Len(failures'[x]) <= Threshold
    BY <1>4, <2>1, MaybeClearTypes DEF Gate
  <2>4. CASE EffectiveState(t) = "active"
    BY <1>4, <2>2, <2>3, <2>4 DEF Gate, TypeOK, LiveTurns
  <2>5. CASE EffectiveState(t) # "active"
    BY <1>4, <2>2, <2>3, <2>5, EndedTypes DEF Gate, TypeOK
  <2> QED
    BY <2>4, <2>5
<1>5. ASSUME NEW t \in Turns, Drop(t) PROVE TypeOK' /\ LiveTurns'
  BY <1>5, EndedTypes DEF Drop, TypeOK
<1>6. ASSUME NEW t \in Turns, Succeed(t) PROVE TypeOK' /\ LiveTurns'
  <2>1. <<>> \in Seq(0..(Window + 1)) /\ Len(<<>>) = 0
    OBVIOUS
  <2> QED
    BY <1>6, <2>1, EndedTypes, TurnTypes DEF Succeed, TypeOK
<1>7. ASSUME NEW t \in Turns, Fail(t) PROVE TypeOK' /\ LiveTurns'
  <2> DEFINE r == turn[t].route
  <2>1. r \in Routes
    BY <1>7, TurnTypes DEF Fail
  <2>2. /\ failures' \in [Routes -> Seq(0..(Window + 1))]
        /\ \A x \in Routes : Len(failures'[x]) <= Threshold
    <3>1. failures' = [failures EXCEPT ![r] = WithFailure(r)]
      BY <1>7 DEF Fail
    <3> QED
      BY <2>1, <3>1, FailureTypes DEF TypeOK
  <2>3. /\ override' \subseteq Routes
        /\ age' \in [Routes -> 0..Recovery \cup {None}]
    <3>1. Trip(r) \/ UNCHANGED <<override, age>>
      BY <1>7 DEF Fail
    <3>2. 0 \in 0..Recovery
      OBVIOUS
    <3>3. CASE Trip(r)
      <4>1. age' = [age EXCEPT ![r] = 0] /\ override' = override \cup {r}
        BY <3>3 DEF Trip
      <4> HIDE DEF r
      <4>2. age' \in [Routes -> 0..Recovery \cup {None}]
        BY <3>2, <4>1, Zenon DEF TypeOK
      <4> QED
        BY <2>1, <4>1, <4>2 DEF TypeOK
    <3> QED
      BY <3>1, <3>3 DEF TypeOK
  <2>4. UNCHANGED <<config, generation, cleared, tombstone>> /\ Ended(t)
    BY <1>7 DEF Fail
  <2> QED
    BY <2>2, <2>3, <2>4, EndedTypes DEF TypeOK
<1>8. ASSUME NEW new \in Configs, Reload(new) PROVE TypeOK' /\ LiveTurns'
  <2>1. generation' \in 0..MaxReloads /\ generation + 1 \in -1..MaxReloads
    BY <1>8 DEF Reload, TypeOK
  <2>2. cleared' \in [Routes -> -1..MaxReloads]
    BY <1>8, <2>1 DEF Reload, TypeOK
  <2>3. tombstone' \in [Routes -> Profiles \cup {None}]
    BY <1>8 DEF Reload, TypeOK, Configs
  <2>4. override' \subseteq Routes /\ age' \in [Routes -> 0..Recovery \cup {None}]
    BY <1>8 DEF Reload, TypeOK
  <2>5. LiveTurns'
    <3>1. /\ UNCHANGED <<stage, turn, since>>
          /\ generation \in Int /\ generation' = generation + 1
          /\ \A t \in Turns : turn[t] # None => turn[t].generation \in Int
      BY <1>8 DEF Reload, TypeOK, Captured
    <3> QED
      BY <3>1 DEF LiveTurns
  <2> QED
    BY <1>8, <2>1, <2>2, <2>3, <2>4, <2>5 DEF Reload, TypeOK
<1>9. CASE UNCHANGED vars
  BY <1>9 DEF vars, TypeOK, LiveTurns
<1> QED
  BY <1>1, <1>2, <1>3, <1>4, <1>5, <1>6, <1>7, <1>8, <1>9 DEF Next, TurnStep

(* Every variable keeps its type, for any constants. *)
THEOREM TypeCorrect == Spec => []TypeOK
<1>1. TypeOK /\ LiveTurns /\ [Next]_vars => (TypeOK /\ LiveTurns)'
  BY TypeStep
<1> QED
  BY <1>1, InitTypes, PTL DEF Spec

LEMMA Live == Spec => [](TypeOK /\ LiveTurns)
<1>1. TypeOK /\ LiveTurns /\ [Next]_vars => (TypeOK /\ LiveTurns)'
  BY TypeStep
<1> QED
  BY <1>1, InitTypes, PTL DEF Spec

-----------------------------------------------------------------------------
(* Masks *)

Masks == OverrideOnlyActive /\ OverrideHasTripTime

LEMMA MasksStep ==
  TypeOK /\ LiveTurns /\ Masks /\ [Next]_vars => Masks'
<1> SUFFICES ASSUME TypeOK, LiveTurns, Masks, [Next]_vars PROVE Masks'
  OBVIOUS
<1> USE DEF Masks, OverrideOnlyActive, OverrideHasTripTime, IsActive
<1>1. CASE Tick
  BY <1>1 DEF Tick, Older, TypeOK
<1>2. ASSUME NEW t \in Turns, NEW r \in Routes, Admit(t, r) PROVE Masks'
  BY <1>2 DEF Admit
<1>3. ASSUME NEW r \in Routes, MaybeClear(r), UNCHANGED config PROVE Masks'
  BY <1>3 DEF MaybeClear, Recovered, TypeOK
<1>4. ASSUME NEW t \in Turns, Consult(t) PROVE Masks'
  BY <1>3, <1>4, TurnTypes DEF Consult
<1>5. ASSUME NEW t \in Turns, Gate(t) PROVE Masks'
  BY <1>3, <1>5, TurnTypes DEF Gate
<1>6. ASSUME NEW t \in Turns, Drop(t) \/ Succeed(t) PROVE Masks'
  BY <1>6 DEF Drop, Succeed
<1>7. ASSUME NEW t \in Turns, Fail(t) PROVE Masks'
  <2> DEFINE r == turn[t].route
  <2>1. r \in Routes /\ UNCHANGED config
    BY <1>7, TurnTypes DEF Fail
  <2>2. (Trip(r) /\ IsActive(r)) \/ UNCHANGED <<override, age>>
    BY <1>7 DEF Fail, MayMask
  <2> HIDE DEF r
  <2>3. CASE Trip(r) /\ IsActive(r)
    <3>1. age'[r] = 0 /\ \A x \in Routes \ {r} : age'[x] = age[x]
      BY <2>1, <2>3 DEF Trip, TypeOK
    <3> QED
      BY <2>1, <2>3, <3>1 DEF Trip
  <2> QED
    BY <2>1, <2>2, <2>3
<1>8. ASSUME NEW new \in Configs, Reload(new) PROVE Masks'
  BY <1>8 DEF Reload, Cleared, TypeOK
<1>9. CASE UNCHANGED vars
  BY <1>9 DEF vars
<1> QED
  BY <1>1, <1>2, <1>4, <1>5, <1>6, <1>7, <1>8, <1>9 DEF Next, TurnStep

LEMMA MasksHold == Spec => []Masks
<1>1. Init => Masks
  BY DEF Init, Masks, OverrideOnlyActive, OverrideHasTripTime
<1> QED
  BY <1>1, Live, MasksStep, PTL DEF Spec

(* No trip and no reload leaves a mask on a route that is not active. *)
THEOREM OnlyActiveMasked == Spec => []OverrideOnlyActive
<1>1. Masks => OverrideOnlyActive
  BY DEF Masks
<1> QED
  BY <1>1, MasksHold, PTL

(* Every mask has its trip time, every trip time its mask. *)
THEOREM MasksExpire == Spec => []OverrideHasTripTime
<1>1. Masks => OverrideHasTripTime
  BY DEF Masks
<1> QED
  BY <1>1, MasksHold, PTL

(* A reload never silently resets a tripped breaker. *)
THEOREM MasksCloseWhenDue == Spec => ClosesOnlyWhenDue
<1> DEFINE Due == \A r \in override \ override' :
              age[r] = Recovery \/ config'[r] = Absent \/ config'[r].state # "active"
<1>1. TypeOK /\ LiveTurns /\ [Next]_vars => [Due]_vars
  <2> SUFFICES ASSUME TypeOK, LiveTurns, [Next]_vars, ~UNCHANGED vars,
                      NEW r \in override, r \notin override'
               PROVE  age[r] = Recovery \/ config'[r] = Absent
                      \/ config'[r].state # "active"
    OBVIOUS
  <2>1. ASSUME NEW x \in Routes, MaybeClear(x) PROVE age[r] = Recovery
    BY <2>1 DEF MaybeClear, Recovered
  <2>2. ASSUME NEW t \in Turns, Consult(t) \/ Gate(t) PROVE age[r] = Recovery
    BY <2>1, <2>2, TurnTypes DEF Consult, Gate
  <2>3. ASSUME NEW t \in Turns, Fail(t) PROVE FALSE
    BY <2>3 DEF Fail, Trip
  <2>4. ASSUME NEW t \in Turns, (\E x \in Routes : Admit(t, x)) \/ Drop(t) \/ Succeed(t)
        PROVE  FALSE
    BY <2>4 DEF Admit, Drop, Succeed
  <2>5. CASE Tick
    BY <2>5 DEF Tick
  <2>6. ASSUME NEW new \in Configs, Reload(new)
        PROVE  config'[r] = Absent \/ config'[r].state # "active"
    BY <2>6 DEF Reload, Cleared
  <2> QED
    BY <2>2, <2>3, <2>4, <2>5, <2>6 DEF Next, TurnStep
<1>2. Spec => [][Due]_vars
  BY <1>1, Live, PTL DEF Spec
<1> QED
  BY <1>2 DEF ClosesOnlyWhenDue

-----------------------------------------------------------------------------
(* Profiles *)

(* The tombstones know the profile of every configured route and of the     *)
(* route of every turn in flight.                                           *)
Tombstones ==
  /\ \A r \in Routes : config[r] # Absent => tombstone[r] = config[r].profile
  /\ \A t \in Turns : turn[t] # None => tombstone[turn[t].route] = turn[t].profile

LEMMA TombstonesStep ==
  TypeOK /\ LiveTurns /\ Tombstones /\ [Next]_vars => Tombstones'
<1> SUFFICES ASSUME TypeOK, LiveTurns, Tombstones, [Next]_vars PROVE Tombstones'
  OBVIOUS
<1>1. CASE Tick
  BY <1>1 DEF Tick, Tombstones
<1>2. ASSUME NEW t \in Turns, NEW r \in Routes, Admit(t, r) PROVE Tombstones'
  <2>1. /\ turn' = [turn EXCEPT ![t] = turn'[t]]
        /\ turn'[t].route = r /\ turn'[t].profile = config[r].profile
        /\ config[r] # Absent /\ UNCHANGED <<config, tombstone>>
    BY <1>2 DEF Admit, TypeOK
  <2>2. \A u \in Turns \ {t} : turn'[u] = turn[u]
    BY <2>1 DEF TypeOK
  <2> QED
    BY <2>1, <2>2 DEF Tombstones
<1>3. ASSUME NEW t \in Turns, Ended(t), UNCHANGED <<config, tombstone>>
      PROVE  Tombstones'
  BY <1>3 DEF Ended, Tombstones, TypeOK
<1>4. ASSUME NEW t \in Turns, Consult(t) PROVE Tombstones'
  BY <1>4 DEF Consult, Tombstones
<1>5. ASSUME NEW t \in Turns, Gate(t) PROVE Tombstones'
  <2>1. Ended(t) \/ UNCHANGED turn
    BY <1>5 DEF Gate
  <2> QED
    BY <1>3, <1>5, <2>1 DEF Gate, Tombstones
<1>6. ASSUME NEW t \in Turns, Drop(t) \/ Succeed(t) \/ Fail(t) PROVE Tombstones'
  BY <1>3, <1>6 DEF Drop, Succeed, Fail
<1>7. ASSUME NEW new \in Configs, Reload(new) PROVE Tombstones'
  <2>2. \A r \in Routes : new[r] # Absent => tombstone'[r] = new[r].profile
    BY <1>7 DEF Reload
  <2>3. \A r \in Routes : tombstone[r] # None => tombstone'[r] = tombstone[r]
    BY <1>7 DEF Reload, KeepsProfiles
  <2>4. \A t \in Turns : turn[t] # None =>
           turn[t].route \in Routes /\ turn[t].profile \in Profiles
    BY DEF TypeOK, Captured
  <2>5. \A t \in Turns : turn[t] # None => tombstone[turn[t].route] # None
    BY <2>4 DEF Tombstones
  <2> QED
    BY <1>7, <2>2, <2>3, <2>4, <2>5 DEF Reload, Tombstones
<1>8. CASE UNCHANGED vars
  BY <1>8 DEF vars, Tombstones
<1> QED
  BY <1>1, <1>2, <1>4, <1>5, <1>6, <1>7, <1>8 DEF Next, TurnStep

(* No turn in flight and no later configuration disagree about the profile  *)
(* of a route, though routes come and go.                                   *)
THEOREM ProfilesStay == Spec => []ProfileOfRouteStays
<1>1. Init => Tombstones
  BY DEF Init, Tombstones
<1>2. TypeOK /\ Tombstones => ProfileOfRouteStays
  BY DEF TypeOK, Tombstones, ProfileOfRouteStays, Captured
<1> QED
  BY <1>1, <1>2, Live, TombstonesStep, PTL DEF Spec

-----------------------------------------------------------------------------
(* The admission gate *)

(* A turn admitted under an open breaker is held back until the cooldown of *)
(* that trip is over, by the mask itself, which is at most as old, or by    *)
(* the record of the reload that took it away.                              *)
HeldBack ==
  \A t \in Turns : since[t] # None =>
    /\ turn[t].admitted = "maintenance"
    /\ \/ since[t] = Recovery
       \/ turn[t].route \in override /\ age[turn[t].route] <= since[t]
       \/ cleared[turn[t].route] > turn[t].generation

LEMMA HeldBackStep ==
  TypeOK /\ LiveTurns /\ Masks /\ HeldBack /\ [Next]_vars => HeldBack'
<1> SUFFICES ASSUME TypeOK, LiveTurns, Masks, HeldBack, [Next]_vars PROVE HeldBack'
  OBVIOUS
<1>0. \A t \in Turns : since[t] # None =>
         /\ turn[t].route \in Routes /\ turn[t].generation \in 0..MaxReloads
         /\ turn[t] # None /\ since[t] \in 0..Recovery
  BY DEF TypeOK, LiveTurns, Captured
<1>a. \A r \in override : r \in Routes /\ age[r] \in 0..Recovery
  BY DEF TypeOK, Masks, OverrideHasTripTime
<1>1. CASE Tick
  <2> SUFFICES ASSUME NEW t \in Turns, since'[t] # None PROVE HeldBack!(t)'
    BY DEF HeldBack
  <2>1. UNCHANGED <<turn, override, cleared>>
    BY <1>1 DEF Tick
  <2>2. since[t] # None /\ since'[t] = Older(since[t], Recovery)
    BY <1>1 DEF Tick, Older
  <2>3. \A r \in override : age'[r] = Older(age[r], Recovery)
    BY <1>1, <1>a DEF Tick
  <2> QED
    BY <1>0, <1>a, <2>1, <2>2, <2>3 DEF HeldBack, Older
<1>2. ASSUME NEW t \in Turns, NEW r \in Routes, Admit(t, r) PROVE HeldBack'
  <2>1. /\ turn' = [turn EXCEPT ![t] = turn'[t]] /\ turn'[t].route = r
        /\ r \in override => turn'[t].admitted = "maintenance"
        /\ since' = [since EXCEPT ![t] = IF r \in override THEN age[r] ELSE None]
        /\ UNCHANGED <<override, age, cleared>>
    BY <1>2 DEF Admit, TypeOK
  <2>2. \A u \in Turns \ {t} : turn'[u] = turn[u] /\ since'[u] = since[u]
    BY <2>1 DEF TypeOK
  <2>3. since'[t] = IF r \in override THEN age[r] ELSE None
    BY <2>1 DEF TypeOK
  <2> QED
    BY <1>a, <2>1, <2>2, <2>3 DEF HeldBack
<1>3. ASSUME NEW r \in Routes, MaybeClear(r), UNCHANGED <<turn, since, cleared>>
      PROVE  HeldBack'
  <2>1. CASE Recovered(r)
    <3>1. age[r] = Recovery /\ override' = override \ {r}
          /\ \A x \in Routes \ {r} : age'[x] = age[x]
      BY <1>3, <2>1 DEF MaybeClear, Recovered, TypeOK
    <3> SUFFICES ASSUME NEW t \in Turns, since'[t] # None PROVE HeldBack!(t)'
      BY DEF HeldBack
    <3>2. CASE turn[t].route = r
      BY <1>0, <1>3, <3>1, <3>2 DEF HeldBack
    <3>3. CASE turn[t].route # r
      BY <1>0, <1>3, <3>1, <3>3 DEF HeldBack
    <3> QED
      BY <3>2, <3>3
  <2>2. CASE ~Recovered(r)
    BY <1>3, <2>2 DEF MaybeClear, HeldBack
  <2> QED
    BY <2>1, <2>2
<1>5. ASSUME NEW t \in Turns, Consult(t) PROVE HeldBack'
  BY <1>3, <1>5, TurnTypes DEF Consult
<1>6. ASSUME NEW t \in Turns, Gate(t) PROVE HeldBack'
  <2>1. turn[t].route \in Routes /\ MaybeClear(turn[t].route) /\ UNCHANGED cleared
    BY <1>6, TurnTypes DEF Gate
  <2>2. CASE UNCHANGED <<turn, since>>
    BY <1>3, <2>1, <2>2
  <2>3. CASE Ended(t)
    <3>1. since'[t] = None /\ \A u \in Turns \ {t} : turn'[u] = turn[u] /\ since'[u] = since[u]
      BY <2>3 DEF Ended, TypeOK
    <3> SUFFICES ASSUME NEW u \in Turns \ {t}, since'[u] # None PROVE HeldBack!(u)'
      BY <3>1 DEF HeldBack
    <3> DEFINE r == turn[t].route
    <3>2. CASE Recovered(r)
      <4>1. age[r] = Recovery /\ override' = override \ {r}
            /\ \A x \in Routes \ {r} : age'[x] = age[x]
        BY <2>1, <3>2 DEF MaybeClear, Recovered, TypeOK
      <4>2. CASE turn[u].route = r
        BY <1>0, <2>1, <3>1, <4>1, <4>2 DEF HeldBack
      <4>3. CASE turn[u].route # r
        BY <1>0, <2>1, <3>1, <4>1, <4>3 DEF HeldBack
      <4> QED
        BY <4>2, <4>3
    <3>3. CASE ~Recovered(r)
      BY <2>1, <3>1, <3>3 DEF MaybeClear, HeldBack
    <3> QED
      BY <3>2, <3>3
  <2> QED
    BY <1>6, <2>2, <2>3 DEF Gate
<1>7. ASSUME NEW t \in Turns, Drop(t) \/ Succeed(t) PROVE HeldBack'
  BY <1>7 DEF Drop, Succeed, Ended, HeldBack, TypeOK
<1>8. ASSUME NEW t \in Turns, Fail(t) PROVE HeldBack'
  <2> DEFINE r == turn[t].route
  <2>1. r \in Routes /\ UNCHANGED cleared /\ Ended(t)
    BY <1>8, TurnTypes DEF Fail
  <2>2. since'[t] = None /\ \A u \in Turns \ {t} : turn'[u] = turn[u] /\ since'[u] = since[u]
    BY <2>1 DEF Ended, TypeOK
  <2>3. Trip(r) \/ UNCHANGED <<override, age>>
    BY <1>8 DEF Fail
  <2> HIDE DEF r
  <2>4. CASE Trip(r)
    <3>1. age'[r] = 0 /\ r \in override' /\ override \subseteq override'
          /\ \A x \in Routes \ {r} : age'[x] = age[x]
      BY <2>1, <2>4 DEF Trip, TypeOK
    <3> SUFFICES ASSUME NEW u \in Turns \ {t}, since'[u] # None PROVE HeldBack!(u)'
      BY <2>2 DEF HeldBack
    <3>2. CASE turn[u].route = r
      BY <1>0, <2>2, <3>1, <3>2 DEF HeldBack
    <3>3. CASE turn[u].route # r
      BY <1>0, <2>1, <2>2, <3>1, <3>3 DEF HeldBack
    <3> QED
      BY <3>2, <3>3
  <2>5. CASE UNCHANGED <<override, age>>
    BY <2>1, <2>2, <2>5 DEF HeldBack
  <2> QED
    BY <2>3, <2>4, <2>5
<1>9. ASSUME NEW new \in Configs, Reload(new) PROVE HeldBack'
  <2> SUFFICES ASSUME NEW t \in Turns, since'[t] # None PROVE HeldBack!(t)'
    BY DEF HeldBack
  <2> DEFINE r == turn[t].route
  <2>1. /\ UNCHANGED <<turn, since>>
        /\ r \in Cleared(new) => cleared'[r] = generation + 1
        /\ r \notin Cleared(new) => cleared'[r] = cleared[r] /\ age'[r] = age[r]
        /\ override' = override \ Cleared(new)
    BY <1>0, <1>9 DEF Reload, TypeOK
  <2>2. turn[t].generation <= generation
    BY <1>0, <2>1 DEF LiveTurns
  <2> QED
    BY <1>0, <2>1, <2>2 DEF HeldBack, TypeOK
<1>10. CASE UNCHANGED vars
  BY <1>10 DEF vars, HeldBack
<1> QED
  BY <1>1, <1>2, <1>5, <1>6, <1>7, <1>8, <1>9, <1>10 DEF Next, TurnStep

LEMMA HeldBackHolds == Spec => [](TypeOK /\ LiveTurns /\ Masks /\ HeldBack)
<1>1. Init => HeldBack
  BY DEF Init, HeldBack
<1> QED
  BY <1>1, Live, MasksHold, HeldBackStep, PTL DEF Spec

(* What the gate lets through to a prompt. *)
LEMMA PromptStep ==
  ASSUME TypeOK, LiveTurns, [Next]_vars,
         NEW t \in Turns, stage[t] = "admitted", stage'[t] = "prompting"
  PROVE  /\ turn[t].route \in Routes /\ MaybeClear(turn[t].route)
         /\ EffectiveState(t) = "active"
<1>1. ASSUME NEW u \in Turns, Ended(u) PROVE FALSE
  BY <1>1 DEF Ended, TypeOK
<1>2. Gate(t)
  <2>1. ASSUME NEW u \in Turns, Gate(u) PROVE u = t
    BY <1>1, <2>1 DEF Gate, TypeOK
  <2>2. ASSUME NEW u \in Turns, NEW r \in Routes, Admit(u, r) PROVE FALSE
    BY <2>2 DEF Admit, TypeOK
  <2>3. CASE Tick
    BY <2>3 DEF Tick
  <2>4. ASSUME NEW u \in Turns, Consult(u) PROVE FALSE
    BY <2>4 DEF Consult
  <2>5. ASSUME NEW u \in Turns, Drop(u) \/ Succeed(u) \/ Fail(u) PROVE FALSE
    BY <1>1, <2>5 DEF Drop, Succeed, Fail
  <2>6. ASSUME NEW new \in Configs, Reload(new) PROVE FALSE
    BY <2>6 DEF Reload
  <2>7. CASE UNCHANGED vars
    BY <2>7 DEF vars
  <2> QED
    BY <2>1, <2>2, <2>3, <2>4, <2>5, <2>6, <2>7 DEF Next, TurnStep
<1> QED
  BY <1>1, <1>2, TurnTypes DEF Gate

(* A turn admitted under an open breaker does not prompt before the         *)
(* cooldown of that trip, whatever reloads come in between.                 *)
THEOREM HeldUntilCooldown == Spec => NoPromptBeforeCooldown
<1> DEFINE Cooled == \A t \in Turns :
              stage[t] = "admitted" /\ stage'[t] = "prompting" /\ since[t] # None =>
                since[t] = Recovery
<1>1. TypeOK /\ LiveTurns /\ Masks /\ HeldBack /\ [Next]_vars => [Cooled]_vars
  <2> SUFFICES ASSUME TypeOK, LiveTurns, Masks, HeldBack, [Next]_vars,
                      NEW t \in Turns, stage[t] = "admitted",
                      stage'[t] = "prompting", since[t] # None
               PROVE  since[t] = Recovery
    OBVIOUS
  <2> DEFINE r == turn[t].route
  <2>1. r \in Routes /\ EffectiveState(t) = "active"
    BY PromptStep
  <2>2. turn[t].admitted = "maintenance"
    BY DEF HeldBack
  <2>3. ~(cleared[r] > turn[t].generation)
    BY <2>1, <2>2 DEF EffectiveState, KeepsGate
  <2>4. ~(r \in override /\ ~Recovered(r))
    BY <2>1 DEF EffectiveState, StateNow
  <2>5. CASE r \in override /\ age[r] <= since[t]
    <3>1. age[r] = Recovery
      BY <2>4, <2>5 DEF Recovered
    <3>2. since[t] \in 0..Recovery
      BY DEF TypeOK
    <3> QED
      BY <2>5, <3>1, <3>2
  <2> QED
    BY <2>3, <2>5 DEF HeldBack
<1>2. Spec => [][Cooled]_vars
  BY <1>1, HeldBackHolds, PTL DEF Spec
<1> QED
  BY <1>2 DEF NoPromptBeforeCooldown

(* No turn prompts while its route is masked. *)
THEOREM MaskedNotPrompted == Spec => NoPromptWhileMasked
<1> DEFINE Unmasked == \A t \in Turns :
              stage[t] = "admitted" /\ stage'[t] = "prompting" =>
                turn[t].route \notin override'
<1>1. TypeOK /\ LiveTurns /\ [Next]_vars => [Unmasked]_vars
  <2> SUFFICES ASSUME TypeOK, LiveTurns, [Next]_vars, NEW t \in Turns,
                      stage[t] = "admitted", stage'[t] = "prompting"
               PROVE  turn[t].route \notin override'
    OBVIOUS
  <2>1. MaybeClear(turn[t].route) /\ EffectiveState(t) = "active"
    BY PromptStep
  <2>2. ~(turn[t].route \in override /\ ~Recovered(turn[t].route))
    BY <2>1 DEF EffectiveState, StateNow
  <2> QED
    BY <2>1, <2>2 DEF MaybeClear
<1>2. Spec => [][Unmasked]_vars
  BY <1>1, Live, PTL DEF Spec
<1> QED
  BY <1>2 DEF NoPromptWhileMasked
====
