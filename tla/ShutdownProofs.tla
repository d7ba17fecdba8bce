---- MODULE ShutdownProofs ----
(***************************************************************************)
(* Two parts, for any number of slots, permits, bytes, requests and        *)
(* reapers.  The dispatcher of SignalConsumer: its permits balance, its    *)
(* wake-ups are not lost, its byte budget is exceeded by one frame at      *)
(* most, the bytes charged are those of the unsettled turns, nothing is    *)
(* dispatched behind the fence.  And close(), however long a turn or a     *)
(* request hangs: the same still holds beside it, an empty result means    *)
(* that nothing is left running, and what starts during the shutdown is in *)
(* the snapshot of a drain that is still to come.                          *)
(***************************************************************************)
EXTENDS Shutdown, FiniteSetTheorems, WellFoundedInduction, TLAPS

-----------------------------------------------------------------------------
(* Sums over a finite set.  The recursion that MapThenSumSet is defined by  *)
(* has one solution; what depends on an induction is proved by the least    *)
(* cardinality of a counterexample.                                         *)

Pick(s) == CHOOSE x \in s : TRUE
Total(g, f, s) == IF s = {} THEN 0 ELSE f[Pick(s)] + g[s \ {Pick(s)}]
Adding(g, f, S) == g = [s \in SUBSET S |-> Total(g, f, s)]
Sum(f, S) == MapThenSumSet(LAMBDA t : f[t], S)

LEMMA SumIs ==
  ASSUME NEW f, NEW S PROVE Sum(f, S) = (CHOOSE g : Adding(g, f, S))[S]
  BY DEF Sum, MapThenSumSet, MapThenFoldSet, Adding, Total, Pick

LEMMA Least ==
  ASSUME NEW T, T \subseteq Nat, T # {}
  PROVE  \E n \in T : \A m \in T : ~(m < n)
<1> DEFINE R == {ss \in Nat \X Nat : ss[1] < ss[2]}
<1>1. IsWellFoundedOn(R, Nat)
  BY NatLessThanWellFounded, Zenon DEF OpToRel
<1>2. PICK n \in T : \A m \in T : ~(<<m, n>> \in R)
  <2> HIDE DEF R
  <2> QED
    BY <1>1, WFMin
<1> QED
  BY <1>2

LEMMA Picked ==
  ASSUME NEW S, IsFiniteSet(S), NEW s \in SUBSET S, s # {}
  PROVE  Pick(s) \in s
  BY DEF Pick

LEMMA Smaller ==
  ASSUME NEW S, IsFiniteSet(S), NEW s \in SUBSET S, NEW x \in s
  PROVE  /\ s \ {x} \in SUBSET S /\ x \in S
         /\ Cardinality(s) \in Nat \ {0} /\ Cardinality(s \ {x}) = Cardinality(s) - 1
<1>1. IsFiniteSet(s)
  BY FS_Subset
<1>2. Cardinality(s) \in Nat /\ Cardinality(s \ {x}) \in Nat
  BY <1>1, FS_CardinalityType, FS_RemoveElement
<1>3. Cardinality(s \ {x}) = Cardinality(s) - 1
  BY <1>1, FS_RemoveElement
<1> QED
  BY <1>2, <1>3

LEMMA SumExists ==
  ASSUME NEW S, IsFiniteSet(S), NEW f \in [S -> Nat]
  PROVE  \E g \in [SUBSET S -> Nat] : Adding(g, f, S)
<1> DEFINE B(n) == {s \in SUBSET S : Cardinality(s) <= n}
           P(n) == \E g \in [B(n) -> Nat] : \A s \in B(n) : g[s] = Total(g, f, s)
           T == {n \in Nat : ~P(n)}
<1>1. T = {}
  <2> SUFFICES ASSUME T # {} PROVE FALSE
    OBVIOUS
  <2>1. PICK n \in T : \A m \in T : ~(m < n)
    <3>1. T \subseteq Nat
      OBVIOUS
    <3> HIDE DEF T
    <3> QED
      BY <3>1, Least
  <2>2. CASE n = 0
    <3>1. ASSUME NEW s \in B(0) PROVE s = {}
      <4>1. s \in SUBSET S /\ Cardinality(s) <= 0
        BY <3>1
      <4>2. ASSUME NEW x \in s PROVE FALSE
        <5>1. Cardinality(s) \in Nat \ {0}
          BY <4>1, Smaller
        <5> QED
          BY <4>1, <5>1
      <4> QED
        BY <4>2
    <3> DEFINE g == [s \in B(0) |-> 0]
    <3>2. g \in [B(0) -> Nat] /\ \A s \in B(0) : g[s] = Total(g, f, s)
      BY <3>1 DEF Total
    <3>3. P(0)
      BY <3>2
    <3> QED
      BY <2>1, <2>2, <3>3
  <2>3. CASE n # 0
    <3>1. n - 1 \in Nat /\ P(n - 1)
      <4> HIDE DEF P
      <4>1. n - 1 \in Nat /\ n - 1 < n
        BY <2>1, <2>3
      <4> QED
        BY <2>1, <4>1
    <3>2. PICK g \in [B(n - 1) -> Nat] : \A s \in B(n - 1) : g[s] = Total(g, f, s)
      BY <3>1
    <3> DEFINE h == [s \in B(n) |-> IF s \in B(n - 1) THEN g[s] ELSE Total(g, f, s)]
    <3>3. ASSUME NEW s \in B(n), s # {}
          PROVE  Pick(s) \in S /\ s \ {Pick(s)} \in B(n - 1) /\ s \ {Pick(s)} \in B(n)
      <4>1. Pick(s) \in s
        BY <3>3, Picked
      <4> QED
        BY <3>1, <4>1, Smaller
    <3>4. ASSUME NEW s \in B(n) PROVE Total(g, f, s) \in Nat /\ Total(h, f, s) = Total(g, f, s)
      BY <3>2, <3>3 DEF Total
    <3>5. h \in [B(n) -> Nat]
      BY <3>2, <3>4
    <3>6. \A s \in B(n) : h[s] = Total(h, f, s)
      BY <3>2, <3>4
    <3>7. P(n)
      <4> HIDE DEF h
      <4> QED
        BY <3>5, <3>6
    <3> QED
      BY <2>1, <3>7
  <2> QED
    BY <2>2, <2>3
<1>2. Cardinality(S) \in Nat /\ P(Cardinality(S))
  BY <1>1, FS_CardinalityType
<1>3. B(Cardinality(S)) = SUBSET S
  BY <1>2, FS_Subset
<1>4. PICK g \in [SUBSET S -> Nat] : \A s \in SUBSET S : g[s] = Total(g, f, s)
  BY <1>2, <1>3
<1> QED
  BY <1>4 DEF Adding

(* Solutions for functions that agree on a set agree on it. *)
LEMMA SumAgrees ==
  ASSUME NEW S, IsFiniteSet(S), NEW f, NEW e, NEW g, NEW h,
         Adding(g, f, S), Adding(h, e, S),
         NEW s \in SUBSET S, \A x \in s : f[x] = e[x]
  PROVE  g[s] = h[s]
<1> DEFINE D == {u \in SUBSET s : g[u] # h[u]}
           T == {Cardinality(u) : u \in D}
<1> SUFFICES ASSUME D # {} PROVE FALSE
  OBVIOUS
<1>1. T \subseteq Nat /\ T # {}
  <2>1. \A u \in SUBSET S : Cardinality(u) \in Nat
    BY FS_Subset, FS_CardinalityType
  <2> QED
    BY <2>1
<1>2. PICK u \in D : \A v \in D : ~(Cardinality(v) < Cardinality(u))
  <2> HIDE DEF D
  <2>1. PICK n \in T : \A m \in T : ~(m < n)
    <3> HIDE DEF T
    <3> QED
      BY <1>1, Least
  <2> QED
    BY <2>1
<1>3. u \in SUBSET S /\ g[u] = Total(g, f, u) /\ h[u] = Total(h, e, u)
  BY DEF Adding
<1>4. u # {}
  BY <1>2, <1>3 DEF Total
<1>5. Pick(u) \in u
  BY <1>3, <1>4, Picked
<1>6. u \ {Pick(u)} \notin D
  BY <1>2, <1>3, <1>5, Smaller
<1>7. g[u \ {Pick(u)}] = h[u \ {Pick(u)}] /\ f[Pick(u)] = e[Pick(u)]
  BY <1>5, <1>6
<1> QED
  BY <1>2, <1>3, <1>4, <1>7 DEF Total

(* The order in which a set is summed up does not matter. *)
LEMMA SumAnyOrder ==
  ASSUME NEW S, IsFiniteSet(S), NEW f \in [S -> Nat], NEW g \in [SUBSET S -> Nat],
         Adding(g, f, S), NEW s \in SUBSET S, NEW x \in s
  PROVE  g[s] = f[x] + g[s \ {x}]
<1> DEFINE D == {u \in SUBSET S : \E y \in u : g[u] # f[y] + g[u \ {y}]}
           T == {Cardinality(u) : u \in D}
<1> SUFFICES ASSUME D # {} PROVE FALSE
  OBVIOUS
<1>1. T \subseteq Nat /\ T # {}
  <2>1. \A u \in SUBSET S : Cardinality(u) \in Nat
    BY FS_Subset, FS_CardinalityType
  <2> QED
    BY <2>1
<1>2. PICK u \in D : \A v \in D : ~(Cardinality(v) < Cardinality(u))
  <2> HIDE DEF D
  <2>1. PICK n \in T : \A m \in T : ~(m < n)
    <3> HIDE DEF T
    <3> QED
      BY <1>1, Least
  <2> QED
    BY <2>1
<1>3. PICK y \in u : g[u] # f[y] + g[u \ {y}]
  OBVIOUS
<1> DEFINE p == Pick(u)
<1>4. p \in u
  BY <1>3, Picked
<1>5. g[u] = f[p] + g[u \ {p}]
  BY <1>3 DEF Adding, Total
<1> HIDE DEF p
<1>6. y # p
  BY <1>3, <1>5
<1>7. /\ u \ {p} \in SUBSET S /\ u \ {p} \notin D /\ p \in S
      /\ u \ {y} \in SUBSET S /\ u \ {y} \notin D /\ y \in S
  <2>1. u \in SUBSET S
    OBVIOUS
  <2>2. ASSUME NEW z \in u PROVE u \ {z} \in SUBSET S /\ u \ {z} \notin D /\ z \in S
    <3>1. /\ u \ {z} \in SUBSET S /\ z \in S /\ Cardinality(u) \in Nat \ {0}
          /\ Cardinality(u \ {z}) = Cardinality(u) - 1
      BY <2>1, Smaller
    <3>2. Cardinality(u \ {z}) < Cardinality(u)
      BY <3>1
    <3> HIDE DEF D
    <3> QED
      BY <1>2, <3>1, <3>2
  <2> QED
    BY <1>4, <2>2
<1>8. g[u \ {p}] = f[y] + g[(u \ {p}) \ {y}] /\ g[u \ {y}] = f[p] + g[(u \ {y}) \ {p}]
  BY <1>4, <1>6, <1>7
<1>9. (u \ {p}) \ {y} = (u \ {y}) \ {p} /\ (u \ {p}) \ {y} \in SUBSET S
  OBVIOUS
<1>10. f[y] \in Nat /\ f[p] \in Nat /\ g[(u \ {p}) \ {y}] \in Nat
  BY <1>7, <1>9
<1>11. g[(u \ {y}) \ {p}] = g[(u \ {p}) \ {y}]
  BY <1>9
<1> QED
  BY ONLY <1>3, <1>5, <1>8, <1>10, <1>11

LEMMA SumIsAdding ==
  ASSUME NEW S, IsFiniteSet(S), NEW f \in [S -> Nat]
  PROVE  \E g \in [SUBSET S -> Nat] : Adding(g, f, S) /\ Sum(f, S) = g[S]
<1>1. PICK g \in [SUBSET S -> Nat] : Adding(g, f, S)
  BY SumExists
<1> DEFINE h == CHOOSE h : Adding(h, f, S)
<1>2. Adding(h, f, S)
  BY <1>1
<1> HIDE DEF h
<1>3. g[S] = h[S]
  BY <1>1, <1>2, SumAgrees
<1> QED
  BY <1>1, <1>3, SumIs DEF h

LEMMA SumAddsEach ==
  ASSUME NEW S, IsFiniteSet(S), NEW f \in [S -> Nat], NEW g \in [SUBSET S -> Nat],
         Adding(g, f, S), NEW x \in S
  PROVE  g[S] = f[x] + g[S \ {x}]
<1>1. S \in SUBSET S
  OBVIOUS
<1> QED
  BY <1>1, SumAnyOrder

(* A sum changes by as much as the one summand that changes. *)
LEMMA SumChanges ==
  ASSUME NEW S, IsFiniteSet(S), NEW f \in [S -> Nat], NEW e \in [S -> Nat],
         NEW x \in S, \A y \in S \ {x} : e[y] = f[y]
  PROVE  Sum(f, S) \in Nat /\ Sum(e, S) \in Nat /\ Sum(e, S) + f[x] = Sum(f, S) + e[x]
<1>1. PICK g \in [SUBSET S -> Nat] : Adding(g, f, S) /\ Sum(f, S) = g[S]
  BY SumIsAdding
<1>2. PICK h \in [SUBSET S -> Nat] : Adding(h, e, S) /\ Sum(e, S) = h[S]
  BY SumIsAdding
<1>3. g[S] = f[x] + g[S \ {x}] /\ h[S] = e[x] + h[S \ {x}]
  <2>0. IsFiniteSet(S) /\ f \in [S -> Nat] /\ e \in [S -> Nat] /\ x \in S
    OBVIOUS
  <2>1. g[S] = f[x] + g[S \ {x}]
    BY ONLY <1>1, <2>0, SumAddsEach
  <2>2. h[S] = e[x] + h[S \ {x}]
    BY ONLY <1>2, <2>0, SumAddsEach
  <2> QED
    BY <2>1, <2>2
<1>4. g[S \ {x}] = h[S \ {x}]
  BY <1>1, <1>2, SumAgrees
<1>5. f[x] \in Nat /\ e[x] \in Nat /\ g[S \ {x}] \in Nat /\ g[S] \in Nat /\ h[S] \in Nat
  OBVIOUS
<1> QED
  BY ONLY <1>1, <1>2, <1>3, <1>4, <1>5

LEMMA SumOfNothing ==
  ASSUME NEW S, IsFiniteSet(S), NEW f \in [S -> Nat], \A x \in S : f[x] = 0
  PROVE  Sum(f, S) = 0
<1>1. PICK g \in [SUBSET S -> Nat] : Adding(g, f, S) /\ Sum(f, S) = g[S]
  BY SumIsAdding
<1> DEFINE h == [s \in SUBSET S |-> 0]
<1>2. Adding(h, f, S)
  <2>1. ASSUME NEW s \in SUBSET S PROVE h[s] = Total(h, f, s)
    BY Picked DEF Total
  <2> QED
    BY <2>1 DEF Adding
<1>3. g[S] = h[S]
  <2> HIDE DEF h
  <2> QED
    BY <1>1, <1>2, SumAgrees
<1> QED
  BY <1>1, <1>3

-----------------------------------------------------------------------------
(* The dispatcher *)

(* TypeOK, except for the sign of bytes, the bound of value and waits: the  *)
(* first two follow from the balances of the budgets (TypesFollow).         *)
Typed ==
    /\ consumer \in Parked \cup {"fresh", "reading", "draining", "ended"}
    /\ woken \in BOOLEAN /\ cancelled \in BOOLEAN /\ closing \in BOOLEAN
    /\ bytes \in Int
    /\ value \in Nat
    /\ state \in [Tasks -> {"free", "running", "done"}]
    /\ size \in [Turns -> 0..Limit]

(* begin_shutdown stopped the consumer. *)
Stopped == closing => cancelled \/ consumer = "ended"

(* Past the byte gate the budget is not exhausted, since only the consumer  *)
(* itself adds to it.                                                       *)
PastByteGate == consumer \in {"reading", "onPermit"} => bytes < Limit

ConsumerInv ==
    /\ Typed /\ Stopped /\ PastByteGate
    /\ PermitsBalance /\ NoLostWakeup /\ WithinOneFrame

(* One slot more or less. *)
LEMMA SlotTaken ==
    ASSUME Typed, NEW t \in Turns, state[t] = "free",
           state' = [state EXCEPT ![t] = "running"]
    PROVE  /\ Cardinality(Unsettled) \in Nat
           /\ Cardinality(Unsettled') = Cardinality(Unsettled) + 1
<1>1. IsFiniteSet(Unsettled)
  BY TasksFinite, FS_Subset DEF Unsettled
<1>2. Unsettled' = Unsettled \cup {t} /\ t \notin Unsettled
  BY DEF Unsettled, Typed, Tasks
<1> QED
  BY <1>1, <1>2, FS_AddElement, FS_CardinalityType

LEMMA SlotFreed ==
    ASSUME Typed, NEW t \in Turns, state[t] = "done",
           state' = [state EXCEPT ![t] = "free"]
    PROVE  /\ Cardinality(Unsettled) \in Nat
           /\ Cardinality(Unsettled') = Cardinality(Unsettled) + (-1)
<1>1. IsFiniteSet(Unsettled)
  BY TasksFinite, FS_Subset DEF Unsettled
<1>2. Unsettled' = Unsettled \ {t} /\ t \in Unsettled
  BY DEF Unsettled, Typed, Tasks
<1> QED
  BY <1>1, <1>2, FS_RemoveElement, FS_CardinalityType, FS_Subset

LEMMA SlotsKept ==
    ASSUME Typed, \A t \in Turns : state'[t] = "free" <=> state[t] = "free"
    PROVE  /\ Cardinality(Unsettled) \in Nat
           /\ Unsettled' = Unsettled
<1>1. IsFiniteSet(Unsettled)
  BY TasksFinite, FS_Subset DEF Unsettled
<1> QED
  BY <1>1, FS_CardinalityType DEF Unsettled

(* A slot more, a permit less elsewhere.  The terms are named first: the     *)
(* provers do not add primed terms to unprimed ones.                        *)
LEMMA Balance ==
    ASSUME Typed, Typed', PermitsBalance, NEW k \in -1..1,
           Cardinality(Unsettled) \in Nat,
           Cardinality(Unsettled') = Cardinality(Unsettled) + k,
           value' + ConsumersPermit' = value + ConsumersPermit - k
    PROVE  PermitsBalance'
<1>1. PICK v \in Nat : v = value
  BY DEF Typed
<1>2. PICK w \in Nat : w = value'
  BY DEF Typed
<1>3. PICK c \in 0..1 : c = ConsumersPermit
  BY DEF ConsumersPermit
<1>4. PICK d \in 0..1 : d = ConsumersPermit'
  BY DEF ConsumersPermit
<1>5. PICK n \in Nat : n = Cardinality(Unsettled)
  OBVIOUS
<1>6. PICK m \in Int : m = Cardinality(Unsettled') /\ m = n + k
  BY <1>5
<1>7. v + n + c = Permits
  BY <1>1, <1>3, <1>5 DEF PermitsBalance
<1>8. w + d = v + c - k
  BY <1>1, <1>2, <1>3, <1>4, Zenon
<1>9. w + m + d = Permits
  BY <1>6, <1>7, <1>8
<1> QED
  BY <1>9, <1>2, <1>4, <1>6, Zenon DEF PermitsBalance

LEMMA ConsumerInit == Init => ConsumerInv
<1> SUFFICES ASSUME Init PROVE ConsumerInv
  OBVIOUS
<1>1. Unsettled = {}
  BY DEF Init, Unsettled, Tasks
<1>2. Typed
  <2>1. /\ consumer \in Parked \cup {"fresh", "reading", "draining", "ended"}
        /\ woken \in BOOLEAN /\ cancelled \in BOOLEAN /\ closing \in BOOLEAN
    BY DEF Init
  <2>2. bytes \in Int /\ value \in Nat
    BY BufferOK DEF Init
  <2>3. state \in [Tasks -> {"free", "running", "done"}]
    BY DEF Init
  <2>4. size \in [Turns -> 0..Limit]
    BY LimitOK DEF Init
  <2> QED
    BY <2>1, <2>2, <2>3, <2>4 DEF Typed
<1>5. Stopped /\ PastByteGate /\ NoLostWakeup
  BY DEF Init, Stopped, PastByteGate, NoLostWakeup
<1>4. WithinOneFrame
  BY LimitOK DEF Init, WithinOneFrame
<1>3. PermitsBalance
  BY <1>1, FS_EmptySet, BufferOK DEF Init, PermitsBalance, ConsumersPermit
<1> QED
  BY <1>2, <1>3, <1>4, <1>5 DEF ConsumerInv

(* From the top of the loop to the next await. *)
LEMMA Loops ==
    ASSUME Typed, NEW b \in Int, LoopTop(b, value)
    PROVE  /\ consumer' \in {"onBytes", "onPermit", "reading"}
           /\ woken' = FALSE
           /\ value' \in Nat
           /\ consumer' # "onBytes" => b < Limit
           /\ consumer' = "onBytes" => ~(b < Limit)
           /\ consumer' = "onPermit" => ~(value' > 0)
           /\ value = value' + ConsumersPermit'
<1>1. value \in Nat
  BY DEF Typed
<1>2. consumer' \in {"onBytes", "onPermit", "reading"} /\ woken' = FALSE
  BY DEF LoopTop
<1>3. value' \in Nat /\ (consumer' = "onPermit" => ~(value' > 0))
  BY <1>1 DEF LoopTop
<1>4. /\ consumer' # "onBytes" => b < Limit
      /\ consumer' = "onBytes" => ~(b < Limit)
  BY LimitOK DEF LoopTop
<1>5. value = value' + ConsumersPermit'
  BY <1>1 DEF LoopTop, ConsumersPermit
<1> QED
  BY <1>2, <1>3, <1>4, <1>5

(* A step that touches neither budget. *)
LEMMA NeitherBudget ==
    ASSUME ConsumerInv, Typed',
           UNCHANGED <<consumer, woken, cancelled, bytes, value, size, closing>>,
           \A t \in Turns : state'[t] = "free" <=> state[t] = "free"
    PROVE  ConsumerInv'
<1>t. /\ Typed /\ Stopped /\ PastByteGate
      /\ PermitsBalance /\ NoLostWakeup /\ WithinOneFrame
  BY DEF ConsumerInv
<1>1. Cardinality(Unsettled) \in Nat /\ Unsettled' = Unsettled
  BY <1>t, SlotsKept
<1>2. PermitsBalance'
  BY <1>1, <1>t DEF PermitsBalance, ConsumersPermit
<1> QED
  BY <1>2, <1>t DEF ConsumerInv, Stopped, PastByteGate, NoLostWakeup, WithinOneFrame

LEMMA ConsumerSteps == ConsumerInv /\ [Next]_consumerVars => ConsumerInv'
<1> SUFFICES ASSUME ConsumerInv, [Next]_consumerVars PROVE ConsumerInv'
  OBVIOUS
<1> USE LimitOK, BufferOK, TasksFinite
<1>t. /\ Typed /\ Stopped /\ PastByteGate
      /\ PermitsBalance /\ NoLostWakeup /\ WithinOneFrame
  BY DEF ConsumerInv
<1> DEFINE Other == /\ Typed' /\ Stopped' /\ PastByteGate'
                    /\ NoLostWakeup' /\ WithinOneFrame'
(* Steps that leave the slots alone: the permit moves between the semaphore *)
(* and the consumer.                                                        *)
<1>k. ASSUME Other, UNCHANGED state,
             value' + ConsumersPermit' = value + ConsumersPermit
      PROVE  ConsumerInv'
  <2>1. Cardinality(Unsettled) \in Nat /\ Unsettled' = Unsettled
    BY <1>t, <1>k, SlotsKept
  <2>2. Cardinality(Unsettled') = Cardinality(Unsettled) + 0
    BY <2>1
  <2>4. value' + ConsumersPermit' = value + ConsumersPermit - 0
    <3>1. value \in Nat /\ ConsumersPermit \in 0..1
      BY <1>t DEF Typed, ConsumersPermit
    <3>2. value + ConsumersPermit - 0 = value + ConsumersPermit
      BY <3>1
    <3> QED
      BY <3>2, <1>k, Zenon
  <2>3. PermitsBalance'
    <3>1. Typed'
      BY <1>k DEF Other
    <3> QED
      BY <3>1, <2>1, <2>2, <2>4, <1>t, Balance
  <2> QED
    BY <2>3, <1>k DEF Other, ConsumerInv
<1>1. CASE Begin
  <2>0. LoopTop(bytes, value) /\ bytes \in Int /\ ~cancelled
    BY <1>1, <1>t DEF Begin, Typed
  <2>1. Other
    <3>0. /\ consumer' \in {"onBytes", "onPermit", "reading"}
          /\ woken' = FALSE /\ value' \in Nat
          /\ consumer' # "onBytes" => bytes < Limit
      BY <2>0, <1>t, Loops
    <3>1. Typed' /\ Stopped' /\ PastByteGate'
      BY <3>0, <1>1, <1>t DEF Begin, Typed, Stopped, PastByteGate, Parked
    <3>2. NoLostWakeup'
      BY <1>1, <1>t DEF Begin, LoopTop, Typed, NoLostWakeup, PastByteGate, Parked
    <3>3. WithinOneFrame'
      BY <1>1, <1>t DEF Begin, LoopTop, WithinOneFrame
    <3> QED
      BY <3>1, <3>2, <3>3
  <2>2. value' + ConsumersPermit' = value + ConsumersPermit
    BY <1>1, <1>t DEF Begin, LoopTop, ConsumersPermit, Typed
  <2> QED
    BY <2>1, <2>2, <1>k, <1>1 DEF Begin
<1>2. CASE BytesFreed
  <2>0. LoopTop(bytes, value) /\ bytes \in Int /\ ~cancelled
    BY <1>2, <1>t DEF BytesFreed, Typed
  <2>1. Other
    <3>0. /\ consumer' \in {"onBytes", "onPermit", "reading"}
          /\ woken' = FALSE /\ value' \in Nat
          /\ consumer' # "onBytes" => bytes < Limit
      BY <2>0, <1>t, Loops
    <3>1. Typed' /\ Stopped' /\ PastByteGate'
      BY <3>0, <1>2, <1>t DEF BytesFreed, Typed, Stopped, PastByteGate, Parked
    <3>2. NoLostWakeup'
      BY <1>2, <1>t DEF BytesFreed, LoopTop, Typed, NoLostWakeup, PastByteGate, Parked
    <3>3. WithinOneFrame'
      BY <1>2, <1>t DEF BytesFreed, LoopTop, WithinOneFrame
    <3> QED
      BY <3>1, <3>2, <3>3
  <2>2. value' + ConsumersPermit' = value + ConsumersPermit
    BY <1>2, <1>t DEF BytesFreed, LoopTop, ConsumersPermit, Typed
  <2> QED
    BY <2>1, <2>2, <1>k, <1>2 DEF BytesFreed
<1>3. CASE PermitGranted
  <2>1. Other
    <3>1. Typed' /\ Stopped' /\ PastByteGate'
      BY <1>3, <1>t DEF PermitGranted, Typed, Stopped, PastByteGate, Parked
    <3>2. NoLostWakeup'
      BY <1>3, <1>t DEF PermitGranted, Typed, NoLostWakeup, PastByteGate, Parked
    <3>3. WithinOneFrame'
      BY <1>3, <1>t DEF PermitGranted, WithinOneFrame
    <3> QED
      BY <3>1, <3>2, <3>3
  <2>2. value' + ConsumersPermit' = value + ConsumersPermit
    BY <1>3, <1>t DEF PermitGranted, ConsumersPermit, Typed
  <2> QED
    BY <2>1, <2>2, <1>k, <1>3 DEF PermitGranted
<1>4. CASE DrainOver
  <2>1. Other
    <3>1. Typed' /\ Stopped' /\ PastByteGate'
      BY <1>4, <1>t DEF DrainOver, Typed, Stopped, PastByteGate, Parked
    <3>2. NoLostWakeup'
      BY <1>4, <1>t DEF DrainOver, Typed, NoLostWakeup, PastByteGate, Parked
    <3>3. WithinOneFrame'
      BY <1>4, <1>t DEF DrainOver, WithinOneFrame
    <3> QED
      BY <3>1, <3>2, <3>3
  <2>2. value' + ConsumersPermit' = value + ConsumersPermit
    BY <1>4, <1>t DEF DrainOver, ConsumersPermit, Typed
  <2> QED
    BY <2>1, <2>2, <1>k, <1>4 DEF DrainOver
<1>5. CASE Unwind
  <2>1. Other
    <3>1. Typed' /\ Stopped' /\ PastByteGate'
      <4>1. value' \in Nat
        BY <1>5, <1>t DEF Unwind, PermitToReturn, Typed
      <4>2. consumer' = "ended" /\ woken' = FALSE
        BY <1>5 DEF Unwind
      <4> QED
        BY <4>1, <4>2, <1>5, <1>t DEF Unwind, Typed, Stopped, PastByteGate, Parked
    <3>2. NoLostWakeup'
      BY <1>5, <1>t DEF Unwind, PermitToReturn, Typed, NoLostWakeup, PastByteGate, Parked
    <3>3. WithinOneFrame'
      BY <1>5, <1>t DEF Unwind, PermitToReturn, WithinOneFrame
    <3> QED
      BY <3>1, <3>2, <3>3
  <2>2. value' + ConsumersPermit' = value + ConsumersPermit
    BY <1>5, <1>t DEF Unwind, PermitToReturn, ConsumersPermit, Typed
  <2> QED
    BY <2>1, <2>2, <1>k, <1>5 DEF Unwind
<1>6. CASE StreamEnds
  <2>1. Other
    <3>1. Typed' /\ Stopped' /\ PastByteGate'
      BY <1>6, <1>t DEF StreamEnds, MayRead, Typed, Stopped, PastByteGate, Parked
    <3>2. NoLostWakeup'
      BY <1>6, <1>t DEF StreamEnds, MayRead, Typed, NoLostWakeup, PastByteGate, Parked
    <3>3. WithinOneFrame'
      BY <1>6, <1>t DEF StreamEnds, MayRead, WithinOneFrame
    <3> QED
      BY <3>1, <3>2, <3>3
  <2>2. value' + ConsumersPermit' = value + ConsumersPermit
    BY <1>6, <1>t DEF StreamEnds, MayRead, ConsumersPermit, Typed
  <2> QED
    BY <2>1, <2>2, <1>k, <1>6 DEF StreamEnds
<1>7. CASE StreamFails
  <2>1. Other
    <3>1. Typed' /\ Stopped' /\ PastByteGate'
      BY <1>7, <1>t DEF StreamFails, MayRead, Typed, Stopped, PastByteGate, Parked
    <3>2. NoLostWakeup'
      BY <1>7, <1>t DEF StreamFails, MayRead, Typed, NoLostWakeup, PastByteGate, Parked
    <3>3. WithinOneFrame'
      BY <1>7, <1>t DEF StreamFails, MayRead, WithinOneFrame
    <3> QED
      BY <3>1, <3>2, <3>3
  <2>2. value' + ConsumersPermit' = value + ConsumersPermit
    BY <1>7, <1>t DEF StreamFails, MayRead, ConsumersPermit, Typed
  <2> QED
    BY <2>1, <2>2, <1>k, <1>7 DEF StreamFails
<1>8. CASE BeginShutdown
  <2>1. Other
    <3>1. Typed' /\ Stopped' /\ PastByteGate'
      BY <1>8, <1>t DEF BeginShutdown, CancelConsumer, Typed, Stopped, PastByteGate, Parked
    <3>2. NoLostWakeup'
      BY <1>8, <1>t DEF BeginShutdown, CancelConsumer, Typed, NoLostWakeup, PastByteGate, Parked
    <3>3. WithinOneFrame'
      BY <1>8, <1>t DEF BeginShutdown, CancelConsumer, WithinOneFrame
    <3> QED
      BY <3>1, <3>2, <3>3
  <2>2. value' + ConsumersPermit' = value + ConsumersPermit
    BY <1>8, <1>t DEF BeginShutdown, ConsumersPermit
  <2> QED
    BY <2>1, <2>2, <1>k, <1>8 DEF BeginShutdown
(* The consumer's permit goes to the new task, and it takes the next.       *)
<1>9. ASSUME NEW t \in Turns, NEW n \in Sizes, Dispatch(t, n)
      PROVE  ConsumerInv'
  <2> USE <1>9 DEF Dispatch, MayRead
  <2>0. n \in Int /\ bytes \in Int /\ bytes + n \in Int /\ ConsumersPermit = 1
    BY <1>t DEF Typed, ConsumersPermit
  <2>l. /\ consumer' \in {"onBytes", "onPermit", "reading"}
        /\ woken' = FALSE /\ value' \in Nat
        /\ consumer' # "onBytes" => bytes' < Limit
        /\ consumer' = "onBytes" => ~(bytes' < Limit)
        /\ consumer' = "onPermit" => ~(value' > 0)
        /\ value = value' + ConsumersPermit'
    BY <2>0, <1>t, Loops
  <2>1. Typed' /\ Stopped' /\ PastByteGate' /\ NoLostWakeup'
    <3>1. bytes' \in Int
      BY <2>0
    <3>2. /\ state' \in [Tasks -> {"free", "running", "done"}]
          /\ size' \in [Turns -> 0..Limit]
      BY <1>t DEF Typed
    <3>3. Typed'
      BY <3>1, <3>2, <2>l, <1>t DEF Typed, Parked
    <3>4. Stopped'
      BY <1>t DEF Stopped
    <3> QED
      BY <3>3, <3>4, <2>l DEF PastByteGate, NoLostWakeup
  <2>2. WithinOneFrame'
    <3>1. bytes' - size'[t] < Limit
      BY <1>t DEF Typed, PastByteGate
    <3> QED
      BY <3>1 DEF WithinOneFrame
  <2>3. PermitsBalance'
    <3>1. /\ Cardinality(Unsettled) \in Nat
          /\ Cardinality(Unsettled') = Cardinality(Unsettled) + 1
      BY <1>t, SlotTaken
    <3>2. value' + ConsumersPermit' = value + ConsumersPermit - 1
      <4>1. value \in Nat
        BY <1>t DEF Typed
      <4>2. value + ConsumersPermit - 1 = value
        BY <4>1, <2>0
      <4> QED
        BY <4>2, <2>l, Zenon
    <3> QED
      BY <3>1, <3>2, <2>1, <1>t, Balance
  <2> QED
    BY <2>1, <2>2, <2>3 DEF ConsumerInv
(* The task's permit goes back, or straight to the waiting consumer.        *)
<1>10. ASSUME NEW t \in Tasks, SettleTurn(t)
       PROVE  ConsumerInv'
  <2> USE <1>10 DEF SettleTurn, Refund
  <2>1. Typed' /\ Stopped' /\ PastByteGate'
    BY <1>t DEF Typed, Stopped, PastByteGate, TakesPermit, WakesForBytes, FreedBytes
  <2>2. NoLostWakeup'
    <3>1. size[t] \in 0..Limit /\ bytes \in Int
      BY <1>t DEF Typed
    <3>2. ASSUME ~cancelled, consumer = "onBytes", bytes' < Limit
          PROVE  woken'
      <4>1. CASE size[t] > 0
        BY <4>1, <3>2 DEF WakesForBytes, FreedBytes
      <4>2. CASE size[t] = 0
        <5>1. bytes' = bytes
          BY <4>2, <3>1
        <5>2. woken
          BY <5>1, <3>2, <1>t DEF NoLostWakeup
        <5> QED
          BY <5>2
      <4> QED
        BY <4>1, <4>2, <3>1
    <3>3. ASSUME ~cancelled, consumer = "onPermit", value' > 0
          PROVE  woken'
      BY <3>3, <1>t DEF Typed, NoLostWakeup, TakesPermit
    <3> QED
      BY <3>2, <3>3 DEF NoLostWakeup
  <2>3. WithinOneFrame'
    <3>1. CASE bytes < Limit
      BY <3>1, <1>t DEF WithinOneFrame, Typed
    <3>2. ASSUME NEW u \in Turns, bytes - size[u] < Limit
          PROVE  WithinOneFrame'
      <4>1. CASE u = t
        BY <4>1, <3>2, <1>t DEF WithinOneFrame, Typed
      <4>2. CASE u # t
        <5>1. bytes' - size'[u] < Limit
          BY <4>2, <3>2, <1>t DEF Typed
        <5> QED
          BY <5>1 DEF WithinOneFrame
      <4> QED
        BY <4>1, <4>2
    <3> QED
      BY <3>1, <3>2, <1>t DEF WithinOneFrame
  <2>4. PermitsBalance'
    <3>1. /\ Cardinality(Unsettled) \in Nat
          /\ Cardinality(Unsettled') = Cardinality(Unsettled) + (-1)
      BY <1>t, SlotFreed
    <3>2. value' + ConsumersPermit' = value + ConsumersPermit - (-1)
      <4>0. value \in Nat
        BY <1>t DEF Typed
      <4>1. CASE TakesPermit
        <5>1. value' = value
          BY <4>1, <4>0
        <5>2. ConsumersPermit = 0 /\ ConsumersPermit' = 1
          BY <4>1 DEF ConsumersPermit, TakesPermit
        <5> QED
          BY <5>1, <5>2, <4>0
      <4>2. CASE ~TakesPermit
        <5>1. value' = value + 1
          BY <4>2, <4>0
        <5>2. ConsumersPermit \in 0..1 /\ ConsumersPermit' = ConsumersPermit
          BY <4>2, <1>t DEF ConsumersPermit, TakesPermit, WakesForBytes, Typed
        <5> QED
          BY <5>1, <5>2, <4>0
      <4> QED
        BY <4>1, <4>2
    <3> QED
      BY <3>1, <3>2, <2>1, <1>t, Balance
  <2> QED
    BY <2>1, <2>2, <2>3, <2>4 DEF ConsumerInv
(* Steps of the tasks that touch neither budget.                            *)
<1>11. ASSUME NEW t \in Tasks, TaskEnds(t) PROVE ConsumerInv'
  <2>1. Typed' /\ \A u \in Turns : state'[u] = "free" <=> state[u] = "free"
    BY <1>11, <1>t DEF TaskEnds, Typed, Tasks
  <2> QED
    BY <2>1, NeitherBudget, <1>11 DEF TaskEnds
<1>12. ASSUME NEW r \in Tasks, SettleReaper(r) \/ StartReaper(r) PROVE ConsumerInv'
  <2>1. Typed' /\ \A u \in Turns : state'[u] = "free" <=> state[u] = "free"
    BY <1>12, <1>t DEF SettleReaper, StartReaper, Typed, Tasks
  <2> QED
    BY <2>1, NeitherBudget, <1>12 DEF SettleReaper, StartReaper
<1>13. CASE UNCHANGED consumerVars
  <2>1. Typed'
    BY <1>13, <1>t DEF consumerVars, Typed
  <2> QED
    BY <2>1, NeitherBudget, <1>13 DEF consumerVars
<1> QED
  BY <1>1, <1>2, <1>3, <1>4, <1>5, <1>6, <1>7, <1>8, <1>9, <1>10, <1>11, <1>12, <1>13
  DEF Next, ConsumerStep, Settle, Tasks

LEMMA ConsumerInductive == Spec => []ConsumerInv
  BY ConsumerInit, ConsumerSteps, PTL DEF Spec

(* A dispatch permit is never lost and never made: the buffer keeps its     *)
(* size through every way in which a stream or a turn can end.              *)
THEOREM PermitsKept == Spec => []PermitsBalance
<1>1. ConsumerInv => PermitsBalance
  BY DEF ConsumerInv
<1> QED
  BY <1>1, ConsumerInductive, PTL

(* A parked consumer whose resource is there was woken.                     *)
THEOREM WakeupsKept == Spec => []NoLostWakeup
<1>1. ConsumerInv => NoLostWakeup
  BY DEF ConsumerInv
<1> QED
  BY <1>1, ConsumerInductive, PTL

(* The byte budget is a bound up to one frame.                              *)
THEOREM BudgetHolds == Spec => []WithinOneFrame
<1>1. ConsumerInv => WithinOneFrame
  BY DEF ConsumerInv
<1> QED
  BY <1>1, ConsumerInductive, PTL

(* Nothing is dispatched behind the fence.                                  *)
THEOREM FenceHolds == Spec => NothingBehindFence
<1>1. ConsumerInv /\ [Next]_consumerVars
      => [closing => \A t \in Turns : state[t] = "free" => state'[t] = "free"]_consumerVars
  <2> SUFFICES ASSUME ConsumerInv, Next, closing, NEW t \in Turns, state[t] = "free"
               PROVE  state'[t] = "free"
    BY DEF consumerVars
  <2>1. Typed /\ Stopped
    BY DEF ConsumerInv
  <2>2. ASSUME NEW u \in Turns, NEW n \in Sizes, Dispatch(u, n) PROVE FALSE
    BY <2>1, <2>2 DEF Dispatch, MayRead, Stopped
  <2>3. ASSUME NEW u \in Tasks, TaskEnds(u) \/ SettleTurn(u) \/ SettleReaper(u)
        PROVE  state'[t] = "free"
    BY <2>3, <2>1 DEF TaskEnds, SettleTurn, SettleReaper, Typed, Tasks
  <2>4. ASSUME NEW r \in Reapers, StartReaper(r) PROVE state'[t] = "free"
    BY <2>4, <2>1, TasksFinite DEF StartReaper, Typed, Tasks
  <2>5. CASE ConsumerStep \/ StreamEnds \/ StreamFails \/ BeginShutdown
    BY <2>5 DEF ConsumerStep, Begin, BytesFreed, PermitGranted, DrainOver, Unwind,
                StreamEnds, StreamFails, BeginShutdown
  <2> QED
    BY <2>2, <2>3, <2>4, <2>5 DEF Next, Settle
<1> QED
  BY <1>1, ConsumerInductive, PTL DEF Spec, NothingBehindFence

-----------------------------------------------------------------------------
(* The byte budget *)

(* What a slot is charged for is refunded before it is used again: without  *)
(* this a dispatch would forget a charge.                                   *)
FreeOwesNothing == \A t \in Turns : state[t] = "free" => size[t] = 0

BytesInv == BytesBalance /\ FreeOwesNothing

LEMMA SizesAre ==
    ASSUME Typed PROVE IsFiniteSet(Turns) /\ size \in [Turns -> Nat]
<1>1. \A t \in Turns : size[t] \in Nat
  BY LimitOK DEF Typed
<1> QED
  BY <1>1, TasksFinite DEF Typed

(* The sum before and after a step, as a term without a prime. *)
LEMMA BytesAre ==
    /\ BytesBalance <=> bytes = Sum(size, Turns)
    /\ BytesBalance' <=> bytes' = Sum(size', Turns)
  BY DEF BytesBalance, Sum, MapThenSumSet, MapThenFoldSet

LEMMA BytesInit == Init => BytesInv
<1> SUFFICES ASSUME Init PROVE BytesInv
  OBVIOUS
<1>1. Typed /\ \A t \in Turns : size[t] = 0
  BY ConsumerInit DEF ConsumerInv, Init
<1>2. Sum(size, Turns) = 0
  BY <1>1, SizesAre, SumOfNothing
<1> QED
  BY <1>1, <1>2, BytesAre DEF Init, BytesInv, FreeOwesNothing

(* One slot is charged or refunded. *)
LEMMA OneSlotChanges ==
    ASSUME Typed, Typed', BytesBalance, NEW t \in Turns, NEW n \in Nat,
           size' = [size EXCEPT ![t] = n],
           bytes' = bytes + n - size[t]
    PROVE  BytesBalance'
<1>1. IsFiniteSet(Turns) /\ size \in [Turns -> Nat]
  BY SizesAre
<1>2. PICK e \in [Turns -> Nat] : e = [size EXCEPT ![t] = n] /\ e = size'
  BY <1>1
<1>3. e[t] = n /\ \A u \in Turns \ {t} : e[u] = size[u]
  BY <1>1, <1>2
<1>4. /\ Sum(size, Turns) \in Nat /\ Sum(e, Turns) \in Nat
      /\ Sum(e, Turns) + size[t] = Sum(size, Turns) + n
  <2>1. /\ Sum(size, Turns) \in Nat /\ Sum(e, Turns) \in Nat
        /\ Sum(e, Turns) + size[t] = Sum(size, Turns) + e[t]
    <3>1. IsFiniteSet(Turns) /\ size \in [Turns -> Nat] /\ e \in [Turns -> Nat]
      BY <1>1, <1>2
    <3>2. \A u \in Turns \ {t} : e[u] = size[u]
      BY <1>3
    <3> QED
      BY ONLY <3>1, <3>2, t \in Turns, SumChanges
  <2> QED
    BY <2>1, <1>3, Zenon
<1>5. PICK b \in Nat : b = bytes /\ b = Sum(size, Turns)
  BY <1>4, BytesAre
<1>6. PICK k \in Nat : k = size[t]
  BY <1>1
<1>7. PICK a \in Nat : a = Sum(e, Turns)
  BY <1>4
<1>8. a + k = b + n
  BY <1>4, <1>5, <1>6, <1>7, Zenon
<1>9. a = b + n - k
  BY <1>8
<1>10. bytes' = b + n - k
  BY <1>5, <1>6, Zenon
<1>11. bytes' = Sum(size', Turns)
  BY <1>2, <1>7, <1>9, <1>10, Zenon
<1> QED
  BY <1>11, BytesAre

LEMMA NoSlotChanges ==
    ASSUME BytesBalance, UNCHANGED <<bytes, size>> PROVE BytesBalance'
  BY BytesAre

LEMMA BytesStep == ConsumerInv /\ BytesInv /\ [Next]_consumerVars => BytesInv'
<1> SUFFICES ASSUME ConsumerInv, BytesInv, [Next]_consumerVars PROVE BytesInv'
  OBVIOUS
<1>t. Typed /\ Typed' /\ BytesBalance /\ FreeOwesNothing
  BY ConsumerSteps DEF ConsumerInv, BytesInv
<1>1. ASSUME NEW t \in Turns, NEW n \in Sizes, Dispatch(t, n) PROVE BytesInv'
  <2>1. n \in Nat /\ size[t] = 0 /\ bytes \in Int
    BY <1>1, <1>t, LimitOK DEF Dispatch, FreeOwesNothing, Typed
  <2>2. size' = [size EXCEPT ![t] = n] /\ bytes' = bytes + n - size[t]
    BY <1>1, <2>1 DEF Dispatch
  <2>3. BytesBalance'
    BY <1>t, <2>1, <2>2, OneSlotChanges
  <2>4. FreeOwesNothing'
    BY <1>1, <1>t DEF Dispatch, FreeOwesNothing, Typed, Tasks
  <2> QED
    BY <2>3, <2>4 DEF BytesInv
<1>2. ASSUME NEW t \in Tasks, SettleTurn(t) PROVE BytesInv'
  <2>1. t \in Turns /\ bytes \in Int /\ size[t] \in Int
    BY <1>2, <1>t, LimitOK DEF SettleTurn, Typed
  <2>2. size' = [size EXCEPT ![t] = 0] /\ bytes' = bytes + 0 - size[t]
    BY <1>2, <2>1 DEF SettleTurn, Refund
  <2>3. BytesBalance'
    BY <1>t, <2>1, <2>2, OneSlotChanges
  <2>4. FreeOwesNothing'
    BY <1>2, <1>t DEF SettleTurn, FreeOwesNothing, Typed, Tasks
  <2> QED
    BY <2>3, <2>4 DEF BytesInv
<1>3. ASSUME UNCHANGED <<bytes, size>>,
             \A t \in Turns : state'[t] = "free" => state[t] = "free"
      PROVE  BytesInv'
  BY <1>3, <1>t, NoSlotChanges DEF BytesInv, FreeOwesNothing
<1>4. ASSUME NEW t \in Tasks, TaskEnds(t) \/ SettleReaper(t) \/ StartReaper(t)
      PROVE  BytesInv'
  BY <1>4, <1>3, <1>t, TasksFinite DEF TaskEnds, SettleReaper, StartReaper, Typed, Tasks
<1>5. CASE \/ ConsumerStep \/ StreamEnds \/ StreamFails \/ BeginShutdown
           \/ UNCHANGED consumerVars
  BY <1>5, <1>3 DEF ConsumerStep, Begin, BytesFreed, PermitGranted, DrainOver, Unwind,
                    StreamEnds, StreamFails, BeginShutdown, consumerVars
<1> QED
  BY <1>1, <1>2, <1>4, <1>5 DEF Next, Settle, Tasks

LEMMA BytesInductive == Spec => []BytesInv
  BY ConsumerInductive, BytesInit, BytesStep, PTL DEF Spec

(* Neither budget of the dispatcher leaks or grows: the permits, and the    *)
(* bytes charged are those of the tasks that are not settled.               *)
THEOREM BudgetsKept == Spec => []BudgetsBalance
<1>1. ConsumerInv /\ BytesInv => BudgetsBalance
  BY DEF ConsumerInv, BytesInv, BudgetsBalance
<1> QED
  BY <1>1, ConsumerInductive, BytesInductive, PTL

(* The type invariant as the module states it: the charge is not negative,  *)
(* and there are not more permits than the buffer has.                      *)
LEMMA TypesFollow == ConsumerInv /\ BytesInv /\ waits \subseteq Tasks => TypeOK
<1> SUFFICES ASSUME ConsumerInv, BytesInv, waits \subseteq Tasks PROVE TypeOK
  OBVIOUS
<1>1. Typed /\ PermitsBalance /\ BytesBalance
  BY DEF ConsumerInv, BytesInv
<1>2. bytes \in Nat
  <2>1. \E g \in [SUBSET Turns -> Nat] : Adding(g, size, Turns) /\ Sum(size, Turns) = g[Turns]
    BY <1>1, SizesAre, SumIsAdding
  <2>2. Sum(size, Turns) \in Nat
    BY <2>1
  <2> QED
    BY <2>2, <1>1, BytesAre
<1>3. value \in 0..Permits
  <2>1. Cardinality(Unsettled) \in Nat
    BY TasksFinite, FS_Subset, FS_CardinalityType DEF Unsettled
  <2>2. ConsumersPermit \in 0..1
    BY DEF ConsumersPermit
  <2> QED
    BY <1>1, <2>1, <2>2, BufferOK DEF Typed, PermitsBalance
<1> QED
  BY <1>1, <1>2, <1>3 DEF Typed, TypeOK

LEMMA WaitsStep ==
    ConsumerInv /\ waits \subseteq Tasks /\ [Next]_consumerVars => (waits \subseteq Tasks)'
<1> SUFFICES ASSUME waits \subseteq Tasks, [Next]_consumerVars PROVE waits' \subseteq Tasks
  OBVIOUS
<1> QED
  BY DEF Next, ConsumerStep, Begin, BytesFreed, PermitGranted, DrainOver, Unwind, StreamEnds,
         StreamFails, Dispatch, TaskEnds, Settle, SettleTurn, SettleReaper, StartReaper,
         BeginShutdown, consumerVars, Running

THEOREM ConsumerTypes == Spec => []TypeOK
<1>1. Init => waits \subseteq Tasks
  BY DEF Init
<1> QED
  BY <1>1, WaitsStep, TypesFollow, ConsumerInductive, BytesInductive, PTL DEF Spec

(* A parked consumer that has not been told anything has somebody to tell   *)
(* it: some turn holds what it waits for, and gives it back when it is      *)
(* settled.  It never waits for bytes or a permit that nobody has.          *)
HasWaker ==
    consumer \in Parked /\ ~woken /\ ~cancelled =>
        /\ Unsettled # {}
        /\ consumer = "onBytes" => \E t \in Unsettled : FreedBytes(t)

THEOREM SomebodyWakes == Spec => []HasWaker
<1>1. ConsumerInv /\ BytesInv => HasWaker
  <2> SUFFICES ASSUME ConsumerInv, BytesInv, consumer \in Parked, ~woken, ~cancelled
               PROVE  /\ Unsettled # {}
                      /\ consumer = "onBytes" => \E t \in Unsettled : FreedBytes(t)
    BY DEF HasWaker
  <2>1. Typed /\ PermitsBalance /\ NoLostWakeup /\ BytesBalance /\ FreeOwesNothing
    BY DEF ConsumerInv, BytesInv
  <2>2. CASE consumer = "onBytes"
    <3>1. bytes # 0
      BY <2>1, <2>2, LimitOK DEF NoLostWakeup, Typed
    <3>2. PICK t \in Turns : size[t] # 0
      <4>1. IsFiniteSet(Turns) /\ size \in [Turns -> Nat]
        BY <2>1, SizesAre
      <4> QED
        BY <4>1, <3>1, <2>1, BytesAre, SumOfNothing
    <3>3. t \in Unsettled /\ FreedBytes(t)
      BY <3>2, <2>1, LimitOK DEF FreeOwesNothing, Unsettled, FreedBytes, Typed
    <3> QED
      BY <3>3
  <2>3. CASE consumer = "onPermit"
    <3>1. value = 0 /\ ConsumersPermit = 0
      BY <2>1, <2>3 DEF NoLostWakeup, Typed, ConsumersPermit
    <3>2. Cardinality(Unsettled) \in Nat /\ Cardinality(Unsettled) # 0
      <4>1. Cardinality(Unsettled) \in Nat
        BY TasksFinite, FS_Subset, FS_CardinalityType DEF Unsettled
      <4> QED
        BY <4>1, <3>1, <2>1, BufferOK DEF PermitsBalance
    <3>3. Unsettled # {}
      BY <3>2, FS_EmptySet
    <3> QED
      BY <3>3, <2>3
  <2> QED
    BY <2>2, <2>3 DEF Parked
<1> QED
  BY <1>1, ConsumerInductive, BytesInductive, PTL

-----------------------------------------------------------------------------
(* close() *)

Late == {"reapers", "settling", "workers", "teardown", "closed"}

TypedShutdown ==
    /\ state \in [Tasks -> {"free", "running", "done"}]
    /\ request \in [Requests -> {"free", "running"}]
    /\ stage \in {"serving", "turns", "routes", "requests"} \cup Late

(* The fence: no frame is read once close() has begun. *)
Fenced ==
    /\ stage # "serving" => closing
    /\ Stopped

(* Whoever is not finished is awaited now, was cancelled at the deadline of *)
(* its drain, or belongs to a drain that is still to come.                  *)
Covered ==
    /\ stage = "turns" => Unfinished \cap Turns \subseteq awaited
    /\ stage \in {"routes", "requests", "reapers"} => Unfinished \cap Turns \subseteq stragglers
    /\ stage = "requests" => Unfinished \cap Requests \subseteq awaited
    /\ stage = "reapers" => /\ Unfinished \cap Requests \subseteq stragglers
                            /\ Unfinished \cap Reapers \subseteq awaited
    /\ stage = "settling" => Unfinished \subseteq awaited
    /\ stage \in Late \ {"reapers"} => Unfinished \subseteq stragglers
    /\ stage \in {"workers", "teardown", "closed"} => Unfinished \subseteq incomplete

ShutdownInv == TypedShutdown /\ Fenced /\ Covered

-----------------------------------------------------------------------------
(* Who is unfinished, by kind. *)
LEMMA ByKind ==
    /\ \A t \in Tasks : t \in Unfinished <=> state[t] = "running"
    /\ \A q \in Requests : q \in Unfinished <=> request[q] = "running"
    /\ Reader \in Unfinished <=> consumer # "ended"
    /\ Unfinished \subseteq Tasks \cup Requests \cup {Reader}
  BY ShutdownNames DEF Unfinished, Running

LEMMA ByKindNext ==
    /\ \A t \in Tasks : t \in Unfinished' <=> state'[t] = "running"
    /\ \A q \in Requests : q \in Unfinished' <=> request'[q] = "running"
    /\ Reader \in Unfinished' <=> consumer' # "ended"
    /\ Unfinished' \subseteq Tasks \cup Requests \cup {Reader}
  BY ShutdownNames DEF Unfinished, Running

(* No step but those of close() moves it on, and behind the fence the only  *)
(* thing such a step may start is a reaper; in the last stages nothing.     *)
OthersStep ==
    \/ Beside(ConsumerStep) \/ Beside(StreamEnds) \/ Beside(StreamFails)
    \/ \E t \in Turns, n \in Sizes : Accept(t, n)
    \/ \E t \in Turns : TurnEnds(t)
    \/ \E r \in Reapers : Beside(TaskEnds(r)) \/ SelfHeal(r)
    \/ \E r, s \in Reapers : FollowUp(r, s)
    \/ \E t \in Tasks : Beside(Settle(t))
    \/ \E q \in Requests : Admit(q) \/ RequestEnds(q)
    \/ \E q \in Requests, r \in Reapers : ReloadDone(q, r)
    \/ \E x \in Workmen : WorkerEnds(x)
    \/ Fence \/ TimeFlies

Starts ==
    /\ stage # "serving" => Unfinished' \subseteq Unfinished \cup Reapers
    /\ stage \in Late => Unfinished' \subseteq Unfinished

LEMMA OthersKeep ==
    ASSUME ShutdownInv, OthersStep
    PROVE  /\ TypedShutdown' /\ Fenced' /\ Starts
           /\ UNCHANGED <<stage, stragglers, incomplete>>
           /\ stage # "workers" => UNCHANGED awaited
<1> USE DEF TypedShutdown, Fenced, Stopped
<1>i. TypedShutdown /\ Fenced /\ Covered
  BY DEF ShutdownInv
<1> DEFINE Goal == /\ TypedShutdown' /\ Fenced' /\ Starts
                   /\ UNCHANGED <<stage, stragglers, incomplete>>
                   /\ stage # "workers" => UNCHANGED awaited
<1>1. CASE Beside(ConsumerStep) \/ Beside(StreamEnds) \/ Beside(StreamFails)
  <2>1. /\ UNCHANGED <<state, cancelled, closing, shutdownVars>>
        /\ consumer = "ended" => consumer' = "ended"
    BY <1>1 DEF Beside, ConsumerStep, Begin, BytesFreed, PermitGranted, DrainOver,
                Unwind, StreamEnds, StreamFails, MayRead
  <2>2. Unfinished' \subseteq Unfinished
    BY <2>1, ByKind, ByKindNext DEF shutdownVars
  <2> QED
    BY <2>1, <2>2, <1>i DEF shutdownVars, Starts
<1>2. ASSUME NEW t \in Turns, NEW n \in Sizes, Accept(t, n) PROVE Goal
  <2>1. ~closing /\ stage = "serving"
    BY <1>2, <1>i DEF Accept, Beside, Dispatch, MayRead
  <2>2. /\ UNCHANGED <<cancelled, closing, shutdownVars>>
        /\ state' = [state EXCEPT ![t] = "running"]
    BY <1>2 DEF Accept, Beside, Dispatch
  <2> QED
    BY <2>1, <2>2, <1>i DEF shutdownVars, Starts, Late, Tasks
<1>m. ASSUME TypedShutdown', Unfinished' \subseteq Unfinished,
             UNCHANGED <<stage, stragglers, incomplete, cancelled, closing>>,
             consumer = "ended" => consumer' = "ended",
             stage # "workers" => UNCHANGED awaited
      PROVE  Goal
  BY <1>m, <1>i DEF Starts
<1>3. ASSUME NEW t \in Tasks, TurnEnds(t) \/ Beside(TaskEnds(t)) \/ Beside(Settle(t))
      PROVE  Goal
  <2>1. /\ UNCHANGED <<stage, awaited, stragglers, incomplete, request,
                       consumer, cancelled, closing>>
        /\ \/ state' = [state EXCEPT ![t] = "done"]
           \/ state' = [state EXCEPT ![t] = "free"]
    BY <1>3 DEF TurnEnds, Beside, TaskEnds, Settle, SettleTurn, SettleReaper, shutdownVars
  <2>2. TypedShutdown'
    BY <2>1, <1>i
  <2>3. Unfinished' \subseteq Unfinished
    BY <2>1, <1>i, ByKind, ByKindNext
  <2> QED
    BY <2>1, <2>2, <2>3, <1>m
<1>4. ASSUME NEW r \in Reapers, SelfHeal(r) PROVE Goal
  <2>1. ~closing /\ stage = "serving"
    BY <1>4, <1>i DEF SelfHeal, MayReap
  <2>2. /\ UNCHANGED <<stage, awaited, stragglers, incomplete, request,
                       consumer, cancelled, closing>>
        /\ state' = [state EXCEPT ![r] = "running"]
    BY <1>4 DEF SelfHeal, Beside, StartReaper, shutdownVars
  <2> QED
    BY <2>1, <2>2, <1>i DEF Starts, Late, Tasks
<1>5. ASSUME NEW r \in Reapers, NEW s \in Reapers, FollowUp(r, s) PROVE Goal
  <2>1. ~closing /\ stage = "serving"
    BY <1>5, <1>i DEF FollowUp, MayReap
  <2>2. /\ UNCHANGED <<stage, awaited, stragglers, incomplete, request,
                       consumer, cancelled, closing>>
        /\ state' = [state EXCEPT ![r] = "done", ![s] = "running"]
    BY <1>5 DEF FollowUp, shutdownVars
  <2> QED
    BY <2>1, <2>2, <1>i DEF Starts, Late, Tasks
<1>6. ASSUME NEW q \in Requests, Admit(q) PROVE Goal
  <2>1. ~closing /\ stage = "serving"
    BY <1>6, <1>i DEF Admit
  <2>2. /\ UNCHANGED <<stage, awaited, stragglers, incomplete, consumerVars>>
        /\ request' = [request EXCEPT ![q] = "running"]
    BY <1>6 DEF Admit
  <2> QED
    BY <2>1, <2>2, <1>i DEF Starts, Late, consumerVars
<1>7. ASSUME NEW q \in Requests, RequestEnds(q) PROVE Goal
  <2>1. /\ UNCHANGED <<stage, awaited, stragglers, incomplete, consumerVars>>
        /\ request' = [request EXCEPT ![q] = "free"]
    BY <1>7 DEF RequestEnds
  <2>2. TypedShutdown'
    BY <2>1, <1>i DEF consumerVars
  <2>3. Unfinished' \subseteq Unfinished
    BY <2>1, <1>i, ByKind, ByKindNext DEF consumerVars
  <2> QED
    BY <2>1, <2>2, <2>3, <1>m DEF consumerVars
<1>8. ASSUME NEW q \in Requests, NEW r \in Reapers, ReloadDone(q, r) PROVE Goal
  <2>1. /\ UNCHANGED <<stage, awaited, stragglers, incomplete,
                       consumer, cancelled, closing>>
        /\ state' = [state EXCEPT ![r] = "running"]
        /\ request' = [request EXCEPT ![q] = "free"]
    BY <1>8 DEF ReloadDone, StartReaper
  <2>2. TypedShutdown' /\ Fenced'
    BY <2>1, <1>i DEF Tasks
  <2>3. Unfinished' \subseteq Unfinished \cup Reapers
    BY <2>1, <1>i, ByKind, ByKindNext DEF Tasks
  <2>4. q \in Unfinished /\ q \notin stragglers
    BY <1>8, ByKind DEF ReloadDone
  <2>5. stage \notin Late
    BY <2>4, <1>i DEF Covered, Late
  <2> QED
    BY <2>1, <2>2, <2>3, <2>5 DEF Starts
<1>9. ASSUME NEW x \in Workmen, WorkerEnds(x) PROVE Goal
  <2>1. /\ UNCHANGED <<stage, stragglers, incomplete, request, consumerVars>>
        /\ stage # "workers" => UNCHANGED awaited
    BY <1>9 DEF WorkerEnds
  <2>2. Unfinished' \subseteq Unfinished
    BY <2>1, ByKind, ByKindNext DEF consumerVars
  <2> QED
    BY <2>1, <2>2, <1>i DEF consumerVars, Starts
<1>10. CASE Fence
  <2>1. /\ UNCHANGED <<state, consumer, shutdownVars>>
        /\ closing' = TRUE /\ cancelled' = CancelConsumer
    BY <1>10 DEF Fence, Beside, BeginShutdown
  <2>2. Unfinished' \subseteq Unfinished
    BY <2>1, ByKind, ByKindNext DEF shutdownVars
  <2> QED
    BY <2>1, <2>2, <1>i DEF shutdownVars, Starts, CancelConsumer
<1>11. CASE TimeFlies
  <2>1. UNCHANGED <<stage, awaited, stragglers, incomplete, request, consumerVars>>
    BY <1>11 DEF TimeFlies
  <2>2. Unfinished' \subseteq Unfinished
    BY <2>1, ByKind, ByKindNext DEF consumerVars
  <2> QED
    BY <2>1, <2>2, <1>i DEF consumerVars, Starts
<1> QED
  BY <1>1, <1>2, <1>3, <1>4, <1>5, <1>6, <1>7, <1>8, <1>9, <1>10, <1>11
  DEF OthersStep, Tasks

(* A step of close() starts and ends nothing. *)
LEMMA CloseStarts ==
    ASSUME ShutdownInv, CloseStep
    PROVE  TypedShutdown' /\ Fenced' /\ Unfinished' = Unfinished
<1>i. TypedShutdown /\ Fenced
  BY DEF ShutdownInv
<1>1. UNCHANGED <<state, consumer, request>>
  BY DEF CloseStep, CloseBegins, BeginShutdown, TurnsDrained, RoutesDrained,
         RequestsDrained, ReapersDrained, Settled, WorkersObserved, StoreClosed,
         Drained, consumerVars
<1>2. Unfinished' = Unfinished
  BY <1>1 DEF Unfinished, Running
<1>3. TypedShutdown'
  BY <1>1, <1>i DEF TypedShutdown, Late, CloseStep, CloseBegins, TurnsDrained,
     RoutesDrained, RequestsDrained, ReapersDrained, Settled, WorkersObserved,
     StoreClosed, Drained
<1>4. Fenced'
  <2>1. CASE CloseBegins
    BY <2>1, <1>i DEF CloseBegins, BeginShutdown, CancelConsumer, Fenced, Stopped
  <2>2. CASE ~CloseBegins
    BY <2>2, <1>1, <1>i DEF Fenced, Stopped, CloseStep, TurnsDrained, RoutesDrained,
       RequestsDrained, ReapersDrained, Settled, WorkersObserved, StoreClosed,
       Drained, consumerVars
  <2> QED
    BY <2>1, <2>2
<1> QED
  BY <1>2, <1>3, <1>4

LEMMA CloseCovers == ShutdownInv /\ CloseStep => Covered'
<1> SUFFICES ASSUME ShutdownInv, CloseStep PROVE Covered'
  OBVIOUS
<1>u. Unfinished' = Unfinished
  BY CloseStarts
<1>i. Covered /\ Unfinished \subseteq Tasks \cup Requests \cup {Reader}
  BY ByKind DEF ShutdownInv
<1>1. CASE CloseBegins
  BY <1>1, <1>u, <1>i, ByKind DEF CloseBegins, Covered, Late, Running, Tasks
<1>2. CASE TurnsDrained
  BY <1>2, <1>u, <1>i DEF TurnsDrained, Drained, Covered, Late
<1>3. CASE RoutesDrained
  BY <1>3, <1>u, <1>i DEF RoutesDrained, Drained, Covered, Late
<1>4. CASE RequestsDrained
  BY <1>4, <1>u, <1>i DEF RequestsDrained, Drained, ReapersLeft, Covered, Late
<1>5. CASE ReapersDrained
  BY <1>5, <1>u, <1>i DEF ReapersDrained, Covered, Late, Tasks
<1>6. CASE Settled
  BY <1>6, <1>u, <1>i DEF Settled, Abandoned, Covered, Late
<1>7. CASE WorkersObserved
  BY <1>7, <1>u, <1>i DEF WorkersObserved, Covered, Late
<1>8. CASE StoreClosed
  BY <1>8, <1>u, <1>i DEF StoreClosed, Covered, Late
<1> QED
  BY <1>1, <1>2, <1>3, <1>4, <1>5, <1>6, <1>7, <1>8 DEF CloseStep

LEMMA ShutdownInit == InitShutdown => ShutdownInv
  BY DEF InitShutdown, Init, ShutdownInv, TypedShutdown, Fenced, Stopped, Covered, Late

LEMMA ShutdownStep == ShutdownInv /\ [NextShutdown]_vars => ShutdownInv'
<1> SUFFICES ASSUME ShutdownInv, [NextShutdown]_vars PROVE ShutdownInv'
  OBVIOUS
<1>1. CASE OthersStep
  <2>1. /\ TypedShutdown' /\ Fenced' /\ Starts
        /\ UNCHANGED <<stage, stragglers, incomplete>>
        /\ stage # "workers" => UNCHANGED awaited
    BY <1>1, OthersKeep
  <2>2. Covered
    BY DEF ShutdownInv
  <2>3. Covered'
    BY <2>1, <2>2, TasksFinite, ShutdownNames DEF Covered, Starts, Late, Tasks
  <2> QED
    BY <2>1, <2>3 DEF ShutdownInv
<1>2. CASE CloseStep
  BY <1>2, CloseStarts, CloseCovers DEF ShutdownInv
<1>3. CASE UNCHANGED vars
  BY <1>3 DEF vars, consumerVars, shutdownVars, ShutdownInv, TypedShutdown, Fenced, Stopped,
              Covered, Unfinished, Running
<1> QED
  BY <1>1, <1>2, <1>3 DEF NextShutdown, OthersStep

LEMMA ShutdownInductive == SpecShutdown => []ShutdownInv
  BY ShutdownInit, ShutdownStep, PTL DEF SpecShutdown

(* "Returns the tasks whose cleanup did not complete (empty on a clean      *)
(* shutdown)": an empty result means that no turn, request, reaper or       *)
(* consumer is left.                                                        *)
THEOREM CleanIsQuiet == SpecShutdown => []CleanMeansQuiet
<1>1. ShutdownInv => CleanMeansQuiet
  BY DEF ShutdownInv, Covered, CleanMeansQuiet
<1> QED
  BY <1>1, ShutdownInductive, PTL

(* Each snapshot that close() takes is complete. *)
THEOREM SnapshotsComplete == SpecShutdown => NothingStartsAfterSnapshot
<1>1. ShutdownInv /\ [NextShutdown]_vars
      => [/\ (stage # "serving") => Unfinished' \subseteq Unfinished \cup Reapers
          /\ (stage \in {"reapers", "settling", "workers", "teardown", "closed"})
                => Unfinished' \subseteq Unfinished]_vars
  <2> SUFFICES ASSUME ShutdownInv, NextShutdown PROVE Starts
    BY DEF Starts, Late
  <2>1. CASE OthersStep
    BY <2>1, OthersKeep
  <2>2. CASE CloseStep
    BY <2>2, CloseStarts DEF Starts
  <2> QED
    BY <2>1, <2>2 DEF NextShutdown, OthersStep
<1> QED
  BY <1>1, ShutdownInductive, PTL DEF SpecShutdown, NothingStartsAfterSnapshot

-----------------------------------------------------------------------------
(* What close() leaves behind.  While it observes the workers, and nobody   *)
(* was abandoned, whatever runs and is no release is observed: whoever      *)
(* could leave another worker behind is finished.                           *)
Observing ==
    /\ worker \in [Workmen -> {"none", "claim", "other", "release"}]
    /\ stage = "workers" /\ incomplete = {} =>
          \A x \in Workmen : worker[x] \in {"none", "release"} \/ x \in awaited
    /\ LeftoverIsRelease

LEMMA ObservingInit == InitShutdown => Observing
  BY DEF InitShutdown, Observing, LeftoverIsRelease

LEMMA ObservingStep == ShutdownInv /\ Observing /\ [NextShutdown]_vars => Observing'
<1> SUFFICES ASSUME ShutdownInv, Observing, [NextShutdown]_vars PROVE Observing'
  OBVIOUS
<1>i. Covered
  BY DEF ShutdownInv
<1>s. ASSUME UNCHANGED <<stage, incomplete, awaited, worker>> PROVE Observing'
  BY <1>s DEF Observing, LeftoverIsRelease
<1>1. ASSUME NEW x \in Workmen, x \in Unfinished,
             NEW w \in {"none", "claim", "other"}, worker' = [worker EXCEPT ![x] = w],
             UNCHANGED <<stage, incomplete, awaited>>
      PROVE  Observing'
  <2>1. stage \in {"workers", "teardown", "closed"} => incomplete # {}
    BY <1>1, <1>i DEF Covered
  <2> QED
    BY <1>1, <2>1 DEF Observing, LeftoverIsRelease
<1>2. ASSUME NEW t \in Turns, TurnEnds(t) PROVE Observing'
  <2>1. t \in Unfinished /\ t \in Workmen
    BY <1>2, ByKind DEF TurnEnds, TaskEnds, Workmen, Tasks
  <2> QED
    BY <1>1, <1>2, <2>1 DEF TurnEnds, LeavesBehind, ParseGivenUp
<1>3. ASSUME NEW q \in Requests, RequestEnds(q) PROVE Observing'
  <2>1. q \in Unfinished /\ q \in Workmen
    BY <1>3, ByKind DEF RequestEnds, Workmen
  <2> QED
    BY <1>1, <1>3, <2>1 DEF RequestEnds, LeavesBehind, ParseGivenUp
<1>4. ASSUME NEW x \in Workmen, WorkerEnds(x) PROVE Observing'
  <2>1. PICK w \in {"none", "release"} : worker' = [worker EXCEPT ![x] = w]
    BY <1>4 DEF WorkerEnds
  <2>2. UNCHANGED <<stage, incomplete>> /\ awaited \ {x} \subseteq awaited'
    BY <1>4 DEF WorkerEnds
  <2> QED
    BY <2>1, <2>2 DEF Observing, LeftoverIsRelease
<1>5. CASE Settled
  BY <1>5 DEF Settled, Busy, Observing, LeftoverIsRelease
<1>6. CASE WorkersObserved
  <2>1. /\ stage = "workers" /\ stage' = "teardown" /\ worker' = worker
        /\ incomplete' = incomplete \cup ObserverLeft
    BY <1>6 DEF WorkersObserved
  <2>2. incomplete' = {} => incomplete = {} /\ awaited = {}
    BY <2>1 DEF ObserverLeft
  <2> QED
    BY <2>1, <2>2 DEF Observing, LeftoverIsRelease
<1>7. CASE StoreClosed
  BY <1>7 DEF StoreClosed, Observing, LeftoverIsRelease
<1>8. CASE CloseBegins \/ TurnsDrained \/ RoutesDrained \/ RequestsDrained \/ ReapersDrained
  <2>1. /\ UNCHANGED worker
        /\ stage' \in {"turns", "routes", "requests", "reapers", "settling"}
    BY <1>8 DEF CloseBegins, TurnsDrained, RoutesDrained, RequestsDrained, ReapersDrained, Drained
  <2> QED
    BY <2>1 DEF Observing, LeftoverIsRelease
<1>9. CASE UNCHANGED vars
  BY <1>9, <1>s DEF vars, shutdownVars
<1>10. CASE OthersStep
  <2>1. CASE \/ \E t \in Turns : TurnEnds(t)
             \/ \E q \in Requests : RequestEnds(q)
             \/ \E x \in Workmen : WorkerEnds(x)
    BY <2>1, <1>2, <1>3, <1>4
  <2>2. CASE ~(\/ \E t \in Turns : TurnEnds(t)
               \/ \E q \in Requests : RequestEnds(q)
               \/ \E x \in Workmen : WorkerEnds(x))
    <3>1. UNCHANGED <<stage, incomplete, awaited, worker>>
      BY <1>10, <2>2 DEF OthersStep, Beside, Accept, SelfHeal, FollowUp, Admit, ReloadDone,
         Fence, TimeFlies, shutdownVars
    <3> QED
      BY <3>1, <1>s
  <2> QED
    BY <2>1, <2>2
<1> QED
  BY <1>5, <1>6, <1>7, <1>8, <1>9, <1>10 DEF NextShutdown, OthersStep, CloseStep

(* When close() returns an empty result, the only workers that still run    *)
(* are late releases of abandoned claims.                                   *)
THEOREM OnlyReleasesLeft == SpecShutdown => []LeftoverIsRelease
<1>1. Observing => LeftoverIsRelease
  BY DEF Observing
<1> QED
  BY <1>1, ObservingInit, ObservingStep, ShutdownInductive, PTL DEF SpecShutdown

-----------------------------------------------------------------------------
(* Beside close() the dispatcher takes its own steps; a reaper that makes   *)
(* way for its follow-up is the one thing that is not a step of it.         *)
LEMMA DispatcherSteps ==
    ASSUME [NextShutdown]_vars
    PROVE  \/ [Next]_consumerVars
           \/ \E r, s \in Reapers : FollowUp(r, s)
           \/ ReapersDrained
<1>1. CASE OthersStep
  BY <1>1 DEF OthersStep, Beside, Accept, TurnEnds, SelfHeal, Admit, RequestEnds,
     ReloadDone, WorkerEnds, Fence, TimeFlies, Next, consumerVars, Tasks
<1>2. CASE CloseStep
  BY <1>2 DEF CloseStep, CloseBegins, TurnsDrained, RoutesDrained, RequestsDrained,
     Settled, WorkersObserved, StoreClosed, Next
<1>3. CASE UNCHANGED vars
  BY <1>3 DEF vars
<1> QED
  BY <1>1, <1>2, <1>3 DEF NextShutdown, OthersStep

LEMMA BudgetsStep == ConsumerInv /\ [NextShutdown]_vars => ConsumerInv'
<1> SUFFICES ASSUME ConsumerInv, [NextShutdown]_vars PROVE ConsumerInv'
  OBVIOUS
<1>1. CASE [Next]_consumerVars
  BY <1>1, ConsumerSteps
<1>2. ASSUME NEW r \in Reapers, NEW s \in Reapers, FollowUp(r, s) PROVE ConsumerInv'
  <2>1. /\ UNCHANGED <<consumer, woken, cancelled, bytes, value, size, closing>>
        /\ state' = [state EXCEPT ![r] = "done", ![s] = "running"]
    BY <1>2 DEF FollowUp
  <2>2. Typed' /\ \A t \in Turns : state'[t] = "free" <=> state[t] = "free"
    BY <2>1, TasksFinite DEF ConsumerInv, Typed, Tasks
  <2> QED
    BY <2>1, <2>2, NeitherBudget
<1>3. CASE ReapersDrained
  <2>1. /\ UNCHANGED <<consumer, woken, bytes, value, state, size, waits, closing>>
        /\ cancelled' = (cancelled \/ Reader \in Unfinished)
    BY <1>3 DEF ReapersDrained
  <2>2. Typed' /\ Stopped' /\ PastByteGate' /\ PermitsBalance' /\ NoLostWakeup'
                /\ WithinOneFrame'
    BY <2>1 DEF ConsumerInv, Typed, Stopped, PastByteGate, PermitsBalance, NoLostWakeup,
                WithinOneFrame, Unsettled, ConsumersPermit
  <2> QED
    BY <2>2 DEF ConsumerInv
<1> QED
  BY <1>1, <1>2, <1>3, DispatcherSteps

(* The permits balance, no wake-up is lost and the byte budget holds up to  *)
(* one frame while close() fences, drains and cancels.                      *)
THEOREM BudgetsSurviveClose ==
    SpecShutdown => [](PermitsBalance /\ NoLostWakeup /\ WithinOneFrame)
<1>1. InitShutdown => ConsumerInv
  BY ConsumerInit DEF InitShutdown
<1>2. ConsumerInv => PermitsBalance /\ NoLostWakeup /\ WithinOneFrame
  BY DEF ConsumerInv
<1> QED
  BY <1>1, <1>2, BudgetsStep, PTL DEF SpecShutdown

(* What a step of the shutdown is to the dispatcher, beside its own steps:  *)
(* nothing that it charges or gives back.                                   *)
LEMMA BytesStepBeside == ConsumerInv /\ BytesInv /\ [NextShutdown]_vars => BytesInv'
<1> SUFFICES ASSUME ConsumerInv, BytesInv, [NextShutdown]_vars PROVE BytesInv'
  OBVIOUS
<1>1. CASE [Next]_consumerVars
  BY <1>1, BytesStep
<1>2. ASSUME UNCHANGED <<bytes, size>>,
             \A t \in Turns : state'[t] = "free" => state[t] = "free"
      PROVE  BytesInv'
  BY <1>2, NoSlotChanges DEF BytesInv, FreeOwesNothing
<1>3. ASSUME NEW r \in Reapers, NEW s \in Reapers, FollowUp(r, s) PROVE BytesInv'
  BY <1>3, <1>2, TasksFinite DEF FollowUp, ConsumerInv, Typed, Tasks
<1>4. CASE ReapersDrained
  BY <1>4, <1>2 DEF ReapersDrained
<1> QED
  BY <1>1, <1>3, <1>4, DispatcherSteps

(* Both budgets balance while close() fences, drains and cancels, whoever   *)
(* hangs.                                                                   *)
THEOREM BudgetsKeptByClose == SpecShutdown => []BudgetsBalance
<1>1. InitShutdown => ConsumerInv /\ BytesInv
  BY ConsumerInit, BytesInit DEF InitShutdown
<1>2. ConsumerInv /\ BytesInv => BudgetsBalance
  BY DEF ConsumerInv, BytesInv, BudgetsBalance
<1> QED
  BY <1>1, <1>2, BudgetsStep, BytesStepBeside, PTL DEF SpecShutdown

(* The type invariant of the shutdown: what it waits for, cancels and       *)
(* reports are tasks of the router, its consumer and its observer.          *)
TypedClose ==
    /\ stage \in {"serving", "turns", "routes", "requests", "reapers", "settling",
                  "workers", "teardown", "closed"}
    /\ awaited \subseteq Tasks \cup Requests \cup {Reader}
    /\ overdue \in BOOLEAN /\ late \in BOOLEAN
    /\ stragglers \subseteq Tasks \cup Requests \cup {Reader}
    /\ incomplete \subseteq Tasks \cup Requests \cup {Reader, Observer}
    /\ request \in [Requests -> {"free", "running"}]
    /\ worker \in [Workmen -> {"none", "claim", "other", "release"}]

LEMMA TypedCloseStep ==
    TypedClose /\ waits \subseteq Tasks /\ [NextShutdown]_vars
        => TypedClose' /\ (waits \subseteq Tasks)'
<1> SUFFICES ASSUME TypedClose, waits \subseteq Tasks, [NextShutdown]_vars
             PROVE  TypedClose' /\ waits' \subseteq Tasks
  OBVIOUS
<1> USE DEF TypedClose
<1>w. waits' \subseteq Tasks
  <2>1. CASE [Next]_consumerVars
    BY <2>1 DEF Next, ConsumerStep, Begin, BytesFreed, PermitGranted, DrainOver, Unwind,
       StreamEnds, StreamFails, Dispatch, TaskEnds, Settle, SettleTurn, SettleReaper,
       StartReaper, BeginShutdown, consumerVars, Running
  <2>2. CASE ReapersDrained \/ \E r, s \in Reapers : FollowUp(r, s)
    BY <2>2 DEF ReapersDrained, FollowUp
  <2> QED
    BY <2>1, <2>2, DispatcherSteps
<1>u. Unfinished \subseteq Tasks \cup Requests \cup {Reader}
  BY ByKind
<1>1. ASSUME UNCHANGED shutdownVars PROVE TypedClose'
  BY <1>1 DEF shutdownVars
<1>2. ASSUME NEW q \in Requests, Admit(q) PROVE TypedClose'
  BY <1>2 DEF Admit
<1>3. ASSUME NEW x \in Workmen, NEW w \in {"none", "claim", "other", "release"},
             worker' = [worker EXCEPT ![x] = w]
      PROVE  worker' \in [Workmen -> {"none", "claim", "other", "release"}]
  BY <1>3
<1>l. \A x : LeavesBehind(x) \subseteq {"none", "claim", "other", "release"}
  BY DEF LeavesBehind, ParseGivenUp
<1>4. ASSUME NEW t \in Turns, TurnEnds(t) PROVE TypedClose'
  <2>1. PICK w \in LeavesBehind(t) : worker' = [worker EXCEPT ![t] = w]
    BY <1>4 DEF TurnEnds
  <2>2. worker' \in [Workmen -> {"none", "claim", "other", "release"}]
    BY <2>1, <1>3, <1>l DEF Workmen
  <2> QED
    BY <2>2, <1>4 DEF TurnEnds
<1>5. ASSUME NEW q \in Requests, RequestEnds(q) PROVE TypedClose'
  <2>1. PICK w \in LeavesBehind(q) : worker' = [worker EXCEPT ![q] = w]
    BY <1>5 DEF RequestEnds
  <2>2. worker' \in [Workmen -> {"none", "claim", "other", "release"}]
    BY <2>1, <1>3, <1>l DEF Workmen
  <2>3. request' \in [Requests -> {"free", "running"}]
    BY <1>5 DEF RequestEnds
  <2> QED
    BY <2>2, <2>3, <1>5 DEF RequestEnds
<1>6. ASSUME NEW q \in Requests, NEW r \in Reapers, ReloadDone(q, r) PROVE TypedClose'
  BY <1>6 DEF ReloadDone
<1>7. ASSUME NEW x \in Workmen, WorkerEnds(x) PROVE TypedClose'
  <2>1. PICK w \in {"none", "release"} : worker' = [worker EXCEPT ![x] = w]
    BY <1>7 DEF WorkerEnds
  <2>2. worker' \in [Workmen -> {"none", "claim", "other", "release"}]
    BY <2>1, <1>3
  <2> QED
    BY <2>2, <1>7 DEF WorkerEnds
<1>8. CASE TimeFlies
  BY <1>8, <1>w DEF TimeFlies
<1>9. CASE CloseStep
  <2>1. CASE CloseBegins \/ StoreClosed
    BY <2>1, <1>u, <1>w DEF CloseBegins, StoreClosed, Running
  <2>2. CASE TurnsDrained \/ RoutesDrained \/ RequestsDrained
    BY <2>2, <1>u, <1>w DEF TurnsDrained, RoutesDrained, RequestsDrained, Drained, ReapersLeft
  <2>3. CASE ReapersDrained
    BY <2>3, <1>u, <1>w DEF ReapersDrained
  <2>4. CASE Settled \/ WorkersObserved
    BY <2>4, <1>u, <1>w DEF Settled, WorkersObserved, Abandoned, ObserverLeft, Workmen, Tasks
  <2> QED
    BY <1>9, <2>1, <2>2, <2>3, <2>4 DEF CloseStep
<1>10. CASE \/ Beside(ConsumerStep) \/ Beside(StreamEnds) \/ Beside(StreamFails)
            \/ \E t \in Turns, n \in Sizes : Accept(t, n)
            \/ \E r \in Reapers : Beside(TaskEnds(r)) \/ SelfHeal(r)
            \/ \E r, s \in Reapers : FollowUp(r, s)
            \/ \E t \in Tasks : Beside(Settle(t))
            \/ Fence \/ UNCHANGED vars
  <2>1. UNCHANGED shutdownVars
    BY <1>10 DEF Beside, Accept, SelfHeal, FollowUp, Fence, vars, shutdownVars
  <2> QED
    BY <2>1, <1>1, <1>w
<1> QED
  BY <1>w, <1>2, <1>4, <1>5, <1>6, <1>7, <1>8, <1>9, <1>10 DEF NextShutdown

THEOREM ShutdownTypes == SpecShutdown => []TypeOKShutdown
<1>1. InitShutdown => ConsumerInv /\ BytesInv /\ TypedClose /\ waits \subseteq Tasks
  <2> SUFFICES ASSUME InitShutdown PROVE TypedClose /\ waits \subseteq Tasks
    BY ConsumerInit, BytesInit DEF InitShutdown
  <2> QED
    BY DEF InitShutdown, Init, TypedClose
<1>2. ConsumerInv /\ BytesInv /\ TypedClose /\ waits \subseteq Tasks => TypeOKShutdown
  BY TypesFollow DEF TypedClose, TypeOKShutdown
<1> QED
  BY <1>1, <1>2, BudgetsStep, BytesStepBeside, TypedCloseStep, PTL DEF SpecShutdown
====
