---- MODULE TurnGateProofs ----
(***************************************************************************)
(* Exclusion on every route and profile, no permit lost or made, nothing   *)
(* held while waiting, and arrival order on a route: for any number of     *)
(* tasks, locks and permits, whoever is cancelled when.                    *)
(***************************************************************************)
EXTENDS TurnGate, SequenceTheorems, FiniteSetTheorems, WellFoundedInduction, TLAPS

Queues == Locks \cup {Capacity}

Typed ==
    /\ pc \in [Tasks -> Bodies \cup
                 {"idle", "gone", "askRoute", "inRoute", "askProfile",
                  "inProfile", "askPermit"}]
    /\ fut \in [Tasks -> {"none", "pending", "woken", "cancelled", "late"}]
    /\ queue \in [Queues -> Seq(Tasks)]
    /\ locked \in [Locks -> BOOLEAN]
    /\ value \in Nat
    /\ held \in [Tasks -> SUBSET Locks]
    /\ permit \in [Tasks -> BOOLEAN]
    /\ cpu \in Tasks \cup {Nobody}

Waits(t) == fut[t] # "none"
Queued(q, t) == \E i \in 1..Len(q[Wanted(t)]) : q[Wanted(t)][i] = t

(* The queues hold the tasks that wait, each once, where it waits. *)
QueuesExact ==
    /\ \A l \in Queues : \A i \in 1..Len(queue[l]) :
          /\ Waits(queue[l][i]) /\ Wanted(queue[l][i]) = l
          /\ \A j \in 1..Len(queue[l]) : queue[l][i] = queue[l][j] => i = j
    /\ \A t \in Tasks : Waits(t) => Queued(queue, t)

(* A lock whose waiter was woken stays unlocked until that waiter, the      *)
(* first, is resumed or has unwound: so at most one is under way.           *)
WokenFirst ==
    \A t \in Tasks : fut[t] \in {"woken", "late"} /\ Wanted(t) # Capacity =>
        ~locked[Wanted(t)] /\ queue[Wanted(t)][1] = t

(* What a task has and does where it is. *)
WhereTasksAre ==
    \A t \in Tasks :
        /\ Waits(t) => pc[t] \in {"askRoute", "askProfile", "askPermit"} /\ cpu # t
        /\ pc[t] = "askPermit" => Waits(t)
        /\ permit[t] => pc[t] = "running"
        /\ held[t] \subseteq {RouteOf[t], ProfileOf[t]}
        /\ pc[t] \in {"idle", "gone", "freezing", "askRoute"} => held[t] = {}
        /\ pc[t] \in {"inRoute", "askProfile", "askPermit"} => ProfileOf[t] \notin held[t]
        /\ pc[t] = "inProfile" => ProfileOf[t] \in held[t]

OneOwner ==
    \A l \in Locks :
        /\ locked[l] <=> \E t \in Tasks : l \in held[t]
        /\ \A t, u \in Tasks : l \in held[t] /\ l \in held[u] => t = u

(* Who has a permit, to use or handed over and not yet noticed. *)
HasPermit(t) == permit[t] \/ (pc[t] = "askPermit" /\ fut[t] \in {"woken", "late"})
Owners == {t \in Tasks : HasPermit(t)}
PermitsAddUp == value + Cardinality(Owners) = Permits

GateInv ==
    /\ Typed /\ QueuesExact /\ WokenFirst /\ WhereTasksAre /\ OneOwner
    /\ PermitsAddUp

-----------------------------------------------------------------------------
(* Queues *)

LEMMA Removed ==
  ASSUME NEW S, NEW s \in Seq(S), NEW i \in 1..Len(s)
  PROVE  /\ RemoveAt(s, i) \in Seq(S)
         /\ Len(RemoveAt(s, i)) = Len(s) - 1
         /\ \A j \in 1..(Len(s) - 1) : RemoveAt(s, i)[j] = IF j < i THEN s[j] ELSE s[j + 1]
<1> DEFINE a == SubSeq(s, 1, i - 1)
           b == SubSeq(s, i + 1, Len(s))
<1>0. Len(s) \in Nat
  OBVIOUS
<1>1. /\ a \in Seq(S) /\ Len(a) = i - 1
      /\ \A j \in 1..(i - 1) : a[j] = s[j]
  BY <1>0
<1>2. /\ b \in Seq(S) /\ Len(b) = Len(s) - i
      /\ \A j \in 1..(Len(s) - i) : b[j] = s[j + i]
  BY <1>0
<1>3. /\ a \o b \in Seq(S)
      /\ Len(a \o b) = Len(a) + Len(b)
      /\ \A j \in 1..(Len(a) + Len(b)) :
            (a \o b)[j] = IF j <= Len(a) THEN a[j] ELSE b[j - Len(a)]
  BY <1>1, <1>2, ConcatProperties
<1>4. RemoveAt(s, i) = a \o b
  BY DEF RemoveAt
<1> HIDE DEF a, b
<1>5. Len(a \o b) = Len(s) - 1
  BY <1>0, <1>1, <1>2, <1>3
<1>6. ASSUME NEW j \in 1..(Len(s) - 1)
      PROVE  (a \o b)[j] = IF j < i THEN s[j] ELSE s[j + 1]
  <2>1. (a \o b)[j] = IF j <= i - 1 THEN a[j] ELSE b[j - (i - 1)]
    BY <1>0, <1>1, <1>2, <1>3, <1>5
  <2>2. CASE j < i
    BY <1>0, <1>1, <2>1, <2>2
  <2>3. CASE ~(j < i)
    <3>1. j - (i - 1) \in 1..(Len(s) - i) /\ (j - (i - 1)) + i = j + 1
      BY <1>0, <2>3
    <3>2. b[j - (i - 1)] = s[j + 1]
      BY <1>2, <3>1
    <3> QED
      BY <1>0, <2>1, <2>3, <3>2
  <2> QED
    BY <2>2, <2>3
<1> QED
  BY <1>3, <1>4, <1>5, <1>6

(* q is what the queues are without t. *)
Shrunk(q, t) ==
    /\ q \in [Queues -> Seq(Tasks)]
    /\ \A l \in Queues : \A i \in 1..Len(q[l]) :
          /\ q[l][i] # t /\ Waits(q[l][i]) /\ Wanted(q[l][i]) = l
          /\ \A j \in 1..Len(q[l]) : q[l][i] = q[l][j] => i = j
    /\ \A u \in Tasks : u # t /\ Waits(u) => Queued(q, u)
    /\ \A u \in Tasks : u # t /\ Waits(u) /\ queue[Wanted(u)][1] = u => q[Wanted(u)][1] = u

LEMMA WantedQueue == \A t \in Tasks : Wanted(t) \in Queues
  BY TasksOK DEF Wanted, Queues

LEMMA NotQueued ==
  ASSUME Typed, QueuesExact, NEW t \in Tasks, ~Waits(t)
  PROVE  Shrunk(queue, t)
  BY DEF Typed, QueuesExact, Shrunk

LEMMA Taken ==
  ASSUME Typed, QueuesExact, NEW t \in Tasks, Waits(t)
  PROVE  Shrunk(Without(t, Wanted(t)), t)
<1> DEFINE l == Wanted(t)
           s == queue[l]
           k == CHOOSE i \in DOMAIN s : s[i] = t
           r == RemoveAt(s, k)
           q == Without(t, l)
<1>1. l \in Queues /\ s \in Seq(Tasks) /\ DOMAIN s = 1..Len(s) /\ Len(s) \in Nat
  BY WantedQueue DEF Typed
<1>2. k \in 1..Len(s) /\ s[k] = t
  BY <1>1 DEF QueuesExact, Queued
<1>3. /\ r \in Seq(Tasks) /\ Len(r) = Len(s) - 1
      /\ \A j \in 1..(Len(s) - 1) : r[j] = IF j < k THEN s[j] ELSE s[j + 1]
  BY <1>1, <1>2, Removed
<1>4. q = [queue EXCEPT ![l] = r]
  BY DEF Without
<1>5. q[l] = r /\ \A m \in Queues : m # l => q[m] = queue[m]
  BY <1>1, <1>4 DEF Typed
<1>6. q \in [Queues -> Seq(Tasks)]
  BY <1>1, <1>3, <1>4 DEF Typed
<1>7. \A i \in 1..Len(s) :
         /\ Waits(s[i]) /\ Wanted(s[i]) = l
         /\ \A j \in 1..Len(s) : s[i] = s[j] => i = j
  BY <1>1 DEF QueuesExact
<1> HIDE DEF l, s, k, r, q
<1>8. ASSUME NEW i \in 1..Len(r)
      PROVE  /\ r[i] # t /\ Waits(r[i]) /\ Wanted(r[i]) = l
             /\ \A j \in 1..Len(r) : r[i] = r[j] => i = j
  BY <1>1, <1>2, <1>3, <1>7
<1>9. ASSUME NEW u \in Tasks, u # t, Waits(u), Wanted(u) = l
      PROVE  /\ \E i \in 1..Len(r) : r[i] = u
             /\ s[1] = u => r[1] = u
  <2>1. PICK i \in 1..Len(s) : s[i] = u
    BY <1>9 DEF QueuesExact, Queued, s
  <2>2. i # k
    BY <1>2, <1>9, <2>1
  <2>3. IF i < k THEN i \in 1..Len(r) /\ r[i] = u ELSE i - 1 \in 1..Len(r) /\ r[i - 1] = u
    BY <1>1, <1>2, <1>3, <2>1, <2>2
  <2>4. s[1] = u => r[1] = u
    BY <1>1, <1>2, <1>3, <1>9
  <2> QED
    BY <2>3, <2>4
<1>10. ASSUME NEW m \in Queues, m # l, NEW i \in 1..Len(q[m])
       PROVE  q[m][i] # t
  BY <1>5, <1>10 DEF QueuesExact, l
<1> QED
  <2>1. \A m \in Queues : \A i \in 1..Len(q[m]) :
          /\ q[m][i] # t /\ Waits(q[m][i]) /\ Wanted(q[m][i]) = m
          /\ \A j \in 1..Len(q[m]) : q[m][i] = q[m][j] => i = j
    BY <1>5, <1>8, <1>10 DEF QueuesExact
  <2>2. ASSUME NEW u \in Tasks, u # t, Waits(u)
        PROVE  /\ Queued(q, u)
               /\ queue[Wanted(u)][1] = u => q[Wanted(u)][1] = u
    <3>1. CASE Wanted(u) = l
      BY <2>2, <3>1, <1>5, <1>9 DEF Queued, s
    <3>2. CASE Wanted(u) # l
      BY <2>2, <3>2, <1>5, WantedQueue DEF QueuesExact, Queued
    <3> QED
      BY <3>1, <3>2
  <2>3. q = Without(t, Wanted(t))
    BY DEF q, l
  <2> QED
    BY <1>6, <2>1, <2>2, <2>3 DEF Shrunk

(* t, which did not wait, is the last in the queue of l. *)
Joined(t, l) ==
    /\ \A m \in Queues : m # l => queue'[m] = queue[m]
    /\ queue'[l] = Append(queue[l], t)

(* Every other task that waits does so in its place. *)
InPlace(t) ==
    \A u \in Tasks : u # t /\ Waits(u) /\ queue[Wanted(u)][1] = u => queue'[Wanted(u)][1] = u

(* Nobody but t went anywhere or began or ceased to wait. *)
OnlyMoves(t) ==
    \A u \in Tasks : u # t => pc'[u] = pc[u] /\ (fut'[u] # "none" <=> fut[u] # "none")

WaitsNext(t) == fut'[t] # "none"
WantedNext(t) == IF pc'[t] = "askRoute" THEN RouteOf[t]
                 ELSE IF pc'[t] = "askProfile" THEN ProfileOf[t] ELSE Capacity

(* QueuesExact' without primed operators. *)
LEMMA ExactNext ==
  ASSUME /\ \A l \in Queues : \A i \in 1..Len(queue'[l]) :
               /\ WaitsNext(queue'[l][i]) /\ WantedNext(queue'[l][i]) = l
               /\ \A j \in 1..Len(queue'[l]) : queue'[l][i] = queue'[l][j] => i = j
         /\ \A t \in Tasks : WaitsNext(t) =>
               \E i \in 1..Len(queue'[WantedNext(t)]) : queue'[WantedNext(t)][i] = t
  PROVE  QueuesExact'
  BY DEF QueuesExact, Queued, Waits, Wanted, WaitsNext, WantedNext

LEMMA Left ==
  ASSUME Typed, NEW t \in Tasks, Shrunk(queue', t), OnlyMoves(t), fut'[t] = "none"
  PROVE  QueuesExact' /\ InPlace(t)
<1>1. \A u \in Tasks : u # t => (WaitsNext(u) <=> Waits(u)) /\ WantedNext(u) = Wanted(u)
  BY DEF OnlyMoves, Waits, Wanted, WaitsNext, WantedNext
<1>2. ~WaitsNext(t)
  BY DEF WaitsNext
<1>3. \A l \in Queues : \A i \in 1..Len(queue'[l]) : queue'[l][i] \in Tasks
  BY DEF Shrunk
<1>4. \A u \in Tasks : WaitsNext(u) =>
         \E i \in 1..Len(queue'[WantedNext(u)]) : queue'[WantedNext(u)][i] = u
  BY <1>1, <1>2 DEF Shrunk, Queued
<1>5. \A l \in Queues : \A i \in 1..Len(queue'[l]) :
         /\ WaitsNext(queue'[l][i]) /\ WantedNext(queue'[l][i]) = l
         /\ \A j \in 1..Len(queue'[l]) : queue'[l][i] = queue'[l][j] => i = j
  BY <1>1, <1>3 DEF Shrunk
<1> QED
  BY <1>4, <1>5, ExactNext DEF Shrunk, InPlace

LEMMA Came ==
  ASSUME Typed, QueuesExact, NEW t \in Tasks, ~Waits(t), NEW l \in Queues, Joined(t, l),
         OnlyMoves(t), fut'[t] # "none", Wanted(t)' = l
  PROVE  QueuesExact' /\ InPlace(t)
<1>1. \A u \in Tasks : u # t => (WaitsNext(u) <=> Waits(u)) /\ WantedNext(u) = Wanted(u)
  BY DEF OnlyMoves, Waits, Wanted, WaitsNext, WantedNext
<1>2. WaitsNext(t) /\ WantedNext(t) = l
  BY DEF WaitsNext, Wanted, WantedNext
<1> DEFINE s == queue[l]
           r == queue'[l]
<1>3. /\ s \in Seq(Tasks) /\ Len(s) \in Nat
      /\ \A i \in 1..Len(s) : s[i] \in Tasks /\ s[i] # t
  BY DEF Typed, QueuesExact
<1>4. Len(r) = Len(s) + 1 /\ \A i \in 1..Len(r) : r[i] = IF i <= Len(s) THEN s[i] ELSE t
  BY <1>3 DEF Joined
<1>5. \A i \in 1..Len(s) :
         /\ Waits(s[i]) /\ Wanted(s[i]) = l
         /\ \A j \in 1..Len(s) : s[i] = s[j] => i = j
  BY <1>3 DEF QueuesExact
<1>6. \A m \in Queues : m # l => queue'[m] = queue[m] /\ \A i \in 1..Len(queue[m]) :
         /\ queue[m][i] \in Tasks /\ queue[m][i] # t
         /\ Waits(queue[m][i]) /\ Wanted(queue[m][i]) = m
         /\ \A j \in 1..Len(queue[m]) : queue[m][i] = queue[m][j] => i = j
  BY DEF Joined, Typed, QueuesExact
<1>7. ASSUME NEW u \in Tasks, u # t, Waits(u), Wanted(u) = l
      PROVE  (\E i \in 1..Len(r) : r[i] = u) /\ (s[1] = u => r[1] = u)
  <2>1. PICK i \in 1..Len(s) : s[i] = u
    BY <1>7 DEF QueuesExact, Queued
  <2>2. i \in 1..Len(r) /\ r[i] = u /\ 1 \in 1..Len(r) /\ 1 <= Len(s)
    BY <1>3, <1>4, <2>1
  <2> QED
    BY <1>4, <2>2
<1>8. \E i \in 1..Len(r) : r[i] = t
  BY <1>3, <1>4
<1> HIDE DEF s, r
<1>9. \A i \in 1..Len(r) :
         /\ WaitsNext(r[i]) /\ WantedNext(r[i]) = l
         /\ \A j \in 1..Len(r) : r[i] = r[j] => i = j
  <2> TAKE i \in 1..Len(r)
  <2>1. CASE i <= Len(s)
    <3>1. i \in 1..Len(s) /\ r[i] = s[i]
      BY <1>3, <1>4, <2>1
    <3>2. \A j \in 1..Len(r) : r[i] = r[j] => i = j
      BY <1>3, <1>4, <1>5, <3>1
    <3> QED
      BY <1>1, <1>3, <1>5, <3>1, <3>2
  <2>2. CASE ~(i <= Len(s))
    <3>1. i = Len(s) + 1 /\ r[i] = t
      BY <1>3, <1>4, <2>2
    <3>2. \A j \in 1..Len(r) : r[i] = r[j] => i = j
      BY <1>3, <1>4, <3>1
    <3> QED
      BY <1>2, <3>1, <3>2
  <2> QED
    BY <2>1, <2>2
<1>10. \A m \in Queues : \A i \in 1..Len(queue'[m]) :
         /\ WaitsNext(queue'[m][i]) /\ WantedNext(queue'[m][i]) = m
         /\ \A j \in 1..Len(queue'[m]) : queue'[m][i] = queue'[m][j] => i = j
  BY <1>1, <1>6, <1>9 DEF r
<1>11. \A u \in Tasks : WaitsNext(u) =>
          \E i \in 1..Len(queue'[WantedNext(u)]) : queue'[WantedNext(u)][i] = u
  <2> SUFFICES ASSUME NEW u \in Tasks, WaitsNext(u)
               PROVE  \E i \in 1..Len(queue'[WantedNext(u)]) : queue'[WantedNext(u)][i] = u
    OBVIOUS
  <2>1. CASE u = t
    BY <1>2, <1>8, <2>1 DEF r
  <2>2. CASE u # t /\ Wanted(u) = l
    BY <1>1, <1>7, <2>2 DEF r
  <2>3. CASE u # t /\ Wanted(u) # l
    BY <1>1, <1>6, <2>3, WantedQueue DEF Queued, QueuesExact
  <2> QED
    BY <2>1, <2>2, <2>3
<1>12. InPlace(t)
  BY <1>6, <1>7, WantedQueue DEF InPlace, s, r
<1> QED
  BY <1>10, <1>11, <1>12, ExactNext

-----------------------------------------------------------------------------
(* Locks *)

(* u is woken by this step as the first waiter of a lock that is free now,  *)
(* or handed a permit.                                                      *)
Awakes(u) ==
    /\ fut[u] = "pending" /\ fut'[u] = "woken"
    /\ Wanted(u) # Capacity =>
          queue'[Wanted(u)][1] = u /\ ~locked'[Wanted(u)]

LEMMA WokenStep ==
  ASSUME WokenFirst, NEW t \in Tasks, OnlyMoves(t), fut'[t] \notin {"woken", "late"},
         \A u \in Tasks : u # t => fut'[u] = fut[u] \/ Awakes(u),
         InPlace(t),
         \A u \in Tasks : u # t /\ fut[u] \in {"woken", "late"} /\ Wanted(u) # Capacity =>
             ~locked'[Wanted(u)]
  PROVE  WokenFirst'
<1> SUFFICES ASSUME NEW u \in Tasks, fut'[u] \in {"woken", "late"}, WantedNext(u) # Capacity
             PROVE  ~locked'[WantedNext(u)] /\ queue'[WantedNext(u)][1] = u
  BY DEF WokenFirst, Wanted, WantedNext
<1>1. u # t
  OBVIOUS
<1>2. WantedNext(u) = Wanted(u) /\ Waits(u)
  BY <1>1 DEF OnlyMoves, Waits, Wanted, WantedNext
<1>3. CASE fut'[u] = fut[u]
  BY <1>1, <1>2, <1>3 DEF WokenFirst, InPlace
<1>4. CASE Awakes(u)
  BY <1>1, <1>2, <1>4 DEF Awakes, InPlace
<1> QED
  BY <1>1, <1>3, <1>4

(* Whoever has a lock to its name, no two have. *)
LEMMA LockNeedsOwner ==
  ASSUME Typed, OneOwner, NEW t \in Tasks, NEW l \in Locks, l \in held[t]
  PROVE  locked[l]
  BY DEF OneOwner

(* A free lock has no waiter that was woken. *)
LEMMA NobodyWoken ==
  ASSUME Typed, QueuesExact, NEW l \in Locks, Free(l), NEW u \in Tasks, Waits(u), Wanted(u) = l
  PROVE  fut[u] = "cancelled"
<1>1. l \in Queues /\ DOMAIN queue[l] = 1..Len(queue[l])
  BY DEF Queues, Typed
<1> QED
  BY <1>1 DEF QueuesExact, Queued, Free

(* The locks in R are released and those in A are taken, by t. *)
LEMMA Owned ==
  ASSUME Typed, OneOwner, NEW t \in Tasks, NEW A \in SUBSET Locks, NEW R \in SUBSET Locks,
         R \subseteq held[t], A \cap R = {},
         \A l \in A : ~locked[l],
         held' = [held EXCEPT ![t] = (@ \ R) \cup A],
         \A l \in Locks : locked'[l] <=> (l \in A \/ (locked[l] /\ l \notin R))
  PROVE  OneOwner'
<1>1. \A u \in Tasks : held'[u] = IF u = t THEN (held[t] \ R) \cup A ELSE held[u]
  BY DEF Typed
<1> SUFFICES ASSUME NEW l \in Locks
             PROVE  /\ locked'[l] <=> \E u \in Tasks : l \in held'[u]
                    /\ \A u, v \in Tasks : l \in held'[u] /\ l \in held'[v] => u = v
  BY DEF OneOwner
<1>2. CASE l \in A
  BY <1>1, <1>2 DEF OneOwner
<1>3. CASE l \in R
  BY <1>1, <1>3 DEF OneOwner
<1>4. CASE l \notin A /\ l \notin R
  <2>1. \A u \in Tasks : l \in held'[u] <=> l \in held[u]
    BY <1>1, <1>4
  <2> QED
    BY <1>4, <2>1 DEF OneOwner
<1> QED
  BY <1>2, <1>3, <1>4

LEMMA Released ==
  ASSUME Typed, OneOwner, NEW t \in Tasks, NEW R \in SUBSET Locks, R \subseteq held[t],
         held' = [held EXCEPT ![t] = @ \ R],
         \A l \in Locks : locked'[l] <=> (locked[l] /\ l \notin R)
  PROVE  OneOwner'
<1> DEFINE A == {}
<1>1. /\ A \in SUBSET Locks /\ A \cap R = {} /\ \A l \in A : ~locked[l]
      /\ held' = [held EXCEPT ![t] = (@ \ R) \cup A]
      /\ \A l \in Locks : locked'[l] <=> (l \in A \/ (locked[l] /\ l \notin R))
  BY DEF Typed
<1> HIDE DEF A
<1> QED
  BY <1>1, Owned

LEMMA Acquired ==
  ASSUME Typed, OneOwner, NEW t \in Tasks, NEW l \in Locks, ~locked[l],
         held' = [held EXCEPT ![t] = @ \cup {l}],
         locked' = [locked EXCEPT ![l] = TRUE]
  PROVE  OneOwner'
<1> DEFINE R == {}
           A == {l}
<1>1. /\ A \in SUBSET Locks /\ A \cap R = {} /\ \A k \in A : ~locked[k]
      /\ R \in SUBSET Locks /\ R \subseteq held[t]
      /\ held' = [held EXCEPT ![t] = (@ \ R) \cup A]
      /\ \A k \in Locks : locked'[k] <=> (k \in A \/ (locked[k] /\ k \notin R))
  BY DEF Typed
<1> HIDE DEF A, R
<1> QED
  BY <1>1, Owned

-----------------------------------------------------------------------------
(* Permits *)

LEMMA OwnersFinite == IsFiniteSet(Owners) /\ Cardinality(Owners) \in Nat
<1>1. IsFiniteSet(Owners)
  BY TasksFinite, FS_Subset DEF Owners
<1> QED
  BY <1>1, FS_CardinalityType

LEMMA PermitsKept ==
  ASSUME Typed, PermitsAddUp, value' = value, Owners' = Owners
  PROVE  PermitsAddUp'
  BY DEF PermitsAddUp

LEMMA PermitTaken ==
  ASSUME Typed, PermitsAddUp, NEW t \in Tasks, t \notin Owners,
         value' = value - 1, Owners' = Owners \cup {t}
  PROVE  PermitsAddUp'
<1>1. Cardinality(Owners \cup {t}) = Cardinality(Owners) + 1
  BY OwnersFinite, FS_AddElement
<1> QED
  BY <1>1, OwnersFinite DEF PermitsAddUp, Typed

LEMMA PermitGivenBack ==
  ASSUME Typed, PermitsAddUp, NEW t \in Tasks, t \in Owners,
         value' = value + 1, Owners' = Owners \ {t}
  PROVE  PermitsAddUp'
<1>1. Cardinality(Owners \ {t}) = Cardinality(Owners) - 1
  BY OwnersFinite, FS_RemoveElement
<1> QED
  BY <1>1, OwnersFinite DEF PermitsAddUp, Typed

LEMMA PermitPassedOn ==
  ASSUME Typed, PermitsAddUp, NEW t \in Tasks, t \in Owners, NEW u \in Tasks, u \notin Owners,
         value' = value, Owners' = (Owners \ {t}) \cup {u}
  PROVE  PermitsAddUp'
<1>1. IsFiniteSet(Owners \ {t}) /\ Cardinality(Owners \ {t}) = Cardinality(Owners) - 1
  BY OwnersFinite, FS_RemoveElement
<1>2. Cardinality((Owners \ {t}) \cup {u}) = Cardinality(Owners \ {t}) + 1
  BY <1>1, FS_AddElement
<1> QED
  BY <1>1, <1>2, OwnersFinite DEF PermitsAddUp, Typed

-----------------------------------------------------------------------------
(* Who is woken *)

LEMMA LockHeir ==
  ASSUME NEW t \in Tasks, NEW q, Shrunk(q, t), NEW S \in SUBSET Locks, NEW u \in LockHeirs(q, S)
  PROVE  /\ u \in Tasks /\ u # t /\ fut[u] = "pending"
         /\ Wanted(u) \in S /\ q[Wanted(u)][1] = u
<1>1. PICK l \in S : q[l] # <<>> /\ u = Head(q[l]) /\ fut[u] = "pending"
  BY DEF LockHeirs
<1>2. q[l] \in Seq(Tasks) /\ l \in Queues
  BY DEF Shrunk, Queues
<1>3. 1 \in 1..Len(q[l]) /\ q[l][1] = u /\ u \in Tasks
  BY <1>1, <1>2
<1> QED
  BY <1>1, <1>2, <1>3 DEF Shrunk

LEMMA PermitHeir ==
  ASSUME WhereTasksAre, NEW t \in Tasks, NEW q, Shrunk(q, t)
  PROVE  \/ PermitHeirs(q) = {}
         \/ \E u \in Tasks : /\ PermitHeirs(q) = {u}
                             /\ u # t /\ fut[u] = "pending" /\ pc[u] = "askPermit"
<1> DEFINE s == q[Capacity]
           First(i) == fut[s[i]] = "pending" /\ \A k \in 1..(i - 1) : fut[s[k]] # "pending"
<1>1. s \in Seq(Tasks) /\ DOMAIN s = 1..Len(s) /\ Len(s) \in Nat
  BY DEF Shrunk, Queues
<1>2. PermitHeirs(q) = {s[i] : i \in {j \in 1..Len(s) : First(j)}}
  BY <1>1 DEF PermitHeirs
<1>3. ASSUME NEW i \in 1..Len(s), First(i), NEW j \in 1..Len(s), First(j)
      PROVE  i = j
  <2>1. ~(i < j) /\ ~(j < i)
    BY <1>1, <1>3
  <2> QED
    BY <2>1, <1>1
<1>4. ASSUME NEW i \in 1..Len(s), First(i)
      PROVE  /\ PermitHeirs(q) = {s[i]} /\ s[i] \in Tasks
             /\ s[i] # t /\ fut[s[i]] = "pending" /\ pc[s[i]] = "askPermit"
  <2>1. PermitHeirs(q) = {s[i]}
    BY <1>2, <1>3, <1>4
  <2>2. s[i] \in Tasks /\ s[i] # t /\ Waits(s[i]) /\ Wanted(s[i]) = Capacity
    BY <1>1 DEF Shrunk, Queues
  <2>3. pc[s[i]] = "askPermit"
    BY <2>2, TasksOK, NamesOK DEF WhereTasksAre, Wanted
  <2> QED
    BY <1>4, <2>1, <2>2, <2>3
<1> HIDE DEF First
<1> QED
  BY <1>2, <1>4

-----------------------------------------------------------------------------
(* The ends of tasks *)

LEMMA LeaveKeeps ==
  ASSUME GateInv, NEW t \in Tasks, NEW q, NEW next, Shrunk(q, t),
         fut[t] \notin {"pending", "woken"}, Leave(t, q, next),
         \/ next = {}
         \/ /\ Wanted(t) # Capacity /\ ~locked[Wanted(t)]
            /\ next = LockHeirs(q, {Wanted(t)})
  PROVE  GateInv'
<1> DEFINE H == next \cup LockHeirs(q, held[t]) \cup HandedOn(t, q)
<1>i. /\ Typed /\ QueuesExact /\ WokenFirst /\ WhereTasksAre /\ OneOwner /\ PermitsAddUp
  BY DEF GateInv
<1>1. /\ queue' = q
      /\ \A u \in Tasks : fut'[u] = IF u \in H THEN "woken" ELSE IF u = t THEN "none" ELSE fut[u]
      /\ locked' = [l \in Locks |-> locked[l] /\ l \notin held[t]]
      /\ value' = value + Owes(t) - Cardinality(HandedOn(t, q))
      /\ held' = [held EXCEPT ![t] = {}]
      /\ permit' = [permit EXCEPT ![t] = FALSE]
      /\ pc' = [pc EXCEPT ![t] = "gone"]
      /\ cpu' = Nobody
      /\ fut' = [u \in Tasks |-> IF u \in H THEN "woken" ELSE IF u = t THEN "none" ELSE fut[u]]
  BY <1>i DEF Leave, Woken, Suspend, Typed
<1>2. \A u \in HandedOn(t, q) :
         u \in Tasks /\ u # t /\ fut[u] = "pending" /\ pc[u] = "askPermit"
  BY <1>i, PermitHeir DEF HandedOn
<1>3. \A u \in LockHeirs(q, held[t]) :
         u \in Tasks /\ u # t /\ fut[u] = "pending" /\ Wanted(u) \in held[t] /\ q[Wanted(u)][1] = u
  BY <1>i, LockHeir DEF Typed
<1>4. \A u \in next :
         u \in Tasks /\ u # t /\ fut[u] = "pending" /\ Wanted(u) = Wanted(t) /\ q[Wanted(u)][1] = u
  <2>1. Wanted(t) # Capacity => {Wanted(t)} \in SUBSET Locks
    BY WantedQueue DEF Queues
  <2> QED
    BY <2>1, LockHeir
<1>5. \A u \in H : u \in Tasks /\ u # t /\ fut[u] = "pending"
  BY <1>2, <1>3, <1>4
<1> HIDE DEF H
<1>6. OnlyMoves(t) /\ fut'[t] = "none"
  BY <1>1, <1>5, <1>i DEF OnlyMoves, Typed
<1>7. QueuesExact' /\ InPlace(t)
  BY <1>i, <1>1, <1>6, Left
<1>8. ASSUME NEW u \in H PROVE Awakes(u)
  <2>1. fut[u] = "pending" /\ fut'[u] = "woken"
    BY <1>1, <1>5
  <2>2. CASE u \in next
    <3>1. Wanted(u) # Capacity => Wanted(u) \in Locks /\ ~locked[Wanted(u)]
      BY <1>4, <2>2, WantedQueue DEF Queues
    <3> QED
      BY <1>1, <1>4, <2>1, <2>2, <3>1 DEF Awakes
  <2>3. CASE u \in LockHeirs(q, held[t])
    <3>1. Wanted(u) \in Locks
      BY <1>3, <2>3, <1>i DEF Typed
    <3> QED
      BY <1>1, <1>3, <2>1, <2>3, <3>1 DEF Awakes
  <2>4. CASE u \in HandedOn(t, q)
    BY <1>2, <2>1, <2>4 DEF Awakes, Wanted
  <2> QED
    BY <2>2, <2>3, <2>4 DEF H
<1>9. WokenFirst'
  <2>1. \A u \in Tasks : u # t => fut'[u] = fut[u] \/ Awakes(u)
    BY <1>1, <1>8
  <2>2. \A u \in Tasks : u # t /\ fut[u] \in {"woken", "late"} /\ Wanted(u) # Capacity =>
             ~locked'[Wanted(u)]
    BY <1>1, <1>i, WantedQueue DEF WokenFirst, Queues
  <2> QED
    BY <2>1, <2>2, <1>6, <1>7, <1>i, WokenStep
<1>10. OneOwner'
  <2>1. held[t] \in SUBSET Locks
    BY <1>i DEF Typed
  <2>2. held' = [held EXCEPT ![t] = @ \ held[t]]
    BY <1>1, <1>i DEF Typed
  <2> QED
    BY <2>1, <2>2, <1>1, <1>i, Released
<1>11. WhereTasksAre'
  <2>1. NamesOK /\ Nobody \notin Tasks
    BY NamesOK
  <2> QED
    BY <1>1, <1>5, <1>i, <2>1 DEF WhereTasksAre, Waits, Typed
<1>12. Owners' = (Owners \ {t}) \cup HandedOn(t, q)
  <2> SUFFICES ASSUME NEW u \in Tasks
               PROVE  u \in Owners' <=> (u \in Owners /\ u # t) \/ u \in HandedOn(t, q)
    BY <1>2 DEF Owners
  <2>0. u \in Owners' <=> (permit'[u] \/ (pc'[u] = "askPermit" /\ fut'[u] \in {"woken", "late"}))
    BY DEF Owners, HasPermit
  <2>1. CASE u = t
    BY <2>0, <2>1, <1>1, <1>2, <1>i DEF Typed
  <2>2. CASE u # t /\ u \in H
    <3>1. u \in HandedOn(t, q) \/ pc[u] # "askPermit"
      <4>1. u \in next \/ u \in LockHeirs(q, held[t]) => Wanted(u) # Capacity
        BY <1>3, <1>4, <1>i, NamesOK DEF Typed
      <4> QED
        BY <4>1, <2>2 DEF H, Wanted
    <3>2. ~permit[u]
      BY <1>5, <2>2, <1>i DEF WhereTasksAre, Waits
    <3> QED
      BY <2>0, <2>2, <3>1, <3>2, <1>1, <1>2, <1>5, <1>i DEF Typed, Owners, HasPermit
  <2>3. CASE u # t /\ u \notin H
    <3>1. u \notin HandedOn(t, q)
      BY <2>3 DEF H
    <3> QED
      BY <2>0, <2>3, <3>1, <1>1, <1>i DEF Typed, Owners, HasPermit
  <2> QED
    BY <2>1, <2>2, <2>3
<1>13. PermitsAddUp' /\ value' \in Nat
  <2>v. value \in Nat
    BY <1>i DEF Typed
  <2>1. CASE t \notin Owners
    <3>1. Owes(t) = 0
      BY <2>1 DEF Owes, Owners, HasPermit
    <3>2. HandedOn(t, q) = {}
      BY <3>1 DEF HandedOn
    <3>3. value' = value /\ Owners' = Owners
      BY <1>1, <1>12, <2>1, <2>v, <3>1, <3>2, FS_EmptySet
    <3> QED
      BY <3>3, <2>v, <1>i, PermitsKept
  <2>2. CASE t \in Owners
    <3>1. Owes(t) = 1
      BY <2>2, <1>i DEF Owes, Owners, HasPermit, WhereTasksAre, Typed
    <3>2. CASE HandedOn(t, q) = {}
      <4>1. value' = value + 1 /\ Owners' = Owners \ {t}
        BY <1>1, <1>12, <2>v, <3>1, <3>2, FS_EmptySet
      <4> QED
        BY <4>1, <2>2, <2>v, <1>i, PermitGivenBack
    <3>3. CASE HandedOn(t, q) # {}
      <4>1. PICK u \in Tasks : HandedOn(t, q) = {u}
        BY <3>3, <1>i, PermitHeir DEF HandedOn
      <4>2. u \notin Owners
        BY <4>1, <1>2, <1>i DEF Owners, HasPermit, WhereTasksAre, Typed
      <4>3. Cardinality({u}) = 1
        BY FS_Singleton
      <4>4. value' = value /\ Owners' = (Owners \ {t}) \cup {u}
        BY <1>1, <1>12, <2>v, <3>1, <4>1, <4>3
      <4> QED
        BY <4>2, <4>4, <2>2, <2>v, <1>i, PermitPassedOn
    <3> QED
      BY <3>2, <3>3
  <2> QED
    BY <2>1, <2>2
<1>14. Typed'
  BY <1>1, <1>13, <1>i, WantedQueue DEF Typed, Shrunk
<1> QED
  BY <1>7, <1>9, <1>10, <1>11, <1>13, <1>14 DEF GateInv

LEMMA Ends ==
  ASSUME GateInv, NEW t \in Tasks,
         FreezeFails(t) \/ Busy(t) \/ Drained(t) \/ Finish(t) \/ Unwind(t)
  PROVE  GateInv'
<1>i. Typed /\ QueuesExact /\ WhereTasksAre
  BY DEF GateInv
<1>1. ASSUME End(t), ~Waits(t) PROVE GateInv'
  <2>1. Shrunk(queue, t)
    BY <1>1, <1>i, NotQueued
  <2> DEFINE next == {}
  <2>2. Leave(t, queue, next)
    BY <1>1 DEF End
  <2>3. next = {}
    OBVIOUS
  <2> HIDE DEF next
  <2> QED
    BY <1>1, <2>1, <2>2, <2>3, LeaveKeeps DEF Waits
<1>2. CASE FreezeFails(t) \/ Busy(t) \/ Drained(t) \/ Finish(t)
  BY <1>2, <1>1, <1>i DEF FreezeFails, Busy, Drained, Finish, WhereTasksAre
<1>3. CASE Unwind(t)
  <2> DEFINE l == Wanted(t)
             q == Without(t, l)
             next == IF l # Capacity /\ ~locked[l] THEN LockHeirs(q, {l}) ELSE {}
  <2>1. fut[t] \in {"cancelled", "late"} /\ Leave(t, q, next)
    BY <1>3 DEF Unwind
  <2>2. Shrunk(q, t)
    BY <2>1, <1>i, Taken DEF Waits
  <2>3. next = {} \/ (l # Capacity /\ ~locked[l] /\ next = LockHeirs(q, {l}))
    OBVIOUS
  <2> HIDE DEF next, q
  <2> QED
    BY <2>1, <2>2, <2>3, LeaveKeeps
<1> QED
  BY <1>2, <1>3

-----------------------------------------------------------------------------
(* The other steps *)

(* Nothing but the place of a task that does not wait, and its permit. *)
LEMMA Moves ==
  ASSUME GateInv, NEW t \in Tasks, UNCHANGED <<fut, queue, locked, held>>, ~Waits(t),
         \A u \in Tasks : u # t => pc'[u] = pc[u],
         Typed', WhereTasksAre', PermitsAddUp'
  PROVE  GateInv'
<1>i. Typed /\ QueuesExact /\ WokenFirst /\ OneOwner
  BY DEF GateInv
<1>1. OnlyMoves(t) /\ fut'[t] = "none"
  BY DEF OnlyMoves, Waits
<1>2. Shrunk(queue', t)
  BY <1>i, NotQueued
<1>3. QueuesExact' /\ InPlace(t)
  BY <1>1, <1>2, <1>i, Left
<1>4. WokenFirst'
  BY <1>1, <1>3, <1>i, WokenStep DEF WokenFirst
<1>5. OneOwner'
  BY <1>i DEF OneOwner
<1> QED
  BY <1>3, <1>4, <1>5 DEF GateInv

LEMMA Walks ==
  ASSUME GateInv, NEW t \in Tasks, Start(t) \/ Frozen(t) \/ Skip(t) \/ Onward(t) \/ Run(t)
  PROVE  GateInv'
<1>i. Typed /\ QueuesExact /\ WhereTasksAre /\ PermitsAddUp
  BY DEF GateInv
<1>1. PICK where \in Bodies \cup {"askRoute", "askProfile"} :
         /\ pc' = [pc EXCEPT ![t] = where]
         /\ UNCHANGED <<fut, queue, locked, value, held, permit>>
         /\ cpu' \in {t, cpu, Nobody}
         /\ cpu' = cpu => cpu \in {t, Nobody}
         /\ pc[t] \in {"idle", "freezing", "inRoute", "inProfile"}
         /\ where = "askProfile" => pc[t] \in {"inRoute", "idle"}
         /\ where = "askRoute" => pc[t] \in {"idle", "freezing"}
         /\ where = "freezing" => pc[t] = "idle"
  BY DEF Start, Frozen, Skip, Onward, Run, Goto, Suspend, Bodies
<1>2. ~Waits(t) /\ ~permit[t]
  BY <1>1, <1>i DEF WhereTasksAre
<1>3. Typed'
  BY <1>1, <1>i DEF Typed
<1>4. WhereTasksAre'
  BY <1>1, <1>2, <1>i, NamesOK DEF WhereTasksAre, Waits, Typed, Bodies
<1>5. PermitsAddUp'
  <2>1. Owners' = Owners
    BY <1>1, <1>2, <1>i DEF Owners, HasPermit, Typed, Bodies, Waits
  <2> QED
    BY <1>1, <2>1, <1>i, PermitsKept
<1> QED
  BY <1>1, <1>2, <1>3, <1>4, <1>5, Moves DEF Typed

LEMMA FastPath ==
  ASSUME GateInv, NEW t \in Tasks, TakePermit(t)
  PROVE  GateInv'
<1>i. Typed /\ QueuesExact /\ WhereTasksAre /\ PermitsAddUp
  BY DEF GateInv
<1>1. /\ pc' = [pc EXCEPT ![t] = "running"] /\ permit' = [permit EXCEPT ![t] = TRUE]
      /\ UNCHANGED <<fut, queue, locked, held>>
      /\ pc[t] = "inProfile" /\ value > 0 /\ value' = value - 1 /\ cpu' = Nobody
  BY DEF TakePermit, Suspend
<1>2. ~Waits(t) /\ ~permit[t]
  BY <1>1, <1>i DEF WhereTasksAre
<1>3. Typed'
  BY <1>1, <1>i DEF Typed, Bodies
<1>4. WhereTasksAre'
  BY <1>1, <1>2, <1>i, NamesOK DEF WhereTasksAre, Waits, Typed
<1>5. PermitsAddUp'
  <2>1. Owners' = Owners \cup {t} /\ t \notin Owners
    BY <1>1, <1>2, <1>i DEF Owners, HasPermit, Typed, Waits
  <2> QED
    BY <1>1, <2>1, <1>i, PermitTaken
<1> QED
  BY <1>1, <1>2, <1>3, <1>4, <1>5, Moves DEF Typed

(* A lock that is free, or that t was woken for, is taken. *)
LEMMA Enters ==
  ASSUME GateInv, NEW t \in Tasks, Ask(t) \/ Resume(t), Enter(t, Wanted(t))
  PROVE  GateInv'
<1> DEFINE l == Wanted(t)
<1>i. Typed /\ QueuesExact /\ WokenFirst /\ WhereTasksAre /\ OneOwner /\ PermitsAddUp
  BY DEF GateInv
<1>1. /\ pc[t] \in {"askRoute", "askProfile"} /\ l \in Locks
      /\ IF pc[t] = "askRoute" THEN l = RouteOf[t] ELSE l = ProfileOf[t]
  BY <1>i, TasksOK DEF Ask, Resume, WhereTasksAre, Wanted, Waits
<1>2. /\ locked' = [locked EXCEPT ![l] = TRUE]
      /\ held' = [held EXCEPT ![t] = @ \cup {l}]
      /\ pc' = [pc EXCEPT ![t] = Behind(t, l)]
      /\ UNCHANGED <<value, permit>>
  BY DEF Enter, Ask, Resume, Acquire
<1>3. Behind(t, l) = IF pc[t] = "askRoute" THEN "inRoute" ELSE "inProfile"
  BY <1>1, TasksOK DEF Behind
<1>4. /\ Shrunk(queue', t) /\ fut'[t] = "none" /\ cpu' = t
      /\ \A u \in Tasks : u # t => fut'[u] = fut[u]
      /\ fut' \in [Tasks -> {"none", "pending", "woken", "cancelled", "late"}]
      /\ ~locked[l]
      /\ \A u \in Tasks : u # t /\ fut[u] \in {"woken", "late"} => Wanted(u) # l
  <2>1. CASE Ask(t)
    <3>1. ~Waits(t) /\ cpu = t
      BY <2>1, <1>i DEF Ask, WhereTasksAre
    <3>2. Free(l) /\ UNCHANGED <<cpu, fut, queue>>
      <4>1. locked[l] => locked'[l] = TRUE /\ held'[t] = held[t] \cup {l}
        BY <1>1, <1>2, <1>i DEF Typed
      <4>2. CASE Free(l)
        BY <2>1, <4>2 DEF Ask, Acquire
      <4>3. CASE ~Free(l)
        <5>1. pc' = pc
          BY <2>1, <4>3 DEF Ask, Acquire
        <5> QED
          BY <5>1, <1>1, <1>2, <1>3, <1>i DEF Typed
      <4> QED
        BY <4>2, <4>3
    <3>3. Shrunk(queue', t)
      BY <3>1, <3>2, <1>i, NotQueued
    <3>4. \A u \in Tasks : fut[u] \in {"woken", "late"} => Wanted(u) # l
      BY <3>2, <1>1, <1>i, NobodyWoken DEF Waits
    <3> QED
      BY <3>1, <3>2, <3>3, <3>4, <1>i DEF Waits, Free, Typed
  <2>2. CASE Resume(t)
    <3>1. fut[t] = "woken" /\ Waits(t) /\ queue' = Without(t, l) /\ cpu' = t
          /\ fut' = [fut EXCEPT ![t] = "none"]
      BY <2>2 DEF Resume, Waits
    <3>2. Shrunk(queue', t)
      BY <3>1, <1>i, Taken
    <3>3. l # Capacity
      BY <1>1, NamesOK
    <3>4. ~locked[l] /\ queue[l][1] = t
      BY <3>1, <3>3, <1>i DEF WokenFirst
    <3>5. \A u \in Tasks : u # t /\ fut[u] \in {"woken", "late"} => Wanted(u) # l
      BY <3>3, <3>4, <1>i DEF WokenFirst
    <3> QED
      BY <3>1, <3>2, <3>4, <3>5, <1>i DEF Typed
  <2> QED
    BY <2>1, <2>2
<1> HIDE DEF l
<1>5. OnlyMoves(t)
  BY <1>2, <1>4, <1>i DEF OnlyMoves, Typed
<1>6. QueuesExact' /\ InPlace(t)
  BY <1>4, <1>5, <1>i, Left
<1>7. WokenFirst'
  <2>1. \A u \in Tasks : u # t /\ fut[u] \in {"woken", "late"} /\ Wanted(u) # Capacity =>
             ~locked'[Wanted(u)]
    BY <1>1, <1>2, <1>4, <1>i, WantedQueue DEF WokenFirst, Typed, Queues
  <2> QED
    BY <2>1, <1>4, <1>5, <1>6, <1>i, WokenStep
<1>8. OneOwner'
  BY <1>1, <1>2, <1>4, <1>i, Acquired
<1>9. Typed'
  BY <1>1, <1>2, <1>3, <1>4, <1>i DEF Typed, Shrunk
<1>10. WhereTasksAre'
  <2>1. held[t] \subseteq {RouteOf[t]} /\ (pc[t] = "askRoute" => held[t] = {}) /\ ~permit[t]
    BY <1>1, <1>i DEF WhereTasksAre
  <2>2. cpu \in {t, Nobody}
    BY DEF Ask, Resume
  <2>3. RouteOf[t] # ProfileOf[t]
    BY TasksOK
  <2> QED
    BY <1>1, <1>2, <1>3, <1>4, <1>i, <2>1, <2>2, <2>3 DEF WhereTasksAre, Waits, Typed
<1>11. PermitsAddUp'
  <2>1. Owners' = Owners
    BY <1>1, <1>2, <1>3, <1>4, <1>i DEF Owners, HasPermit, Typed
  <2> QED
    BY <1>2, <2>1, <1>i, PermitsKept
<1> QED
  BY <1>6, <1>7, <1>8, <1>9, <1>10, <1>11 DEF GateInv

(* A turn that was handed a permit finds its profile lock free. *)
LEMMA Reenters ==
  ASSUME GateInv, NEW t \in Tasks, Reenter(t)
  PROVE  GateInv'
<1> DEFINE l == ProfileOf[t]
<1>i. Typed /\ QueuesExact /\ WokenFirst /\ WhereTasksAre /\ OneOwner /\ PermitsAddUp
  BY DEF GateInv
<1>1. /\ cpu = Nobody /\ pc[t] = "askPermit" /\ fut[t] = "woken" /\ Free(l) /\ l \in Locks
      /\ locked' = [locked EXCEPT ![l] = TRUE]
      /\ held' = [held EXCEPT ![t] = @ \cup {l}]
      /\ permit' = [permit EXCEPT ![t] = TRUE]
      /\ queue' = Without(t, Capacity)
      /\ fut' = [fut EXCEPT ![t] = "none"]
      /\ pc' = [pc EXCEPT ![t] = "running"]
      /\ UNCHANGED <<cpu, value>>
  BY TasksOK DEF Reenter, Claimable
<1>2. Waits(t) /\ Wanted(t) = Capacity
  BY <1>1 DEF Waits, Wanted
<1>3. Shrunk(queue', t)
  BY <1>1, <1>2, <1>i, Taken
<1>4. OnlyMoves(t) /\ fut'[t] = "none" /\ \A u \in Tasks : u # t => fut'[u] = fut[u]
  BY <1>1, <1>i DEF OnlyMoves, Typed
<1>5. QueuesExact' /\ InPlace(t)
  BY <1>3, <1>4, <1>i, Left
<1>6. \A u \in Tasks : fut[u] \in {"woken", "late"} => Wanted(u) # l
  BY <1>1, <1>i, NobodyWoken DEF Waits
<1>7. WokenFirst'
  <2>1. \A u \in Tasks : u # t /\ fut[u] \in {"woken", "late"} /\ Wanted(u) # Capacity =>
             ~locked'[Wanted(u)]
    BY <1>1, <1>6, <1>i, WantedQueue DEF WokenFirst, Typed, Queues
  <2> QED
    BY <2>1, <1>4, <1>5, <1>i, WokenStep
<1>8. OneOwner'
  BY <1>1, <1>i, Acquired DEF Free
<1>9. Typed'
  BY <1>1, <1>3, <1>i DEF Typed, Shrunk, Bodies
<1>10. WhereTasksAre'
  BY <1>1, <1>4, <1>i, TasksOK, NamesOK DEF WhereTasksAre, Waits, Typed
<1>11. PermitsAddUp'
  <2>1. Owners' = Owners
    BY <1>1, <1>i DEF Owners, HasPermit, Typed
  <2> QED
    BY <1>1, <2>1, <1>i, PermitsKept
<1> QED
  BY <1>5, <1>7, <1>8, <1>9, <1>10, <1>11 DEF GateInv

(* Or it does not, and passes the permit on. *)
LEMMA GivesBack ==
  ASSUME GateInv, NEW t \in Tasks, GiveBack(t)
  PROVE  GateInv'
<1> DEFINE q == Without(t, Capacity)
           H == PermitHeirs(q)
<1>i. Typed /\ QueuesExact /\ WokenFirst /\ WhereTasksAre /\ OneOwner /\ PermitsAddUp
  BY DEF GateInv
<1>1. /\ cpu = Nobody /\ pc[t] = "askPermit" /\ fut[t] = "woken"
      /\ queue' = q
      /\ fut' = [u \in Tasks |-> IF u \in H THEN "woken" ELSE IF u = t THEN "none" ELSE fut[u]]
      /\ value' = value + 1 - Cardinality(H)
      /\ pc' = [pc EXCEPT ![t] = "askProfile"]
      /\ cpu' = t
      /\ UNCHANGED <<locked, held, permit>>
  BY <1>i DEF GiveBack, Woken, Typed
<1>2. Waits(t) /\ Wanted(t) = Capacity
  BY <1>1 DEF Waits, Wanted
<1>3. Shrunk(q, t)
  BY <1>2, <1>i, Taken
<1>4. \/ H = {}
      \/ \E u \in Tasks : H = {u} /\ u # t /\ fut[u] = "pending" /\ pc[u] = "askPermit"
  BY <1>3, <1>i, PermitHeir
<1> HIDE DEF H, q
<1>5. OnlyMoves(t) /\ fut'[t] = "none"
  BY <1>1, <1>4, <1>i DEF OnlyMoves, Typed
<1>6. QueuesExact' /\ InPlace(t)
  BY <1>1, <1>3, <1>5, <1>i, Left
<1>7. WokenFirst'
  <2>1. \A u \in Tasks : u # t => fut'[u] = fut[u] \/ Awakes(u)
    BY <1>1, <1>4 DEF Awakes, Wanted
  <2>2. \A u \in Tasks : u # t /\ fut[u] \in {"woken", "late"} /\ Wanted(u) # Capacity =>
             ~locked'[Wanted(u)]
    BY <1>1, <1>i DEF WokenFirst
  <2> QED
    BY <2>1, <2>2, <1>5, <1>6, <1>i, WokenStep
<1>8. OneOwner'
  BY <1>1, <1>i DEF OneOwner
<1>9. PermitsAddUp' /\ value' \in Nat
  <2>1. t \in Owners /\ value \in Nat /\ ~permit[t]
    BY <1>1, <1>i DEF Owners, HasPermit, Typed, WhereTasksAre
  <2>2. CASE H = {}
    <3>1. value' = value + 1
      BY <1>1, <2>1, <2>2, FS_EmptySet
    <3>2. Owners' = Owners \ {t}
      BY <1>1, <2>1, <2>2, <1>i DEF Owners, HasPermit, Typed
    <3> QED
      BY <3>1, <3>2, <2>1, <1>i, PermitGivenBack
  <2>3. ASSUME NEW u \in Tasks, H = {u}, u # t, fut[u] = "pending", pc[u] = "askPermit"
        PROVE  PermitsAddUp' /\ value' \in Nat
    <3>1. Cardinality({u}) = 1
      BY FS_Singleton
    <3>2. value' = value
      BY <1>1, <2>1, <2>3, <3>1
    <3>3. u \notin Owners
      BY <2>3, <1>i DEF Owners, HasPermit, WhereTasksAre
    <3>4. Owners' = (Owners \ {t}) \cup {u}
      BY <1>1, <2>1, <2>3, <1>i DEF Owners, HasPermit, Typed
    <3> QED
      BY <3>2, <3>3, <3>4, <2>1, <1>i, PermitPassedOn
  <2> QED
    BY <1>4, <2>2, <2>3
<1>10. Typed'
  BY <1>1, <1>3, <1>9, <1>i DEF Typed, Shrunk
<1>11. WhereTasksAre'
  BY <1>1, <1>4, <1>5, <1>i DEF WhereTasksAre, Waits, Typed
<1> QED
  BY <1>6, <1>7, <1>8, <1>9, <1>10, <1>11 DEF GateInv

(* A lock that is not free is awaited. *)
LEMMA Parks ==
  ASSUME GateInv, NEW t \in Tasks, Ask(t), ~Free(Wanted(t))
  PROVE  GateInv'
<1> DEFINE l == Wanted(t)
<1>i. Typed /\ QueuesExact /\ WokenFirst /\ WhereTasksAre /\ OneOwner /\ PermitsAddUp
  BY DEF GateInv
<1>1. /\ cpu = t /\ pc[t] \in {"askRoute", "askProfile"}
      /\ queue' = [queue EXCEPT ![l] = Append(@, t)]
      /\ fut' = [fut EXCEPT ![t] = "pending"]
      /\ cpu' = Nobody
      /\ UNCHANGED <<locked, held, pc, value, permit>>
  BY DEF Ask, Acquire, Park, Suspend
<1>2. ~Waits(t) /\ ~permit[t] /\ l \in Queues
  BY <1>1, <1>i, WantedQueue DEF WhereTasksAre
<1>3. Joined(t, l) /\ OnlyMoves(t) /\ fut'[t] # "none" /\ Wanted(t)' = l
  BY <1>1, <1>2, <1>i DEF Joined, OnlyMoves, Typed, Wanted
<1>4. QueuesExact' /\ InPlace(t)
  BY <1>2, <1>3, <1>i, Came
<1>5. WokenFirst'
  <2>1. /\ \A u \in Tasks : u # t => fut'[u] = fut[u]
        /\ fut'[t] \notin {"woken", "late"}
    BY <1>1, <1>i DEF Typed
  <2>2. \A u \in Tasks : u # t /\ fut[u] \in {"woken", "late"} /\ Wanted(u) # Capacity =>
             ~locked'[Wanted(u)]
    BY <1>1, <1>i DEF WokenFirst
  <2> QED
    BY <2>1, <2>2, <1>3, <1>4, <1>i, WokenStep
<1>6. Typed'
  <2>1. Append(queue[l], t) \in Seq(Tasks)
    BY <1>2, <1>i DEF Typed
  <2> QED
    BY <1>1, <2>1, <1>i DEF Typed
<1>7. WhereTasksAre'
  BY <1>1, <1>2, <1>i, NamesOK DEF WhereTasksAre, Waits, Typed
<1>8. PermitsAddUp'
  <2>1. Owners' = Owners
    BY <1>1, <1>2, <1>i DEF Owners, HasPermit, Typed
  <2> QED
    BY <1>1, <2>1, <1>i, PermitsKept
<1>9. OneOwner'
  BY <1>1, <1>i DEF OneOwner
<1> QED
  BY <1>4, <1>5, <1>6, <1>7, <1>8, <1>9 DEF GateInv

(* No permit: the profile lock goes to its next waiter. *)
LEMMA AwaitsPermit ==
  ASSUME GateInv, NEW t \in Tasks, AwaitPermit(t)
  PROVE  GateInv'
<1> DEFINE l == ProfileOf[t]
           H == LockHeirs(queue, LetGo(t))
<1>i. Typed /\ QueuesExact /\ WokenFirst /\ WhereTasksAre /\ OneOwner /\ PermitsAddUp
  BY DEF GateInv
<1>1. /\ cpu = t /\ pc[t] = "inProfile" /\ cpu' = Nobody
      /\ queue' = [queue EXCEPT ![Capacity] = Append(@, t)]
      /\ fut' = [u \in Tasks |-> IF u \in H THEN "woken" ELSE IF u = t THEN "pending" ELSE fut[u]]
      /\ locked' = [k \in Locks |-> locked[k] /\ k \notin {l}]
      /\ held' = [held EXCEPT ![t] = @ \ {l}]
      /\ pc' = [pc EXCEPT ![t] = "askPermit"]
      /\ UNCHANGED <<value, permit>>
  BY <1>i DEF AwaitPermit, Woken, LetGo, Suspend, Typed
<1>2. /\ ~Waits(t) /\ ~permit[t]
      /\ l \in held[t] /\ l \in Locks /\ Capacity \in Queues /\ Capacity \notin Locks
  BY <1>1, <1>i, NamesOK, TasksOK DEF WhereTasksAre, Queues
<1>3. ASSUME NEW u \in H
      PROVE  u \in Tasks /\ u # t /\ fut[u] = "pending" /\ Wanted(u) = l /\ queue[l][1] = u
  <2>1. Shrunk(queue, t)
    BY <1>2, <1>i, NotQueued
  <2>2. LetGo(t) = {l} /\ LetGo(t) \in SUBSET Locks
    BY <1>2 DEF LetGo
  <2>3. /\ u \in Tasks /\ u # t /\ fut[u] = "pending"
        /\ Wanted(u) \in LetGo(t) /\ queue[Wanted(u)][1] = u
    BY <2>1, <2>2, LockHeir
  <2> QED
    BY <2>2, <2>3
<1> HIDE DEF H
<1>4. Joined(t, Capacity) /\ OnlyMoves(t) /\ fut'[t] = "pending" /\ Wanted(t)' = Capacity
  BY <1>1, <1>2, <1>3, <1>i DEF Joined, OnlyMoves, Typed, Wanted
<1>5. QueuesExact' /\ InPlace(t)
  BY <1>2, <1>4, <1>i, Came
<1>6. WokenFirst'
  <2>1. \A u \in Tasks : u # t => fut'[u] = fut[u] \/ Awakes(u)
    <3>1. queue'[l] = queue[l]
      BY <1>1, <1>2
    <3> QED
      BY <3>1, <1>1, <1>2, <1>3 DEF Awakes
  <2>2. \A u \in Tasks : u # t /\ fut[u] \in {"woken", "late"} /\ Wanted(u) # Capacity =>
             ~locked'[Wanted(u)]
    BY <1>1, <1>i, WantedQueue DEF WokenFirst, Queues
  <2> QED
    BY <2>1, <2>2, <1>4, <1>5, <1>i, WokenStep
<1>7. OneOwner'
  <2>1. {l} \in SUBSET Locks /\ {l} \subseteq held[t]
    BY <1>2
  <2> QED
    BY <2>1, <1>1, <1>i, Released
<1>8. Typed'
  <2>1. Append(queue[Capacity], t) \in Seq(Tasks)
    BY <1>2, <1>i DEF Typed
  <2> QED
    BY <1>1, <2>1, <1>i DEF Typed
<1>9. WhereTasksAre'
  BY <1>1, <1>2, <1>3, <1>4, <1>i, NamesOK DEF WhereTasksAre, Waits, Typed
<1>10. PermitsAddUp'
  <2>1. \A u \in Tasks : pc[u] = "askPermit" => u \notin H
    BY <1>2, <1>3 DEF Wanted
  <2>2. Owners' = Owners
    BY <1>1, <1>2, <1>3, <1>4, <2>1, <1>i DEF Owners, HasPermit, Typed
  <2> QED
    BY <1>1, <2>2, <1>i, PermitsKept
<1> QED
  BY <1>5, <1>6, <1>7, <1>8, <1>9, <1>10 DEF GateInv

(* A waiter is cancelled, before or after it was woken. *)
LEMMA Interrupts ==
  ASSUME GateInv, NEW t \in Tasks, Interrupt(t)
  PROVE  GateInv'
<1>i. Typed /\ QueuesExact /\ WokenFirst /\ WhereTasksAre /\ OneOwner /\ PermitsAddUp
  BY DEF GateInv
<1>1. /\ \/ fut[t] = "pending" /\ fut'[t] = "cancelled"
         \/ fut[t] = "woken" /\ fut'[t] = "late"
      /\ \A u \in Tasks : u # t => fut'[u] = fut[u]
      /\ UNCHANGED <<cpu, pc, queue, locked, value, held, permit>>
  BY <1>i DEF Interrupt, Typed
<1>2. Typed'
  BY <1>i DEF Interrupt, Typed
<1>3. \A u \in Tasks : /\ WantedNext(u) = Wanted(u) /\ (WaitsNext(u) <=> Waits(u))
                       /\ fut'[u] \in {"woken", "late"} <=> fut[u] \in {"woken", "late"}
  BY <1>1 DEF Wanted, WantedNext, Waits, WaitsNext
<1>4. QueuesExact'
  <2>1. \A l \in Queues : \A i \in 1..Len(queue[l]) : queue[l][i] \in Tasks
    BY <1>i DEF Typed
  <2>2. \A l \in Queues : \A i \in 1..Len(queue'[l]) :
               /\ WaitsNext(queue'[l][i]) /\ WantedNext(queue'[l][i]) = l
               /\ \A j \in 1..Len(queue'[l]) : queue'[l][i] = queue'[l][j] => i = j
    BY <1>1, <1>3, <2>1, <1>i DEF QueuesExact
  <2>3. \A u \in Tasks : WaitsNext(u) =>
               \E i \in 1..Len(queue'[WantedNext(u)]) : queue'[WantedNext(u)][i] = u
    BY <1>1, <1>3, <1>i DEF QueuesExact, Queued
  <2> QED
    BY <2>2, <2>3, ExactNext
<1>5. WokenFirst'
  BY <1>1, <1>3, <1>i DEF WokenFirst, Wanted, WantedNext
<1>6. WhereTasksAre'
  BY <1>1, <1>3, <1>i DEF WhereTasksAre, Waits, WaitsNext
<1>7. OneOwner'
  BY <1>1, <1>i DEF OneOwner
<1>8. PermitsAddUp'
  <2>1. Owners' = Owners
    BY <1>1, <1>3 DEF Owners, HasPermit
  <2> QED
    BY <1>1, <2>1, <1>i, PermitsKept
<1> QED
  BY <1>2, <1>4, <1>5, <1>6, <1>7, <1>8 DEF GateInv

-----------------------------------------------------------------------------
LEMMA GateInit == Init => GateInv
<1> SUFFICES ASSUME Init PROVE GateInv
  OBVIOUS
<1>1. Typed
  BY PermitsOK DEF Init, Typed, Bodies, Queues
<1>2. QueuesExact /\ WokenFirst /\ WhereTasksAre /\ OneOwner
  BY DEF Init, QueuesExact, WokenFirst, WhereTasksAre, OneOwner, Waits, Queues
<1>3. Owners = {}
  BY DEF Init, Owners, HasPermit
<1>4. PermitsAddUp
  BY <1>3, FS_EmptySet, PermitsOK DEF Init, PermitsAddUp
<1> QED
  BY <1>1, <1>2, <1>4 DEF GateInv

LEMMA GateStep == GateInv /\ [Next]_vars => GateInv'
<1> SUFFICES ASSUME GateInv, [Next]_vars PROVE GateInv'
  OBVIOUS
<1>1. CASE UNCHANGED vars
  BY <1>1 DEF vars, GateInv, Typed, QueuesExact, WokenFirst, WhereTasksAre, OneOwner,
     PermitsAddUp, Owners, HasPermit, Waits, Queued, Wanted
<1>2. ASSUME NEW t \in Tasks, Ask(t) PROVE GateInv'
  <2>1. CASE Free(Wanted(t))
    BY <1>2, <2>1, Enters DEF Ask, Acquire
  <2> QED
    BY <1>2, <2>1, Parks
<1>3. ASSUME NEW t \in Tasks, Resume(t) PROVE GateInv'
  BY <1>3, Enters DEF Resume
<1> QED
  BY <1>1, <1>2, <1>3, Ends, Walks, FastPath, Reenters, GivesBack, AwaitsPermit, Interrupts
  DEF Next, Step

LEMMA GateInductive == Spec => []GateInv
  BY GateInit, GateStep, PTL DEF Spec

-----------------------------------------------------------------------------
(* Nobody waits for what is free *)

(* The task that runs is between its awaits, and nobody else is there       *)
(* without waiting.                                                         *)
Between == {"askRoute", "inRoute", "askProfile", "inProfile"}
OnItsWay ==
    \A t \in Tasks : /\ cpu = t => pc[t] \in Between
                     /\ pc[t] \in Between /\ cpu # t => Waits(t)

ProgressInv == GateInv /\ NothingFreeWhileWaiting /\ OnItsWay

LEMMA Least ==
  ASSUME NEW T, T \subseteq Nat, T # {}
  PROVE  \E n \in T : \A m \in T : ~(m < n)
<1> DEFINE R == {ss \in Nat \X Nat : ss[1] < ss[2]}
<1>1. IsWellFoundedOn(R, Nat)
  BY NatLessThanWellFounded, Zenon DEF OpToRel
<1>2. PICK n \in T : \A m \in T : ~(<<m, n>> \in R)
  <2> HIDE DEF R
  <2> QED
    BY <1>1, WFMin
<1> QED
  BY <1>2

(* Whoever waits for a permit has it handed on to somebody. *)
LEMMA SomeHeir ==
  ASSUME NEW t \in Tasks, NEW q, Shrunk(q, t), NEW u \in Tasks, u # t,
         fut[u] = "pending", pc[u] = "askPermit"
  PROVE  PermitHeirs(q) # {}
<1> DEFINE s == q[Capacity]
           T == {j \in 1..Len(s) : fut[s[j]] = "pending"}
<1>1. Wanted(u) = Capacity /\ Waits(u)
  BY DEF Wanted, Waits
<1>2. s \in Seq(Tasks) /\ DOMAIN s = 1..Len(s) /\ Len(s) \in Nat
  BY DEF Shrunk, Queues
<1>3. PICK i \in 1..Len(s) : s[i] = u
  BY <1>1 DEF Shrunk, Queued
<1>4. T \subseteq Nat /\ T # {}
  BY <1>2, <1>3
<1>5. PICK n \in T : \A m \in T : ~(m < n)
  <2> HIDE DEF T
  <2> QED
    BY <1>4, Least
<1>6. ASSUME NEW k \in 1..(n - 1) PROVE fut[s[k]] # "pending"
  <2>1. k \in 1..Len(s) /\ k < n
    BY <1>2
  <2> QED
    BY <2>1, <1>5
<1>7. s[n] \in PermitHeirs(q)
  BY <1>2, <1>5, <1>6 DEF PermitHeirs
<1> QED
  BY <1>7

(* Who ends tells the first waiter of each lock it leaves free. *)
LEMMA LeaveTells ==
  ASSUME GateInv, NothingFreeWhileWaiting, NEW t \in Tasks, NEW q, NEW next,
         Shrunk(q, t), Leave(t, q, next),
         \A l \in Locks : q[l] = queue[l] \/ locked[l] \/ LockHeirs(q, {l}) \subseteq next
  PROVE  NothingFreeWhileWaiting'
<1> DEFINE H == next \cup LockHeirs(q, held[t]) \cup HandedOn(t, q)
<1>i. Typed /\ WhereTasksAre
  BY DEF GateInv
<1>1. /\ queue' = q
      /\ \A u \in Tasks : fut'[u] = IF u \in H THEN "woken" ELSE IF u = t THEN "none" ELSE fut[u]
      /\ locked' = [l \in Locks |-> locked[l] /\ l \notin held[t]]
      /\ value' = value + Owes(t) - Cardinality(HandedOn(t, q))
      /\ pc' = [pc EXCEPT ![t] = "gone"]
  BY <1>i DEF Leave, Woken, Typed
<1>2. ASSUME NEW l \in Locks, queue'[l] # <<>>, fut'[Head(queue'[l])] = "pending"
      PROVE  locked'[l]
  <2> DEFINE x == Head(q[l])
  <2>1. q[l] \in Seq(Tasks) /\ q[l] # <<>> /\ fut'[x] = "pending"
    BY <1>1, <1>2 DEF Shrunk, Queues
  <2>2. x \in Tasks
    BY <2>1
  <2>3. x \notin H /\ fut[x] = "pending"
    BY <1>1, <2>1, <2>2
  <2>4. \A S : l \in S => x \in LockHeirs(q, S)
    BY <2>1, <2>3 DEF LockHeirs
  <2>5. l \notin held[t]
    BY <2>3, <2>4
  <2>6. locked[l]
    BY <2>1, <2>3, <2>4 DEF NothingFreeWhileWaiting
  <2> QED
    BY <1>1, <2>5, <2>6
<1>3. ASSUME value' > 0, NEW u \in Tasks, pc'[u] = "askPermit", fut'[u] = "pending"
      PROVE  FALSE
  <2>1. u # t /\ pc[u] = "askPermit" /\ fut[u] = "pending"
    BY <1>1, <1>3, <1>i DEF Typed
  <2>2. value = 0
    BY <2>1, <1>i DEF NothingFreeWhileWaiting, Typed
  <2>3. CASE Owes(t) = 0
    <3>1. Cardinality(HandedOn(t, q)) = 0
      BY <2>3, FS_EmptySet DEF HandedOn
    <3> QED
      BY <3>1, <2>2, <2>3, <1>1, <1>3
  <2>4. CASE Owes(t) # 0
    <3>1. Owes(t) = 1
      BY <2>4, <1>i DEF Owes, WhereTasksAre
    <3>0. PermitHeirs(q) # {}
      BY <2>1, SomeHeir
    <3>2. PICK v \in Tasks : PermitHeirs(q) = {v}
      BY <3>0, <1>i, PermitHeir
    <3>4. HandedOn(t, q) = {v}
      BY <3>1, <3>2 DEF HandedOn
    <3>3. Cardinality(HandedOn(t, q)) = 1
      BY <3>4, FS_Singleton
    <3> QED
      BY <3>1, <3>3, <2>2, <1>1, <1>3
  <2> QED
    BY <2>3, <2>4
<1> QED
  BY <1>2, <1>3 DEF NothingFreeWhileWaiting

LEMMA EndTells ==
  ASSUME GateInv, NothingFreeWhileWaiting, NEW t \in Tasks,
         FreezeFails(t) \/ Busy(t) \/ Drained(t) \/ Finish(t) \/ Unwind(t)
  PROVE  NothingFreeWhileWaiting'
<1>i. Typed /\ QueuesExact /\ WhereTasksAre
  BY DEF GateInv
<1>1. CASE FreezeFails(t) \/ Busy(t) \/ Drained(t) \/ Finish(t)
  <2>1. ~Waits(t) /\ Leave(t, queue, {})
    BY <1>1, <1>i DEF FreezeFails, Busy, Drained, Finish, WhereTasksAre, End
  <2>2. Shrunk(queue, t)
    BY <2>1, <1>i, NotQueued
  <2> QED
    BY <2>1, <2>2, LeaveTells
<1>2. CASE Unwind(t)
  <2> DEFINE l == Wanted(t)
             q == Without(t, l)
             next == IF l # Capacity /\ ~locked[l] THEN LockHeirs(q, {l}) ELSE {}
  <2>1. fut[t] \in {"cancelled", "late"} /\ Leave(t, q, next)
    BY <1>2 DEF Unwind
  <2>2. Shrunk(q, t)
    BY <2>1, <1>i, Taken DEF Waits
  <2>3. ASSUME NEW m \in Locks
        PROVE  q[m] = queue[m] \/ locked[m] \/ LockHeirs(q, {m}) \subseteq next
    <3>1. CASE m = l
      BY <3>1, NamesOK
    <3>2. CASE m # l
      BY <3>2, <1>i DEF Without, Typed, Queues
    <3> QED
      BY <3>1, <3>2
  <2> HIDE DEF next, q
  <2> QED
    BY <2>1, <2>2, <2>3, LeaveTells
<1> QED
  BY <1>1, <1>2

(* Nobody is added to the waiters that are told nothing, and nothing is     *)
(* freed.                                                                   *)
LEMMA NothingFreed ==
  ASSUME NothingFreeWhileWaiting, value \in Nat, value' \in Nat, value' <= value,
         \A l \in Locks : queue'[l] # <<>> /\ fut'[Head(queue'[l])] = "pending" =>
             \/ locked'[l]
             \/ /\ queue[l] # <<>> /\ fut[Head(queue[l])] = "pending"
                /\ locked[l] => locked'[l],
         \A t \in Tasks : pc'[t] = "askPermit" /\ fut'[t] = "pending" =>
             pc[t] = "askPermit" /\ fut[t] = "pending"
  PROVE  NothingFreeWhileWaiting'
  BY DEF NothingFreeWhileWaiting

LEMMA WalkTells ==
  ASSUME GateInv, GateInv', NothingFreeWhileWaiting, NEW t \in Tasks,
         \/ Start(t) \/ Frozen(t) \/ Skip(t) \/ Onward(t) \/ Run(t)
         \/ TakePermit(t) \/ Interrupt(t)
  PROVE  NothingFreeWhileWaiting'
<1>i. Typed /\ Typed'
  BY DEF GateInv
<1>1. /\ UNCHANGED <<queue, locked>> /\ value' <= value
      /\ \A u \in Tasks : pc'[u] = "askPermit" => pc[u] = "askPermit"
      /\ \A u \in Tasks : fut'[u] = "pending" => fut[u] = "pending"
  BY <1>i DEF Start, Frozen, Skip, Onward, Run, Goto, TakePermit, Interrupt, Typed
<1>2. \A l \in Locks : queue[l] # <<>> => Head(queue[l]) \in Tasks
  BY <1>i DEF Typed, Queues
<1> QED
  BY <1>1, <1>2, <1>i, NothingFreed DEF Typed

(* A lock that is taken is nobody's loss. *)
LEMMA TakeTells ==
  ASSUME GateInv, GateInv', NothingFreeWhileWaiting, NEW t \in Tasks,
         (Ask(t) /\ Free(Wanted(t))) \/ Resume(t) \/ Reenter(t)
  PROVE  NothingFreeWhileWaiting'
<1>i. Typed /\ Typed'
  BY DEF GateInv
<1>1. /\ value' = value
      /\ \A u \in Tasks : pc'[u] = "askPermit" => pc[u] = "askPermit"
      /\ \A u \in Tasks : fut'[u] = "pending" => fut[u] = "pending"
  BY <1>i DEF Ask, Resume, Reenter, Acquire, Enter, Behind, Typed
<1>2. ASSUME NEW l \in Locks
      PROVE  locked'[l] \/ (queue'[l] = queue[l] /\ locked'[l] = locked[l])
  <2>1. CASE Ask(t) /\ Free(Wanted(t))
    BY <2>1, <1>i DEF Ask, Acquire, Enter, Typed
  <2>2. CASE Resume(t)
    BY <2>2, <1>i DEF Resume, Enter, Without, Typed, Queues
  <2>3. CASE Reenter(t)
    BY <2>3, <1>i, NamesOK DEF Reenter, Without, Typed, Queues
  <2> QED
    BY <2>1, <2>2, <2>3
<1>3. \A l \in Locks : queue'[l] # <<>> => Head(queue'[l]) \in Tasks
  BY <1>i DEF Typed, Queues
<1>4. value \in Nat /\ value' \in Nat
  BY <1>i DEF Typed
<1> QED
  BY <1>1, <1>2, <1>3, <1>4, NothingFreed

(* Who has to wait for a lock finds it locked, or somebody before it. *)
LEMMA ParkTells ==
  ASSUME GateInv, GateInv', NothingFreeWhileWaiting, NEW t \in Tasks,
         Ask(t), ~Free(Wanted(t))
  PROVE  NothingFreeWhileWaiting'
<1> DEFINE l == Wanted(t)
<1>i. Typed /\ Typed' /\ QueuesExact /\ WhereTasksAre
  BY DEF GateInv
<1>1. /\ pc[t] \in {"askRoute", "askProfile"} /\ ~Waits(t) /\ l \in Locks
      /\ queue' = [queue EXCEPT ![l] = Append(@, t)]
      /\ fut' = [fut EXCEPT ![t] = "pending"]
      /\ UNCHANGED <<locked, pc, value>>
  BY <1>i, TasksOK DEF Ask, Acquire, Park, WhereTasksAre, Wanted
<1>2. ASSUME NEW m \in Locks, queue'[m] # <<>>, fut'[Head(queue'[m])] = "pending"
      PROVE  \/ locked'[m]
             \/ /\ queue[m] # <<>> /\ fut[Head(queue[m])] = "pending"
                /\ locked[m] => locked'[m]
  <2>1. queue[m] \in Seq(Tasks)
    BY <1>i DEF Typed, Queues
  <2>2. CASE queue[m] = <<>>
    <3>1. m = l
      BY <1>1, <1>2, <2>2, <1>i DEF Typed, Queues
    <3> QED
      BY <1>1, <2>2, <3>1 DEF Free
  <2>3. CASE queue[m] # <<>>
    <3> DEFINE x == Head(queue[m])
    <3>1. x \in Tasks /\ x # t
      <4>1. 1 \in 1..Len(queue[m]) /\ x = queue[m][1] /\ x \in Tasks
        BY <2>1, <2>3
      <4> QED
        BY <4>1, <1>1, <1>i DEF QueuesExact, Queues
    <3>2. Head(queue'[m]) = x
      <4>1. Head(Append(queue[m], t)) = x
        BY <2>1, <2>3
      <4> QED
        BY <4>1, <1>1, <1>i DEF Typed, Queues
    <3> QED
      BY <3>1, <3>2, <2>3, <1>1, <1>2, <1>i DEF Typed
  <2> QED
    BY <2>2, <2>3
<1>3. \A u \in Tasks : pc'[u] = "askPermit" /\ fut'[u] = "pending" =>
          pc[u] = "askPermit" /\ fut[u] = "pending"
  BY <1>1, <1>i DEF Typed
<1>4. value \in Nat /\ value' \in Nat /\ value' <= value
  BY <1>1, <1>i DEF Typed
<1> QED
  BY <1>2, <1>3, <1>4, NothingFreed

(* Who waits for a permit tells the first waiter of its profile lock. *)
LEMMA AwaitTells ==
  ASSUME GateInv, GateInv', NothingFreeWhileWaiting, NEW t \in Tasks, AwaitPermit(t)
  PROVE  NothingFreeWhileWaiting'
<1> DEFINE H == LockHeirs(queue, LetGo(t))
<1>i. Typed /\ Typed' /\ QueuesExact /\ WhereTasksAre
  BY DEF GateInv
<1>1. /\ ~Waits(t) /\ value' = 0
      /\ queue' = [queue EXCEPT ![Capacity] = Append(@, t)]
      /\ \A u \in Tasks : fut'[u] = IF u \in H THEN "woken" ELSE IF u = t THEN "pending" ELSE fut[u]
      /\ locked' = [l \in Locks |-> locked[l] /\ l \notin LetGo(t)]
  BY <1>i DEF AwaitPermit, Woken, Typed, WhereTasksAre
<1>2. ASSUME NEW m \in Locks, queue'[m] # <<>>, fut'[Head(queue'[m])] = "pending"
      PROVE  locked'[m]
  <2> DEFINE x == Head(queue[m])
  <2>1. queue'[m] = queue[m] /\ queue[m] \in Seq(Tasks) /\ queue[m] # <<>>
    BY <1>1, <1>2, <1>i, NamesOK DEF Typed, Queues
  <2>2. 1 \in 1..Len(queue[m]) /\ x = queue[m][1] /\ x \in Tasks
    BY <2>1
  <2>3. x # t
    BY <2>2, <1>1, <1>i DEF QueuesExact, Queues
  <2>4. x \notin H /\ fut[x] = "pending"
    BY <1>1, <1>2, <2>1, <2>2, <2>3
  <2>5. m \notin LetGo(t)
    BY <2>1, <2>4 DEF LockHeirs
  <2> QED
    BY <1>1, <2>1, <2>4, <2>5 DEF NothingFreeWhileWaiting
<1> QED
  BY <1>1, <1>2 DEF NothingFreeWhileWaiting

(* The permit that is given back goes to a waiter, if there is one. *)
LEMMA GiveTells ==
  ASSUME GateInv, GateInv', NothingFreeWhileWaiting, NEW t \in Tasks, GiveBack(t)
  PROVE  NothingFreeWhileWaiting'
<1> DEFINE q == Without(t, Capacity)
           H == PermitHeirs(q)
<1>i. Typed /\ Typed' /\ QueuesExact /\ WhereTasksAre
  BY DEF GateInv
<1>1. /\ pc[t] = "askPermit" /\ fut[t] = "woken"
      /\ queue' = q
      /\ \A u \in Tasks : fut'[u] = IF u \in H THEN "woken" ELSE IF u = t THEN "none" ELSE fut[u]
      /\ value' = value + 1 - Cardinality(H)
      /\ pc' = [pc EXCEPT ![t] = "askProfile"]
      /\ UNCHANGED locked
  BY <1>i DEF GiveBack, Woken, Typed
<1>2. Waits(t) /\ Wanted(t) = Capacity
  BY <1>1 DEF Waits, Wanted
<1>3. Shrunk(q, t)
  BY <1>2, <1>i, Taken
<1>4. \A l \in Locks : q[l] = queue[l]
  BY <1>i, NamesOK DEF Without, Typed, Queues
<1> HIDE DEF q, H
<1>5. ASSUME NEW l \in Locks, queue'[l] # <<>>, fut'[Head(queue'[l])] = "pending"
      PROVE  locked'[l]
  <2>1. queue'[l] = queue[l] /\ Head(queue[l]) \in Tasks
    BY <1>1, <1>4, <1>5, <1>i DEF Typed, Queues
  <2>2. fut[Head(queue[l])] = "pending"
    BY <1>1, <1>5, <2>1
  <2> QED
    BY <1>1, <1>5, <2>1, <2>2 DEF NothingFreeWhileWaiting
<1>6. ASSUME value' > 0, NEW u \in Tasks, pc'[u] = "askPermit", fut'[u] = "pending"
      PROVE  FALSE
  <2>1. u # t /\ pc[u] = "askPermit" /\ fut[u] = "pending"
    BY <1>1, <1>6, <1>i DEF Typed
  <2>2. value = 0
    BY <2>1, <1>i DEF NothingFreeWhileWaiting, Typed
  <2>3. H # {}
    BY <2>1, <1>3, SomeHeir DEF H
  <2>4. PICK v \in Tasks : H = {v}
    BY <2>3, <1>3, <1>i, PermitHeir DEF H
  <2>5. Cardinality(H) = 1
    BY <2>4, FS_Singleton
  <2> QED
    BY <2>2, <2>5, <1>1, <1>6
<1> QED
  BY <1>5, <1>6 DEF NothingFreeWhileWaiting

LEMMA TellsStep == GateInv /\ NothingFreeWhileWaiting /\ [Next]_vars => NothingFreeWhileWaiting'
<1> SUFFICES ASSUME GateInv, NothingFreeWhileWaiting, [Next]_vars
             PROVE  NothingFreeWhileWaiting'
  OBVIOUS
<1>0. GateInv'
  BY GateStep
<1>1. CASE UNCHANGED vars
  BY <1>1 DEF vars, NothingFreeWhileWaiting
<1>2. ASSUME NEW t \in Tasks, Start(t) \/ Step(t) \/ Interrupt(t)
      PROVE  NothingFreeWhileWaiting'
  BY <1>0, <1>2, EndTells, WalkTells, TakeTells, ParkTells, AwaitTells, GiveTells DEF Step
<1> QED
  BY <1>1, <1>2 DEF Next

(* Steps of others leave a task where it is, waiting if it waited. *)
LEMMA OnWayStep == GateInv /\ OnItsWay /\ [Next]_vars => OnItsWay'
<1> SUFFICES ASSUME GateInv, OnItsWay, [Next]_vars PROVE OnItsWay'
  OBVIOUS
<1>i. Typed /\ WhereTasksAre /\ OnItsWay
  BY DEF GateInv
<1>1. ASSUME NEW t \in Tasks, cpu \in {t, Nobody}, cpu' \in {t, Nobody},
             \A u \in Tasks : u # t => pc'[u] = pc[u] /\ (fut[u] # "none" => fut'[u] # "none"),
             cpu' = t => pc'[t] \in Between,
             pc'[t] \in Between /\ cpu' # t => fut'[t] # "none"
      PROVE  OnItsWay'
  BY <1>1, <1>i, NamesOK DEF OnItsWay, Waits
<1>2. CASE UNCHANGED vars
  BY <1>2, <1>i DEF vars, OnItsWay, Waits
<1>3. ASSUME NEW t \in Tasks, Start(t) \/ Frozen(t) \/ Skip(t) \/ Onward(t) \/ Run(t)
      PROVE  OnItsWay'
  BY <1>3, <1>1, <1>i, NamesOK DEF Start, Frozen, Skip, Onward, Run, Goto, Suspend, Typed,
     Between, Bodies
<1>4. ASSUME NEW t \in Tasks, NEW q, NEW next, Leave(t, q, next), cpu \in {t, Nobody}
      PROVE  OnItsWay'
  BY <1>4, <1>1, <1>i, NamesOK DEF Leave, Woken, Suspend, Typed, Between
<1>5. ASSUME NEW t \in Tasks,
             FreezeFails(t) \/ Busy(t) \/ Drained(t) \/ Finish(t) \/ Unwind(t)
      PROVE  OnItsWay'
  BY <1>5, <1>4 DEF FreezeFails, Busy, Drained, Finish, Unwind, End
<1>6. ASSUME NEW t \in Tasks, Ask(t) PROVE OnItsWay'
  BY <1>6, <1>1, <1>i DEF Ask, Acquire, Park, Enter, Behind, Suspend, Typed, Between
<1>7. ASSUME NEW t \in Tasks, Resume(t) PROVE OnItsWay'
  BY <1>7, <1>1, <1>i DEF Resume, Enter, Behind, Typed, Between
<1>8. ASSUME NEW t \in Tasks, TakePermit(t) \/ Reenter(t) \/ Interrupt(t) PROVE OnItsWay'
  BY <1>8, <1>1, <1>i, NamesOK DEF TakePermit, Reenter, Interrupt, Suspend, Typed, Between,
     WhereTasksAre, Waits
<1>9. ASSUME NEW t \in Tasks, AwaitPermit(t) \/ GiveBack(t) PROVE OnItsWay'
  BY <1>9, <1>1, <1>i, NamesOK DEF AwaitPermit, GiveBack, Woken, Suspend, Typed, Between
<1> QED
  BY <1>2, <1>3, <1>5, <1>6, <1>7, <1>8, <1>9 DEF Next, Step

LEMMA ProgressInductive == Spec => []ProgressInv
<1>1. Init => ProgressInv
  <2> SUFFICES ASSUME Init PROVE NothingFreeWhileWaiting /\ OnItsWay
    BY GateInit DEF ProgressInv
  <2>1. NothingFreeWhileWaiting
    BY DEF Init, NothingFreeWhileWaiting
  <2>2. OnItsWay
    BY NamesOK DEF Init, OnItsWay, Between
  <2> QED
    BY <2>1, <2>2
<1>2. ProgressInv /\ [Next]_vars => ProgressInv'
  BY GateStep, TellsStep, OnWayStep DEF ProgressInv
<1> QED
  BY <1>1, <1>2, PTL DEF Spec

(* Every variable keeps its type: no more permits than there were.          *)
THEOREM TypeCorrect == Spec => []TypeOK
<1>1. GateInv => TypeOK
  <2> SUFFICES ASSUME GateInv PROVE TypeOK
    OBVIOUS
  <2>1. value \in 0..Permits
    BY OwnersFinite, PermitsOK DEF GateInv, Typed, PermitsAddUp
  <2> QED
    BY <2>1 DEF GateInv, Typed, TypeOK, Queues
<1> QED
  BY <1>1, GateInductive, PTL

LEMMA GateKeeps == GateInv => OneHolder /\ PermitsConserved /\ NothingHeldWhileWaiting
<1> SUFFICES ASSUME GateInv PROVE OneHolder /\ PermitsConserved /\ NothingHeldWhileWaiting
  OBVIOUS
<1>i. Typed /\ WhereTasksAre /\ OneOwner /\ PermitsAddUp
  BY DEF GateInv
<1>1. OneHolder
  <2> SUFFICES ASSUME NEW l \in Locks
               PROVE  Cardinality(Holders(l)) = IF locked[l] THEN 1 ELSE 0
    BY DEF OneHolder
  <2>1. CASE locked[l]
    <3>1. PICK t \in Tasks : l \in held[t]
      BY <2>1, <1>i DEF OneOwner
    <3>2. Holders(l) = {t}
      BY <3>1, <1>i DEF OneOwner, Holders
    <3> QED
      BY <2>1, <3>2, FS_Singleton
  <2>2. CASE ~locked[l]
    <3>1. Holders(l) = {}
      BY <2>2, <1>i DEF OneOwner, Holders
    <3> QED
      BY <2>2, <3>1, FS_EmptySet
  <2> QED
    BY <2>1, <2>2
<1>2. PermitsConserved
  <2> DEFINE P == {t \in Tasks : permit[t]}
             A == {t \in Tasks : pc[t] = "askPermit" /\ fut[t] \in {"woken", "late"}}
  <2>1. Owners = P \cup A
    BY DEF Owners, HasPermit
  <2>2. P \cap A = {}
    BY <1>i DEF WhereTasksAre
  <2>3. IsFiniteSet(P) /\ IsFiniteSet(A)
    BY TasksFinite, FS_Subset
  <2> HIDE DEF P, A
  <2>4. Cardinality(P \cup A) = Cardinality(P) + Cardinality(A) - Cardinality(P \cap A)
    BY <2>3, FS_Union
  <2>5. Cardinality(P) \in Nat /\ Cardinality(A) \in Nat /\ Cardinality(P \cap A) = 0
    BY <2>2, <2>3, FS_CardinalityType, FS_EmptySet
  <2>6. Permits = value + Cardinality(P) + Cardinality(A)
    BY <2>1, <2>4, <2>5, <1>i, PermitsOK DEF PermitsAddUp, Typed
  <2> QED
    BY <2>6 DEF PermitsConserved, P, A
<1>3. NothingHeldWhileWaiting
  BY <1>i DEF NothingHeldWhileWaiting, WhereTasksAre, Waits
<1> QED
  BY <1>1, <1>2, <1>3

(* Were all stuck, a permit would be on hand or with a turn at work, so     *)
(* that they wait for locks; each of these has an owner, who waits too and  *)
(* holds a route lock only; but who holds nothing more than a route lock    *)
(* waits for a profile lock, which nobody holds who waits.                  *)
LEMMA NoCircle == ProgressInv => NobodyStuck
<1> SUFFICES ASSUME ProgressInv, NEW t \in Tasks, pc[t] \notin {"idle", "gone"},
                    \A u \in Tasks : ~CanGoOn(u)
             PROVE  FALSE
  BY DEF NobodyStuck
<1>i. /\ Typed /\ QueuesExact /\ WhereTasksAre /\ OneOwner /\ PermitsAddUp
      /\ NothingFreeWhileWaiting /\ OnItsWay
  BY DEF ProgressInv, GateInv
<1>1. cpu = Nobody
  BY <1>i, NamesOK DEF CanGoOn, Typed
<1>2. \A u \in Tasks : pc[u] \notin Bodies /\ fut[u] \in {"none", "pending"}
  BY <1>1, <1>i DEF CanGoOn, Typed
<1>3. ASSUME NEW u \in Tasks, pc[u] \notin {"idle", "gone"}
      PROVE  fut[u] = "pending" /\ pc[u] \in {"askRoute", "askProfile", "askPermit"}
  <2>1. pc[u] \in Between \cup {"askPermit"}
    BY <1>2, <1>3, <1>i DEF Typed, Between
  <2>2. Waits(u)
    BY <2>1, <1>1, <1>i, NamesOK DEF OnItsWay, WhereTasksAre
  <2> QED
    BY <2>2, <1>2, <1>i DEF WhereTasksAre, Waits
<1>4. ASSUME NEW u \in Tasks, pc[u] = "askPermit" PROVE FALSE
  <2>1. value = 0
    BY <1>3, <1>4, <1>i DEF NothingFreeWhileWaiting, Typed
  <2>2. Owners = {}
    BY <1>2, <1>i DEF Owners, HasPermit, WhereTasksAre, Bodies
  <2> QED
    BY <2>1, <2>2, <1>i, FS_EmptySet, PermitsOK DEF PermitsAddUp
<1>5. ASSUME NEW u \in Tasks, pc[u] \notin {"idle", "gone"}
      PROVE  /\ IF pc[u] = "askRoute" THEN Wanted(u) = RouteOf[u]
                ELSE pc[u] = "askProfile" /\ Wanted(u) = ProfileOf[u]
             /\ \E v \in Tasks : /\ Wanted(u) \in held[v] /\ pc[v] = "askProfile"
                                 /\ Wanted(u) = RouteOf[v]
  <2>1. /\ IF pc[u] = "askRoute" THEN Wanted(u) = RouteOf[u]
           ELSE pc[u] = "askProfile" /\ Wanted(u) = ProfileOf[u]
        /\ Wanted(u) \in Locks /\ Waits(u)
    BY <1>3, <1>4, <1>5, TasksOK DEF Wanted, Waits
  <2> DEFINE s == queue[Wanted(u)]
  <2>2. s \in Seq(Tasks) /\ Wanted(u) \in Queues /\ \E i \in 1..Len(s) : s[i] = u
    BY <2>1, <1>i DEF Typed, Queues, QueuesExact, Queued
  <2>3. s # <<>> /\ 1 \in 1..Len(s) /\ Head(s) = s[1] /\ Head(s) \in Tasks
    BY <2>2
  <2>4. fut[Head(s)] = "pending"
    <3>1. Waits(Head(s))
      BY <2>2, <2>3, <1>i DEF QueuesExact
    <3> QED
      BY <3>1, <2>3, <1>2 DEF Waits
  <2>5. locked[Wanted(u)]
    BY <2>1, <2>3, <2>4, <1>i DEF NothingFreeWhileWaiting
  <2>6. PICK v \in Tasks : Wanted(u) \in held[v]
    BY <2>1, <2>5, <1>i DEF OneOwner
  <2>7. pc[v] \notin {"idle", "gone", "askRoute"}
    BY <2>6, <1>i DEF WhereTasksAre
  <2>8. pc[v] = "askProfile"
    BY <2>7, <1>3, <1>4
  <2>9. Wanted(u) = RouteOf[v]
    BY <2>6, <2>8, <1>i DEF WhereTasksAre
  <2> QED
    BY <2>1, <2>6, <2>8, <2>9
<1>6. PICK v \in Tasks : pc[v] = "askProfile"
  BY <1>5
<1>7. PICK w \in Tasks : Wanted(v) = ProfileOf[v] /\ Wanted(v) = RouteOf[w]
  BY <1>5, <1>6
<1> QED
  BY <1>7, TasksOK

(* One turn at a time on a route and on a profile, no permit lost or made,  *)
(* nothing held by a task that waits, nothing left free that somebody waits *)
(* for, and never does everyone wait for everyone.                          *)
THEOREM GateHolds == Spec => []LocksAndPermitsKept
<1>1. ProgressInv => LocksAndPermitsKept
  BY GateKeeps, NoCircle DEF ProgressInv, LocksAndPermitsKept
<1> QED
  BY <1>1, ProgressInductive, PTL

(* A timeout of 0 waits only behind a waiter that has been promised the     *)
(* lock or is about to pass it on (_acquire_route_lock).                    *)
THEOREM ZeroHardlyWaits == Spec => ZeroWaitsBehindPromise
<1>1. ASSUME ProgressInv, [Next]_vars, NEW t \in Tasks, Patience[t] = "zero", cpu = t,
             pc[t] \in {"askRoute", "askProfile"}, fut'[t] # "none"
      PROVE  /\ ~locked[Wanted(t)] /\ queue[Wanted(t)] # <<>>
             /\ fut[Head(queue[Wanted(t)])] \in {"woken", "late", "cancelled"}
  <2>i. Typed /\ QueuesExact /\ WhereTasksAre /\ NothingFreeWhileWaiting
    BY <1>1 DEF ProgressInv, GateInv
  <2>0. fut[t] = "none" /\ Wanted(t) \in Locks /\ t # Nobody
    BY <1>1, <2>i, TasksOK, NamesOK DEF WhereTasksAre, Waits, Wanted
  <2>1. PICK v \in Tasks : Start(v) \/ Step(v) \/ Interrupt(v)
    BY <1>1, <2>0 DEF Next, vars
  <2>2. v = t
    BY <1>1, <2>0, <2>1 DEF Start, Step, Interrupt, FreezeFails, Frozen, Busy, Ask, Resume,
       Skip, Drained, Onward, Run, TakePermit, AwaitPermit, Reenter, GiveBack, Finish, Unwind
  <2>3. Busy(t) \/ Ask(t)
    BY <1>1, <2>0, <2>1, <2>2 DEF Start, Step, Interrupt, FreezeFails, Frozen, Resume,
       Skip, Drained, Onward, Run, TakePermit, AwaitPermit, Reenter, GiveBack, Finish, Unwind
  <2>4. ~Busy(t)
    <3>1. \A h \in LockHeirs(queue, held[t]) : h # t
      <4>1. Shrunk(queue, t) /\ held[t] \in SUBSET Locks
        BY <2>0, <2>i, NotQueued DEF Waits, Typed
      <4> QED
        BY <4>1, LockHeir
    <3>2. Owes(t) = 0
      BY <1>1, <2>i DEF Owes, WhereTasksAre
    <3>3. Busy(t) => fut'[t] = "none"
      BY <3>1, <3>2, <2>i DEF Busy, End, Leave, Woken, HandedOn, Typed
    <3> QED
      BY <3>3, <1>1
  <2>5. Ask(t) /\ ~Free(Wanted(t)) /\ ~locked[Wanted(t)]
    BY <1>1, <2>0, <2>3, <2>4 DEF Ask, Acquire
  <2> DEFINE s == queue[Wanted(t)]
  <2>6. s \in Seq(Tasks) /\ s # <<>>
    BY <2>0, <2>5, <2>i DEF Free, Typed, Queues
  <2>7. 1 \in 1..Len(s) /\ Head(s) = s[1] /\ Head(s) \in Tasks
    BY <2>6
  <2>8. fut[Head(s)] # "none" /\ fut[Head(s)] # "pending"
    BY <2>0, <2>5, <2>6, <2>7, <2>i DEF QueuesExact, Waits, NothingFreeWhileWaiting, Queues
  <2> QED
    BY <2>5, <2>6, <2>7, <2>8, <2>i DEF Typed
<1>2. ProgressInv /\ [Next]_vars =>
        [\A t \in Tasks :
          /\ Patience[t] = "zero" /\ cpu = t /\ pc[t] \in {"askRoute", "askProfile"}
          /\ fut'[t] # "none"
          => /\ ~locked[Wanted(t)] /\ queue[Wanted(t)] # <<>>
             /\ fut[Head(queue[Wanted(t)])] \in {"woken", "late", "cancelled"}]_vars
  BY <1>1
<1> QED
  BY <1>2, ProgressInductive, PTL DEF Spec, ZeroWaitsBehindPromise

(* Nobody gets past an event that waits for the route lock already.         *)
THEOREM OrderKept == Spec => RouteOrder
<1> DEFINE Overtakes(t, u) ==
          /\ Kind[u] = "signal" /\ RouteOf[t] = RouteOf[u]
          /\ pc[u] = "askRoute" /\ fut[u] \in {"pending", "woken"}
          /\ pc[t] = "askRoute" /\ pc'[t] = "inRoute"
<1>1. ASSUME GateInv, [Next]_vars, NEW t \in Tasks, NEW u \in Tasks, Overtakes(t, u)
      PROVE  \E i, j \in DOMAIN queue[RouteOf[t]] :
                i <= j /\ queue[RouteOf[t]][i] = t /\ queue[RouteOf[t]][j] = u
  <2> DEFINE l == RouteOf[t]
  <2>i. Typed /\ QueuesExact /\ WokenFirst /\ WhereTasksAre
    BY <1>1 DEF GateInv
  <2>1. Wanted(t) = l /\ Wanted(u) = l /\ Waits(u) /\ l \in Locks
    BY <1>1, TasksOK DEF Wanted, Waits
  <2>2. (Ask(t) /\ Free(l)) \/ Resume(t)
    <3>1. PICK v \in Tasks : Start(v) \/ Step(v) \/ Interrupt(v)
      BY <1>1 DEF Next, vars
    <3>2. v = t
      BY <1>1, <3>1, <2>i DEF Start, Step, Interrupt, FreezeFails, Frozen, Busy, Ask, Resume, Skip,
         Drained, Onward, Run, TakePermit, AwaitPermit, Reenter, GiveBack, Finish, Unwind,
         Goto, End, Leave, Acquire, Enter, Park, Typed
    <3>3. Start(t) \/ Step(t) \/ Interrupt(t)
      BY <3>1, <3>2
    <3> QED
      BY <1>1, <3>3, <2>1, <2>i DEF Start, Step, Interrupt, FreezeFails, Frozen, Busy, Ask,
         Resume, Skip, Drained, Onward, Run, TakePermit, AwaitPermit, Reenter, GiveBack,
         Finish, Unwind, Goto, End, Leave, Acquire, Enter, Park, Typed
  <2>3. CASE Ask(t) /\ Free(l)
    BY <1>1, <2>1, <2>3, <2>i, NobodyWoken
  <2>4. CASE Resume(t)
    <3>1. queue[l][1] = t
      BY <2>1, <2>4, <2>i, NamesOK DEF Resume, WokenFirst
    <3>2. l \in Queues /\ DOMAIN queue[l] = 1..Len(queue[l])
      BY <2>1, <2>i DEF Queues, Typed
    <3>3. PICK j \in 1..Len(queue[l]) : queue[l][j] = u
      BY <2>1, <2>i DEF QueuesExact, Queued
    <3>4. 1 \in DOMAIN queue[l] /\ j \in DOMAIN queue[l] /\ 1 <= j
      BY <3>2, <3>3
    <3> QED
      BY <3>1, <3>3, <3>4
  <2> QED
    BY <2>2, <2>3, <2>4
<1>2. GateInv /\ [Next]_vars =>
        [\A t, u \in Tasks :
          /\ Kind[u] = "signal" /\ RouteOf[t] = RouteOf[u]
          /\ pc[u] = "askRoute" /\ fut[u] \in {"pending", "woken"}
          /\ pc[t] = "askRoute" /\ pc'[t] = "inRoute"
          => \E i, j \in DOMAIN queue[RouteOf[t]] :
                i <= j /\ queue[RouteOf[t]][i] = t /\ queue[RouteOf[t]][j] = u]_vars
  BY <1>1
<1> QED
  BY <1>2, GateInductive, PTL DEF Spec, RouteOrder

(* Every lock goes to its waiters in the order they came, and who does not  *)
(* want to wait does so behind a promised lock only.                        *)
THEOREM LocksPassOn == Spec => LocksInTurn
  BY OrderKept, ZeroHardlyWaits DEF LocksInTurn
====
