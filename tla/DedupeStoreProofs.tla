---- MODULE DedupeStoreProofs ----
(***************************************************************************)
(* Proofs about DedupeStore, for any number of processes, callers and      *)
(* identities and any retention window.                                    *)
(***************************************************************************)
EXTENDS DedupeStore, FiniteSetTheorems, TLAPS

USE NamesDiffer, HomeOK, NumbersOK
USE DEF dataVars, storeVars, guardVars, workVars, turnVars, sweepVars, Leaves

LEMMA AtIsProcess == \A w \in Workers : At(w) \in Procs
  BY DEF At, Workers

LEMMA ForgetSweepTypes ==
  ASSUME TypeOK, NEW w \in Workers, ForgetSweep(w)
  PROVE  /\ cutoff' \in [Procs -> Int]
         /\ pruned' \in [Procs -> BOOLEAN]
         /\ lastFree' \in [Procs -> -1..MaxFree]
<1>1. CASE w \in Procs
  <2>1. /\ cutoff' = [cutoff EXCEPT ![w] = 0]
        /\ pruned' = [pruned EXCEPT ![w] = FALSE]
        /\ lastFree' = [lastFree EXCEPT ![w] = -1]
    BY <1>1, Zenon DEF ForgetSweep
  <2>2. -1 \in -1..MaxFree
    OBVIOUS
  <2>3. pruned' \in [Procs -> BOOLEAN]
    BY <2>1, Zenon DEF TypeOK
  <2>4. lastFree' \in [Procs -> -1..MaxFree]
    BY <2>1, <2>2, Zenon DEF TypeOK
  <2> QED
    BY <2>1, <2>3, <2>4 DEF TypeOK
<1>2. CASE w \notin Procs
  BY <1>2 DEF ForgetSweep, sweepVars, TypeOK
<1> QED
  BY <1>1, <1>2

LEMMA TypeStep == TypeOK /\ [Next]_vars => TypeOK'
<1> SUFFICES ASSUME TypeOK, [Next]_vars PROVE TypeOK'
  OBVIOUS
<1>0. -1 \in -1..MaxFree /\ 0 \in Int
  OBVIOUS
<1> USE AtIsProcess DEF TypeOK
<1>1. CASE Tick
  BY <1>1 DEF Tick
<1>2. ASSUME NEW p \in Procs, Connect(p) PROVE TypeOK'
  BY <1>2 DEF Connect
<1>3. ASSUME NEW p \in Procs, LockFile(p) PROVE TypeOK'
  BY <1>3 DEF LockFile
<1>4. ASSUME NEW p \in Procs, ReclaimOrphans(p) PROVE TypeOK'
  BY <1>4 DEF ReclaimOrphans, Reclaimed
<1>5. ASSUME NEW p \in Procs, Close(p) PROVE TypeOK'
  BY <1>5 DEF Close, CloseNow
<1>6. ASSUME NEW p \in Procs, ProcessEnds(p) PROVE TypeOK'
  <2>1. has' \in [Turns -> BOOLEAN]
    BY <1>6, Zenon DEF ProcessEnds
  <2>2. step' \in [Workers -> Steps]
    BY <1>6 DEF ProcessEnds, Steps
  <2>4. op' \in [Workers -> TurnOps \cup SweepOps \cup {"none"}]
    BY <1>6, Zenon DEF ProcessEnds
  <2>3. key' \in [Turns -> Keys \cup {NoKey}]
    BY <1>6 DEF ProcessEnds
  <2> QED
    BY <1>0, <1>6, <2>1, <2>2, <2>3, <2>4 DEF ProcessEnds
<1>7. ASSUME NEW p \in Procs, StartSweep(p) PROVE TypeOK'
  BY <1>7 DEF StartSweep, Steps, SweepOps, Workers
<1>8. ASSUME NEW p \in Procs, CheckClose(p) PROVE TypeOK'
  BY <1>8 DEF CheckClose, Steps, Workers
<1>9. ASSUME NEW p \in Procs, ExecPrune(p) PROVE TypeOK'
  BY <1>9 DEF ExecPrune, Executes, Leaves, FreesPages, Steps, Workers
<1>10. ASSUME NEW p \in Procs, ExecVacuum(p) PROVE TypeOK'
  BY <1>10 DEF ExecVacuum, Executes, Steps, Workers
<1>11. ASSUME NEW t \in Turns, ExecClaim(t) PROVE TypeOK'
  <2>1. has' \in [Turns -> BOOLEAN]
    BY <1>11, ZenonT(60) DEF ExecClaim
  <2>2. CASE Claimable(key[t])
    <3>1. rows' \in [Keys -> {"none", "processing", "handled"}]
      BY <1>11, <2>2 DEF ExecClaim
    <3>2. stamp' \in [Keys -> 0..MaxTime]
      BY <1>11, <2>2 DEF ExecClaim
    <3> QED
      BY <1>11, <2>1, <3>1, <3>2 DEF ExecClaim, Executes, Steps, Workers
  <2>3. CASE ~Claimable(key[t])
    BY <1>11, <2>1, <2>3 DEF ExecClaim, Executes, Steps, Workers
  <2> QED
    BY <2>2, <2>3
<1>12. ASSUME NEW t \in Turns, ExecMark(t) PROVE TypeOK'
  BY <1>12 DEF ExecMark, Executes, Leaves, StampOnMark, Steps, Workers
<1>13. ASSUME NEW t \in Turns, ExecRelease(t) PROVE TypeOK'
  <2>1. freelist' \in 0..MaxFree
    BY <1>13 DEF ExecRelease, FreesPages, dataVars
  <2>2. rows' \in [Keys -> {"none", "processing", "handled"}] /\ stamp' \in [Keys -> 0..MaxTime]
    BY <1>13 DEF ExecRelease, dataVars
  <2> QED
    BY <1>13, <2>1, <2>2 DEF ExecRelease, Executes, Steps, Workers
<1>14. ASSUME NEW t \in Turns, ExecRead(t) PROVE TypeOK'
  BY <1>14 DEF ExecRead, Executes, Steps, Workers
<1>15. ASSUME NEW t \in Turns, NEW o \in TurnOps, NEW k \in Keys, Call(t, o, k)
       PROVE TypeOK'
  BY <1>15 DEF Call, Steps, Workers
<1>16. ASSUME NEW w \in Workers, Begin(w) PROVE TypeOK'
  BY <1>16 DEF Begin, Steps
<1>17. ASSUME NEW w \in Workers, BeginRefused(w) PROVE TypeOK'
  <2>1. op' \in [Workers -> TurnOps \cup SweepOps \cup {"none"}]
    BY <1>17 DEF BeginRefused, Rest
  <2>5. step' \in [Workers -> Steps]
    BY <1>17 DEF BeginRefused, Rest, Steps
  <2>2. /\ cutoff' \in [Procs -> Int]
        /\ pruned' \in [Procs -> BOOLEAN]
        /\ lastFree' \in [Procs -> -1..MaxFree]
    BY <1>17, ForgetSweepTypes DEF BeginRefused
  <2>3. has' \in [Turns -> BOOLEAN] /\ key' \in [Turns -> Keys \cup {NoKey}]
    BY <1>17, ZenonT(60) DEF BeginRefused, turnVars
  <2>4. active' \in [Procs -> Int]
    BY <1>17 DEF BeginRefused, CountWhenRefused
  <2> QED
    BY <1>17, <2>1, <2>2, <2>3, <2>4, <2>5 DEF BeginRefused
<1>18. ASSUME NEW w \in Workers, LockStatement(w) PROVE TypeOK'
  BY <1>18 DEF LockStatement, Steps
<1>19. ASSUME NEW w \in Workers, ExecFails(w) PROVE TypeOK'
  BY <1>19 DEF ExecFails, Steps
<1>20. ASSUME NEW w \in Workers, Finish(w)
       PROVE  /\ op' \in [Workers -> TurnOps \cup SweepOps \cup {"none"}]
              /\ step' \in [Workers -> Steps]
              /\ key' \in [Turns -> Keys \cup {NoKey}]
              /\ cutoff' \in [Procs -> Int]
              /\ pruned' \in [Procs -> BOOLEAN]
              /\ lastFree' \in [Procs -> -1..MaxFree]
  <2>1. CASE w \in Procs /\ op[w] = "prune" /\ pruned[w]
    BY <1>20, <2>1 DEF Finish, SweepOps, Steps
  <2>2. CASE ~(w \in Procs /\ op[w] = "prune" /\ pruned[w])
    <3>1. Rest(w) /\ ForgetSweep(w) /\ ForgetTurn(w)
      BY <1>20, <2>2, Zenon DEF Finish
    <3>2. op' \in [Workers -> TurnOps \cup SweepOps \cup {"none"}]
      BY <3>1 DEF Rest
    <3>4. step' \in [Workers -> Steps]
      BY <3>1 DEF Rest, Steps
    <3>3. key' \in [Turns -> Keys \cup {NoKey}]
      BY <3>1 DEF ForgetTurn
    <3> QED
      BY <3>1, <3>2, <3>3, <3>4, ForgetSweepTypes
  <2> QED
    BY <2>1, <2>2
<1>21. ASSUME NEW w \in Workers, End(w) PROVE TypeOK'
  BY <1>20, <1>21 DEF End
<1>22. ASSUME NEW w \in Workers, EndOwingClose(w) PROVE TypeOK'
  BY <1>22 DEF EndOwingClose, Steps
<1>23. ASSUME NEW w \in Workers, DeferredClose(w) PROVE TypeOK'
  BY <1>20, <1>23 DEF DeferredClose, CloseNow
<1>24. CASE UNCHANGED vars
  BY <1>24 DEF vars
<1> QED
  BY <1>1, <1>2, <1>3, <1>4, <1>5, <1>6, <1>7, <1>8, <1>9, <1>10, <1>11, <1>12,
     <1>13, <1>14, <1>15, <1>16, <1>17, <1>18, <1>19, <1>21, <1>22, <1>23, <1>24
  DEF Next, WorkerStep, TurnStatement, SweepStatement

LEMMA TypeCorrectInit == Init => TypeOK
  BY DEF Init, TypeOK, Steps, Workers

(* Every variable keeps its type. *)
THEOREM TypeCorrect == Spec => []TypeOK
  BY TypeCorrectInit, TypeStep, PTL DEF Spec
-----------------------------------------------------------------------------
(* The inductive invariant behind the claims.  That a live claim keeps its  *)
(* row rests on the file lock (no second process reclaims under an open     *)
(* store), on a store that is not open yet having no callers, and on only   *)
(* an owner reaching the statements that end a claim.                       *)

OwnsFile == \A p \in Procs : store[p] \in {"owning", "open"} => fileOwner = p

NotOpenYet ==
    \A t \in Turns : store[Home[t]] \in {"absent", "connected", "owning"} =>
        ~has[t] /\ step[t] = "idle"

CallFitsOwner ==
    \A t \in Turns :
        /\ has[t] => key[t] \in Keys
        /\ step[t] \in {"queued", "begun", "ready", "stmt"} =>
              /\ key[t] \in Keys
              /\ has[t] <=> op[t] \in {"mark", "release"}

ClaimInv ==
    /\ TypeOK
    /\ OwnsFile
    /\ NotOpenYet
    /\ CallFitsOwner
    /\ LiveClaimsKept
    /\ OneOwnerPerKey

LEMMA AtTurn == \A t \in Turns : At(t) = Home[t] /\ t \notin Procs /\ Home[t] \in Procs
  BY DEF At

(* Finishing an operation leaves the caller idle, every other turn as it    *)
(* was, and takes the identity only from a caller that does not own it.     *)
LEMMA FinishTurns ==
  ASSUME TypeOK, NEW w \in Workers, Finish(w), NEW t \in Turns
  PROVE  /\ has[t] => key'[t] = key[t]
         /\ t # w => key'[t] = key[t] /\ op'[t] = op[t] /\ step'[t] = step[t]
         /\ t = w => step'[t] = "idle"
<1> USE AtTurn DEF TypeOK, Workers
<1>1. CASE w \in Procs /\ op[w] = "prune" /\ pruned[w]
  BY <1>1 DEF Finish
<1>2. CASE ~(w \in Procs /\ op[w] = "prune" /\ pruned[w])
  <2>1. Rest(w) /\ ForgetTurn(w)
    BY <1>2, Zenon DEF Finish
  <2> QED
    BY <2>1 DEF Rest, ForgetTurn
<1> QED
  BY <1>1, <1>2

LEMMA ClaimStep == ClaimInv /\ [Next]_vars => ClaimInv'
<1> SUFFICES ASSUME ClaimInv, [Next]_vars PROVE ClaimInv'
  OBVIOUS
<1>0. TypeOK'
  BY TypeStep DEF ClaimInv
<1> USE AtTurn, <1>0 DEF ClaimInv, TypeOK, OwnsFile, NotOpenYet, CallFitsOwner,
                         LiveClaimsKept, OneOwnerPerKey
<1>1. CASE Tick
  BY <1>1 DEF Tick
<1>2. ASSUME NEW p \in Procs, Connect(p) PROVE ClaimInv'
  BY <1>2 DEF Connect
<1>3. ASSUME NEW p \in Procs, LockFile(p) PROVE ClaimInv'
  BY <1>3 DEF LockFile, FileLockFree
<1>4. ASSUME NEW p \in Procs, ReclaimOrphans(p) PROVE ClaimInv'
  BY <1>4 DEF ReclaimOrphans, Reclaimed
<1>5. ASSUME NEW p \in Procs, Close(p) PROVE ClaimInv'
  BY <1>5 DEF Close, CloseNow
<1>6. ASSUME NEW p \in Procs, ProcessEnds(p) PROVE ClaimInv'
  <2>1. \A t \in Turns :
          /\ Home[t] = p => ~has'[t] /\ step'[t] = "idle"
          /\ Home[t] # p => /\ has'[t] = has[t]
                            /\ step'[t] = step[t]
                            /\ key'[t] = key[t]
                            /\ op'[t] = op[t]
    <3> TAKE t \in Turns
    <3>1. has'[t] = IF Home[t] = p THEN FALSE ELSE has[t]
      BY <1>6, Zenon DEF ProcessEnds
    <3>2. key'[t] = IF Home[t] = p THEN NoKey ELSE key[t]
      BY <1>6, Zenon DEF ProcessEnds
    <3>3. t \in Workers /\ At(t) = Home[t]
      BY DEF Workers
    <3>4. step'[t] = IF At(t) = p THEN "idle" ELSE step[t]
      BY <1>6, <3>3, Zenon DEF ProcessEnds
    <3>5. op'[t] = IF At(t) = p THEN "none" ELSE op[t]
      BY <1>6, <3>3, Zenon DEF ProcessEnds
    <3> QED
      BY <3>1, <3>2, <3>3, <3>4, <3>5
  <2>2. /\ \A q \in Procs : store'[q] = IF q = p THEN "absent" ELSE store[q]
        /\ fileOwner' = IF fileOwner = p THEN NoProc ELSE fileOwner
        /\ rows' = rows
    BY <1>6 DEF ProcessEnds
  <2> QED
    BY <2>1, <2>2
<1>7. ASSUME NEW p \in Procs, StartSweep(p) PROVE ClaimInv'
  BY <1>7 DEF StartSweep, Workers
<1>8. ASSUME NEW p \in Procs, CheckClose(p) PROVE ClaimInv'
  BY <1>8 DEF CheckClose, Workers
<1>9. ASSUME NEW p \in Procs, ExecPrune(p) PROVE ClaimInv'
  BY <1>9 DEF ExecPrune, Executes, Leaves, Doomed, Workers
<1>10. ASSUME NEW p \in Procs, ExecVacuum(p) PROVE ClaimInv'
  BY <1>10 DEF ExecVacuum, Executes, Workers
<1>11. ASSUME NEW t \in Turns, ExecClaim(t) PROVE ClaimInv'
  BY <1>11 DEF ExecClaim, Executes, Leaves, Claimable, Workers
<1>12. ASSUME NEW t \in Turns, ExecMark(t) PROVE ClaimInv'
  BY <1>12 DEF ExecMark, Executes, Workers
<1>13. ASSUME NEW t \in Turns, ExecRelease(t) PROVE ClaimInv'
  BY <1>13 DEF ExecRelease, Executes, Leaves, dataVars, Workers
<1>14. ASSUME NEW t \in Turns, ExecRead(t) PROVE ClaimInv'
  BY <1>14 DEF ExecRead, Executes, Workers
<1>15. ASSUME NEW t \in Turns, NEW o \in TurnOps, NEW k \in Keys, Call(t, o, k)
       PROVE ClaimInv'
  BY <1>15 DEF Call, Workers
<1>16. ASSUME NEW w \in Workers, Begin(w) PROVE ClaimInv'
  BY <1>16 DEF Begin
<1>17. ASSUME NEW w \in Workers, BeginRefused(w) PROVE ClaimInv'
  <2>1. \A t \in Turns : t # w => /\ has'[t] = has[t] /\ key'[t] = key[t]
                                  /\ op'[t] = op[t] /\ step'[t] = step[t]
    BY <1>17 DEF BeginRefused, Rest, turnVars, Workers
  <2>2. w \in Turns => ~has'[w] /\ key'[w] = NoKey /\ op'[w] = "none" /\ step'[w] = "idle"
    <3>1. w \in Turns => has'[w] = FALSE
      BY <1>17 DEF BeginRefused
    <3>2. w \in Turns => key'[w] = NoKey /\ op'[w] = "none" /\ step'[w] = "idle"
      BY <1>17 DEF BeginRefused, Rest, Workers
    <3> QED
      BY <3>1, <3>2
  <2>3. UNCHANGED <<rows, fileOwner, store>>
    BY <1>17 DEF BeginRefused, dataVars, storeVars
  <2> QED
    BY <2>1, <2>2, <2>3
<1>18. ASSUME NEW w \in Workers, LockStatement(w) PROVE ClaimInv'
  BY <1>18 DEF LockStatement
<1>19. ASSUME NEW w \in Workers, ExecFails(w) PROVE ClaimInv'
  BY <1>19 DEF ExecFails, Leaves
<1>21. ASSUME NEW w \in Workers, End(w) PROVE ClaimInv'
  BY <1>21, FinishTurns DEF End
<1>22. ASSUME NEW w \in Workers, EndOwingClose(w) PROVE ClaimInv'
  BY <1>22 DEF EndOwingClose
<1>23. ASSUME NEW w \in Workers, DeferredClose(w) PROVE ClaimInv'
  BY <1>23, FinishTurns DEF DeferredClose, CloseNow
<1>24. CASE UNCHANGED vars
  BY <1>24 DEF vars
<1> QED
  BY <1>1, <1>2, <1>3, <1>4, <1>5, <1>6, <1>7, <1>8, <1>9, <1>10, <1>11, <1>12,
     <1>13, <1>14, <1>15, <1>16, <1>17, <1>18, <1>19, <1>21, <1>22, <1>23, <1>24
  DEF Next, WorkerStep, TurnStatement, SweepStatement

(* A live claim keeps its row, for any number of processes and callers.     *)
THEOREM LiveClaims == Spec => []LiveClaimsKept
<1>1. Init => ClaimInv
  BY TypeCorrectInit DEF Init, ClaimInv, OwnsFile, NotOpenYet, CallFitsOwner,
         LiveClaimsKept, OneOwnerPerKey, Workers
<1>2. ClaimInv => LiveClaimsKept
  BY DEF ClaimInv
<1> QED
  BY <1>1, <1>2, ClaimStep, PTL DEF Spec

(* No identity has two live owners. *)
THEOREM OneOwner == Spec => []OneOwnerPerKey
<1>1. Init => ClaimInv
  BY TypeCorrectInit DEF Init, ClaimInv, OwnsFile, NotOpenYet, CallFitsOwner,
         LiveClaimsKept, OneOwnerPerKey, Workers
<1>2. ClaimInv => OneOwnerPerKey
  BY DEF ClaimInv
<1> QED
  BY <1>1, <1>2, ClaimStep, PTL DEF Spec

-----------------------------------------------------------------------------
(* Refinement of ClaimTable *)

LEMMA StatusOf ==
  ASSUME TypeOK, NEW k \in Keys
  PROVE  /\ TableStatus \in [Keys -> {"free", "claimed", "handled"}]
         /\ TableStatus[k] = "free" <=> rows[k] = "none"
         /\ TableStatus[k] = "claimed" <=> rows[k] = "processing"
         /\ TableStatus[k] = "handled" <=> rows[k] = "handled"
  BY DEF TypeOK, TableStatus, SeenAs

LEMMA StatusKept == UNCHANGED rows => UNCHANGED TableStatus
  BY DEF TableStatus

(* Both views are functions, so they are known by their values. *)
LEMMA StatusByValue ==
  /\ TableStatus = [k \in Keys |-> TableStatus[k]]
  /\ TableStatus' = [k \in Keys |-> TableStatus'[k]]
  BY DEF TableStatus

LEMMA HeldUpdate ==
  ASSUME NEW t \in Turns, NEW STATE v,
         \A u \in Turns : TableHeld'[u] = IF u = t THEN v ELSE TableHeld[u]
  PROVE  TableHeld' = [TableHeld EXCEPT ![t] = v]
<1>1. TableHeld = [u \in Turns |-> TableHeld[u]]
  BY DEF TableHeld
<1>2. TableHeld' = [u \in Turns |-> TableHeld'[u]]
  BY DEF TableHeld
<1> QED
  BY <1>1, <1>2

(* Ownership ends in whatever way, with the rows as they were. *)
LEMMA OnlyLoses ==
  ASSUME UNCHANGED rows,
         \A t \in Turns : TableHeld'[t] \in {TableHeld[t], NoKey}
  PROVE  [Promise!TableNext]_(Promise!tableVars)
<1> DEFINE C == {t \in Turns : TableHeld'[t] # TableHeld[t]}
<1>1. TableHeld' = [t \in Turns |-> IF t \in C THEN NoKey ELSE TableHeld[t]]
  BY DEF TableHeld
<1>2. C \in SUBSET Turns
  OBVIOUS
<1> QED
  BY <1>1, <1>2, StatusKept DEF Promise!TableNext, Promise!Lose

LEMMA ImplementationStep ==
  ClaimInv /\ ClaimInv' /\ [Next]_vars => [Promise!TableNext]_(Promise!tableVars)
<1> SUFFICES ASSUME ClaimInv, ClaimInv', [Next]_vars
             PROVE  [Promise!TableNext]_(Promise!tableVars)
  OBVIOUS
<1>t. TypeOK /\ TypeOK'
  BY DEF ClaimInv
<1>h. \A t \in Turns : TableHeld[t] = IF has[t] /\ store[Home[t]] = "open"
                                      THEN key[t] ELSE NoKey
  BY DEF TableHeld
<1>g. \A t \in Turns : TableHeld'[t] = IF has'[t] /\ store'[Home[t]] = "open"
                                       THEN key'[t] ELSE NoKey
  BY DEF TableHeld
<1>1. ASSUME NEW t \in Turns, ExecClaim(t) PROVE [Promise!TableNext]_(Promise!tableVars)
  <2> USE AtTurn, <1>t DEF ClaimInv, CallFitsOwner, TypeOK, Executes
  <2>1. CASE ~Claimable(key[t])
    BY <1>1, <2>1, <1>h, <1>g, OnlyLoses DEF ExecClaim
  <2>2. CASE Claimable(key[t])
    <3>1. key[t] \in Keys /\ ~has[t] /\ store[Home[t]] = "open"
      BY <1>1 DEF ExecClaim
    <3>2. /\ rows' = [rows EXCEPT ![key[t]] = "processing"]
          /\ has' = [has EXCEPT ![t] = TRUE]
          /\ UNCHANGED <<store, key>>
      BY <1>1, <2>2 DEF ExecClaim
    <3>3. TableHeld' = [TableHeld EXCEPT ![t] = key[t]]
      <4>1. \A u \in Turns : TableHeld'[u] = IF u = t THEN key[t] ELSE TableHeld[u]
        BY <3>1, <3>2, <1>h, <1>g
      <4> QED
        BY <4>1, HeldUpdate, ZenonT(60)
    <3>4. TableStatus' = [TableStatus EXCEPT ![key[t]] = "claimed"]
      <4>1. \A k \in Keys :
              TableStatus'[k] = IF k = key[t] THEN "claimed" ELSE TableStatus[k]
        BY <3>1, <3>2 DEF TableStatus, SeenAs
      <4> QED
        BY <3>1, <4>1, StatusByValue
    <3>5. TableHeld[t] = NoKey /\ TableStatus[key[t]] = "free"
      BY <2>2, <3>1, <1>h DEF TableStatus, SeenAs, Claimable
    <3> QED
      BY <3>1, <3>3, <3>4, <3>5 DEF Promise!TableNext, Promise!Claim
  <2> QED
    BY <2>1, <2>2
<1>2. ASSUME NEW t \in Turns, ExecMark(t) \/ ExecRelease(t)
      PROVE  [Promise!TableNext]_(Promise!tableVars)
  <2> USE AtTurn, <1>t DEF ClaimInv, CallFitsOwner, TypeOK, Executes
  <2>1. key[t] \in Keys /\ has[t] /\ store[Home[t]] = "open"
    BY <1>2 DEF ExecMark, ExecRelease
  <2>2. TableHeld[t] = key[t] /\ key[t] # NoKey
    BY <2>1, <1>h
  <2>3. has' = [has EXCEPT ![t] = FALSE] /\ UNCHANGED <<store, key>>
    BY <1>2 DEF ExecMark, ExecRelease
  <2>4. TableHeld' = [TableHeld EXCEPT ![t] = NoKey]
    BY <2>1, <2>3 DEF TableHeld
  <2>5. CASE ExecMark(t)
    <3>1. TableStatus' = [TableStatus EXCEPT ![key[t]] = "handled"]
      <4>1. \A k \in Keys :
              TableStatus'[k] = IF k = key[t] THEN "handled" ELSE TableStatus[k]
        BY <2>5, <2>1 DEF ExecMark, TableStatus, SeenAs
      <4> QED
        BY <2>1, <4>1, StatusByValue
    <3> QED
      BY <3>1, <2>2, <2>4 DEF Promise!TableNext, Promise!MarkHandled
  <2>6. CASE ExecRelease(t)
    <3>1. rows[key[t]] = "processing"
      BY <2>1 DEF LiveClaimsKept
    <3>2. rows' = [rows EXCEPT ![key[t]] = "none"]
      BY <2>6, <3>1 DEF ExecRelease
    <3>3. TableStatus' = [TableStatus EXCEPT ![key[t]] = "free"]
      <4>1. \A k \in Keys :
              TableStatus'[k] = IF k = key[t] THEN "free" ELSE TableStatus[k]
        BY <2>1, <3>2 DEF TableStatus, SeenAs
      <4> QED
        BY <2>1, <4>1, StatusByValue
    <3> QED
      BY <3>3, <2>2, <2>4 DEF Promise!TableNext, Promise!Release
  <2> QED
    BY <1>2, <2>5, <2>6
<1>3. ASSUME NEW p \in Procs, ExecPrune(p) PROVE [Promise!TableNext]_(Promise!tableVars)
  <2>1. PICK C \in SUBSET Doomed(cutoff[p]) :
          rows' = [k \in Keys |-> IF k \in C THEN "none" ELSE rows[k]]
    BY <1>3 DEF ExecPrune
  <2>2. C \in SUBSET Keys /\ \A k \in C : rows[k] = "handled"
    BY DEF Doomed
  <2>3. UNCHANGED TableHeld
    BY <1>3 DEF ExecPrune, TableHeld
  <2>4. \A k \in C : TableStatus[k] = "handled"
    BY <2>2 DEF TableStatus, SeenAs
  <2>5. TableStatus' = [k \in Keys |-> IF k \in C THEN "free" ELSE TableStatus[k]]
    <3>1. \A k \in Keys : TableStatus'[k] = IF k \in C THEN "free" ELSE TableStatus[k]
      BY <2>1, <2>2 DEF TableStatus, SeenAs
    <3>2. TableStatus' = [k \in Keys |-> TableStatus'[k]]
      BY DEF TableStatus
    <3> QED
      BY <3>1, <3>2
  <2> QED
    BY <2>2, <2>3, <2>4, <2>5 DEF Promise!TableNext, Promise!Expire
<1>4. ASSUME NEW p \in Procs, ReclaimOrphans(p)
      PROVE  [Promise!TableNext]_(Promise!tableVars)
  <2>1. \A t \in Turns : TableHeld[t] = NoKey /\ TableHeld'[t] = NoKey
    BY <1>4, <1>h, <1>g, <1>t, AtTurn
    DEF ReclaimOrphans, ClaimInv, OwnsFile, NotOpenYet, TypeOK
  <2>2. UNCHANGED TableHeld
    BY <2>1 DEF TableHeld
  <2>3. TableStatus' = [k \in Keys |-> IF TableStatus[k] = "claimed" THEN "free"
                                       ELSE TableStatus[k]]
    BY <1>4, <1>t DEF ReclaimOrphans, Reclaimed, TableStatus, SeenAs, TypeOK
  <2> QED
    BY <2>1, <2>2, <2>3 DEF Promise!TableNext, Promise!Reclaim
<1>5. ASSUME NEW p \in Procs,
             \/ Connect(p) \/ LockFile(p) \/ Close(p) \/ StartSweep(p)
             \/ CheckClose(p) \/ ExecVacuum(p)
      PROVE  [Promise!TableNext]_(Promise!tableVars)
  <2>1. UNCHANGED <<rows, has, key>>
    BY <1>5 DEF Connect, LockFile, Close, StartSweep, CheckClose, ExecVacuum
  <2>2. \A t \in Turns : store'[Home[t]] = "open" => store[Home[t]] = "open"
    BY <1>5, <1>t, AtTurn
    DEF Connect, LockFile, Close, CloseNow, StartSweep, CheckClose, ExecVacuum, TypeOK
  <2> QED
    BY <2>1, <2>2, <1>h, <1>g, OnlyLoses
<1>6. ASSUME NEW p \in Procs, ProcessEnds(p) PROVE [Promise!TableNext]_(Promise!tableVars)
  <2>1. UNCHANGED rows
    BY <1>6 DEF ProcessEnds
  <2>2. \A t \in Turns : TableHeld'[t] \in {TableHeld[t], NoKey}
    <3> TAKE t \in Turns
    <3>1. has'[t] = IF Home[t] = p THEN FALSE ELSE has[t]
      BY <1>6, Zenon DEF ProcessEnds
    <3>2. key'[t] = IF Home[t] = p THEN NoKey ELSE key[t]
      BY <1>6, Zenon DEF ProcessEnds
    <3>3. store'[Home[t]] = IF Home[t] = p THEN "absent" ELSE store[Home[t]]
      BY <1>6, <1>t, AtTurn DEF ProcessEnds, TypeOK
    <3> QED
      BY <3>1, <3>2, <3>3, <1>h, <1>g
  <2> QED
    BY <2>1, <2>2, OnlyLoses
<1>7. ASSUME NEW t \in Turns,
             ExecRead(t) \/ \E o \in TurnOps, k \in Keys : Call(t, o, k)
      PROVE  [Promise!TableNext]_(Promise!tableVars)
  <2>1. UNCHANGED <<rows, has, store>> /\ \A u \in Turns : has[u] => key'[u] = key[u]
    BY <1>7, <1>t DEF ExecRead, Call, TypeOK
  <2> QED
    BY <2>1, <1>h, <1>g, OnlyLoses
<1>8. ASSUME NEW w \in Workers,
             Begin(w) \/ LockStatement(w) \/ EndOwingClose(w) \/ ExecFails(w) \/ BeginRefused(w)
      PROVE  [Promise!TableNext]_(Promise!tableVars)
  <2>1. UNCHANGED <<rows, store>>
    BY <1>8 DEF Begin, LockStatement, EndOwingClose, ExecFails, BeginRefused
  <2>2. \A t \in Turns : has'[t] => has[t] /\ key'[t] = key[t]
    BY <1>8, <1>t, AtTurn
    DEF Begin, LockStatement, EndOwingClose, ExecFails, BeginRefused, turnVars, TypeOK
  <2> QED
    BY <2>1, <2>2, <1>h, <1>g, OnlyLoses
<1>9. ASSUME NEW w \in Workers, End(w) \/ DeferredClose(w)
      PROVE  [Promise!TableNext]_(Promise!tableVars)
  <2>1. UNCHANGED <<rows, has>> /\ Finish(w)
    BY <1>9 DEF End, DeferredClose
  <2>2. \A t \in Turns : has[t] => key'[t] = key[t]
    BY <2>1, <1>t, FinishTurns
  <2>3. \A t \in Turns : store'[Home[t]] = "open" => store[Home[t]] = "open"
    BY <1>9, <1>t, AtTurn, AtIsProcess DEF End, DeferredClose, CloseNow, TypeOK
  <2> QED
    BY <2>1, <2>2, <2>3, <1>h, <1>g, OnlyLoses
<1>10. CASE Tick \/ UNCHANGED vars
  <2>1. UNCHANGED <<rows, has, key, store>>
    BY <1>10 DEF Tick, vars
  <2> QED
    BY <2>1, <1>h, <1>g, OnlyLoses
<1> QED
  BY <1>1, <1>2, <1>3, <1>4, <1>5, <1>6, <1>7, <1>8, <1>9, <1>10
  DEF Next, WorkerStep, TurnStatement, SweepStatement

(* The store implements the claim table the router is written against.      *)
THEOREM Implements == Spec => ImplementsClaimTable
<1>1. Init => Promise!TableInit
  BY DEF Init, Promise!TableInit, TableStatus, SeenAs, TableHeld
<1>2. Init => ClaimInv
  BY TypeCorrectInit DEF Init, ClaimInv, OwnsFile, NotOpenYet, CallFitsOwner,
         LiveClaimsKept, OneOwnerPerKey, Workers
<1> QED
  BY <1>1, <1>2, ClaimStep, ImplementationStep, PTL
  DEF Spec, ImplementsClaimTable, Promise!TableSpec

(* What the promise is worth: rows have a status, callers hold identities,  *)
(* and no identity has two holders.  It needs nothing of the store.         *)
PromiseInv == Promise!TableTypeOK /\ Promise!ClaimExclusive

LEMMA PromiseStep ==
  PromiseInv /\ [Promise!TableNext]_(Promise!tableVars) => PromiseInv'
<1> SUFFICES ASSUME PromiseInv, [Promise!TableNext]_(Promise!tableVars)
             PROVE  PromiseInv'
  OBVIOUS
<1> USE DEF PromiseInv, Promise!TableTypeOK, Promise!ClaimExclusive
<1>1. CASE UNCHANGED Promise!tableVars
  BY <1>1 DEF Promise!tableVars
<1>2. ASSUME NEW c \in Turns, NEW k \in Keys, Promise!Claim(c, k)
      PROVE  PromiseInv'
  BY <1>2 DEF Promise!Claim
<1>3. ASSUME NEW c \in Turns, Promise!MarkHandled(c)
      PROVE  PromiseInv'
  BY <1>3 DEF Promise!MarkHandled
<1>4. ASSUME NEW c \in Turns, Promise!Release(c)
      PROVE  PromiseInv'
  BY <1>4 DEF Promise!Release
<1>5. ASSUME NEW C \in SUBSET Turns, Promise!Lose(C)
      PROVE  PromiseInv'
  BY <1>5 DEF Promise!Lose
<1>6. CASE Promise!Reclaim
  BY <1>6 DEF Promise!Reclaim
<1>7. ASSUME NEW K \in SUBSET Keys, Promise!Expire(K)
      PROVE  PromiseInv'
  BY <1>7 DEF Promise!Expire
<1> QED
  BY <1>1, <1>2, <1>3, <1>4, <1>5, <1>6, <1>7 DEF Promise!TableNext

(* What a turn may rely on once it was told "claimed": the row says so, and *)
(* nobody else holds it.  The claim table alone gives that, and so does     *)
(* whatever implements it.                                                  *)
THEOREM Exclusive == ImplementsClaimTable => []Promise!ClaimExclusive
<1>1. Promise!TableInit => PromiseInv
  BY DEF Promise!TableInit, PromiseInv, Promise!TableTypeOK, Promise!ClaimExclusive
<1>2. PromiseInv => Promise!ClaimExclusive
  BY DEF PromiseInv
<1> QED
  BY <1>1, <1>2, PromiseStep, PTL DEF ImplementsClaimTable, Promise!TableSpec

(* The store keeps it across processes, restarts and deferred closes.       *)
THEOREM StoreExclusive == Spec => []Promise!ClaimExclusive
  BY Implements, Exclusive, PTL

-----------------------------------------------------------------------------
(* Retention.  A cutoff is fixed when its sweep is dispatched and may be    *)
(* old when a chunk runs, but never ahead of the window.                    *)

CutoffPast == \A p \in Procs : op[p] = "prune" => cutoff[p] <= now - Retention

LEMMA FinishSweep ==
  ASSUME TypeOK, NEW w \in Workers, Finish(w), NEW p \in Procs
  PROVE  op'[p] = "prune" => op[p] = "prune" /\ cutoff'[p] = cutoff[p]
<1> USE DEF TypeOK, Workers
<1>1. CASE w \in Procs /\ op[w] = "prune" /\ pruned[w]
  BY <1>1 DEF Finish
<1>2. CASE ~(w \in Procs /\ op[w] = "prune" /\ pruned[w])
  <2>1. Rest(w) /\ ForgetSweep(w)
    BY <1>2, Zenon DEF Finish
  <2> QED
    BY <2>1 DEF Rest, ForgetSweep, sweepVars
<1> QED
  BY <1>1, <1>2

LEMMA CutoffStep == TypeOK /\ TypeOK' /\ CutoffPast /\ [Next]_vars => CutoffPast'
<1> SUFFICES ASSUME TypeOK, TypeOK', CutoffPast, [Next]_vars, NEW q \in Procs,
                    op'[q] = "prune"
             PROVE  cutoff'[q] <= now' - Retention
  BY DEF CutoffPast
<1> USE DEF TypeOK, CutoffPast, Workers
<1>1. CASE Tick
  BY <1>1 DEF Tick
<1>2. ASSUME NEW p \in Procs,
             \/ Connect(p) \/ LockFile(p) \/ Close(p) \/ ReclaimOrphans(p)
             \/ CheckClose(p) \/ ExecVacuum(p) \/ ExecPrune(p)
      PROVE  cutoff'[q] <= now' - Retention
  BY <1>2 DEF Connect, LockFile, Close, ReclaimOrphans, CheckClose, ExecVacuum, ExecPrune
<1>3. ASSUME NEW p \in Procs, StartSweep(p) PROVE cutoff'[q] <= now' - Retention
  BY <1>3 DEF StartSweep
<1>4. ASSUME NEW p \in Procs, ProcessEnds(p) PROVE cutoff'[q] <= now' - Retention
  <2>1. op'[q] = IF At(q) = p THEN "none" ELSE op[q]
    BY <1>4, Zenon DEF ProcessEnds
  <2>2. cutoff' = [cutoff EXCEPT ![p] = 0] /\ now' = now
    BY <1>4 DEF ProcessEnds
  <2> QED
    BY <2>1, <2>2 DEF At
<1>5. ASSUME NEW t \in Turns, TurnStatement(t) \/ \E o \in TurnOps, k \in Keys : Call(t, o, k)
      PROVE  cutoff'[q] <= now' - Retention
  BY <1>5, AtTurn DEF TurnStatement, ExecClaim, ExecMark, ExecRelease, ExecRead, Call
<1>6. ASSUME NEW w \in Workers,
             Begin(w) \/ LockStatement(w) \/ EndOwingClose(w) \/ ExecFails(w)
      PROVE  cutoff'[q] <= now' - Retention
  BY <1>6 DEF Begin, LockStatement, EndOwingClose, ExecFails
<1>7. ASSUME NEW w \in Workers, BeginRefused(w) PROVE cutoff'[q] <= now' - Retention
  BY <1>7 DEF BeginRefused, Rest, ForgetSweep, sweepVars
<1>8. ASSUME NEW w \in Workers, End(w) \/ DeferredClose(w)
      PROVE  cutoff'[q] <= now' - Retention
  <2>1. Finish(w) /\ now' = now
    BY <1>8 DEF End, DeferredClose
  <2> QED
    BY <2>1, FinishSweep
<1>9. CASE UNCHANGED vars
  BY <1>9 DEF vars
<1> QED
  BY <1>1, <1>2, <1>3, <1>4, <1>5, <1>6, <1>7, <1>8, <1>9
  DEF Next, WorkerStep, SweepStatement

LEMMA HandledStep ==
  ASSUME TypeOK, CutoffPast, [Next]_vars, NEW k \in Keys,
         rows[k] = "handled", rows'[k] # "handled"
  PROVE  rows'[k] = "none" /\ now - stamp[k] > Retention
<1> USE DEF TypeOK
<1>1. ASSUME NEW p \in Procs, ExecPrune(p)
      PROVE  rows'[k] = "none" /\ now - stamp[k] > Retention
  <2>1. op[p] = "prune"
    BY <1>1 DEF ExecPrune, Executes
  <2>2. k \in Doomed(cutoff[p]) /\ rows'[k] = "none"
    BY <1>1 DEF ExecPrune
  <2> QED
    BY <2>1, <2>2 DEF Doomed, CutoffPast
<1>2. ASSUME NEW p \in Procs, ReclaimOrphans(p) PROVE FALSE
  BY <1>2 DEF ReclaimOrphans, Reclaimed
<1>3. ASSUME NEW t \in Turns, TurnStatement(t) PROVE FALSE
  BY <1>3 DEF TurnStatement, ExecClaim, ExecMark, ExecRelease, ExecRead, Claimable, dataVars
<1>4. CASE UNCHANGED rows
  BY <1>4
<1>5. \/ UNCHANGED rows
      \/ \E p \in Procs : ExecPrune(p) \/ ReclaimOrphans(p)
      \/ \E t \in Turns : TurnStatement(t)
  BY DEF Next, vars, Tick, Connect, LockFile, Close, ProcessEnds, StartSweep,
     SweepStatement, CheckClose, ExecVacuum, Call, WorkerStep, Begin, BeginRefused,
     LockStatement, ExecFails, End, EndOwingClose, DeferredClose
<1> QED
  BY <1>1, <1>2, <1>3, <1>4, <1>5

(* A handled identity outlives the retention window.                        *)
THEOREM HandledSurvives == Spec => HandledOutlivesWindow
<1>1. Init => CutoffPast
  BY DEF Init, CutoffPast, Workers
<1>2. TypeOK /\ CutoffPast /\ [Next]_vars =>
        [\A k \in Keys : rows[k] = "handled" /\ rows'[k] # "handled" =>
            rows'[k] = "none" /\ now - stamp[k] > Retention]_vars
  BY HandledStep
<1> QED
  BY <1>1, <1>2, TypeCorrectInit, TypeStep, CutoffStep, PTL DEF Spec, HandledOutlivesWindow

-----------------------------------------------------------------------------
(* The operation count and the connection.  close() trusts the count alone, *)
(* so the count has to be exact; and while the last operation out waits for *)
(* _lock it keeps _state_lock, so nobody can begin in the meantime.         *)

Working == {"begun", "ready", "stmt", "done"}

WorkNeedsOpen == \A w \in Workers : step[w] \in Working => store[At(w)] = "open"

CloserIsAlone ==
    /\ \A w \in Workers : step[w] = "closing" => stateLock[At(w)] = w
    /\ \A p \in Procs : stateLock[p] # Free => active[p] = 0

CloseInv == TypeOK /\ ActiveCounts /\ WorkNeedsOpen /\ CloserIsAlone

LEMMA InFlightFinite == \A p \in Procs : IsFiniteSet(InFlight(p))
<1>1. IsFiniteSet(Workers)
  BY ActorsFinite, FS_Union DEF Workers
<1> QED
  BY <1>1, FS_Subset DEF InFlight

LEMMA InFlightFiniteNext == \A p \in Procs : IsFiniteSet(InFlight(p)')
<1>1. IsFiniteSet(Workers)
  BY ActorsFinite, FS_Union DEF Workers
<1>2. \A p \in Procs : InFlight(p)' \in SUBSET Workers
  BY DEF InFlight
<1> QED
  BY <1>1, <1>2, FS_Subset

(* No operation begins or ends. *)
LEMMA CountKept ==
  ASSUME ActiveCounts, UNCHANGED active,
         \A w \in Workers : step'[w] \in Working <=> step[w] \in Working
  PROVE  ActiveCounts'
<1>1. \A p \in Procs : InFlight(p)' = InFlight(p)
  BY DEF InFlight, Working
<1> QED
  BY <1>1 DEF ActiveCounts

LEMMA CountUp ==
  ASSUME TypeOK, ActiveCounts, NEW w \in Workers, step[w] \notin Working,
         active' = [active EXCEPT ![At(w)] = @ + 1],
         step'[w] \in Working,
         \A v \in Workers : v # w => step'[v] = step[v]
  PROVE  ActiveCounts'
<1>1. \A p \in Procs : p # At(w) => InFlight(p)' = InFlight(p)
  BY DEF InFlight, Working
<1>2. InFlight(At(w))' = InFlight(At(w)) \cup {w}
  BY DEF InFlight, Working
<1>3. w \notin InFlight(At(w))
  BY DEF InFlight, Working
<1>4. Cardinality(InFlight(At(w)) \cup {w}) = Cardinality(InFlight(At(w))) + 1
  BY <1>3, AtIsProcess, InFlightFinite, FS_AddElement
<1>5. \A p \in Procs : p # At(w) => active'[p] = active[p]
  BY AtIsProcess DEF TypeOK
<1>6. active'[At(w)] = Cardinality(InFlight(At(w))')
  BY <1>2, <1>4, AtIsProcess DEF TypeOK, ActiveCounts
<1> QED
  BY <1>1, <1>5, <1>6 DEF ActiveCounts

LEMMA CountDown ==
  ASSUME TypeOK, ActiveCounts, NEW w \in Workers, step[w] \in Working,
         active' = [active EXCEPT ![At(w)] = @ - 1],
         step'[w] \notin Working,
         \A v \in Workers : v # w => step'[v] = step[v]
  PROVE  ActiveCounts'
<1>1. \A p \in Procs : p # At(w) => InFlight(p)' = InFlight(p)
  BY DEF InFlight, Working
<1>2. InFlight(At(w))' = InFlight(At(w)) \ {w}
  BY DEF InFlight, Working
<1>3. w \in InFlight(At(w))
  BY DEF InFlight, Working
<1>4. Cardinality(InFlight(At(w)) \ {w}) = Cardinality(InFlight(At(w))) - 1
  BY <1>3, AtIsProcess, InFlightFinite, FS_RemoveElement
<1>5. \A p \in Procs : p # At(w) => active'[p] = active[p]
  BY AtIsProcess DEF TypeOK
<1>6. active'[At(w)] = Cardinality(InFlight(At(w))')
  BY <1>2, <1>4, AtIsProcess DEF TypeOK, ActiveCounts
<1> QED
  BY <1>1, <1>5, <1>6 DEF ActiveCounts

(* With a count of zero nobody is at work. *)
LEMMA NobodyWorks ==
  ASSUME ActiveCounts, NEW p \in Procs, active[p] = 0, NEW w \in Workers, At(w) = p
  PROVE  step[w] \notin Working
<1>1. InFlight(p) = {}
  BY InFlightFinite, FS_EmptySet DEF ActiveCounts
<1> QED
  BY <1>1 DEF InFlight, Working

LEMMA FinishWorker ==
  ASSUME TypeOK, NEW w \in Workers, Finish(w)
  PROVE  /\ step'[w] \in {"idle", "queued"}
         /\ \A v \in Workers : v # w => step'[v] = step[v]
<1> USE DEF TypeOK
<1>1. CASE w \in Procs /\ op[w] = "prune" /\ pruned[w]
  BY <1>1 DEF Finish
<1>2. CASE ~(w \in Procs /\ op[w] = "prune" /\ pruned[w])
  <2>1. Rest(w)
    BY <1>2, Zenon DEF Finish
  <2> QED
    BY <2>1 DEF Rest
<1> QED
  BY <1>1, <1>2

LEMMA CloseInvStep == CloseInv /\ [Next]_vars => CloseInv'
<1> SUFFICES ASSUME CloseInv, [Next]_vars PROVE CloseInv'
  OBVIOUS
<1>0. TypeOK'
  BY TypeStep DEF CloseInv
<1> USE <1>0, AtIsProcess DEF CloseInv
<1>1. ASSUME UNCHANGED <<active, step, stateLock>>,
             \A p \in Procs : store[p] = "open" => store'[p] = "open"
      PROVE  CloseInv'
  BY <1>1, CountKept DEF WorkNeedsOpen, CloserIsAlone
<1>2. CASE Tick \/ UNCHANGED vars
  BY <1>2, <1>1 DEF Tick, vars
<1>3. ASSUME NEW p \in Procs, Connect(p) \/ LockFile(p) \/ ReclaimOrphans(p)
      PROVE  CloseInv'
  BY <1>3, <1>1 DEF Connect, LockFile, ReclaimOrphans, TypeOK
<1>4. ASSUME NEW p \in Procs, Close(p) PROVE CloseInv'
  <2>1. CASE CloseMustDefer(p)
    BY <1>4, <2>1, <1>1 DEF Close
  <2>2. CASE ~CloseMustDefer(p)
    <3>1. active[p] = 0
      BY <2>2, InFlightFinite, FS_CardinalityType DEF CloseMustDefer, ActiveCounts
    <3>2. UNCHANGED <<active, step, stateLock>> /\ store' = [store EXCEPT ![p] = "closed"]
      BY <1>4, <2>2 DEF Close, CloseNow
    <3>3. WorkNeedsOpen'
      BY <3>1, <3>2, NobodyWorks DEF WorkNeedsOpen, TypeOK
    <3> QED
      BY <3>2, <3>3, CountKept DEF CloserIsAlone
  <2> QED
    BY <2>1, <2>2
<1>5. ASSUME NEW p \in Procs, ProcessEnds(p) PROVE CloseInv'
  <2>1. \A w \in Workers : step'[w] = IF At(w) = p THEN "idle" ELSE step[w]
    BY <1>5, Zenon DEF ProcessEnds
  <2>2. /\ active' = [active EXCEPT ![p] = 0]
        /\ stateLock' = [stateLock EXCEPT ![p] = Free]
        /\ store' = [store EXCEPT ![p] = "absent"]
    BY <1>5 DEF ProcessEnds
  <2>3. InFlight(p)' = {}
    BY <2>1 DEF InFlight
  <2>4. \A q \in Procs : q # p => InFlight(q)' = InFlight(q)
    BY <2>1 DEF InFlight
  <2>5. ActiveCounts'
    <3>1. active'[p] = Cardinality(InFlight(p)')
      BY <2>2, <2>3, FS_EmptySet DEF TypeOK
    <3>2. \A q \in Procs : q # p => active'[q] = Cardinality(InFlight(q)')
      BY <2>2, <2>4 DEF ActiveCounts, TypeOK
    <3> QED
      BY <3>1, <3>2 DEF ActiveCounts
  <2>6. WorkNeedsOpen'
    BY <2>1, <2>2 DEF WorkNeedsOpen, Working, TypeOK
  <2>7. CloserIsAlone'
    BY <2>1, <2>2 DEF CloserIsAlone, TypeOK
  <2> QED
    BY <2>5, <2>6, <2>7
<1>6. ASSUME NEW w \in Workers, NEW s \in Steps, step' = [step EXCEPT ![w] = s],
             s # "closing", step[w] # "closing",
             s \in Working <=> step[w] \in Working,
             UNCHANGED <<active, stateLock, store>>
      PROVE  CloseInv'
  <2>1. ActiveCounts'
    BY <1>6, CountKept DEF TypeOK
  <2> QED
    BY <1>6, <2>1 DEF WorkNeedsOpen, CloserIsAlone, TypeOK
<1>7. ASSUME NEW p \in Procs, StartSweep(p) \/ SweepStatement(p) PROVE CloseInv'
  <2>1. \E s \in Steps : /\ step' = [step EXCEPT ![p] = s]
                         /\ s # "closing" /\ step[p] # "closing"
                         /\ s \in Working <=> step[p] \in Working
    BY <1>7 DEF StartSweep, SweepStatement, CheckClose, ExecPrune, ExecVacuum,
         Executes, Steps, Working
  <2>2. UNCHANGED <<active, stateLock, store>> /\ p \in Workers
    BY <1>7 DEF StartSweep, SweepStatement, CheckClose, ExecPrune, ExecVacuum, Workers
  <2> QED
    BY <2>1, <2>2, <1>6
<1>8. ASSUME NEW t \in Turns, TurnStatement(t) \/ \E o \in TurnOps, k \in Keys : Call(t, o, k)
      PROVE  CloseInv'
  <2>1. \E s \in Steps : /\ step' = [step EXCEPT ![t] = s]
                         /\ s # "closing" /\ step[t] # "closing"
                         /\ s \in Working <=> step[t] \in Working
    BY <1>8 DEF TurnStatement, ExecClaim, ExecMark, ExecRelease, ExecRead, Call,
         Executes, Steps, Working
  <2>2. UNCHANGED <<active, stateLock, store>> /\ t \in Workers
    BY <1>8 DEF TurnStatement, ExecClaim, ExecMark, ExecRelease, ExecRead, Call, Workers
  <2> QED
    BY <2>1, <2>2, <1>6
<1>9. ASSUME NEW w \in Workers, LockStatement(w) \/ ExecFails(w) PROVE CloseInv'
  <2>1. \E s \in Steps : /\ step' = [step EXCEPT ![w] = s]
                         /\ s # "closing" /\ step[w] # "closing"
                         /\ s \in Working <=> step[w] \in Working
    BY <1>9 DEF LockStatement, ExecFails, Steps, Working
  <2>2. UNCHANGED <<active, stateLock, store>>
    BY <1>9 DEF LockStatement, ExecFails
  <2> QED
    BY <2>1, <2>2, <1>6
<1>10. ASSUME NEW w \in Workers, BeginRefused(w) PROVE CloseInv'
  <2>1. step' = [step EXCEPT ![w] = "idle"] /\ step[w] = "queued"
    BY <1>10 DEF BeginRefused, Rest
  <2>2. active' = active
    BY <1>10 DEF BeginRefused, CountWhenRefused, TypeOK
  <2>3. UNCHANGED <<stateLock, store>>
    BY <1>10 DEF BeginRefused
  <2> QED
    BY <2>1, <2>2, <2>3, <1>6 DEF Steps, Working
<1>11. ASSUME NEW w \in Workers, Begin(w) PROVE CloseInv'
  <2>1. /\ step'[w] \in {"begun", "ready"} /\ step[w] = "queued"
        /\ \A v \in Workers : v # w => step'[v] = step[v]
        /\ stateLock[At(w)] = Free
        /\ store[At(w)] = "open"
        /\ active' = [active EXCEPT ![At(w)] = @ + 1]
        /\ UNCHANGED <<stateLock, store>>
    BY <1>11 DEF Begin, Admits, TypeOK
  <2>2. ActiveCounts'
    BY <2>1, CountUp DEF Working
  <2> QED
    BY <2>1, <2>2 DEF WorkNeedsOpen, CloserIsAlone, Working, TypeOK
<1>12. ASSUME NEW w \in Workers, End(w) PROVE CloseInv'
  <2>1. /\ step'[w] \in {"idle", "queued"} /\ step[w] = "done"
        /\ \A v \in Workers : v # w => step'[v] = step[v]
        /\ stateLock[At(w)] = Free
        /\ active' = [active EXCEPT ![At(w)] = @ - 1]
        /\ UNCHANGED <<stateLock, store>>
    BY <1>12, FinishWorker DEF End
  <2>2. ActiveCounts'
    BY <2>1, CountDown DEF Working
  <2> QED
    BY <2>1, <2>2 DEF WorkNeedsOpen, CloserIsAlone, Working, TypeOK
<1>13. ASSUME NEW w \in Workers, EndOwingClose(w) PROVE CloseInv'
  <2>1. /\ step'[w] = "closing" /\ step[w] = "done"
        /\ \A v \in Workers : v # w => step'[v] = step[v]
        /\ stateLock[At(w)] = Free /\ active[At(w)] = 1
        /\ stateLock' = [stateLock EXCEPT ![At(w)] = w]
        /\ active' = [active EXCEPT ![At(w)] = @ - 1]
        /\ store' = store
    BY <1>13 DEF EndOwingClose, LastOneOut, TypeOK
  <2>2. ActiveCounts'
    BY <2>1, CountDown DEF Working
  <2>3. CloserIsAlone'
    BY <2>1 DEF CloserIsAlone, TypeOK, Workers
  <2> QED
    BY <2>1, <2>2, <2>3 DEF WorkNeedsOpen, Working
<1>14. ASSUME NEW w \in Workers, DeferredClose(w) PROVE CloseInv'
  <2>1. /\ step'[w] \in {"idle", "queued"} /\ step[w] = "closing"
        /\ \A v \in Workers : v # w => step'[v] = step[v]
        /\ stateLock' = [stateLock EXCEPT ![At(w)] = Free]
        /\ store' = [store EXCEPT ![At(w)] = "closed"]
        /\ active' = active
    BY <1>14, FinishWorker DEF DeferredClose, CloseNow
  <2>2. stateLock[At(w)] = w /\ active[At(w)] = 0
    BY <2>1 DEF CloserIsAlone, Workers
  <2>3. \A v \in Workers : At(v) = At(w) => step[v] \notin Working
    BY <2>2, NobodyWorks
  <2>4. ActiveCounts'
    BY <2>1, CountKept DEF Working
  <2>5. WorkNeedsOpen'
    BY <2>1, <2>3 DEF WorkNeedsOpen, Working, TypeOK
  <2>6. CloserIsAlone'
    BY <2>1, <2>2 DEF CloserIsAlone, TypeOK
  <2> QED
    BY <2>4, <2>5, <2>6
<1> QED
  BY <1>2, <1>3, <1>4, <1>5, <1>7, <1>8, <1>9, <1>10, <1>11, <1>12, <1>13, <1>14
  DEF Next, WorkerStep

LEMMA CloseInvInit == Init => CloseInv
<1> SUFFICES ASSUME Init PROVE CloseInv
  OBVIOUS
<1>1. \A p \in Procs : InFlight(p) = {}
  BY DEF Init, InFlight
<1> QED
  BY <1>1, TypeCorrectInit, FS_EmptySet
  DEF Init, CloseInv, ActiveCounts, WorkNeedsOpen, CloserIsAlone, Working

(* _active_operations is exact. *)
THEOREM CountIsExact == Spec => []ActiveCounts
<1>1. CloseInv => ActiveCounts
  BY DEF CloseInv
<1> QED
  BY <1>1, CloseInvInit, CloseInvStep, PTL DEF Spec

(* No statement runs on a closed connection. *)
THEOREM StatementsSafe == Spec => []NoStatementOnClosed
<1>1. CloseInv => NoStatementOnClosed
  BY DEF CloseInv, WorkNeedsOpen, NoStatementOnClosed, Working
<1> QED
  BY <1>1, CloseInvInit, CloseInvStep, PTL DEF Spec

-----------------------------------------------------------------------------
(* A close that was put off.  The count stands for the operations that will *)
(* look at the request when they end; the last of them does not pass, but   *)
(* stays as the closer.  A request is made of an open store only, and does  *)
(* not outlive its process: a store opens with no close owed.               *)

CloseOwed ==
    \A p \in Procs : closeRequested[p] /\ store[p] = "open" =>
        active[p] # 0 \/ \E w \in Workers : At(w) = p /\ step[w] = "closing"

RequestsMadeOpen == \A p \in Procs : closeRequested[p] => store[p] \in {"open", "closed"}

PutOffInv == CloseInv /\ CloseOwed /\ RequestsMadeOpen

(* One worker moves, the closer of no store. *)
LEMMA OwedKept ==
  ASSUME TypeOK, CloseOwed, RequestsMadeOpen, UNCHANGED <<active, store, closeRequested>>,
         NEW w \in Workers, step[w] # "closing",
         \A v \in Workers : v # w => step'[v] = step[v]
  PROVE  CloseOwed' /\ RequestsMadeOpen'
  BY DEF CloseOwed, RequestsMadeOpen

LEMMA PutOffStep == PutOffInv /\ [Next]_vars => CloseOwed' /\ RequestsMadeOpen'
<1> SUFFICES ASSUME PutOffInv, [Next]_vars PROVE CloseOwed' /\ RequestsMadeOpen'
  OBVIOUS
<1> USE AtIsProcess DEF PutOffInv, CloseInv
<1>1. ASSUME UNCHANGED <<active, step, store, closeRequested>>
      PROVE  CloseOwed' /\ RequestsMadeOpen'
  BY <1>1 DEF CloseOwed, RequestsMadeOpen
<1>2. CASE Tick \/ UNCHANGED vars
  BY <1>2, <1>1 DEF Tick, vars
<1>3. ASSUME NEW p \in Procs, Connect(p) \/ LockFile(p) \/ ReclaimOrphans(p)
      PROVE  CloseOwed' /\ RequestsMadeOpen'
  <2>1. /\ UNCHANGED <<active, step, closeRequested>>
        /\ store[p] \in {"absent", "connected", "owning"}
        /\ \A q \in Procs : q # p => store'[q] = store[q]
    BY <1>3 DEF Connect, LockFile, ReclaimOrphans, TypeOK
  <2>2. ~closeRequested[p]
    BY <2>1 DEF RequestsMadeOpen
  <2> QED
    BY <2>1, <2>2 DEF CloseOwed, RequestsMadeOpen
<1>4. ASSUME NEW p \in Procs, Close(p) PROVE CloseOwed' /\ RequestsMadeOpen'
  <2>1. CASE CloseMustDefer(p)
    <3>1. /\ UNCHANGED <<active, step, store>> /\ store[p] = "open" /\ active[p] # 0
          /\ \A q \in Procs : q # p => closeRequested'[q] = closeRequested[q]
      BY <1>4, <2>1 DEF Close, CloseMustDefer, TypeOK
    <3> QED
      BY <3>1 DEF CloseOwed, RequestsMadeOpen
  <2>2. CASE ~CloseMustDefer(p)
    <3>1. /\ UNCHANGED <<active, step, closeRequested>>
          /\ store' = [store EXCEPT ![p] = "closed"]
      BY <1>4, <2>2 DEF Close, CloseNow
    <3> QED
      BY <3>1 DEF CloseOwed, RequestsMadeOpen, TypeOK
  <2> QED
    BY <2>1, <2>2
<1>5. ASSUME NEW p \in Procs, ProcessEnds(p) PROVE CloseOwed' /\ RequestsMadeOpen'
  <2>1. \A w \in Workers : At(w) # p => step'[w] = step[w]
    BY <1>5, Zenon DEF ProcessEnds
  <2>2. ~closeRequested'[p]
    BY <1>5, Zenon DEF ProcessEnds, TypeOK
  <2>3. \A q \in Procs : q # p => /\ active'[q] = active[q]
                                  /\ store'[q] = store[q]
                                  /\ closeRequested'[q] = closeRequested[q]
    BY <1>5 DEF ProcessEnds, TypeOK
  <2> QED
    BY <2>1, <2>2, <2>3 DEF CloseOwed, RequestsMadeOpen
<1>6. ASSUME NEW p \in Procs, StartSweep(p) \/ SweepStatement(p)
      PROVE  CloseOwed' /\ RequestsMadeOpen'
  <2>1. step[p] # "closing" /\ \A v \in Workers : v # p => step'[v] = step[v]
    BY <1>6 DEF StartSweep, SweepStatement, CheckClose, ExecPrune, ExecVacuum, Executes, TypeOK
  <2>2. UNCHANGED <<active, store, closeRequested>> /\ p \in Workers
    BY <1>6 DEF StartSweep, SweepStatement, CheckClose, ExecPrune, ExecVacuum, Workers
  <2> QED
    BY <2>1, <2>2, OwedKept
<1>7. ASSUME NEW t \in Turns, TurnStatement(t) \/ \E o \in TurnOps, k \in Keys : Call(t, o, k)
      PROVE  CloseOwed' /\ RequestsMadeOpen'
  <2>1. step[t] # "closing" /\ \A v \in Workers : v # t => step'[v] = step[v]
    BY <1>7 DEF TurnStatement, ExecClaim, ExecMark, ExecRelease, ExecRead, Call, Executes, TypeOK
  <2>2. UNCHANGED <<active, store, closeRequested>> /\ t \in Workers
    BY <1>7 DEF TurnStatement, ExecClaim, ExecMark, ExecRelease, ExecRead, Call, Workers
  <2> QED
    BY <2>1, <2>2, OwedKept
<1>8. ASSUME NEW w \in Workers, LockStatement(w) \/ ExecFails(w) \/ BeginRefused(w)
      PROVE  CloseOwed' /\ RequestsMadeOpen'
  <2>1. step[w] # "closing" /\ \A v \in Workers : v # w => step'[v] = step[v]
    BY <1>8 DEF LockStatement, ExecFails, BeginRefused, Rest, TypeOK
  <2>2. UNCHANGED <<active, store, closeRequested>>
    BY <1>8 DEF LockStatement, ExecFails, BeginRefused, CountWhenRefused, TypeOK
  <2> QED
    BY <2>1, <2>2, OwedKept
<1>9. ASSUME NEW w \in Workers, Begin(w) PROVE CloseOwed' /\ RequestsMadeOpen'
  <2>1. /\ step[w] = "queued" /\ \A v \in Workers : v # w => step'[v] = step[v]
        /\ ~closeRequested[At(w)]
        /\ \A q \in Procs : q # At(w) => active'[q] = active[q]
        /\ UNCHANGED <<closeRequested, store>>
    BY <1>9 DEF Begin, Admits, TypeOK
  <2> QED
    BY <2>1 DEF CloseOwed, RequestsMadeOpen
<1>10. ASSUME NEW w \in Workers, End(w) PROVE CloseOwed' /\ RequestsMadeOpen'
  <2>1. /\ step[w] = "done" /\ \A v \in Workers : v # w => step'[v] = step[v]
        /\ UNCHANGED <<closeRequested, store>>
        /\ active' = [active EXCEPT ![At(w)] = @ - 1]
    BY <1>10, FinishWorker DEF End
  <2>2. closeRequested[At(w)] /\ store[At(w)] = "open" => active'[At(w)] # 0
    BY <1>10, <2>1 DEF End, LastOneOut, TypeOK
  <2>3. \A q \in Procs : q # At(w) => active'[q] = active[q]
    BY <2>1 DEF TypeOK
  <2> QED
    BY <2>1, <2>2, <2>3 DEF CloseOwed, RequestsMadeOpen
<1>11. ASSUME NEW w \in Workers, EndOwingClose(w) PROVE CloseOwed' /\ RequestsMadeOpen'
  <2>1. /\ step'[w] = "closing" /\ \A v \in Workers : v # w => step'[v] = step[v]
        /\ \A q \in Procs : q # At(w) => active'[q] = active[q]
        /\ UNCHANGED <<closeRequested, store>>
    BY <1>11 DEF EndOwingClose, TypeOK
  <2> QED
    BY <2>1 DEF CloseOwed, RequestsMadeOpen
<1>12. ASSUME NEW w \in Workers, DeferredClose(w) PROVE CloseOwed' /\ RequestsMadeOpen'
  <2>1. /\ \A v \in Workers : v # w => step'[v] = step[v]
        /\ store' = [store EXCEPT ![At(w)] = "closed"]
        /\ UNCHANGED <<closeRequested, active>>
    BY <1>12, FinishWorker DEF DeferredClose, CloseNow
  <2> QED
    BY <2>1 DEF CloseOwed, RequestsMadeOpen, TypeOK
<1> QED
  BY <1>2, <1>3, <1>4, <1>5, <1>6, <1>7, <1>8, <1>9, <1>10, <1>11, <1>12
  DEF Next, WorkerStep

(* A close() that was put off is not forgotten while the store is open.     *)
THEOREM CloseNotForgotten == Spec => []NoForgottenClose
<1>1. Init => PutOffInv
  BY CloseInvInit DEF Init, PutOffInv, CloseOwed, RequestsMadeOpen
<1>2. PutOffInv /\ [Next]_vars => PutOffInv'
  BY CloseInvStep, PutOffStep DEF PutOffInv
<1>3. PutOffInv => NoForgottenClose
  <2> SUFFICES ASSUME PutOffInv, NEW p \in Procs, closeRequested[p], store[p] = "open",
                      active[p] # 0
               PROVE  \E w \in Workers : At(w) = p /\ step[w] \in Working
    BY DEF PutOffInv, CloseOwed, NoForgottenClose, Working
  <2>1. InFlight(p) # {}
    BY FS_EmptySet DEF PutOffInv, CloseInv, ActiveCounts
  <2> QED
    BY <2>1 DEF InFlight, Working
<1> QED
  BY <1>1, <1>2, <1>3, PTL DEF Spec
====
