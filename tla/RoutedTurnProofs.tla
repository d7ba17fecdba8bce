---- MODULE RoutedTurnProofs ----
(***************************************************************************)
(* Proofs about RoutedTurn, for any number of turns, identities and        *)
(* identity sequences.                                                     *)
(***************************************************************************)
EXTENDS RoutedTurn, TLAPS

USE TurnNames, KeyNames, IdentitiesOK

-----------------------------------------------------------------------------
(* The inductive invariant, one operator per idea. *)

(* What is claimed is a prefix of what is carried; no identity twice. *)
Shapes ==
    /\ proc \in {"up", "closing", "shut", "down"}
    /\ rows \in [Keys -> {"none", "processing", "handled"}]
    /\ owner \in [Keys -> Turns \cup {None}]
    /\ jobs \subseteq Jobs
    /\ pc \in [Turns -> Live \cup {"idle", "waiting"}]
    /\ kind \in [Turns -> {"signal", "synthetic"}]
    /\ ids \in [Turns -> Seq(Keys)] /\ mine \in [Turns -> Seq(Keys)]
    /\ fate \in [Turns -> BOOLEAN]
    /\ answer \in [Turns -> {"none", "true", "false", "error"}]
    /\ broken \in [Turns -> SUBSET Keys]
    /\ \A t \in Turns :
          /\ ids[t] \in Identities \cup {<<>>}
          /\ Len(mine[t]) <= Len(ids[t])
          /\ \A i \in 1..Len(mine[t]) : mine[t][i] = ids[t][i]

(* The route lock is exclusive. *)
AloneOnRoute ==
    \A t, u \in Turns : pc[t] \in Live /\ pc[u] \in Live => t = u

OwnedRows == \A k \in Keys : owner[k] # None => rows[k] = "processing"

OneJobPerKey ==
    \A i, j \in jobs : i.turn = j.turn /\ i.key = j.key => i = j

FinalsOwn == \A j \in jobs : j.op # "claim" => owner[j.key] = j.turn

(* The identity the turn is claiming. *)
Wanted(t) == ids[t][Len(mine[t]) + 1]

Owns(t) == \A i \in 1..Len(mine[t]) : owner[mine[t][i]] = t

Jobless(t) == \A j \in jobs : j.turn # t

Working == {"gate", "prompting", "replying"}

(* What each stage of the coroutine says of the rest of its turn. *)
Resting(t) ==
    pc[t] \in {"idle", "waiting"} => mine[t] = <<>> /\ answer[t] = "none"

Queued(t) == pc[t] = "waiting" => ids[t] # <<>> /\ Jobless(t)

Claiming(t) ==
    pc[t] = "claiming" =>
        /\ Len(mine[t]) < Len(ids[t]) /\ Owns(t)
        /\ answer[t] = "none" => Job("claim", t, Wanted(t), TRUE) \in jobs
        /\ answer[t] # "none" => Jobless(t)
        /\ answer[t] = "true" => owner[Wanted(t)] = t
        /\ \A j \in jobs : j.turn = t => j = Job("claim", t, Wanted(t), TRUE)

AtWork(t) ==
    pc[t] \in Working =>
        /\ Len(mine[t]) = Len(ids[t]) /\ ids[t] # <<>> /\ Owns(t)
        /\ answer[t] = "none" /\ Jobless(t)

FinalName(handled) == IF handled THEN "mark" ELSE "release"
FinalOp(t) == FinalName(fate[t])

(* An identity of a finishing turn: its worker runs, failed, or did it. *)
Settles(t, k) ==
    /\ \A j \in jobs : j.op = "mark" /\ j.key = k => j.turn = t
    /\ \/ Job(FinalOp(t), t, k, TRUE) \in jobs
       \/ k \in broken[t]
       \/ rows[k] = "handled" <=> fate[t]

Finishing(t) ==
    pc[t] = "finishing" =>
        /\ answer[t] = "none"
        /\ \A j \in jobs : j.op = "mark" /\ j.turn = t => fate[t]
        /\ \A k \in Keys : (\E i \in 1..Len(mine[t]) : mine[t][i] = k) => Settles(t, k)

AwaitedClaims ==
    \A j \in jobs : j.op = "claim" /\ j.awaited => pc[j.turn] = "claiming"

NothingWhenDown ==
    proc = "down" => /\ jobs = {} /\ \A k \in Keys : owner[k] = None
                     /\ \A t \in Turns : pc[t] = "idle"

Stages ==
    \A t \in Turns : Resting(t) /\ Queued(t) /\ Claiming(t) /\ AtWork(t) /\ Finishing(t)

RoutedTurnInv ==
    /\ Shapes /\ AloneOnRoute /\ OwnedRows /\ OneJobPerKey /\ FinalsOwn
    /\ Stages /\ AwaitedClaims /\ NothingWhenDown /\ EveryClaimHasAnHeir

-----------------------------------------------------------------------------
(* The initial state. *)

LEMMA InvInit == Init => RoutedTurnInv
  BY DEF Init, Each, RoutedTurnInv, Shapes, Jobs, Live, AloneOnRoute, OwnedRows, OneJobPerKey,
         FinalsOwn, Stages, Resting, Queued, Claiming, AtWork, Working, Finishing, Settles,
         AwaitedClaims, NothingWhenDown, EveryClaimHasAnHeir

-----------------------------------------------------------------------------
(* Workers.  A claim worker inserts a row nobody owns; a final worker ends  *)
(* the ownership of its own turn and of no other.                           *)

LEMMA JobFields ==
  ASSUME NEW o \in {"claim", "mark", "release"}, NEW t \in Turns, NEW k \in Keys,
         NEW a \in BOOLEAN
  PROVE  /\ Job(o, t, k, a) \in Jobs
         /\ Job(o, t, k, a).op = o /\ Job(o, t, k, a).turn = t
         /\ Job(o, t, k, a).key = k /\ Job(o, t, k, a).awaited = a
  BY DEF Job, Jobs

(* The release that follows an abandoned claim. *)
Belated(t, k) == Job("release", t, k, FALSE)

LEMMA BelatedFields ==
  ASSUME NEW t \in Turns, NEW k \in Keys
  PROVE  /\ Belated(t, k) \in Jobs /\ Belated(t, k).op = "release"
         /\ Belated(t, k).turn = t /\ Belated(t, k).key = k
  BY DEF Belated, Job, Jobs

(* A worker belongs to a turn that awaits its claim, finishes, or is gone. *)
LEMMA JobStage ==
  ASSUME RoutedTurnInv, NEW j \in jobs
  PROVE  /\ j.op \in {"claim", "mark", "release"} /\ j.turn \in Turns
         /\ j.key \in Keys /\ j.awaited \in BOOLEAN
         /\ pc[j.turn] \in {"idle", "claiming", "finishing"}
         /\ pc[j.turn] = "claiming" =>
               /\ j.op = "claim" /\ j.awaited /\ j.key = Wanted(j.turn)
               /\ answer[j.turn] = "none"
         /\ j.op = "claim" /\ j.awaited => pc[j.turn] = "claiming"
<1>1. /\ j.op \in {"claim", "mark", "release"} /\ j.turn \in Turns
      /\ j.key \in Keys /\ j.awaited \in BOOLEAN
  BY DEF RoutedTurnInv, Shapes, Jobs
<1>2. Queued(j.turn) /\ Claiming(j.turn) /\ AtWork(j.turn)
  BY <1>1 DEF RoutedTurnInv, Stages
<1>3. pc[j.turn] \in Live \cup {"idle", "waiting"}
  BY <1>1 DEF RoutedTurnInv, Shapes
<1>4. pc[j.turn] \in {"idle", "claiming", "finishing"}
  BY <1>2, <1>3 DEF Queued, AtWork, Working, Jobless, Live
<1>5. ASSUME pc[j.turn] = "claiming"
      PROVE  /\ j.op = "claim" /\ j.awaited /\ j.key = Wanted(j.turn)
             /\ answer[j.turn] = "none"
  <2>1. j = Job("claim", j.turn, Wanted(j.turn), TRUE)
    BY <1>1, <1>2, <1>5 DEF Claiming
  <2>2. answer[j.turn] = "none"
    BY <1>2, <1>5 DEF Claiming, Jobless
  <2> QED
    BY <2>1, <2>2 DEF Job
<1>6. j.op = "claim" /\ j.awaited => pc[j.turn] = "claiming"
  BY DEF RoutedTurnInv, AwaitedClaims
<1> QED
  BY <1>1, <1>4, <1>5, <1>6

(* A claim that was refused or raised leaves the store as it was. *)
LEMMA ClaimRefused ==
  ASSUME RoutedTurnInv, NEW j \in jobs, j.op = "claim",
         NEW r \in {"false", "error"}, Deliver(j, r),
         UNCHANGED <<proc, rows, owner, pc, kind, ids, mine, fate, broken>>
  PROVE  RoutedTurnInv'
<1> USE DEF RoutedTurnInv, Shapes, Jobs
<1>1. /\ j.turn \in Turns /\ j.key \in Keys /\ jobs' = jobs \ {j}
      /\ answer' = [answer EXCEPT ![j.turn] = IF j.awaited THEN r ELSE @]
  BY DEF Deliver, ReleaseAbandoned
<1>2. j.awaited => pc[j.turn] = "claiming"
  BY DEF AwaitedClaims
<1>3. Shapes' /\ OwnedRows' /\ AloneOnRoute' /\ NothingWhenDown'
  BY <1>1 DEF OwnedRows, AloneOnRoute, NothingWhenDown
<1>4. OneJobPerKey' /\ FinalsOwn' /\ AwaitedClaims'
  BY <1>1 DEF OneJobPerKey, FinalsOwn, AwaitedClaims
<1>5. EveryClaimHasAnHeir'
  <2> SUFFICES ASSUME NEW k \in Keys, owner[k] # None PROVE HasHeir(k)'
    BY DEF EveryClaimHasAnHeir
  <2>1. owner[k] = j.turn /\ j.awaited => answer[j.turn] = "none"
    BY <1>1, <1>2 DEF Stages, Claiming, Jobless
  <2> QED
    BY <1>1, <2>1 DEF EveryClaimHasAnHeir, HasHeir
<1>6. ASSUME NEW t \in Turns PROVE (Resting(t) /\ Queued(t))'
  BY <1>1, <1>2 DEF Stages, Resting, Queued, Jobless
<1>7. ASSUME NEW t \in Turns PROVE Claiming(t)'
  BY <1>1, <1>2 DEF Stages, Claiming, Wanted, Owns, Job, Jobless
<1>8. ASSUME NEW t \in Turns PROVE AtWork(t)'
  BY <1>1, <1>2 DEF Stages, AtWork, Working, Owns, Jobless
<1>9. ASSUME NEW t \in Turns PROVE Finishing(t)'
  BY <1>1, <1>2 DEF Stages, Finishing, Settles, FinalOp, FinalName, Job
<1> QED
  BY <1>3, <1>4, <1>5, <1>6, <1>7, <1>8, <1>9 DEF Stages

LEMMA RunClaimStep ==
  ASSUME RoutedTurnInv, NEW j \in jobs, RunClaim(j)
  PROVE  RoutedTurnInv'
<1> USE DEF RoutedTurnInv, Shapes, Jobs
<1>1. /\ j.op = "claim" /\ j.turn \in Turns /\ j.key \in Keys /\ j.awaited \in BOOLEAN
      /\ UNCHANGED <<proc, pc, kind, ids, mine, fate, broken>>
  BY DEF RunClaim
<1>2. CASE rows[j.key] = "none"
  <2>1. /\ rows' = [rows EXCEPT ![j.key] = "processing"]
        /\ owner' = [owner EXCEPT ![j.key] = j.turn]
        /\ Deliver(j, "true")
    BY <1>2 DEF RunClaim, Insertable
  <2>2. owner[j.key] = None
    BY <1>1, <1>2 DEF OwnedRows
  <2>3. CASE j.awaited
    <3>1. /\ answer' = [answer EXCEPT ![j.turn] = "true"]
          /\ jobs' = jobs \ {j}
      BY <2>1, <2>3 DEF Deliver
    <3>2. pc[j.turn] = "claiming" /\ j = Job("claim", j.turn, Wanted(j.turn), TRUE)
      BY <1>1, <2>3 DEF AwaitedClaims, Stages, Claiming
    <3>3. Shapes'
      BY <1>1, <2>1, <3>1
    <3>4. OwnedRows' /\ AloneOnRoute'
      BY <1>1, <2>1 DEF OwnedRows, AloneOnRoute
    <3>5. OneJobPerKey' /\ FinalsOwn' /\ AwaitedClaims'
      BY <1>1, <2>1, <2>2, <3>1 DEF OneJobPerKey, FinalsOwn, AwaitedClaims
    <3>6. NothingWhenDown'
      BY <1>1 DEF NothingWhenDown, RunClaim
    <3>7. EveryClaimHasAnHeir'
      BY <1>1, <2>1, <2>2, <3>1, <3>2 DEF EveryClaimHasAnHeir, HasHeir, Wanted, Job
    <3>8. ASSUME NEW t \in Turns PROVE (Resting(t) /\ Queued(t))'
      BY <1>1, <3>1, <3>2 DEF Stages, Resting, Queued, Jobless
    <3>9. ASSUME NEW t \in Turns PROVE Claiming(t)'
      BY <1>1, <2>1, <2>2, <3>1, <3>2 DEF Stages, Claiming, Wanted, Owns, Job, Jobless
    <3>10. ASSUME NEW t \in Turns PROVE AtWork(t)'
      BY <1>1, <2>1, <2>2, <3>1, <3>2 DEF Stages, AtWork, Working, Owns, Jobless
    <3>11. ASSUME NEW t \in Turns PROVE Finishing(t)'
      BY <1>1, <1>2, <2>1, <2>2, <3>1, <3>2 DEF Stages, Finishing, Settles, FinalOp, FinalName, Job
    <3> QED
      BY <3>3, <3>4, <3>5, <3>6, <3>7, <3>8, <3>9, <3>10, <3>11 DEF Stages
  <2>4. CASE ~j.awaited
    <3> DEFINE heir == Belated(j.turn, j.key)
    <3>0. heir \in Jobs /\ heir.op = "release" /\ heir.turn = j.turn /\ heir.key = j.key
      BY <1>1, BelatedFields
    <3>1. /\ jobs' = (jobs \ {j}) \cup {heir}
          /\ answer' = answer
      BY <2>1, <2>4 DEF Deliver, ReleaseAbandoned, Belated, heir
    <3> HIDE DEF heir
    <3>2. pc[j.turn] \notin Working \cup {"claiming", "waiting"}
      BY <1>1, <2>4, JobStage DEF Working
    <3>3. Shapes'
      BY <1>1, <2>1, <3>0, <3>1
    <3>4. OwnedRows' /\ AloneOnRoute'
      BY <1>1, <2>1 DEF OwnedRows, AloneOnRoute
    <3>5. OneJobPerKey' /\ FinalsOwn' /\ AwaitedClaims'
      BY <1>1, <2>1, <2>2, <3>0, <3>1 DEF OneJobPerKey, FinalsOwn, AwaitedClaims
    <3>6. NothingWhenDown'
      BY <1>1 DEF NothingWhenDown, RunClaim
    <3>7. ASSUME NEW k \in Keys, owner'[k] # None PROVE HasHeir(k)'
      <4>1. CASE k = j.key
        BY <1>1, <2>1, <3>0, <3>1, <4>1 DEF HasHeir
      <4>2. CASE k # j.key
        <5>1. owner'[k] = owner[k] /\ HasHeir(k)
          BY <1>1, <2>1, <3>7, <4>2 DEF EveryClaimHasAnHeir
        <5> QED
          BY <1>1, <3>0, <3>1, <5>1 DEF HasHeir
      <4> QED
        BY <4>1, <4>2
    <3>8. ASSUME NEW t \in Turns PROVE (Resting(t) /\ Queued(t))'
      BY <1>1, <3>0, <3>1, <3>2 DEF Stages, Resting, Queued, Jobless
    <3>9. ASSUME NEW t \in Turns PROVE Claiming(t)'
      BY <1>1, <2>1, <2>2, <3>0, <3>1, <3>2 DEF Stages, Claiming, Wanted, Owns, Job, Jobless
    <3>10. ASSUME NEW t \in Turns PROVE AtWork(t)'
      BY <1>1, <2>1, <2>2, <3>0, <3>1, <3>2 DEF Stages, AtWork, Working, Owns, Jobless
    <3>11. ASSUME NEW t \in Turns PROVE Finishing(t)'
      BY <1>1, <1>2, <2>1, <2>2, <3>0, <3>1, <3>2 DEF Stages, Finishing, Settles, FinalOp,
         FinalName, Job
    <3> QED
      BY <3>3, <3>4, <3>5, <3>6, <3>7, <3>8, <3>9, <3>10, <3>11 DEF Stages, EveryClaimHasAnHeir
  <2> QED
    BY <2>3, <2>4
<1>3. CASE rows[j.key] # "none"
  <2>1. UNCHANGED <<rows, owner>> /\ Deliver(j, "false")
    BY <1>3 DEF RunClaim, Insertable
  <2> QED
    BY <1>1, <2>1, ClaimRefused DEF RunClaim
<1> QED
  BY <1>2, <1>3

LEMMA RunFinalStep ==
  ASSUME RoutedTurnInv, NEW j \in jobs, RunFinal(j)
  PROVE  RoutedTurnInv'
<1> USE DEF RoutedTurnInv, Shapes, Jobs
<1>1. /\ j.op \in {"mark", "release"} /\ j.turn \in Turns /\ j.key \in Keys
      /\ owner[j.key] = j.turn /\ rows[j.key] = "processing"
      /\ rows' = [rows EXCEPT ![j.key] = IF j.op = "mark" THEN "handled" ELSE "none"]
      /\ owner' = [owner EXCEPT ![j.key] = None]
      /\ jobs' = jobs \ {j}
      /\ UNCHANGED <<proc, pc, kind, ids, mine, fate, answer, broken>>
  <2>1. j.op \in {"mark", "release"} /\ j.turn \in Turns /\ j.key \in Keys
    BY DEF RunFinal
  <2>2. owner[j.key] = j.turn /\ rows[j.key] = "processing"
    <3>1. owner[j.key] = j.turn
      BY <2>1 DEF FinalsOwn
    <3> QED
      BY <2>1, <3>1 DEF OwnedRows
  <2>3. (IF j.op = "mark" THEN "handled" ELSE IF rows[j.key] = "processing" THEN "none" ELSE rows[j.key])
        = IF j.op = "mark" THEN "handled" ELSE "none"
    BY <2>2
  <2>4. rows' = [rows EXCEPT ![j.key] = IF j.op = "mark" THEN "handled" ELSE "none"]
    BY <2>3, Zenon DEF RunFinal
  <2> QED
    BY <2>1, <2>2, <2>4 DEF RunFinal, turnVars
<1>2. pc[j.turn] \notin Working \cup {"claiming", "waiting"}
  BY <1>1, JobStage DEF Working
<1>3. Shapes'
  BY <1>1
<1>4. OwnedRows' /\ AloneOnRoute'
  BY <1>1 DEF OwnedRows, AloneOnRoute
<1>5. OneJobPerKey' /\ FinalsOwn' /\ AwaitedClaims'
  BY <1>1 DEF OneJobPerKey, FinalsOwn, AwaitedClaims
<1>6. NothingWhenDown'
  BY <1>1 DEF NothingWhenDown
<1>7. EveryClaimHasAnHeir'
  BY <1>1 DEF EveryClaimHasAnHeir, HasHeir
<1>8. ASSUME NEW t \in Turns PROVE (Resting(t) /\ Queued(t))'
  BY <1>1 DEF Stages, Resting, Queued, Jobless
<1>9. ASSUME NEW t \in Turns PROVE Claiming(t)'
  BY <1>1, <1>2 DEF Stages, Claiming, Wanted, Owns, Job, Jobless
<1>10. ASSUME NEW t \in Turns PROVE AtWork(t)'
  BY <1>1, <1>2 DEF Stages, AtWork, Working, Owns, Jobless
<1>11. ASSUME NEW t \in Turns PROVE Finishing(t)'
  BY <1>1, <1>2 DEF Stages, Finishing, Settles, FinalOp, FinalName, FinalsOwn, OneJobPerKey, Job
<1> QED
  BY <1>3, <1>4, <1>5, <1>6, <1>7, <1>8, <1>9, <1>10, <1>11 DEF Stages

LEMMA FailJobStep ==
  ASSUME RoutedTurnInv, NEW j \in jobs, FailJob(j)
  PROVE  RoutedTurnInv'
<1> USE DEF RoutedTurnInv, Shapes, Jobs
<1>1. CASE j.op = "claim"
  BY <1>1, ClaimRefused DEF FailJob
<1>2. CASE j.op # "claim"
  <2>1. /\ j.op \in {"mark", "release"} /\ j.turn \in Turns /\ j.key \in Keys
        /\ owner[j.key] = j.turn
        /\ owner' = [owner EXCEPT ![j.key] = None]
        /\ jobs' = jobs \ {j}
        /\ broken' = [broken EXCEPT ![j.turn] = IF j.awaited THEN @ \cup {j.key} ELSE @]
        /\ UNCHANGED <<proc, rows, pc, kind, ids, mine, fate, answer>>
    BY <1>2 DEF FailJob, FinalsOwn
  <2>2. pc[j.turn] \notin Working \cup {"claiming", "waiting"}
    BY <2>1, JobStage DEF Working
  <2>3. Shapes'
    BY <2>1
  <2>4. OwnedRows' /\ AloneOnRoute'
    BY <2>1 DEF OwnedRows, AloneOnRoute
  <2>5. OneJobPerKey' /\ FinalsOwn' /\ AwaitedClaims'
    BY <2>1 DEF OneJobPerKey, FinalsOwn, AwaitedClaims
  <2>6. NothingWhenDown'
    BY <2>1 DEF NothingWhenDown
  <2>7. EveryClaimHasAnHeir'
    BY <2>1 DEF EveryClaimHasAnHeir, HasHeir
  <2>8. ASSUME NEW t \in Turns PROVE (Resting(t) /\ Queued(t))'
    BY <2>1 DEF Stages, Resting, Queued, Jobless
  <2>9. ASSUME NEW t \in Turns PROVE Claiming(t)'
    BY <2>1, <2>2 DEF Stages, Claiming, Wanted, Owns, Job, Jobless
  <2>10. ASSUME NEW t \in Turns PROVE AtWork(t)'
    BY <2>1, <2>2 DEF Stages, AtWork, Working, Owns, Jobless
  <2>11. ASSUME NEW t \in Turns PROVE Finishing(t)'
    BY <2>1, <2>2 DEF Stages, Finishing, Settles, FinalOp, FinalName, FinalsOwn, OneJobPerKey, Job
  <2> QED
    BY <2>3, <2>4, <2>5, <2>6, <2>7, <2>8, <2>9, <2>10, <2>11 DEF Stages
<1> QED
  BY <1>1, <1>2

-----------------------------------------------------------------------------
(* The coroutine. *)

(* A step of one turn that leaves the store alone says nothing new of the   *)
(* others, unless it dispatches while one of them finishes.                 *)
LEMMA OthersKept ==
  ASSUME RoutedTurnInv, NEW t \in Turns, UNCHANGED <<rows, owner>>,
         \A u \in Turns \ {t} :
            /\ pc'[u] = pc[u] /\ ids'[u] = ids[u] /\ mine'[u] = mine[u]
            /\ fate'[u] = fate[u] /\ answer'[u] = answer[u] /\ broken'[u] = broken[u]
            /\ pc[u] = "finishing" => jobs' \subseteq jobs,
         \A j \in jobs \cup jobs' : j.turn # t => j \in jobs /\ j \in jobs',
         NEW u \in Turns, u # t
  PROVE  (Resting(u) /\ Queued(u) /\ Claiming(u) /\ AtWork(u) /\ Finishing(u))'
<1> USE DEF Shapes
<1>0. Resting(u) /\ Queued(u) /\ Claiming(u) /\ AtWork(u) /\ Finishing(u)
  BY DEF RoutedTurnInv, Stages
<1>1. Resting(u)'
  BY <1>0 DEF Resting
<1>2. Jobless(u) => Jobless(u)'
  BY DEF Jobless
<1>3. Queued(u)' /\ AtWork(u)'
  BY <1>0, <1>2 DEF Queued, AtWork, Owns
<1>4. Job("claim", u, Wanted(u), TRUE) \in jobs => Job("claim", u, Wanted(u), TRUE) \in jobs'
  BY DEF Job
<1>5. Wanted(u)' = Wanted(u) /\ Owns(u)' <=> Owns(u)
  BY DEF Wanted, Owns
<1>6. Claiming(u)'
  BY <1>0, <1>2, <1>4, <1>5 DEF Claiming
<1>7. Finishing(u)'
  <2>1. FinalOp(u)' = FinalOp(u)
    BY DEF FinalOp
  <2>3. CASE pc[u] = "finishing"
    <3>1. jobs' \subseteq jobs
      BY <2>3
    <3>2. \A k \in Keys : Settles(u, k) => Settles(u, k)'
      <4> SUFFICES ASSUME NEW k \in Keys, Settles(u, k) PROVE Settles(u, k)'
        OBVIOUS
      <4>1. Job(FinalOp(u), u, k, TRUE).turn = u
        BY DEF Job
      <4> QED
        BY <2>1, <3>1, <4>1 DEF Settles
    <3> QED
      BY <1>0, <2>3, <3>1, <3>2 DEF Finishing
  <2>4. CASE pc[u] # "finishing"
    BY <2>4 DEF Finishing
  <2> QED
    BY <2>3, <2>4
<1> QED
  BY <1>1, <1>3, <1>6, <1>7

(* It takes no heir from a claim of another turn. *)
LEMMA HeirsKept ==
  ASSUME RoutedTurnInv, NEW t \in Turns, owner' = owner,
         \A u \in Turns \ {t} : /\ pc'[u] = pc[u] /\ ids'[u] = ids[u]
                               /\ mine'[u] = mine[u] /\ answer'[u] = answer[u],
         \A j \in jobs : j.op # "claim" => j \in jobs',
         \A k \in Keys : owner[k] = t /\ HasHeir(k) => HasHeir(k)'
  PROVE  EveryClaimHasAnHeir'
<1> SUFFICES ASSUME NEW k \in Keys, owner[k] # None PROVE HasHeir(k)'
  BY DEF EveryClaimHasAnHeir
<1>1. HasHeir(k) /\ owner[k] \in Turns
  BY DEF RoutedTurnInv, Shapes, EveryClaimHasAnHeir
<1>2. CASE owner[k] = t
  BY <1>1, <1>2
<1>3. CASE owner[k] # t
  BY <1>1, <1>3 DEF HasHeir
<1> QED
  BY <1>2, <1>3

LEMMA AdmitStep ==
  ASSUME RoutedTurnInv, NEW t \in Turns, Admit(t)
  PROVE  RoutedTurnInv'
<1> USE DEF RoutedTurnInv, Shapes
<1>1. /\ proc = "up" /\ pc[t] = "idle" /\ Jobless(t)
      /\ \E s \in Identities : ids' = [ids EXCEPT ![t] = s]
      /\ \E o \in {"signal", "synthetic"} : kind' = [kind EXCEPT ![t] = o]
      /\ pc' = [pc EXCEPT ![t] = "waiting"]
      /\ broken' = [broken EXCEPT ![t] = {}]
      /\ UNCHANGED <<proc, rows, owner, jobs, mine, fate, answer>>
  BY DEF Admit, Jobless
<1>2. Resting(t) /\ mine[t] = <<>>
  BY <1>1 DEF Stages, Resting
<1>3. Shapes'
  BY <1>1, <1>2
<1>4. AloneOnRoute' /\ OwnedRows' /\ OneJobPerKey' /\ FinalsOwn' /\ NothingWhenDown'
  BY <1>1 DEF AloneOnRoute, OwnedRows, OneJobPerKey, FinalsOwn, NothingWhenDown, Live
<1>5. AwaitedClaims'
  BY <1>1, JobStage DEF AwaitedClaims, Jobless
<1>6. EveryClaimHasAnHeir'
  <2>1. \A k \in Keys : owner[k] = t /\ HasHeir(k) => HasHeir(k)'
    BY <1>1 DEF HasHeir, Live
  <2> QED
    BY <1>1, <2>1, HeirsKept
<1>7. (Resting(t) /\ Queued(t) /\ Claiming(t) /\ AtWork(t) /\ Finishing(t))'
  BY <1>1, <1>2 DEF Resting, Queued, Jobless, Claiming, AtWork, Working, Finishing
<1>8. Stages'
  BY <1>1, <1>7, OthersKept DEF Stages
<1> QED
  BY <1>3, <1>4, <1>5, <1>6, <1>8

LEMMA EnterRouteStep ==
  ASSUME RoutedTurnInv, NEW t \in Turns, EnterRoute(t)
  PROVE  RoutedTurnInv'
<1> DEFINE first == Job("claim", t, ids[t][1], TRUE)
<1> USE DEF RoutedTurnInv, Shapes
<1>1. /\ proc # "down" /\ pc[t] = "waiting" /\ LockFree
      /\ pc' = [pc EXCEPT ![t] = "claiming"]
      /\ jobs' = jobs \cup {first}
      /\ UNCHANGED <<proc, rows, owner, kind, ids, mine, fate, answer, broken>>
  BY DEF EnterRoute
<1>2. mine[t] = <<>> /\ answer[t] = "none" /\ ids[t] # <<>> /\ Jobless(t)
  BY <1>1 DEF Stages, Resting, Queued
<1>3. first \in Jobs /\ first.op = "claim" /\ first.turn = t /\ first.key = Wanted(t)
  BY <1>2 DEF Job, Jobs, Wanted
<1>4. first = Job("claim", t, Wanted(t), TRUE)
  BY <1>2 DEF Wanted
<1> HIDE DEF first
<1>5. Shapes'
  BY <1>1, <1>3 DEF Live
<1>6. AloneOnRoute' /\ OwnedRows' /\ FinalsOwn' /\ NothingWhenDown'
  BY <1>1, <1>3 DEF AloneOnRoute, OwnedRows, FinalsOwn, NothingWhenDown, LockFree
<1>7. OneJobPerKey' /\ AwaitedClaims'
  BY <1>1, <1>2, <1>3, JobStage DEF OneJobPerKey, AwaitedClaims, Jobless
<1>8. EveryClaimHasAnHeir'
  <2>1. \A k \in Keys : owner[k] = t /\ HasHeir(k) => HasHeir(k)'
    BY <1>1 DEF HasHeir, Live
  <2> QED
    BY <1>1, <2>1, HeirsKept
<1>9. (Resting(t) /\ Queued(t) /\ AtWork(t) /\ Finishing(t))'
  BY <1>1, <1>2 DEF Resting, Queued, AtWork, Working, Finishing
<1>10. Claiming(t)'
  <2>1. Wanted(t)' = Wanted(t)
    BY <1>1 DEF Wanted
  <2>2. first \in jobs' /\ \A j \in jobs' : j.turn = t => j = first
    BY <1>1, <1>2 DEF Jobless
  <2>3. Len(mine[t]) = 0 /\ Len(ids[t]) > 0 /\ ids[t] \in Seq(Keys)
    BY <1>2
  <2>4. Owns(t)' /\ Len(mine'[t]) < Len(ids'[t]) /\ answer'[t] = "none"
    BY <1>1, <1>2, <2>3 DEF Owns
  <2>5. \A j \in jobs' : j.turn = t => j = Job("claim", t, Wanted(t)', TRUE)
    BY <1>4, <2>1, <2>2
  <2>6. Job("claim", t, Wanted(t)', TRUE) \in jobs'
    BY <1>4, <2>1, <2>2
  <2> QED
    BY <2>4, <2>5, <2>6 DEF Claiming
<1>11. Stages'
  BY <1>1, <1>3, <1>9, <1>10, OthersKept DEF Stages, LockFree, Live
<1> QED
  BY <1>5, <1>6, <1>7, <1>8, <1>11

(* The prompt and its answer. *)
LEMMA WorkStep ==
  ASSUME RoutedTurnInv, NEW t \in Turns, StartPrompt(t) \/ PromptAnswered(t)
  PROVE  RoutedTurnInv'
<1> USE DEF RoutedTurnInv, Shapes
<1>1. /\ pc[t] \in Working
      /\ \E s \in Working : pc' = [pc EXCEPT ![t] = s]
      /\ UNCHANGED <<proc, rows, owner, jobs, kind, ids, mine, fate, answer, broken>>
  BY DEF StartPrompt, PromptAnswered, Working
<1>2. Shapes'
  BY <1>1 DEF Live, Working
<1>3. AloneOnRoute' /\ OwnedRows' /\ FinalsOwn' /\ NothingWhenDown' /\ OneJobPerKey'
  BY <1>1 DEF AloneOnRoute, OwnedRows, FinalsOwn, NothingWhenDown, OneJobPerKey, Live, Working
<1>4. AwaitedClaims'
  <2>1. pc' = [pc EXCEPT ![t] = pc'[t]] /\ pc[t] # "claiming"
    BY <1>1 DEF Working
  <2> QED
    BY <1>1, <2>1, JobStage DEF AwaitedClaims
<1>5. EveryClaimHasAnHeir'
  <2>1. \A k \in Keys : owner[k] = t /\ HasHeir(k) => HasHeir(k)'
    BY <1>1 DEF HasHeir, Live, Working
  <2> QED
    BY <1>1, <2>1, HeirsKept
<1>6. (Resting(t) /\ Queued(t) /\ Claiming(t) /\ AtWork(t) /\ Finishing(t))'
  <2>1. pc'[t] \in Working
    BY <1>1
  <2>2. AtWork(t)'
    BY <1>1, <2>1 DEF Stages, AtWork, Owns, Jobless
  <2> QED
    BY <2>1, <2>2 DEF Working, Resting, Queued, Claiming, Finishing
<1>7. Stages'
  BY <1>1, <1>6, OthersKept DEF Stages
<1> QED
  BY <1>2, <1>3, <1>4, <1>5, <1>7

(* The identity that was claimed joins those the turn owns. *)
LEMMA ClaimedStep ==
  ASSUME RoutedTurnInv, NEW t \in Turns, Claimed(t)
  PROVE  RoutedTurnInv'
<1> DEFINE n == Len(mine[t]) + 1
           next == Job("claim", t, ids[t][n + 1], TRUE)
<1> USE DEF RoutedTurnInv, Shapes
<1>1. /\ pc[t] = "claiming" /\ answer[t] = "true"
      /\ mine' = [mine EXCEPT ![t] = Append(mine[t], Wanted(t))]
      /\ answer' = [answer EXCEPT ![t] = "none"]
      /\ \/ n < Len(ids[t]) /\ jobs' = jobs \cup {next} /\ pc' = pc
         \/ ~(n < Len(ids[t])) /\ jobs' = jobs /\ pc' = [pc EXCEPT ![t] = "gate"]
      /\ UNCHANGED <<proc, rows, owner, kind, ids, fate, broken>>
  BY Zenon DEF Claimed, Wanted
<1>2. /\ Len(mine[t]) < Len(ids[t]) /\ Owns(t) /\ Jobless(t) /\ owner[Wanted(t)] = t
      /\ mine[t] \in Seq(Keys) /\ ids[t] \in Seq(Keys) /\ Wanted(t) \in Keys
  <2>1. Claiming(t) /\ mine[t] \in Seq(Keys) /\ ids[t] \in Seq(Keys)
    BY DEF Stages
  <2>2. Len(mine[t]) < Len(ids[t]) /\ Owns(t) /\ Jobless(t) /\ owner[Wanted(t)] = t
    BY <1>1, <2>1 DEF Claiming
  <2> QED
    BY <2>1, <2>2 DEF Wanted
<1>0. /\ n \in Nat /\ n >= 1 /\ Len(ids[t]) \in Nat /\ n <= Len(ids[t]) /\ n \in 1..n
      /\ 1..Len(mine[t]) \subseteq 1..n /\ \A i \in 1..n : i \in 1..Len(mine[t]) \/ i = n
  BY <1>2
<1>3. /\ mine'[t] \in Seq(Keys) /\ Len(mine'[t]) = n
      /\ mine'[t][n] = Wanted(t)
      /\ \A i \in 1..Len(mine[t]) : mine'[t][i] = mine[t][i]
      /\ DOMAIN mine[t] = 1..Len(mine[t]) /\ DOMAIN mine'[t] = 1..n
      /\ \A u \in Turns \ {t} : mine'[u] = mine[u]
  BY <1>1, <1>2
<1>4. Shapes'
  <2>1. \A i \in 1..Len(mine'[t]) : mine'[t][i] = ids[t][i]
    BY <1>0, <1>2, <1>3, ZenonT(60) DEF Wanted
  <2>2. mine' \in [Turns -> Seq(Keys)]
    BY <1>1, <1>2
  <2>3. n < Len(ids[t]) => next \in Jobs
    <3>1. n < Len(ids[t]) => ids[t][n + 1] \in Keys
      BY <1>2
    <3> QED
      BY <3>1, JobFields
  <2>4. jobs' \subseteq Jobs /\ pc' \in [Turns -> Live \cup {"idle", "waiting"}]
    BY <1>1, <2>3 DEF Live
  <2>5. Len(mine'[t]) <= Len(ids[t])
    BY <1>2, <1>3
  <2> QED
    BY <1>1, <1>3, <2>1, <2>2, <2>4, <2>5
<1>5. AloneOnRoute' /\ OwnedRows' /\ NothingWhenDown'
  BY <1>1, ZenonT(60) DEF AloneOnRoute, OwnedRows, NothingWhenDown, Live
<1>6. Owns(t)'
  BY <1>1, <1>2, <1>3 DEF Owns
<1>7. CASE n < Len(ids[t])
  <2>1. jobs' = jobs \cup {next} /\ pc' = pc
    BY <1>1, <1>7
  <2>2. Wanted(t)' = ids[t][n + 1] /\ ids[t][n + 1] \in Keys
    BY <1>1, <1>2, <1>3, <1>7 DEF Wanted
  <2>3. next.op = "claim" /\ next.turn = t /\ next = Job("claim", t, Wanted(t)', TRUE)
    BY <2>2 DEF Job
  <2> HIDE DEF next
  <2>4. OneJobPerKey' /\ FinalsOwn'
    <3>1. owner' = owner /\ \A j \in jobs : j.turn # t
      BY <1>1, <1>2 DEF Jobless
    <3> QED
      BY <2>1, <2>3, <3>1, ZenonT(60) DEF OneJobPerKey, FinalsOwn
  <2>5. AwaitedClaims'
    BY <1>1, <2>1, <2>3 DEF AwaitedClaims
  <2>6. EveryClaimHasAnHeir'
    <3>1. \A k \in Keys : owner[k] = t /\ HasHeir(k) => HasHeir(k)'
      <4> SUFFICES ASSUME NEW k \in Keys, owner[k] = t, HasHeir(k) PROVE HasHeir(k)'
        OBVIOUS
      <4>1. (\E i \in 1..Len(mine[t]) : mine[t][i] = k) \/ Wanted(t) = k
        BY <1>1, <1>2, <1>3 DEF HasHeir, Wanted, Jobless
      <4>2. \E i \in 1..n : mine'[t][i] = k
        BY <1>0, <1>3, <4>1, ZenonT(60)
      <4>3. pc'[t] \in Live \ {"finishing"}
        BY <1>1, <2>1 DEF Live
      <4> QED
        BY <1>1, <1>3, <4>2, <4>3 DEF HasHeir
    <3> QED
      BY <1>1, <2>1, <3>1, HeirsKept
  <2>7. Claiming(t)'
    <3>1. \A j \in jobs' : j.turn = t => j = Job("claim", t, Wanted(t)', TRUE)
      BY <1>2, <2>1, <2>3 DEF Jobless
    <3>2. Job("claim", t, Wanted(t)', TRUE) \in jobs'
      BY <2>1, <2>3
    <3>3. Len(mine'[t]) < Len(ids'[t]) /\ answer'[t] = "none"
      BY <1>1, <1>3, <1>7
    <3> QED
      BY <1>6, <3>1, <3>2, <3>3 DEF Claiming
  <2>8. (Resting(t) /\ Queued(t) /\ AtWork(t) /\ Finishing(t))'
    BY <1>1, <2>1 DEF Resting, Queued, AtWork, Working, Finishing
  <2>9. Stages'
    <3>1. \A u \in Turns \ {t} : pc[u] # "finishing"
      BY <1>1 DEF AloneOnRoute, Live
    <3>2. \A j \in jobs \cup jobs' : j.turn # t => j \in jobs /\ j \in jobs'
      BY <2>1, <2>3
    <3>3. \A u \in Turns \ {t} :
             /\ pc'[u] = pc[u] /\ ids'[u] = ids[u] /\ mine'[u] = mine[u]
             /\ fate'[u] = fate[u] /\ answer'[u] = answer[u] /\ broken'[u] = broken[u]
      BY <1>1, <1>3, <2>1
    <3> QED
      BY <1>1, <2>7, <2>8, <3>1, <3>2, <3>3, OthersKept DEF Stages
  <2> QED
    BY <1>4, <1>5, <2>4, <2>5, <2>6, <2>9
<1>8. CASE ~(n < Len(ids[t]))
  <2>0. n = Len(ids[t])
    BY <1>0, <1>8
  <2>1. jobs' = jobs /\ pc' = [pc EXCEPT ![t] = "gate"]
    BY <1>1, <1>8
  <2>2. OneJobPerKey' /\ FinalsOwn'
    BY <1>1, <2>1 DEF OneJobPerKey, FinalsOwn
  <2>3. AwaitedClaims'
    BY <1>2, <2>1, JobStage DEF AwaitedClaims, Jobless
  <2>4. EveryClaimHasAnHeir'
    <3>1. \A k \in Keys : owner[k] = t /\ HasHeir(k) => HasHeir(k)'
      <4> SUFFICES ASSUME NEW k \in Keys, owner[k] = t, HasHeir(k) PROVE HasHeir(k)'
        OBVIOUS
      <4>1. (\E i \in 1..Len(mine[t]) : mine[t][i] = k) \/ Wanted(t) = k
        BY <1>1, <1>2, <1>3 DEF HasHeir, Wanted, Jobless
      <4>2. \E i \in 1..n : mine'[t][i] = k
        BY <1>0, <1>3, <4>1, ZenonT(60)
      <4>3. pc'[t] \in Live \ {"finishing"}
        BY <1>1, <2>1 DEF Live
      <4> QED
        BY <1>1, <1>3, <4>2, <4>3 DEF HasHeir
    <3> QED
      BY <1>1, <2>1, <3>1, HeirsKept
  <2>5. AtWork(t)'
    <3>1. Jobless(t)' /\ answer'[t] = "none" /\ Len(mine'[t]) = Len(ids'[t]) /\ ids'[t] # <<>>
      BY <1>1, <1>2, <1>3, <2>0, <2>1 DEF Jobless
    <3> QED
      BY <1>6, <3>1 DEF AtWork
  <2>6. (Resting(t) /\ Queued(t) /\ Claiming(t) /\ Finishing(t))'
    BY <1>1, <2>1 DEF Resting, Queued, Claiming, Finishing
  <2>7. Stages'
    BY <1>1, <1>3, <2>1, <2>5, <2>6, OthersKept DEF Stages
  <2> QED
    BY <1>4, <1>5, <2>2, <2>3, <2>4, <2>7
<1> QED
  BY <1>1, <1>7, <1>8

FinalJob(handled, t, k) == Job(FinalName(handled), t, k, TRUE)

LEMMA FinalizersFields ==
  ASSUME NEW t \in Turns, NEW handled \in BOOLEAN, mine[t] \in Seq(Keys)
  PROVE  /\ \A j \in Finalizers(t, handled) :
               /\ j \in Jobs /\ j.op = FinalName(handled) /\ j.turn = t
               /\ \E i \in 1..Len(mine[t]) : j.key = mine[t][i]
         /\ \A i, j \in Finalizers(t, handled) : i.key = j.key => i = j
         /\ \A i \in 1..Len(mine[t]) : \E j \in Finalizers(t, handled) : j.key = mine[t][i]
         /\ \A i \in 1..Len(mine[t]) : FinalJob(handled, t, mine[t][i]) \in Finalizers(t, handled)
<1> DEFINE o == FinalName(handled)
<1>3. o \in {"claim", "mark", "release"}
  BY DEF FinalName
<1>1. Finalizers(t, handled) = {Job(o, t, mine[t][i], TRUE) : i \in 1..Len(mine[t])}
  <2>1. DOMAIN mine[t] = 1..Len(mine[t])
    OBVIOUS
  <2> QED
    BY <2>1, Zenon DEF Finalizers, FinalName
<1>2. \A i \in 1..Len(mine[t]) : mine[t][i] \in Keys
  OBVIOUS
<1> HIDE DEF o
<1>4. \A k \in Keys : /\ Job(o, t, k, TRUE) \in Jobs /\ Job(o, t, k, TRUE).op = o
                     /\ Job(o, t, k, TRUE).turn = t /\ Job(o, t, k, TRUE).key = k
  BY <1>3 DEF Job, Jobs
<1> DEFINE final(k) == Job(o, t, k, TRUE)
<1>5. Finalizers(t, handled) = {final(mine[t][i]) : i \in 1..Len(mine[t])}
  BY <1>1
<1>6. \A k \in Keys : final(k) \in Jobs /\ final(k).op = o /\ final(k).turn = t /\ final(k).key = k
  BY <1>4
<1>7. \A i \in 1..Len(mine[t]) : final(mine[t][i]) \in Finalizers(t, handled)
  BY <1>5
<1> HIDE DEF final
<1>8. \A j \in Finalizers(t, handled) : \E i \in 1..Len(mine[t]) : j = final(mine[t][i])
  BY <1>5
<1>9. \A j \in Finalizers(t, handled) : j = final(j.key)
  BY <1>2, <1>6, <1>8
<1>10. \A i, j \in Finalizers(t, handled) : i.key = j.key => i = j
  BY <1>9
<1>11. \A j \in Finalizers(t, handled) :
          /\ j \in Jobs /\ j.op = o /\ j.turn = t
          /\ \E i \in 1..Len(mine[t]) : j.key = mine[t][i]
  BY <1>2, <1>6, <1>8
<1>12. \A i \in 1..Len(mine[t]) : \E j \in Finalizers(t, handled) : j.key = mine[t][i]
  BY <1>2, <1>6, <1>7
<1> QED
  BY <1>7, <1>10, <1>11, <1>12 DEF final, o, FinalJob

(* The coroutine reaches its finally: whatever it owns gets a worker, and   *)
(* what it leaves behind (others) is at most the worker of one identity it  *)
(* had not yet taken over.                                                  *)
LEMMA FinishWithStep ==
  ASSUME RoutedTurnInv, NEW t \in Turns, NEW handled \in BOOLEAN, NEW others,
         FinishWith(t, handled, others),
         pc[t] \in {"waiting", "claiming"} \cup Working,
         pc[t] = "waiting" => others = jobs,
         others \subseteq Jobs,
         \A j \in jobs \cup others : j.turn # t => j \in jobs /\ j \in others,
         \A i, j \in others : i.turn = t /\ j.turn = t => i = j,
         \A j \in others : j.turn = t =>
            /\ j.op # "mark" /\ ~(j.op = "claim" /\ j.awaited)
            /\ \A i \in 1..Len(mine[t]) : mine[t][i] # j.key
            /\ j.op = "release" => owner[j.key] = t,
         pc[t] = "claiming" /\ answer[t] = "true" =>
            \E j \in others : j.op = "release" /\ j.turn = t /\ j.key = Wanted(t)
  PROVE  RoutedTurnInv'
<1> USE DEF RoutedTurnInv, Shapes
<1>1. /\ answer' = [answer EXCEPT ![t] = "none"]
      /\ UNCHANGED <<proc, rows, owner, broken>>
  BY DEF FinishWith
<1>2. mine[t] \in Seq(Keys) /\ ids[t] \in Seq(Keys) /\ t \in Turns /\ handled \in BOOLEAN
  OBVIOUS
<1>3. Resting(t) /\ Queued(t) /\ Claiming(t) /\ AtWork(t)
  BY DEF Stages
<1>4. proc # "down"
  BY DEF NothingWhenDown, Working
<1>5. Owns(t)
  <2>1. CASE pc[t] = "waiting"
    BY <1>3, <2>1 DEF Resting, Owns
  <2>2. CASE pc[t] = "claiming"
    BY <1>3, <2>2 DEF Claiming
  <2>3. CASE pc[t] \in Working
    BY <1>3, <2>3 DEF AtWork
  <2> QED
    BY <2>1, <2>2, <2>3
<1>6. \A j \in jobs : j.turn = t => j.op = "claim"
  BY JobStage DEF Working
<1>7. \A i, k \in 1..Len(mine[t]) : mine[t][i] = mine[t][k] => i = k
  <2>1. /\ Len(mine[t]) \in Nat /\ Len(ids[t]) \in Nat /\ Len(mine[t]) <= Len(ids[t])
        /\ \A i \in 1..Len(mine[t]) : mine[t][i] = ids[t][i]
    BY <1>2
  <2>2. \A i, k \in 1..Len(ids[t]) : ids[t][i] = ids[t][k] => i = k
    <3>1. CASE ids[t] = <<>>
      BY <3>1
    <3>2. CASE ids[t] \in Identities
      BY ONLY <1>2, <3>2, IdentitiesOK
    <3> QED
      BY <3>1, <3>2
  <2>3. \A i \in 1..Len(mine[t]) : i \in 1..Len(ids[t])
    BY ONLY <2>1
  <2> QED
    BY ONLY <2>1, <2>2, <2>3
<1>8. CASE mine[t] = <<>>
  <2>1. /\ pc' = [pc EXCEPT ![t] = "idle"]
        /\ ids' = [ids EXCEPT ![t] = <<>>] /\ mine' = [mine EXCEPT ![t] = <<>>]
        /\ kind' = [kind EXCEPT ![t] = "signal"] /\ fate' = [fate EXCEPT ![t] = FALSE]
        /\ jobs' = others
    BY <1>8 DEF FinishWith, Forget
  <2>2. Shapes'
    BY <1>1, <2>1
  <2>3. AloneOnRoute' /\ OwnedRows' /\ NothingWhenDown'
    BY <1>1, <1>4, <2>1 DEF AloneOnRoute, OwnedRows, NothingWhenDown, Live
  <2>4. OneJobPerKey' /\ FinalsOwn'
    <3>1. \A j \in others : j.turn \in Turns /\ j.op \in {"claim", "mark", "release"}
      BY DEF Jobs
    <3>2. \A i, j \in others : i.turn = j.turn /\ i.key = j.key => i = j
      BY DEF OneJobPerKey
    <3>3. \A j \in others : j.op # "claim" => owner[j.key] = j.turn
      BY <3>1 DEF FinalsOwn
    <3> QED
      BY <1>1, <2>1, <3>2, <3>3 DEF OneJobPerKey, FinalsOwn
  <2>5. AwaitedClaims'
    BY <1>1, <2>1 DEF AwaitedClaims
  <2>6. EveryClaimHasAnHeir'
    <3>1. \A j \in jobs : j.op # "claim" => j \in jobs'
      BY <1>6, <2>1
    <3>2. ASSUME NEW k \in Keys, owner[k] = t, HasHeir(k) PROVE HasHeir(k)'
      <4>1. pc[t] = "claiming" /\ answer[t] = "true" /\ Wanted(t) = k
        BY <1>2, <1>6, <1>8, <3>2 DEF HasHeir, Wanted
      <4> QED
        BY <1>1, <2>1, <3>2, <4>1 DEF HasHeir
    <3> QED
      BY <1>1, <2>1, <3>1, <3>2, HeirsKept
  <2>7. (Resting(t) /\ Queued(t) /\ Claiming(t) /\ AtWork(t) /\ Finishing(t))'
    BY <1>1, <2>1 DEF Resting, Queued, Claiming, AtWork, Working, Finishing
  <2>8. \A u \in Turns \ {t} : pc[u] = "finishing" => jobs' \subseteq jobs
    BY <2>1 DEF AloneOnRoute, Live, Working
  <2>9. Stages'
    <3>1. \A u \in Turns \ {t} :
             /\ pc'[u] = pc[u] /\ ids'[u] = ids[u] /\ mine'[u] = mine[u]
             /\ fate'[u] = fate[u] /\ answer'[u] = answer[u] /\ broken'[u] = broken[u]
      BY <1>1, <2>1
    <3>2. \A j \in jobs \cup jobs' : j.turn # t => j \in jobs /\ j \in jobs'
      BY <2>1
    <3> QED
      BY <1>1, <2>7, <2>8, <3>1, <3>2, OthersKept, ZenonT(60) DEF Stages
  <2> QED
    BY <2>2, <2>3, <2>4, <2>5, <2>6, <2>9
<1>9. CASE mine[t] # <<>>
  <2> DEFINE op == FinalName(handled)
             finals == Finalizers(t, handled)
  <2>1. /\ pc' = [pc EXCEPT ![t] = "finishing"]
        /\ fate' = [fate EXCEPT ![t] = handled]
        /\ jobs' = others \cup finals
        /\ UNCHANGED <<kind, ids, mine>>
    BY <1>9 DEF FinishWith
  <2>2. /\ \A j \in finals : /\ j \in Jobs /\ j.op = op /\ j.turn = t
                            /\ \E i \in 1..Len(mine[t]) : j.key = mine[t][i]
        /\ \A i, j \in finals : i.key = j.key => i = j
        /\ \A i \in 1..Len(mine[t]) : \E j \in finals : j.key = mine[t][i]
        /\ \A i \in 1..Len(mine[t]) : FinalJob(handled, t, mine[t][i]) \in finals
    BY ONLY <1>2, FinalizersFields
  <2>3. \A k : FinalJob(handled, t, k) = Job(FinalOp(t)', t, k, TRUE)
    BY <2>1 DEF FinalOp, FinalJob
  <2>4. op \in {"mark", "release"} /\ (op = "mark" => handled)
    BY DEF FinalName
  <2> HIDE DEF op, finals
  <2>5. pc[t] \in {"claiming"} \cup Working /\ pc[t] \in Live
    BY <1>3, <1>9 DEF Resting, Live, Working
  <2>6. Shapes'
    <3>1. jobs' \subseteq Jobs
      BY <2>1, <2>2
    <3>2. pc' \in [Turns -> Live \cup {"idle", "waiting"}] /\ fate' \in [Turns -> BOOLEAN]
      BY <2>1 DEF Live
    <3>3. \A u \in Turns : /\ ids'[u] \in Identities \cup {<<>>} /\ Len(mine'[u]) <= Len(ids'[u])
                          /\ \A i \in 1..Len(mine'[u]) : mine'[u][i] = ids'[u][i]
      BY <2>1
    <3>4. answer' \in [Turns -> {"none", "true", "false", "error"}]
      BY <1>1
    <3> QED
      BY <1>1, <2>1, <3>1, <3>2, <3>3, <3>4
  <2>7. AloneOnRoute' /\ OwnedRows' /\ NothingWhenDown'
    BY <1>1, <1>4, <2>1, <2>5 DEF AloneOnRoute, OwnedRows, NothingWhenDown
  <2>8. OneJobPerKey'
    <3>1. \A i, j \in others : i.turn = j.turn /\ i.key = j.key => i = j
      BY DEF OneJobPerKey
    <3>2. \A i \in others, j \in finals : i.turn = j.turn => i.key # j.key
      BY <2>2
    <3> QED
      BY <2>1, <2>2, <3>1, <3>2 DEF OneJobPerKey
  <2>9. FinalsOwn'
    <3>1. \A j \in others : j.turn \in Turns /\ j.op \in {"claim", "mark", "release"}
      BY DEF Jobs
    <3>2. \A j \in others : j.op # "claim" => owner[j.key] = j.turn
      BY <3>1 DEF FinalsOwn
    <3>3. \A j \in finals : owner[j.key] = j.turn
      <4> SUFFICES ASSUME NEW j \in finals PROVE owner[j.key] = j.turn
        OBVIOUS
      <4>1. j.turn = t /\ \E i \in 1..Len(mine[t]) : j.key = mine[t][i]
        BY <2>2
      <4> QED
        BY <1>5, <4>1 DEF Owns
    <3> QED
      BY <1>1, <2>1, <3>2, <3>3 DEF FinalsOwn
  <2>10. AwaitedClaims'
    BY <1>1, <2>1, <2>2, <2>4 DEF AwaitedClaims
  <2>11. EveryClaimHasAnHeir'
    <3>1. \A j \in jobs : j.op # "claim" => j \in jobs'
      BY <1>6, <2>1
    <3>2. ASSUME NEW k \in Keys, owner[k] = t, HasHeir(k) PROVE HasHeir(k)'
      <4>1. CASE \E i \in 1..Len(mine[t]) : mine[t][i] = k
        <5>1. PICK i \in 1..Len(mine[t]) : mine[t][i] = k
          BY <4>1
        <5>2. \E j \in finals : j.op # "claim" /\ j.turn = t /\ j.key = k
          <6>1. PICK j \in finals : j.key = k
            BY <2>2, <5>1
          <6> QED
            BY <2>2, <2>4, <6>1
        <5> QED
          BY <1>1, <2>1, <3>2, <5>2 DEF HasHeir
      <4>2. CASE pc[t] = "claiming" /\ answer[t] = "true" /\ Wanted(t) = k
        BY <1>1, <2>1, <3>2, <4>2 DEF HasHeir
      <4> QED
        BY <1>2, <1>6, <3>2, <4>1, <4>2 DEF HasHeir, Wanted
    <3> QED
      BY <1>1, <2>1, <3>1, <3>2, HeirsKept
  <2>12. (Resting(t) /\ Queued(t) /\ Claiming(t) /\ AtWork(t))'
    BY <2>1 DEF Resting, Queued, Claiming, AtWork, Working
  <2>13. Finishing(t)'
    <3>1. \A j \in jobs' : j.op = "mark" /\ j.turn = t => handled
      BY <2>1, <2>2, <2>4
    <3>2. ASSUME NEW k \in Keys, NEW i \in 1..Len(mine[t]), mine[t][i] = k
          PROVE Settles(t, k)'
      <4>1. Job(FinalOp(t)', t, k, TRUE) \in jobs'
        <5>1. FinalJob(handled, t, k) \in jobs'
          BY <2>1, <2>2, <3>2
        <5> QED
          BY <2>3, <5>1, Zenon
      <4>2. ASSUME NEW j \in jobs', j.op = "mark", j.key = k PROVE j.turn = t
        <5>1. owner[k] = t
          BY <1>5, <3>2 DEF Owns
        <5>2. j \in finals \/ j.turn = t \/ j \in jobs
          BY <2>1, <4>2
        <5> QED
          BY <2>2, <4>2, <5>1, <5>2 DEF FinalsOwn
      <4> QED
        BY <4>1, <4>2 DEF Settles
    <3> QED
      BY <1>1, <2>1, <3>1, <3>2 DEF Finishing
  <2>14. \A u \in Turns \ {t} : pc[u] # "finishing"
    BY <2>5 DEF AloneOnRoute, Live
  <2>15. \A j \in jobs \cup jobs' : j.turn # t => j \in jobs /\ j \in jobs'
    BY <2>1, <2>2
  <2>16. Stages'
    BY <1>1, <2>1, <2>12, <2>13, <2>14, <2>15, OthersKept, ZenonT(60) DEF Stages
  <2> QED
    BY <2>6, <2>7, <2>8, <2>9, <2>10, <2>11, <2>16
<1> QED
  BY <1>8, <1>9

(* The ends of a turn that nothing interrupts. *)
LEMMA FinishStep ==
  ASSUME RoutedTurnInv, NEW t \in Turns, NEW handled \in BOOLEAN, Finish(t, handled),
         \/ pc[t] \in Working
         \/ pc[t] = "claiming" /\ answer[t] \in {"false", "error"}
  PROVE  RoutedTurnInv'
<1>1. FinishWith(t, handled, jobs)
  BY DEF Finish
<1>2. pc[t] \in {"waiting", "claiming"} \cup Working /\ pc[t] # "waiting"
  BY DEF Working
<1>3. jobs \subseteq Jobs
  BY DEF RoutedTurnInv, Shapes
<1>4. Jobless(t)
  BY DEF RoutedTurnInv, Stages, Claiming, AtWork
<1>5. /\ \A i, j \in jobs : i.turn = t /\ j.turn = t => i = j
      /\ \A j \in jobs : j.turn = t =>
            /\ j.op # "mark" /\ ~(j.op = "claim" /\ j.awaited)
            /\ \A i \in 1..Len(mine[t]) : mine[t][i] # j.key
            /\ j.op = "release" => owner[j.key] = t
  BY <1>4 DEF Jobless
<1>6. ~(pc[t] = "claiming" /\ answer[t] = "true")
  BY DEF Working
<1> QED
  BY <1>1, <1>2, <1>3, <1>5, <1>6, FinishWithStep

LEMMA EndStep ==
  ASSUME RoutedTurnInv, NEW t \in Turns,
         \/ Deduped(t) \/ Discard(t) \/ Refuse(t) \/ GiveUp(t)
         \/ PromptFailed(t) \/ Replied(t)
  PROVE  RoutedTurnInv'
<1>1. /\ \E handled \in BOOLEAN : Finish(t, handled)
      /\ \/ pc[t] \in Working
         \/ pc[t] = "claiming" /\ answer[t] \in {"false", "error"}
  BY DEF Deduped, Discard, Refuse, GiveUp, PromptFailed, Replied, Working
<1> QED
  BY <1>1, FinishStep

(* A cancelled claim is abandoned to its worker, or to a release of the     *)
(* row it was told about.                                                   *)
Minded(t, k) == Job("claim", t, k, TRUE)
Lost(t, k) == Job("claim", t, k, FALSE)

LEMMA AbandonedFields ==
  ASSUME NEW t \in Turns, NEW k \in Keys
  PROVE  /\ Minded(t, k).turn = t /\ Minded(t, k).op = "claim" /\ Minded(t, k).awaited
         /\ Lost(t, k) \in Jobs /\ Lost(t, k).turn = t /\ Lost(t, k).op = "claim"
         /\ ~Lost(t, k).awaited /\ Lost(t, k).key = k
         /\ [Minded(t, k) EXCEPT !.awaited = FALSE] = Lost(t, k)
<1>1. /\ Minded(t, k).turn = t /\ Minded(t, k).op = "claim" /\ Minded(t, k).awaited
      /\ Lost(t, k) \in Jobs /\ Lost(t, k).turn = t /\ Lost(t, k).op = "claim"
      /\ ~Lost(t, k).awaited /\ Lost(t, k).key = k
  BY DEF Minded, Lost, Job, Jobs
<1>2. [Minded(t, k) EXCEPT !.awaited = FALSE] = Lost(t, k)
  <2>1. \A a, b : [Job("claim", t, k, a) EXCEPT !.awaited = b] = Job("claim", t, k, b)
    BY DEF Job
  <2> QED
    BY <2>1, Zenon DEF Minded, Lost
<1> QED
  BY <1>1, <1>2

LEMMA CancelStep ==
  ASSUME RoutedTurnInv, NEW t \in Turns, Cancel(t)
  PROVE  RoutedTurnInv'
<1> DEFINE claims == {j \in jobs : j.turn = t /\ j.op = "claim" /\ j.awaited}
           left == {[j EXCEPT !.awaited = FALSE] : j \in claims}
           read == Job("claim", t, Wanted(t), FALSE)
           late == IF pc[t] = "claiming" /\ claims = {}
                   THEN ReleaseAbandoned(read, answer[t]) ELSE {}
           others == (jobs \ claims) \cup left \cup late
<1>1. /\ pc[t] \in {"waiting", "claiming"} \cup Working
      /\ \E handled \in BOOLEAN : FinishWith(t, handled, others)
  BY DEF Cancel, Working, Wanted
<1> PICK handled \in BOOLEAN : FinishWith(t, handled, others)
  BY <1>1
<1>2. Resting(t) /\ Queued(t) /\ Claiming(t) /\ AtWork(t)
  BY DEF RoutedTurnInv, Stages
<1>3. jobs \subseteq Jobs
  BY DEF RoutedTurnInv, Shapes
<1>4. Jobless(t) => left = {} /\ others = jobs \cup late
  <2> SUFFICES ASSUME Jobless(t) PROVE left = {} /\ others = jobs \cup late
    OBVIOUS
  <2>1. claims = {}
    BY DEF Jobless
  <2> QED
    BY <2>1
<1>5. CASE pc[t] \in {"waiting"} \cup Working \/ answer[t] \in {"false", "error"}
  <2>1. Jobless(t) /\ answer[t] # "true"
    BY <1>1, <1>2, <1>5 DEF Resting, Queued, Claiming, AtWork, Working
  <2>2. late = {}
    <3>1. CASE pc[t] = "claiming"
      BY <2>1 DEF ReleaseAbandoned
    <3>2. CASE pc[t] # "claiming"
      BY <3>2
    <3> QED
      BY <3>1, <3>2
  <2> HIDE DEF late, others, left
  <2>3. others = jobs
    BY <1>4, <2>1, <2>2
  <2>4. FinishWith(t, handled, jobs)
    BY <2>3
  <2>5. /\ \A i, j \in jobs : i.turn = t /\ j.turn = t => i = j
        /\ \A j \in jobs : j.turn = t =>
              /\ j.op # "mark" /\ ~(j.op = "claim" /\ j.awaited)
              /\ \A i \in 1..Len(mine[t]) : mine[t][i] # j.key
              /\ j.op = "release" => owner[j.key] = t
    BY <2>1 DEF Jobless
  <2> HIDE DEF claims
  <2> QED
    BY <1>1, <1>3, <2>1, <2>4, <2>5, FinishWithStep
<1>6. CASE pc[t] = "claiming" /\ answer[t] \in {"none", "true"}
  <2>1. /\ Len(mine[t]) < Len(ids[t]) /\ Owns(t)
        /\ mine[t] \in Seq(Keys) /\ ids[t] \in Seq(Keys)
        /\ ids[t] \in Identities \cup {<<>>}
        /\ \A i \in 1..Len(mine[t]) : mine[t][i] = ids[t][i]
    BY <1>2, <1>6 DEF Claiming, RoutedTurnInv, Shapes
  <2>2. Wanted(t) \in Keys /\ \A i \in 1..Len(mine[t]) : mine[t][i] # Wanted(t)
    <3> DEFINE n == Len(mine[t]) + 1
    <3>1. n \in 1..Len(ids[t]) /\ \A i \in 1..Len(mine[t]) : i \in 1..Len(ids[t]) /\ i # n
      BY <2>1
    <3>2. ids[t] # <<>> /\ ids[t] \in Identities
      BY <2>1
    <3>3. \A i \in 1..Len(ids[t]) : ids[t][i] = ids[t][n] => i = n
      BY <2>1, <3>1, <3>2
    <3>4. Wanted(t) = ids[t][n]
      BY DEF Wanted
    <3> HIDE DEF n
    <3> QED
      BY <2>1, <3>1, <3>3, <3>4
  <2>3. CASE answer[t] = "none"
    <3> DEFINE mind == Minded(t, Wanted(t))
               lost == Lost(t, Wanted(t))
    <3>1. mind \in jobs /\ \A j \in jobs : j.turn = t => j = mind
      BY <1>2, <1>6, <2>3, Zenon DEF Claiming, Minded
    <3>2. /\ mind.turn = t /\ mind.op = "claim" /\ mind.awaited
          /\ [mind EXCEPT !.awaited = FALSE] = lost
          /\ lost \in Jobs /\ lost.turn = t /\ lost.op = "claim"
          /\ ~lost.awaited /\ lost.key = Wanted(t)
      BY <2>2, AbandonedFields
    <3> HIDE DEF mind, lost
    <3>4. claims = {mind}
      BY <3>1, <3>2
    <3>5. left = {lost} /\ late = {}
      <4>1. left = {[j EXCEPT !.awaited = FALSE] : j \in {mind}}
        BY <3>4
      <4> QED
        BY <3>2, <3>4, <4>1
    <3>6. others = (jobs \ {mind}) \cup {lost}
      BY <3>4, <3>5
    <3> HIDE DEF claims, left, late, others
    <3>7. /\ others \subseteq Jobs
          /\ \A j \in jobs \cup others : j.turn # t => j \in jobs /\ j \in others
          /\ \A j \in others : j.turn = t => j = lost
      BY <1>3, <3>1, <3>2, <3>6
    <3>8. /\ \A i, j \in others : i.turn = t /\ j.turn = t => i = j
          /\ \A j \in others : j.turn = t =>
                /\ j.op # "mark" /\ ~(j.op = "claim" /\ j.awaited)
                /\ \A i \in 1..Len(mine[t]) : mine[t][i] # j.key
                /\ j.op = "release" => owner[j.key] = t
      BY <2>2, <3>2, <3>7
    <3> QED
      BY <1>1, <1>6, <2>3, <3>7, <3>8, FinishWithStep
  <2>4. CASE answer[t] = "true"
    <3>1. Jobless(t) /\ owner[Wanted(t)] = t
      BY <1>2, <1>6, <2>4 DEF Claiming
    <3> DEFINE heir == Belated(t, Wanted(t))
    <3>2. heir \in Jobs /\ heir.op = "release" /\ heir.turn = t /\ heir.key = Wanted(t)
      BY <2>2, BelatedFields
    <3>3. claims = {}
      BY <3>1 DEF Jobless
    <3>4. late = {heir}
      BY <1>6, <2>4, <3>3 DEF ReleaseAbandoned, Belated, Job
    <3> HIDE DEF heir, claims, left, late, others
    <3>5. others = jobs \cup {heir}
      BY <1>4, <3>1, <3>4
    <3>6. /\ others \subseteq Jobs
          /\ \A j \in jobs \cup others : j.turn # t => j \in jobs /\ j \in others
          /\ \A j \in others : j.turn = t => j = heir
      BY <1>3, <3>1, <3>2, <3>5 DEF Jobless
    <3>7. /\ \A i, j \in others : i.turn = t /\ j.turn = t => i = j
          /\ \A j \in others : j.turn = t =>
                /\ j.op # "mark" /\ ~(j.op = "claim" /\ j.awaited)
                /\ \A i \in 1..Len(mine[t]) : mine[t][i] # j.key
                /\ j.op = "release" => owner[j.key] = t
      BY <2>2, <3>1, <3>2, <3>6
    <3>8. \E j \in others : j.op = "release" /\ j.turn = t /\ j.key = Wanted(t)
      BY <3>2, <3>5
    <3> QED
      BY <1>1, <1>6, <3>6, <3>7, <3>8, FinishWithStep
  <2> QED
    BY <1>6, <2>3, <2>4
<1>7. answer[t] \in {"none", "true", "false", "error"}
  BY DEF RoutedTurnInv, Shapes
<1> QED
  BY <1>1, <1>5, <1>6, <1>7

(* The turn is over; a worker it no longer awaits may be left.              *)
LEMMA ForgetStep ==
  ASSUME RoutedTurnInv, NEW t \in Turns, pc[t] = "finishing", Forget(t),
         UNCHANGED <<proc, rows, owner, jobs, answer, broken>>
  PROVE  RoutedTurnInv'
<1> USE DEF RoutedTurnInv, Shapes
<1>1. /\ pc[t] = "finishing"
      /\ pc' = [pc EXCEPT ![t] = "idle"]
      /\ ids' = [ids EXCEPT ![t] = <<>>] /\ mine' = [mine EXCEPT ![t] = <<>>]
      /\ kind' = [kind EXCEPT ![t] = "signal"] /\ fate' = [fate EXCEPT ![t] = FALSE]
      /\ UNCHANGED <<proc, rows, owner, jobs, answer, broken>>
  BY DEF Forget
<1>2. answer[t] = "none"
  BY <1>1 DEF Stages, Finishing
<1>3. Shapes'
  BY <1>1
<1>4. AloneOnRoute' /\ OwnedRows' /\ OneJobPerKey' /\ FinalsOwn' /\ NothingWhenDown'
  BY <1>1 DEF AloneOnRoute, OwnedRows, OneJobPerKey, FinalsOwn, NothingWhenDown, Live
<1>5. AwaitedClaims'
  BY <1>1, JobStage DEF AwaitedClaims
<1>6. EveryClaimHasAnHeir'
  <2>1. \A k \in Keys : owner[k] = t /\ HasHeir(k) => HasHeir(k)'
    BY <1>1 DEF HasHeir, Live
  <2> QED
    BY <1>1, <2>1, HeirsKept
<1>7. (Resting(t) /\ Queued(t) /\ Claiming(t) /\ AtWork(t) /\ Finishing(t))'
  BY <1>1, <1>2 DEF Resting, Queued, Claiming, AtWork, Working, Finishing
<1>8. Stages'
  BY <1>1, <1>7, OthersKept DEF Stages
<1> QED
  BY <1>3, <1>4, <1>5, <1>6, <1>8

-----------------------------------------------------------------------------
(* The process, and every step together. *)

LEMMA StagesKept ==
  ASSUME Stages, UNCHANGED <<rows, owner, jobs, pc, ids, mine, fate, answer, broken>>
  PROVE  Stages'
<1>1. UNCHANGED <<rows, owner, jobs, pc, ids, mine, fate, answer, broken>>
  OBVIOUS
<1> SUFFICES ASSUME NEW t \in Turns
             PROVE  (Resting(t) /\ Queued(t) /\ Claiming(t) /\ AtWork(t) /\ Finishing(t))'
  BY DEF Stages
<1>2. Resting(t) /\ Queued(t) /\ Claiming(t) /\ AtWork(t) /\ Finishing(t)
  BY DEF Stages
<1>3. Jobless(t)' = Jobless(t) /\ Owns(t)' = Owns(t) /\ Wanted(t)' = Wanted(t)
  BY <1>1 DEF Jobless, Owns, Wanted
<1>4. (Resting(t) /\ Queued(t) /\ AtWork(t))'
  BY <1>1, <1>2, <1>3 DEF Resting, Queued, AtWork
<1>5. Claiming(t)'
  BY <1>1, <1>2, <1>3 DEF Claiming
<1>6. FinalOp(t)' = FinalOp(t)
  BY <1>1 DEF FinalOp
<1>7. \A k \in Keys : Settles(t, k) => Settles(t, k)'
  BY <1>1, <1>6 DEF Settles
<1>8. Finishing(t)'
  BY <1>1, <1>2, <1>7 DEF Finishing
<1> QED
  BY <1>4, <1>5, <1>8

LEMMA ProcessStep ==
  ASSUME RoutedTurnInv, BeginShutdown \/ CloseStore \/ ProcessEnds \/ StartProcess
  PROVE  RoutedTurnInv'
<1> USE DEF RoutedTurnInv, Shapes
<1>1. CASE BeginShutdown \/ CloseStore
  <2>1. /\ proc # "down" /\ proc' \in {"closing", "shut"}
        /\ UNCHANGED <<rows, owner, jobs, pc, kind, ids, mine, fate, answer, broken>>
    BY <1>1 DEF BeginShutdown, CloseStore, turnVars
  <2>2. Shapes' /\ AloneOnRoute' /\ OwnedRows' /\ OneJobPerKey' /\ FinalsOwn' /\ AwaitedClaims'
    BY <2>1 DEF AloneOnRoute, OwnedRows, OneJobPerKey, FinalsOwn, AwaitedClaims
  <2>3. NothingWhenDown' /\ EveryClaimHasAnHeir'
    BY <2>1 DEF NothingWhenDown, EveryClaimHasAnHeir, HasHeir
  <2>4. Stages'
    BY <2>1, StagesKept
  <2> QED
    BY <2>2, <2>3, <2>4
<1>2. CASE ProcessEnds
  BY <1>2 DEF ProcessEnds, Each, Jobs, Live, AloneOnRoute, OwnedRows, OneJobPerKey, FinalsOwn,
              Stages, Resting, Queued, Claiming, AtWork, Working, Finishing,
              AwaitedClaims, NothingWhenDown, EveryClaimHasAnHeir
<1>3. CASE StartProcess
  <2>1. /\ jobs = {} /\ \A k \in Keys : owner[k] = None
        /\ \A t \in Turns : pc[t] = "idle"
        /\ proc' = "up" /\ rows' \in [Keys -> {"none", "processing", "handled"}]
        /\ UNCHANGED <<owner, jobs, pc, kind, ids, mine, fate, answer, broken>>
    BY <1>3 DEF StartProcess, NothingWhenDown, turnVars
  <2>2. Shapes' /\ AloneOnRoute' /\ OwnedRows' /\ OneJobPerKey' /\ FinalsOwn' /\ AwaitedClaims'
    BY <2>1 DEF AloneOnRoute, OwnedRows, OneJobPerKey, FinalsOwn, AwaitedClaims
  <2>3. NothingWhenDown' /\ EveryClaimHasAnHeir'
    BY <2>1 DEF NothingWhenDown, EveryClaimHasAnHeir
  <2>4. Stages'
    BY <2>1 DEF Stages, Resting, Queued, Claiming, AtWork, Working, Finishing
  <2> QED
    BY <2>2, <2>3, <2>4
<1> QED
  BY <1>1, <1>2, <1>3

(* What a turn skipped weighs only on when it is through. *)
LEMMA SkippedStep ==
  ASSUME RoutedTurnInv,
         UNCHANGED <<proc, rows, owner, jobs, pc, kind, ids, mine, fate, answer, broken>>
  PROVE  RoutedTurnInv'
<1>1. Stages'
  BY StagesKept DEF RoutedTurnInv
<1>2. (Shapes /\ AloneOnRoute /\ OwnedRows /\ OneJobPerKey /\ FinalsOwn)'
  BY DEF RoutedTurnInv, Shapes, AloneOnRoute, OwnedRows, OneJobPerKey, FinalsOwn
<1>3. (AwaitedClaims /\ NothingWhenDown /\ EveryClaimHasAnHeir)'
  BY DEF RoutedTurnInv, AwaitedClaims, NothingWhenDown, EveryClaimHasAnHeir, HasHeir
<1> QED
  BY <1>1, <1>2, <1>3 DEF RoutedTurnInv

LEMMA CancelFinishDoes ==
  ASSUME NEW t \in Turns, CancelFinish(t)
  PROVE  /\ pc[t] = "finishing"
         /\ UNCHANGED <<proc, rows, owner, jobs, answer, broken>>
         /\ \/ Forget(t)
            \/ /\ UNCHANGED <<pc, kind, ids, mine, fate>>
               /\ \E i \in DOMAIN mine[t] :
                     skipped' = [skipped EXCEPT ![t] = @ \cup {mine[t][i]}]
<1>1. pc[t] = "finishing" /\ UNCHANGED <<proc, rows, owner, jobs, answer, broken>>
  BY DEF CancelFinish
<1>2. PICK i \in DOMAIN mine[t] :
         IF Through(t, skipped[t] \cup {mine[t][i]}) THEN Forget(t)
         ELSE /\ skipped' = [skipped EXCEPT ![t] = @ \cup {mine[t][i]}]
              /\ UNCHANGED <<pc, kind, ids, mine, fate>>
  BY DEF CancelFinish
<1> QED
  BY <1>1, <1>2, Zenon

LEMMA FinishingStep ==
  ASSUME RoutedTurnInv, NEW t \in Turns, Done(t) \/ CancelFinish(t)
  PROVE  RoutedTurnInv'
<1>1. /\ pc[t] = "finishing" /\ UNCHANGED <<proc, rows, owner, jobs, answer, broken>>
      /\ Forget(t) \/ UNCHANGED <<pc, kind, ids, mine, fate>>
  BY CancelFinishDoes DEF Done
<1>2. CASE Forget(t)
  BY <1>1, <1>2, ForgetStep
<1>3. CASE UNCHANGED <<pc, kind, ids, mine, fate>>
  BY <1>1, <1>3, SkippedStep
<1> QED
  BY <1>1, <1>2, <1>3

LEMMA InvStep == RoutedTurnInv /\ [Next]_vars => RoutedTurnInv'
<1> SUFFICES ASSUME RoutedTurnInv, [Next]_vars PROVE RoutedTurnInv'
  OBVIOUS
<1>1. ASSUME NEW t \in Turns, NEW k \in Keys, WorkerStep(t, k) PROVE RoutedTurnInv'
  BY <1>1, RunClaimStep, RunFinalStep, FailJobStep DEF WorkerStep
<1>2. ASSUME NEW t \in Turns, Admit(t) \/ TurnStep(t) \/ Cancel(t) \/ CancelFinish(t)
      PROVE  RoutedTurnInv'
  BY <1>2, AdmitStep, EnterRouteStep, ClaimedStep, EndStep, WorkStep, FinishingStep, CancelStep
  DEF TurnStep
<1>3. CASE BeginShutdown \/ CloseStore \/ ProcessEnds \/ StartProcess
  BY <1>3, ProcessStep
<1>4. CASE UNCHANGED vars
  BY <1>4, SkippedStep DEF vars, turnVars
<1> QED
  BY <1>1, <1>2, <1>3, <1>4 DEF Next

(* The invariant above holds whatever the instance. *)
THEOREM TurnsAreConsistent == Spec => []RoutedTurnInv
  BY InvInit, InvStep, PTL DEF Spec

-----------------------------------------------------------------------------
(* What the runs check. *)

(* What a turn skipped are identities of its own. *)
SkippedTyped == skipped \in [Turns -> SUBSET Keys]

LEMMA SkippedTypedStep ==
  RoutedTurnInv /\ SkippedTyped /\ [Next]_vars => SkippedTyped'
<1> SUFFICES ASSUME RoutedTurnInv, SkippedTyped, [Next]_vars PROVE SkippedTyped'
  OBVIOUS
<1>1. CASE UNCHANGED skipped
  BY <1>1 DEF SkippedTyped
<1>2. ASSUME NEW t \in Turns, Forget(t) PROVE SkippedTyped'
  BY <1>2 DEF Forget, SkippedTyped
<1>3. ASSUME NEW t \in Turns, NEW handled, NEW others, FinishWith(t, handled, others)
      PROVE  SkippedTyped'
  BY <1>1, <1>2, <1>3 DEF FinishWith
<1>4. ASSUME NEW t \in Turns, CancelFinish(t) PROVE SkippedTyped'
  <2>1. CASE Forget(t)
    BY <1>2, <2>1
  <2>2. ASSUME NEW i \in DOMAIN mine[t], skipped' = [skipped EXCEPT ![t] = @ \cup {mine[t][i]}]
        PROVE  SkippedTyped'
    <3>1. mine[t][i] \in Keys
      BY DEF RoutedTurnInv, Shapes
    <3> QED
      BY <2>2, <3>1 DEF SkippedTyped
  <2> QED
    BY <1>4, <2>1, <2>2, CancelFinishDoes
<1>5. ASSUME NEW t \in Turns, NEW k \in Keys, WorkerStep(t, k) PROVE UNCHANGED skipped
  BY <1>5 DEF WorkerStep, RunClaim, RunFinal, FailJob, turnVars
<1>6. ASSUME NEW t \in Turns, Admit(t) \/ TurnStep(t) \/ Cancel(t) PROVE SkippedTyped'
  <2>1. CASE \/ Admit(t) \/ EnterRoute(t) \/ Claimed(t) \/ StartPrompt(t) \/ PromptAnswered(t)
    BY <1>1, <2>1 DEF Admit, EnterRoute, Claimed, StartPrompt, PromptAnswered
  <2>2. CASE Done(t)
    BY <1>2, <2>2 DEF Done
  <2>3. CASE \/ Deduped(t) \/ Discard(t) \/ Refuse(t) \/ GiveUp(t) \/ PromptFailed(t)
            \/ Replied(t) \/ Cancel(t)
    BY <1>3, <2>3
    DEF Deduped, Discard, Refuse, GiveUp, PromptFailed, Replied, Cancel, Finish
  <2> QED
    BY <1>6, <2>1, <2>2, <2>3 DEF TurnStep
<1>7. CASE BeginShutdown \/ CloseStore \/ StartProcess
  BY <1>1, <1>7 DEF BeginShutdown, CloseStore, StartProcess, turnVars
<1>8. CASE ProcessEnds
  BY <1>8 DEF ProcessEnds, Each, SkippedTyped
<1> QED
  BY <1>1, <1>4, <1>5, <1>6, <1>7, <1>8 DEF Next, vars, turnVars

LEMMA InvTypes == RoutedTurnInv /\ SkippedTyped => TypeOK
<1> SUFFICES ASSUME RoutedTurnInv, SkippedTyped PROVE TypeOK
  OBVIOUS
<1> USE DEF RoutedTurnInv, Shapes
<1>1. ASSUME NEW t \in Turns PROVE IsPrefix(mine[t], ids[t])
  <2>1. /\ mine[t] \in Seq(Keys) /\ ids[t] \in Seq(Keys) /\ Len(mine[t]) <= Len(ids[t])
        /\ \A i \in 1..Len(mine[t]) : mine[t][i] = ids[t][i]
    OBVIOUS
  <2>2. SubSeq(mine[t], 1, Len(mine[t])) = SubSeq(ids[t], 1, Len(mine[t]))
    BY <2>1
  <2> QED
    BY <2>1, <2>2 DEF IsPrefix
<1>2. ids \in [Turns -> Identities \cup {<<>>}]
  OBVIOUS
<1> QED
  BY <1>1, <1>2 DEF TypeOK, SkippedTyped

(* The variables of a route's turns keep their types, and the identities a  *)
(* turn claimed stay a prefix of those it carries.                          *)
THEOREM TypeCorrect == Spec => []TypeOK
<1>1. Init => SkippedTyped
  BY DEF Init, Each, SkippedTyped
<1> QED
  BY <1>1, InvInit, InvStep, SkippedTypedStep, InvTypes, PTL DEF Spec

(* A turn works only while it owns every identity it carries, and no mark   *)
(* or release is ever in flight for the row of another turn: what           *)
(* DedupeStore asks of its callers.                                         *)
THEOREM TurnsOwnWhatTheyTouch == Spec => []OwnsWhatItTouches
<1>1. RoutedTurnInv => OwnsWhatItTouches
  <2> SUFFICES ASSUME RoutedTurnInv PROVE OwnsWhatItTouches
    OBVIOUS
  <2> USE DEF RoutedTurnInv, Shapes
  <2>1. WorkOwnsAll
    <3> SUFFICES ASSUME NEW t \in Turns, pc[t] \in Working, NEW i \in DOMAIN ids[t]
                 PROVE  owner[ids[t][i]] = t /\ rows[ids[t][i]] = "processing"
      BY DEF WorkOwnsAll, Working
    <3>1. Len(mine[t]) = Len(ids[t]) /\ Owns(t)
      BY DEF Stages, AtWork
    <3>2. i \in 1..Len(mine[t]) /\ mine[t][i] = ids[t][i] /\ ids[t][i] \in Keys
      BY <3>1
    <3>3. owner[ids[t][i]] = t
      BY <3>1, <3>2 DEF Owns
    <3> QED
      BY <3>2, <3>3 DEF OwnedRows
  <2>2. OwnerDiscipline
    BY JobStage DEF OwnerDiscipline, FinalsOwn, OwnedRows
  <2> QED
    BY <2>1, <2>2 DEF OwnsWhatItTouches
<1> QED
  BY <1>1, TurnsAreConsistent, PTL

(* Whatever was cancelled, failed or closed where, an inserted row has a    *)
(* turn, an answer or a worker that will resolve it.                        *)
THEOREM ClaimsHaveHeirs == Spec => []EveryClaimHasAnHeir
<1>1. RoutedTurnInv => EveryClaimHasAnHeir
  BY DEF RoutedTurnInv
<1> QED
  BY <1>1, TurnsAreConsistent, PTL

(* When the finalizers of a turn are through and none failed, all its       *)
(* identities are handled or none is.                                       *)
THEOREM IdentitiesShareFate == Spec => []IdentitiesTogether
<1>1. RoutedTurnInv => IdentitiesTogether
  <2> SUFFICES ASSUME RoutedTurnInv, NEW t \in Turns, pc[t] = "finishing",
                      FinalJobs(t) = {}, broken[t] = {}, NEW i \in DOMAIN mine[t]
               PROVE  rows[mine[t][i]] = "handled" <=> fate[t]
    BY DEF IdentitiesTogether
  <2> USE DEF RoutedTurnInv, Shapes
  <2>1. i \in 1..Len(mine[t]) /\ mine[t][i] \in Keys
    OBVIOUS
  <2>2. Settles(t, mine[t][i])
    BY <2>1 DEF Stages, Finishing
  <2>3. Job(FinalOp(t), t, mine[t][i], TRUE) \notin jobs
    <3>2. FinalOp(t) # "claim"
      BY DEF FinalOp, FinalName
    <3>3. \A j \in jobs : j.turn = t /\ j.awaited => j.op = "claim"
      BY DEF FinalJobs
    <3> DEFINE job == Job(FinalOp(t), t, mine[t][i], TRUE)
    <3>4. job.op # "claim" /\ job.turn = t /\ job.awaited
      BY <3>2 DEF Job
    <3> HIDE DEF job
    <3>5. job \notin jobs
      BY <3>3, <3>4
    <3> QED
      BY <3>5 DEF job
  <2> QED
    BY <2>2, <2>3 DEF Settles
<1> QED
  BY <1>1, TurnsAreConsistent, PTL

-----------------------------------------------------------------------------
(* The turns use the store as ClaimTable allows. *)

LEMMA ClaimInTable ==
  ASSUME RoutedTurnInv, NEW t \in Turns, NEW k \in Keys, rows[k] = "none",
         rows' = [rows EXCEPT ![k] = "processing"], owner' = [owner EXCEPT ![k] = t]
  PROVE  Table!Claim(<<t, k>>, k)
<1> USE DEF RoutedTurnInv, Shapes
<1>1. owner[k] = None
  BY DEF OwnedRows
<1>2. TableStatus[k] = "free" /\ TableHeld[<<t, k>>] = NoKey
  BY <1>1 DEF TableStatus, SeenAs, TableHeld
<1>3. TableStatus' = [TableStatus EXCEPT ![k] = "claimed"]
  BY DEF TableStatus, SeenAs
<1>4. TableHeld' = [TableHeld EXCEPT ![<<t, k>>] = k]
  <2>1. ASSUME NEW c \in Turns \X Keys
        PROVE  TableHeld'[c] = [TableHeld EXCEPT ![<<t, k>>] = k][c]
    BY <1>1 DEF TableHeld
  <2>2. /\ TableHeld' = [c \in Turns \X Keys |-> TableHeld'[c]]
        /\ DOMAIN TableHeld = Turns \X Keys
    BY DEF TableHeld
  <2> HIDE DEF TableHeld
  <2> QED
    BY <2>1, <2>2
<1> QED
  BY <1>2, <1>3, <1>4 DEF Table!Claim

(* What a turn owns is what its claimants hold. *)
LEMMA HeldInTable ==
  ASSUME Shapes, NEW t \in Turns, NEW k \in Keys, owner[k] = t,
         owner' = [owner EXCEPT ![k] = None]
  PROVE  /\ TableHeld[<<t, k>>] = k /\ k # NoKey
         /\ TableHeld' = [TableHeld EXCEPT ![<<t, k>>] = NoKey]
         /\ TableHeld' = [c \in Turns \X Keys |->
                            IF c \in {<<t, k>>} THEN NoKey ELSE TableHeld[c]]
<1>1. TableHeld[<<t, k>>] = k /\ k # NoKey
  BY DEF TableHeld
<1>2. ASSUME NEW c \in Turns \X Keys
      PROVE  TableHeld'[c] = IF c \in {<<t, k>>} THEN NoKey ELSE TableHeld[c]
  BY DEF TableHeld, Shapes
<1>3. /\ TableHeld' = [c \in Turns \X Keys |-> TableHeld'[c]]
      /\ TableHeld = [c \in Turns \X Keys |-> TableHeld[c]]
  BY DEF TableHeld
<1>4. TableHeld' = [c \in Turns \X Keys |-> IF c \in {<<t, k>>} THEN NoKey ELSE TableHeld[c]]
  BY <1>2, <1>3
<1> QED
  BY <1>1, <1>2, <1>3, <1>4

LEMMA WorkerInTable ==
  ASSUME RoutedTurnInv, NEW j \in jobs, RunClaim(j) \/ RunFinal(j) \/ FailJob(j)
  PROVE  [Table!TableNext]_(Table!tableVars)
<1>1. /\ j.op \in {"claim", "mark", "release"} /\ j.turn \in Turns /\ j.key \in Keys
  BY JobStage
<1> DEFINE t == j.turn
           k == j.key
           c == <<t, k>>
<1>2. c \in Turns \X Keys
  BY <1>1
<1>3. CASE UNCHANGED <<rows, owner>>
  BY <1>3 DEF TableStatus, TableHeld, Table!tableVars
<1>4. CASE RunClaim(j) /\ rows[k] = "none"
  <2>1. Table!Claim(c, k)
    BY <1>1, <1>4, ClaimInTable DEF RunClaim, Insertable
  <2> QED
    BY <1>1, <1>2, <2>1 DEF Table!TableNext
<1>5. CASE RunFinal(j)
  <2>1. /\ owner[k] = t /\ rows[k] = "processing"
        /\ owner' = [owner EXCEPT ![k] = None]
        /\ rows' = [rows EXCEPT ![k] = IF j.op = "mark" THEN "handled" ELSE "none"]
    <3>1. owner[k] = t /\ rows[k] = "processing"
      BY <1>1, <1>5 DEF RunFinal, RoutedTurnInv, FinalsOwn, OwnedRows
    <3>2. (IF j.op = "mark" THEN "handled" ELSE IF rows[k] = "processing" THEN "none" ELSE rows[k])
          = IF j.op = "mark" THEN "handled" ELSE "none"
      BY <3>1
    <3>3. rows' = [rows EXCEPT ![k] = IF j.op = "mark" THEN "handled" ELSE "none"]
      BY <1>5, <3>2, Zenon DEF RunFinal
    <3> QED
      BY <1>5, <3>1, <3>3 DEF RunFinal
  <2>2. /\ TableHeld[c] = k /\ k # NoKey
        /\ TableHeld' = [TableHeld EXCEPT ![c] = NoKey]
    BY <1>1, <2>1, HeldInTable DEF RoutedTurnInv
  <2>3. TableStatus' = [TableStatus EXCEPT ![k] = IF j.op = "mark" THEN "handled" ELSE "free"]
    BY <1>1, <2>1 DEF RoutedTurnInv, Shapes, TableStatus, SeenAs
  <2> HIDE DEF c, k, t
  <2>4. CASE j.op = "mark"
    BY <1>2, <2>2, <2>3, <2>4 DEF Table!TableNext, Table!MarkHandled
  <2>5. CASE j.op # "mark"
    BY <1>2, <2>2, <2>3, <2>5 DEF Table!TableNext, Table!Release
  <2> QED
    BY <2>4, <2>5
<1>6. CASE FailJob(j) /\ j.op # "claim"
  <2>1. owner[k] = t /\ owner' = [owner EXCEPT ![k] = None] /\ rows' = rows
    BY <1>1, <1>6 DEF FailJob, RoutedTurnInv, FinalsOwn
  <2>2. TableHeld' = [d \in Turns \X Keys |-> IF d \in {c} THEN NoKey ELSE TableHeld[d]]
    BY <1>1, <2>1, HeldInTable, ZenonT(60) DEF RoutedTurnInv
  <2>3. TableStatus' = TableStatus
    BY <2>1 DEF TableStatus
  <2>4. Table!Lose({c})
    BY <2>2, <2>3 DEF Table!Lose
  <2> QED
    BY <1>2, <2>4 DEF Table!TableNext
<1> QED
  BY <1>1, <1>3, <1>4, <1>5, <1>6 DEF RunClaim, Insertable, FailJob

LEMMA StepInTable ==
  RoutedTurnInv /\ [Next]_vars => [Table!TableNext]_(Table!tableVars)
<1> SUFFICES ASSUME RoutedTurnInv, [Next]_vars
             PROVE  [Table!TableNext]_(Table!tableVars)
  OBVIOUS
<1> USE DEF RoutedTurnInv, Shapes
<1>1. ASSUME NEW t \in Turns, NEW k \in Keys, WorkerStep(t, k)
      PROVE  [Table!TableNext]_(Table!tableVars)
  BY <1>1, WorkerInTable DEF WorkerStep
<1>2. CASE UNCHANGED <<rows, owner>>
  BY <1>2 DEF TableStatus, TableHeld, Table!tableVars
<1>3. CASE ProcessEnds
  <2>1. rows' = rows /\ owner' = [k \in Keys |-> None]
    BY <1>3 DEF ProcessEnds
  <2>2. TableHeld' = [c \in Turns \X Keys |->
                       IF c \in Turns \X Keys THEN NoKey ELSE TableHeld[c]]
    BY <2>1 DEF TableHeld
  <2>3. TableStatus' = TableStatus
    BY <2>1 DEF TableStatus
  <2>4. Table!Lose(Turns \X Keys)
    BY <2>2, <2>3 DEF Table!Lose
  <2> QED
    BY <2>4 DEF Table!TableNext
<1>4. CASE StartProcess
  <2>1. /\ \A k \in Keys : owner[k] = None
        /\ rows' = [k \in Keys |-> IF rows[k] = "processing" THEN "none" ELSE rows[k]]
        /\ owner' = owner
    BY <1>4 DEF StartProcess, NothingWhenDown
  <2>2. \A c \in Turns \X Keys : TableHeld[c] = NoKey
    BY <2>1 DEF TableHeld
  <2>3. TableHeld' = TableHeld
    BY <2>1 DEF TableHeld
  <2>4. TableStatus' = [k \in Keys |-> IF TableStatus[k] = "claimed" THEN "free" ELSE TableStatus[k]]
    BY <2>1 DEF TableStatus, SeenAs
  <2>5. Table!Reclaim
    BY <2>2, <2>3, <2>4 DEF Table!Reclaim
  <2> QED
    BY <2>5 DEF Table!TableNext
<1> QED
  BY <1>1, <1>2, <1>3, <1>4
  DEF Next, vars, TurnStep, Admit, EnterRoute, Claimed, Deduped, Discard, Refuse, GiveUp,
      StartPrompt, PromptAnswered, PromptFailed, Replied, Done, Cancel, CancelFinish, Finish,
      FinishWith,
      BeginShutdown, CloseStore

(* Seen through its rows and their owners, a route's turns only ever take   *)
(* the steps ClaimTable allows: nobody claims a row that is taken, marks or *)
(* releases one it does not hold, or reclaims a live one.                   *)
THEOREM TurnsUseTheTable == Spec => UsesClaimTable
<1>1. Init => Table!TableInit
  BY DEF Init, Table!TableInit, TableStatus, SeenAs, TableHeld
<1> QED
  BY <1>1, InvInit, InvStep, StepInTable, PTL DEF Spec, UsesClaimTable, Table!TableSpec
====
