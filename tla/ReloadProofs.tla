---- MODULE ReloadProofs ----
(***************************************************************************)
(* Proofs about a config reload: ReloadParse, the requests up to the swap, *)
(* for any number of clients, edits and hung parses; and ReloadReaper, the *)
(* reapers that clear away what it retires, for any routes, turns, reapers *)
(* and reloads.                                                            *)
(***************************************************************************)
EXTENDS ReloadParse, ReloadReaper, FiniteSetTheorems, SequenceTheorems, TLAPS

USE CapOK, NamesOK, ExecutorsOK

-----------------------------------------------------------------------------
(* The inductive invariant of the parse, one operator per idea. *)

(* The parse that e works on. *)
Job(e) == work[e][1]
Busy(e) == work[e] # <<>>

(* A thread is the executor's or was put aside, and few were.               *)
Threads ==
    /\ Cardinality(abandoned) <= MaxAbandoned
    /\ alive \subseteq abandoned \cup {executor}
    /\ executor # None => executor \in alive

(* One parse at a time, by a thread that lives. *)
Queues == \A e \in Executors : Len(work[e]) <= 1 /\ (Busy(e) => e \in alive)

(* Only the holder of the lock has a parse or an answer, and not both; what *)
(* else the executor works on is the parse that saturated it.               *)
Asked(q) == answer[q] # None \/ \E e \in Executors : Busy(e) /\ Job(e).of = q

Turnstile ==
    /\ \A e \in Executors : Busy(e) /\ Job(e).of # None =>
          /\ e = executor /\ Holds(Job(e).of) /\ answer[Job(e).of] = None
    /\ \A q \in Requests : answer[q] # None =>
          Holds(q) /\ executor # None /\ ~Busy(executor)
    /\ \A q \in Requests : Asked(q) => ~saturated
    /\ saturated => probe = executor /\ executor # None
    /\ executor # None /\ Busy(executor) => Job(executor).of # None \/ saturated

(* What was read is as old as its answer, and no older than what applies.   *)
Current ==
    /\ applied <= routes
    /\ edited # None => edited <= routes
    /\ \A e \in Executors : Busy(e) /\ Job(e).step = "parsed" =>
          Job(e).read <= routes /\ (Job(e).of # None => Job(e).read >= applied)
    /\ \A q \in Requests : answer[q] \in Versions =>
          /\ applied <= answer[q] /\ answer[q] <= routes
          /\ edited # None => answer[q] <= edited

ParseInv == ParseTypeOK /\ Threads /\ Queues /\ Turnstile /\ Current

LEMMA OneAtMost ==
  ASSUME NEW S, NEW s \in Seq(S), Len(s) <= 1, s # <<>>
  PROVE  Len(s) = 1 /\ s[1] \in S /\ Tail(s) = <<>> /\ DOMAIN s = {1}
<1>1. Len(s) = 1
  <2>1. Len(s) \in Nat \ {0}
    BY EmptySeq, Zenon
  <2>2. \A n \in Nat \ {0} : n <= 1 => n = 1
    OBVIOUS
  <2> QED
    BY <2>1, <2>2, Zenon
<1>2. Tail(s) \in Seq(S) /\ Len(Tail(s)) = 0
  BY <1>1, HeadTailProperties
<1>3. Tail(s) = <<>>
  BY <1>2, EmptySeq
<1>4. 1..1 = {1}
  OBVIOUS
<1>5. s[1] \in S
  BY <1>1
<1> QED
  BY <1>1, <1>3, <1>4, <1>5, LenProperties

LEMMA JobShape ==
  ASSUME ParseTypeOK, Queues, NEW e \in Executors, Busy(e)
  PROVE  /\ Job(e) \in Parses /\ Tail(work[e]) = <<>> /\ DOMAIN work[e] = {1}
         /\ Len(work[e]) = 1
<1>1. work[e] \in Seq(Parses) /\ Len(work[e]) <= 1 /\ work[e] # <<>>
  BY DEF ParseTypeOK, Queues, Busy
<1> QED
  BY <1>1, OneAtMost DEF Job

LEMMA NobodyParses == DOMAIN <<>> = {}
  OBVIOUS

LEMMA ParsingIs ==
  ASSUME ParseTypeOK, Queues, NEW q
  PROVE  Parsing(q) <=> \E e \in Executors : Busy(e) /\ Job(e).of = q
<1>1. \A e \in Executors : Busy(e) => DOMAIN work[e] = {1}
  BY JobShape
<1>2. \A e \in Executors : ~Busy(e) => DOMAIN work[e] = {}
  BY NobodyParses DEF Busy
<1> QED
  BY <1>1, <1>2 DEF Parsing, Job

(* A parse goes on, or is done and answers the request it belongs to.       *)
LEMMA ParseStepDoes ==
  ASSUME ParseTypeOK, Queues, NEW e \in Executors, ParseStep(e)
  PROVE  /\ UNCHANGED <<routes, edited, alive, requestVars>>
         /\ Busy(e) /\ work' \in [Executors -> Seq(Parses)]
         /\ \A f \in Executors \ {e} : work'[f] = work[f]
         /\ \/ \E p \in Parses :
                  /\ work'[e] = <<p>> /\ p.of = Job(e).of /\ answer' = answer
                  /\ p.step = "parsed" => p.read = routes
            \/ /\ work'[e] = <<>>
               /\ \E a \in Versions \cup {Failed} :
                     /\ answer' = IF Job(e).of = None THEN answer
                                  ELSE [answer EXCEPT ![Job(e).of] = a]
                     /\ a # Failed =>
                          edited = None /\ Job(e).step = "parsed" /\ a = Job(e).read
<1>1. UNCHANGED <<routes, edited, alive, requestVars>> /\ Busy(e)
  BY DEF ParseStep, Busy
<1>2. /\ Job(e) \in Parses /\ Tail(work[e]) = <<>> /\ work[e] \in Seq(Parses)
      /\ Len(work[e]) = 1
  BY <1>1, JobShape DEF ParseTypeOK
<1>0. /\ \A p \in Parses : <<p>> \in Seq(Parses)
      /\ <<>> \in Seq(Parses) /\ work \in [Executors -> Seq(Parses)]
  BY EmptySeq DEF ParseTypeOK
<1>3. \A p \in Parses : Proceed(e, p) =>
         /\ work' \in [Executors -> Seq(Parses)] /\ \A f \in Executors \ {e} : work'[f] = work[f]
         /\ work'[e] = <<p>> /\ answer' = answer
  <2> SUFFICES ASSUME NEW p \in Parses, Proceed(e, p)
               PROVE  /\ work' \in [Executors -> Seq(Parses)]
                      /\ \A f \in Executors \ {e} : work'[f] = work[f]
                      /\ work'[e] = <<p>> /\ answer' = answer
    OBVIOUS
  <2>1. [work[e] EXCEPT ![1] = p] = <<p>>
    BY <1>2, 1 \in 1..1, ExceptSeq, SeqEqual, <<p>> \in Seq(Parses), Len(<<p>>) = 1
  <2>2. work' = [work EXCEPT ![e] = <<p>>] /\ answer' = answer
    BY <2>1 DEF Proceed
  <2> QED
    BY <1>0, <2>2
<1>4. \A a : Answer(e, a) =>
         /\ work' \in [Executors -> Seq(Parses)] /\ \A f \in Executors \ {e} : work'[f] = work[f]
         /\ work'[e] = <<>>
         /\ answer' = IF Job(e).of = None THEN answer ELSE [answer EXCEPT ![Job(e).of] = a]
  <2> SUFFICES ASSUME NEW a, Answer(e, a)
               PROVE  /\ work' \in [Executors -> Seq(Parses)]
                      /\ \A f \in Executors \ {e} : work'[f] = work[f]
                      /\ work'[e] = <<>>
                      /\ answer' = IF Job(e).of = None THEN answer
                                   ELSE [answer EXCEPT ![Job(e).of] = a]
    OBVIOUS
  <2>1. work' = [work EXCEPT ![e] = <<>>]
    BY <1>2 DEF Answer
  <2>2. answer' = IF Job(e).of = None THEN answer ELSE [answer EXCEPT ![Job(e).of] = a]
    BY DEF Answer, Job
  <2> QED
    BY <1>0, <2>1, <2>2
<1>5. CASE Job(e).step = "queued"
  <2>1. Answer(e, Failed) \/ Proceed(e, [Job(e) EXCEPT !.step = "parsing"])
    BY <1>5 DEF ParseStep, Job
  <2>2. /\ [Job(e) EXCEPT !.step = "parsing"] \in Parses
        /\ [Job(e) EXCEPT !.step = "parsing"].of = Job(e).of
        /\ [Job(e) EXCEPT !.step = "parsing"].step = "parsing"
    BY <1>2 DEF Parses
  <2> QED
    <3>1. CASE Answer(e, Failed)
      BY <1>1, <1>4, <3>1, Zenon
    <3>2. CASE Proceed(e, [Job(e) EXCEPT !.step = "parsing"])
      <4> DEFINE p == [Job(e) EXCEPT !.step = "parsing"]
      <4>1. p \in Parses /\ p.of = Job(e).of /\ (p.step = "parsed" => p.read = routes)
        BY <2>2
      <4> HIDE DEF p
      <4> QED
        BY <1>1, <1>3, <3>2, <4>1, Zenon DEF p
    <3> QED
      BY <2>1, <3>1, <3>2
<1>6. CASE Job(e).step = "parsing"
  <2>1. \/ Answer(e, Failed)
        \/ Proceed(e, [Job(e) EXCEPT !.step = "parsed", !.read = routes])
    BY <1>6 DEF ParseStep, Job
  <2>2. /\ [Job(e) EXCEPT !.step = "parsed", !.read = routes] \in Parses
        /\ [Job(e) EXCEPT !.step = "parsed", !.read = routes].of = Job(e).of
        /\ [Job(e) EXCEPT !.step = "parsed", !.read = routes].read = routes
    BY <1>2 DEF Parses, ParseTypeOK
  <2> QED
    <3>1. CASE Answer(e, Failed)
      BY <1>1, <1>4, <3>1, Zenon
    <3>2. CASE Proceed(e, [Job(e) EXCEPT !.step = "parsed", !.read = routes])
      <4> DEFINE p == [Job(e) EXCEPT !.step = "parsed", !.read = routes]
      <4>1. p \in Parses /\ p.of = Job(e).of /\ p.read = routes
        BY <2>2
      <4> HIDE DEF p
      <4> QED
        BY <1>1, <1>3, <3>2, <4>1, Zenon DEF p
    <3> QED
      BY <2>1, <3>1, <3>2
<1>7. CASE Job(e).step = "parsed"
  <2>1. Answer(e, IF DriftedMeanwhile THEN Failed ELSE Job(e).read)
    BY <1>7 DEF ParseStep, Job
  <2>2. Job(e).read \in Versions
    BY <1>2 DEF Parses
  <2> QED
    <3> DEFINE a == IF DriftedMeanwhile THEN Failed ELSE Job(e).read
    <3>1. a \in Versions \cup {Failed}
      BY <2>2
    <3>2. a # Failed => edited = None /\ Job(e).step = "parsed" /\ a = Job(e).read
      BY <1>7 DEF DriftedMeanwhile
    <3> HIDE DEF a
    <3> QED
      BY <1>1, <1>4, <2>1, <3>1, <3>2, Zenon DEF a
<1> QED
  BY <1>2, <1>5, <1>6, <1>7 DEF Parses

(* A timeout makes nobody's what was the parse of its request.              *)
LEMMA TimesOutDoes ==
  ASSUME ParseTypeOK, Queues, NEW q \in Requests, TimesOut(q)
  PROVE  /\ work' \in [Executors -> Seq(Parses)]
         /\ \A e \in Executors :
               /\ Len(work'[e]) = Len(work[e]) /\ (work'[e] # <<>> <=> Busy(e))
               /\ Busy(e) =>
                     /\ work'[e][1].step = Job(e).step /\ work'[e][1].read = Job(e).read
                     /\ work'[e][1].of = IF Job(e).of = q THEN None ELSE Job(e).of
<1> DEFINE W(e) == [i \in DOMAIN work[e] |->
                      IF work[e][i].of = q THEN [work[e][i] EXCEPT !.of = None] ELSE work[e][i]]
<1>1. work' = [e \in Executors |-> W(e)]
  BY DEF TimesOut
<1>2. ASSUME NEW e \in Executors
      PROVE  /\ W(e) \in Seq(Parses) /\ Len(W(e)) = Len(work[e]) /\ (W(e) # <<>> <=> Busy(e))
             /\ Busy(e) => /\ W(e)[1].step = Job(e).step /\ W(e)[1].read = Job(e).read
                           /\ W(e)[1].of = IF Job(e).of = q THEN None ELSE Job(e).of
  <2>1. CASE Busy(e)
    <3>1. DOMAIN work[e] = 1..1 /\ Job(e) \in Parses /\ Len(work[e]) = 1
      BY <2>1, JobShape
    <3> DEFINE w == IF Job(e).of = q THEN [Job(e) EXCEPT !.of = None] ELSE Job(e)
    <3>2. /\ w \in Parses /\ w.step = Job(e).step /\ w.read = Job(e).read
          /\ w.of = IF Job(e).of = q THEN None ELSE Job(e).of
      BY <3>1 DEF Parses
    <3>3. W(e) = [i \in 1..1 |-> w]
      BY <3>1 DEF Job
    <3> HIDE DEF w, W
    <3>4. W(e) \in Seq(Parses) /\ Len(W(e)) = 1 /\ W(e)[1] = w /\ W(e) # <<>>
      <4>1. W(e) = <<w>>
        BY <3>3
      <4> QED
        BY <3>2, <4>1
    <3> QED
      BY <2>1, <3>1, <3>2, <3>4
  <2>2. CASE ~Busy(e)
    <3>1. work[e] = <<>>
      BY <2>2 DEF Busy
    <3>2. W(e) = [i \in {} |-> IF work[e][i].of = q THEN [work[e][i] EXCEPT !.of = None]
                               ELSE work[e][i]]
      BY <3>1, NobodyParses
    <3>3. W(e) = <<>>
      BY <3>2
    <3> HIDE DEF W
    <3> QED
      BY <2>2, <3>1, <3>3, EmptySeq
  <2> QED
    BY <2>1, <2>2
<1> HIDE DEF W
<1> QED
  BY <1>1, <1>2

(* There is a name for a new executor, and none has anything to do then.    *)
LEMMA UnusedLeft ==
  ASSUME ParseTypeOK, Threads, executor = None
  PROVE  \E e \in Executors : e \notin alive \cup abandoned
<1>1. alive \cup abandoned = abandoned
  BY DEF Threads, ParseTypeOK
<1>2. ~(Executors \subseteq abandoned)
  <2>1. abandoned \subseteq Executors /\ Cardinality(abandoned) <= MaxAbandoned
    BY DEF ParseTypeOK, Threads
  <2>2. SUFFICES ASSUME Executors = abandoned PROVE FALSE
    BY <2>1
  <2>3. Cardinality(Executors) \in Nat /\ Cardinality(abandoned) \in Nat
    BY <2>1, <2>2, FS_CardinalityType
  <2> QED
    BY <2>1, <2>2, <2>3
<1> QED
  BY <1>1, <1>2

LEMMA SubmitDoes ==
  ASSUME ParseTypeOK, Threads, Queues, Turnstile, NEW q \in Requests, Submit(q)
  PROVE  /\ executor' \in Executors /\ (executor # None => executor' = executor)
         /\ ~Busy(executor') /\ alive' = alive \cup {executor'}
         /\ work' \in [Executors -> Seq(Parses)]
         /\ \A e \in Executors \ {executor'} : work'[e] = work[e]
         /\ work'[executor'] = <<[step |-> "queued", read |-> 0, of |-> q]>>
         /\ [step |-> "queued", read |-> 0, of |-> q] \in Parses
<1>1. PassesGate(q) /\ Dispatch(q)
  BY DEF Submit
<1> DEFINE fresh == [step |-> "queued", read |-> 0, of |-> q]
<1>2. fresh \in Parses
  BY DEF Parses, Versions
<1>3. /\ executor' \in Executors /\ (executor # None => executor' = executor)
      /\ executor = None => executor' \notin alive \cup abandoned
  <2>1. CASE executor = None
    <3>1. executor' = CHOOSE e \in Unused : TRUE
      BY <1>1, <2>1 DEF Dispatch
    <3>2. \E e \in Unused : TRUE
      BY <2>1, UnusedLeft DEF Unused
    <3>3. executor' \in Unused
      BY <3>1, <3>2
    <3> QED
      BY <2>1, <3>3 DEF Unused
  <2>2. CASE executor # None
    BY <1>1, <2>2 DEF Dispatch, ParseTypeOK
  <2> QED
    BY <2>1, <2>2
<1>4. ~Busy(executor')
  <2>1. CASE executor = None
    BY <1>3, <2>1 DEF Queues
  <2>2. CASE executor # None
    <3>1. CASE saturated
      BY <1>1, <1>3, <2>2, <3>1 DEF PassesGate, WedgeClears, Turnstile, Busy
    <3>2. CASE ~saturated
      <4>1. executor \in Executors /\ (Busy(executor) => Job(executor).of # None)
        BY <2>2, <3>2 DEF Turnstile, ParseTypeOK
      <4>2. Busy(executor) => Holds(Job(executor).of)
        BY <4>1 DEF Turnstile
      <4>3. Holds(q) /\ ~Parsing(q)
        BY <1>1 DEF PassesGate, Starts
      <4> QED
        BY <1>3, <2>2, <4>1, <4>2, <4>3, ParsingIs DEF Holds
    <3> QED
      BY <3>1, <3>2
  <2> QED
    BY <2>1, <2>2
<1>5. /\ alive' = alive \cup {executor'}
      /\ work' = [work EXCEPT ![executor'] = Append(@, fresh)]
  BY <1>1 DEF Dispatch
<1> HIDE DEF fresh
<1>6. Append(work[executor'], fresh) = <<fresh>>
  <2>1. work[executor'] = <<>>
    BY <1>4 DEF Busy
  <2>2. Append(<<>>, fresh) = <<fresh>>
    OBVIOUS
  <2> QED
    BY <2>1, <2>2, Zenon
<1>7. <<fresh>> \in Seq(Parses)
  BY <1>2
<1> QED
  BY <1>2, <1>3, <1>4, <1>5, <1>6, <1>7 DEF fresh, ParseTypeOK

(* The lock is handed on.                                                   *)
LEMMA LeaveDoes ==
  ASSUME ParseTypeOK, NEW q \in Requests, Holds(q), Leave(q)
  PROVE  line' \in Seq(Requests) /\ answer' = [answer EXCEPT ![q] = None]
<1>1. line \in Seq(Requests) /\ line # <<>>
  BY DEF ParseTypeOK, Holds
<1> QED
  BY <1>1, HeadTailProperties DEF Leave

LEMMA OneHolds == \A p, q : Holds(p) /\ Holds(q) => p = q
  BY DEF Holds

-----------------------------------------------------------------------------
(* Each step keeps the invariant. *)

LEMMA ThreadKeeps ==
  ASSUME ParseInv, NEW e \in Executors, ThreadStep(e)
  PROVE  ParseInv'
<1> USE DEF ParseInv
<1>1. CASE ParseStep(e)
  <2>1. /\ UNCHANGED <<routes, edited, alive, requestVars>>
        /\ Busy(e) /\ work' \in [Executors -> Seq(Parses)]
        /\ \A f \in Executors \ {e} : work'[f] = work[f]
    BY <1>1, ParseStepDoes
  <2>2. Job(e) \in Parses /\ Len(work[e]) = 1
    BY <2>1, JobShape
  <2>3. \A f \in Executors \ {e} : /\ (Busy(f)' <=> Busy(f)) /\ Job(f)' = Job(f)
                                  /\ Len(work[f])' = Len(work[f])
    BY <2>1 DEF Busy, Job
  <2>4. CASE \E p \in Parses :
                /\ work'[e] = <<p>> /\ p.of = Job(e).of /\ answer' = answer
                /\ p.step = "parsed" => p.read = routes
    <3>1. PICK p \in Parses :
             /\ work'[e] = <<p>> /\ p.of = Job(e).of /\ answer' = answer
             /\ p.step = "parsed" => p.read = routes
      BY <2>4
    <3>2. Busy(e)' /\ Job(e)' = p /\ Len(work[e])' = 1
      BY <3>1 DEF Busy, Job
    <3>3. ParseTypeOK'
      BY <2>1, <3>1 DEF ParseTypeOK, requestVars
    <3>4. Threads' /\ Queues'
      <4>1. Threads'
        BY <2>1 DEF Threads, requestVars
      <4>2. e \in alive
        BY <2>1 DEF Queues
      <4>3. Queues'
        <5> SUFFICES ASSUME NEW f \in Executors
                     PROVE  Len(work'[f]) <= 1 /\ (work'[f] # <<>> => f \in alive')
          BY DEF Queues, Busy
        <5>1. CASE f = e
          <6>1. Len(work'[f]) = 1 /\ alive' = alive
            BY <2>1, <3>2, <5>1
          <6> QED
            BY <4>2, <5>1, <6>1
        <5>2. CASE f # e
          BY <2>1, <5>2 DEF Queues, Busy, requestVars
        <5> QED
          BY <5>1, <5>2
      <4> QED
        BY <4>1, <4>3
    <3>5. \A f \in Executors : (Busy(f)' <=> Busy(f)) /\ Job(f)'.of = Job(f).of
      BY <2>1, <2>3, <3>1, <3>2
    <3>6. Turnstile'
      <4>1. \A q \in Requests : Asked(q)' => Asked(q)
        BY <3>1, <3>5 DEF Asked
      <4>2. /\ answer' = answer /\ executor' = executor /\ probe' = probe
            /\ saturated' = saturated /\ \A q : Holds(q)' <=> Holds(q)
        BY <2>1, <3>1 DEF requestVars, Holds
      <4>3. executor' # None => /\ Busy(executor)' <=> Busy(executor)
                               /\ Job(executor)'.of = Job(executor).of
        <5>1. executor # None => executor \in Executors
          BY DEF ParseTypeOK
        <5> QED
          BY <3>5, <4>2, <5>1 DEF Busy, Job
      <4>4. \A q \in Requests : answer'[q] # None =>
               Holds(q)' /\ executor' # None /\ ~Busy(executor)'
        BY <4>2, <4>3 DEF Turnstile
      <4>5. /\ saturated' => probe' = executor' /\ executor' # None
            /\ \A q \in Requests : Asked(q)' => ~saturated'
        BY <4>1, <4>2 DEF Turnstile
      <4>6. executor' # None /\ Busy(executor)' => Job(executor)'.of # None \/ saturated'
        BY <4>2, <4>3 DEF Turnstile
      <4>7. \A f \in Executors : Busy(f)' /\ Job(f)'.of # None =>
               f = executor' /\ Holds(Job(f).of)' /\ answer'[Job(f)'.of] = None
        BY <3>5, <4>2 DEF Turnstile, Holds
      <4> QED
        BY <4>4, <4>5, <4>6, <4>7 DEF Turnstile
    <3>7. Current'
      <4>1. /\ routes' = routes /\ edited' = edited /\ applied' = applied /\ answer' = answer
            /\ routes \in Int /\ applied \in Int /\ applied <= routes
        BY <2>1, <3>1 DEF Current, requestVars, ParseTypeOK, Versions
      <4>2. \A f \in Executors : Busy(f)' /\ Job(f)'.step = "parsed" =>
               Job(f)'.read <= routes /\ (Job(f)'.of # None => Job(f)'.read >= applied)
        <5> SUFFICES ASSUME NEW f \in Executors, Busy(f)', Job(f)'.step = "parsed"
                     PROVE  /\ Job(f)'.read <= routes
                            /\ Job(f)'.of # None => Job(f)'.read >= applied
          OBVIOUS
        <5>1. CASE f = e
          <6>1. Job(f)'.read = routes
            BY <3>1, <3>2, <5>1
          <6> QED
            BY <4>1, <6>1
        <5>2. CASE f # e
          BY <2>3, <5>2 DEF Current
        <5> QED
          BY <5>1, <5>2
      <4> QED
        BY <4>1, <4>2 DEF Current
    <3> QED
      BY <3>3, <3>4, <3>6, <3>7
  <2>5. CASE /\ work'[e] = <<>>
             /\ \E a \in Versions \cup {Failed} :
                     /\ answer' = IF Job(e).of = None THEN answer
                                  ELSE [answer EXCEPT ![Job(e).of] = a]
                     /\ a # Failed =>
                          edited = None /\ Job(e).step = "parsed" /\ a = Job(e).read
    <3>1. PICK a \in Versions \cup {Failed} :
             /\ answer' = IF Job(e).of = None THEN answer
                          ELSE [answer EXCEPT ![Job(e).of] = a]
             /\ a # Failed => edited = None /\ Job(e).step = "parsed" /\ a = Job(e).read
      BY <2>5
    <3>2. ~Busy(e)' /\ Len(work[e])' = 0
      BY <2>5 DEF Busy
    <3>0. Job(e).of \in Requests \cup {None}
      BY <2>2 DEF Parses
    <3>3. ParseTypeOK'
      <4>1. answer' \in [Requests -> Versions \cup {Failed, None}]
        BY <3>0, <3>1 DEF ParseTypeOK
      <4> QED
        BY <2>1, <4>1 DEF ParseTypeOK, requestVars
    <3>4. Threads' /\ Queues'
      BY <2>1, <2>3, <3>2 DEF Threads, Queues, requestVars
    <3>5. \A q \in Requests : answer'[q] # answer[q] => q = Job(e).of /\ answer'[q] = a
      BY <3>1 DEF ParseTypeOK
    <3>6. Turnstile'
      <4>1. \A q \in Requests : Asked(q)' => Asked(q)
        BY <2>1, <2>3, <3>2, <3>5 DEF Asked
      <4>2. \A f \in Executors : Busy(f)' /\ Job(f)'.of # None =>
               /\ f = executor /\ Holds(Job(f).of) /\ answer'[Job(f).of] = None
        <5> SUFFICES ASSUME NEW f \in Executors, Busy(f)', Job(f)'.of # None
                     PROVE  /\ f = executor /\ Holds(Job(f).of) /\ answer'[Job(f).of] = None
          OBVIOUS
        <5>1. f # e /\ Busy(f) /\ Job(f).of # None
          BY <2>3, <3>2
        <5>2. f = executor /\ Holds(Job(f).of) /\ answer[Job(f).of] = None
          BY <5>1 DEF Turnstile
        <5>3. Job(e).of = None
          BY <2>1, <5>1, <5>2 DEF Turnstile
        <5> QED
          BY <3>1, <5>2, <5>3
      <4>3. \A q \in Requests : answer'[q] # None => Holds(q) /\ executor # None /\ ~Busy(executor)'
        <5> SUFFICES ASSUME NEW q \in Requests, answer'[q] # None
                     PROVE  Holds(q) /\ executor # None /\ ~Busy(executor)'
          OBVIOUS
        <5>1. CASE answer[q] # None
          BY <2>1, <2>3, <3>2, <5>1 DEF Turnstile, ParseTypeOK, requestVars
        <5>2. CASE answer[q] = None
          BY <2>1, <3>2, <3>5, <5>2 DEF Turnstile, requestVars
        <5> QED
          BY <5>1, <5>2
      <4> QED
        BY <2>1, <2>3, <3>2, <4>1, <4>2, <4>3 DEF Turnstile, requestVars, Holds, ParseTypeOK
    <3>7. Current'
      <4>1. \A q \in Requests : answer'[q] \in Versions =>
               /\ applied <= answer'[q] /\ answer'[q] <= routes
               /\ edited # None => answer'[q] <= edited
        <5> SUFFICES ASSUME NEW q \in Requests, answer'[q] \in Versions
                     PROVE  /\ applied <= answer'[q] /\ answer'[q] <= routes
                            /\ edited # None => answer'[q] <= edited
          OBVIOUS
        <5>1. CASE answer'[q] = answer[q]
          BY <5>1 DEF Current
        <5>2. CASE answer'[q] # answer[q]
          <6>1. q = Job(e).of /\ answer'[q] = a /\ a # Failed
            BY <3>5, <5>2 DEF Versions, Failed
          <6> QED
            BY <2>1, <3>1, <6>1 DEF Current
        <5> QED
          BY <5>1, <5>2
      <4> QED
        BY <2>1, <2>3, <3>2, <4>1 DEF Current, requestVars
    <3> QED
      BY <3>3, <3>4, <3>6, <3>7
  <2> QED
    BY <1>1, <2>4, <2>5, ParseStepDoes
<1>2. CASE ThreadExits(e)
  <2>1. /\ e # executor /\ ~Busy(e) /\ alive' = alive \ {e}
        /\ UNCHANGED <<routes, edited, answer, work, requestVars>>
    BY <1>2 DEF ThreadExits, Busy
  <2>2. \A f \in Executors : (Busy(f)' <=> Busy(f)) /\ Job(f)' = Job(f)
    BY <2>1 DEF Busy, Job
  <2>3. ParseTypeOK' /\ Threads' /\ Queues'
    BY <2>1, <2>2 DEF ParseTypeOK, Threads, Queues, Busy, requestVars
  <2>4. Turnstile' /\ Current'
    BY <2>1, <2>2 DEF Turnstile, Current, Asked, Holds, requestVars, Busy, Job
  <2> QED
    BY <2>3, <2>4
<1> QED
  BY <1>1, <1>2 DEF ThreadStep

(* The request that holds the lock leaves: no parse and no answer is its.   *)
LEMMA LeftTurnstile ==
  ASSUME ParseTypeOK, Turnstile, NEW q \in Requests, Holds(q), Leave(q),
         \A e \in Executors : (Busy(e)' <=> Busy(e)) /\ (Busy(e) => Job(e)'.of = None)
  PROVE  /\ \A e \in Executors : Busy(e)' => Job(e)'.of = None
         /\ \A p \in Requests : answer'[p] = None /\ ~Asked(p)'
<1>1. \A p \in Requests : answer'[p] = None
  <2>1. \A p \in Requests \ {q} : answer[p] = None
    BY OneHolds DEF Turnstile
  <2>2. answer' = [answer EXCEPT ![q] = None]
    BY LeaveDoes
  <2> QED
    BY <2>1, <2>2 DEF ParseTypeOK
<1> QED
  BY <1>1 DEF Asked

LEMMA RequestKeeps ==
  ASSUME ParseInv, NEW q \in Requests, RequestStep(q)
  PROVE  ParseInv'
<1> USE DEF ParseInv
<1>0. Holds(q)
  BY DEF RequestStep, FailFast, Refused, Submit, PassesGate, Starts, TimesOut, Apply
<1>a. \A e \in Executors : Busy(e) /\ Job(e).of # None => Job(e).of = q
  BY <1>0, OneHolds DEF Turnstile
<1>b. Starts(q) => \A e \in Executors : Busy(e) => Job(e).of = None
  BY <1>a, ParsingIs DEF Starts
<1>1. CASE FailFast(q) \/ Refused(q)
  <2>1. /\ Starts(q) /\ Leave(q) /\ UNCHANGED <<routes, edited, executor, alive, work, applied>>
        /\ abandoned' \in {abandoned, StillAlive}
        /\ \/ UNCHANGED <<saturated, probe>>
           \/ saturated' = FALSE /\ probe' = None /\ (saturated => WedgeClears)
    BY <1>1 DEF FailFast, Refused, PassesGate
  <2>2. line' \in Seq(Requests) /\ answer' \in [Requests -> Versions \cup {Failed, None}]
    BY <1>0, <2>1, LeaveDoes DEF ParseTypeOK
  <2>3. \A e \in Executors : (Busy(e)' <=> Busy(e)) /\ Job(e)' = Job(e)
    BY <2>1 DEF Busy, Job
  <2>4. /\ \A e \in Executors : Busy(e)' => Job(e)'.of = None
        /\ \A p \in Requests : answer'[p] = None /\ ~Asked(p)'
    BY <1>0, <1>b, <2>1, <2>3, LeftTurnstile
  <2>5. ParseTypeOK'
    BY <2>1, <2>2 DEF ParseTypeOK, StillAlive
  <2>6. Threads' /\ Queues'
    <3>1. Cardinality(StillAlive) <= Cardinality(abandoned) /\ Cardinality(StillAlive) \in Nat
          /\ Cardinality(abandoned) \in Nat
      <4>1. IsFiniteSet(abandoned)
        BY FS_Subset DEF ParseTypeOK
      <4>2. StillAlive \subseteq abandoned
        BY DEF StillAlive
      <4> QED
        BY <4>1, <4>2, FS_Subset, FS_CardinalityType
    <3>2. Threads'
      BY <2>1, <3>1 DEF Threads, StillAlive
    <3> QED
      BY <2>1, <3>2 DEF Queues, Busy
  <2>7. Turnstile'
    <3>1. saturated' => probe' = executor' /\ executor' # None
      BY <2>1 DEF Turnstile
    <3>2. executor' # None /\ Busy(executor)' => saturated'
      <4> SUFFICES ASSUME executor # None, Busy(executor), ~saturated'
                   PROVE  FALSE
        <5>1. executor' = executor /\ (Busy(executor)' <=> Busy(executor))
          BY <2>1 DEF Busy
        <5> QED
          BY <5>1
      <4>1. Job(executor).of = None
        BY <1>b, <2>1 DEF ParseTypeOK
      <4>2. saturated /\ probe = executor
        BY <4>1 DEF Turnstile
      <4>3. WedgeClears
        BY <2>1, <4>2
      <4> QED
        BY <4>2, <4>3 DEF WedgeClears, Busy
    <3> QED
      BY <2>4, <3>1, <3>2 DEF Turnstile
  <2>8. Current'
    <3>1. None \notin Versions
      BY DEF Versions
    <3> QED
      BY <2>1, <2>3, <2>4, <3>1 DEF Current
  <2> QED
    BY <2>5, <2>6, <2>7, <2>8
<1>2. CASE Submit(q)
  <2>1. /\ executor' \in Executors /\ (executor # None => executor' = executor)
        /\ ~Busy(executor') /\ alive' = alive \cup {executor'}
        /\ work' \in [Executors -> Seq(Parses)]
        /\ \A e \in Executors \ {executor'} : work'[e] = work[e]
        /\ work'[executor'] = <<[step |-> "queued", read |-> 0, of |-> q]>>
    BY <1>2, SubmitDoes
  <2>2. /\ UNCHANGED <<routes, edited, line, answer, applied>> /\ Starts(q)
        /\ saturated' = FALSE /\ probe' = None /\ abandoned' \in {abandoned, StillAlive}
    BY <1>2 DEF Submit, PassesGate
  <2>3. /\ \A e \in Executors \ {executor'} :
              (work'[e] # <<>> <=> Busy(e)) /\ work'[e][1] = Job(e) /\ Len(work'[e]) = Len(work[e])
        /\ work'[executor'] # <<>> /\ Len(work'[executor']) = 1
        /\ work'[executor'][1].of = q /\ work'[executor'][1].step = "queued"
    BY <2>1 DEF Busy, Job
  <2>4. ParseTypeOK'
    BY <2>1, <2>2 DEF ParseTypeOK, StillAlive
  <2>5. Threads'
    <3>1. Cardinality(StillAlive) <= Cardinality(abandoned) /\ Cardinality(StillAlive) \in Nat
          /\ Cardinality(abandoned) \in Nat
      <4>1. IsFiniteSet(abandoned)
        BY FS_Subset DEF ParseTypeOK
      <4>2. StillAlive \subseteq abandoned
        BY DEF StillAlive
      <4> QED
        BY <4>1, <4>2, FS_Subset, FS_CardinalityType
    <3> QED
      <4>1. executor' # None
        BY <2>1
      <4>2. alive' \subseteq abandoned' \cup {executor'}
        <5>1. alive \subseteq StillAlive \cup {executor} /\ None \notin alive
          BY DEF Threads, StillAlive, ParseTypeOK
        <5>2. StillAlive \subseteq abandoned'
          BY <2>2 DEF StillAlive
        <5>3. executor = executor' \/ executor = None
          BY <2>1
        <5> QED
          BY <2>1, <5>1, <5>2, <5>3
      <4>3. Cardinality(abandoned') <= MaxAbandoned
        BY <2>2, <3>1 DEF Threads
      <4> QED
        BY <2>1, <4>1, <4>2, <4>3 DEF Threads
  <2>6. Queues'
    <3> SUFFICES ASSUME NEW e \in Executors
                 PROVE  Len(work'[e]) <= 1 /\ (work'[e] # <<>> => e \in alive')
      BY DEF Queues, Busy
    <3>1. CASE e = executor'
      <4>1. Len(work'[e]) = 1 /\ e \in alive'
        BY <2>1, <2>3, <3>1
      <4> QED
        BY <4>1
    <3>2. CASE e # executor'
      BY <2>1, <2>3, <3>2 DEF Queues
    <3> QED
      BY <3>1, <3>2
  <2>7. Turnstile'
    <3>1. \A p \in Requests : answer[p] = None
      BY <1>0, <2>2, OneHolds DEF Turnstile, Starts
    <3> QED
      BY <1>0, <1>b, <2>1, <2>2, <2>3, <3>1 DEF Turnstile, Busy, Job, Holds, Starts
  <2>8. Current'
    BY <1>b, <2>1, <2>2, <2>3 DEF Current, Busy, Job
  <2> QED
    BY <2>4, <2>5, <2>6, <2>7, <2>8
<1>3. CASE TimesOut(q)
  <2>1. /\ Asked(q) /\ Detach /\ Leave(q) /\ UNCHANGED <<routes, edited, alive, applied>>
    BY <1>3, ParsingIs DEF TimesOut, Asked
  <2>2. /\ work' \in [Executors -> Seq(Parses)]
        /\ \A e \in Executors :
              /\ Len(work'[e]) = Len(work[e]) /\ (work'[e] # <<>> <=> Busy(e))
              /\ Busy(e) =>
                    /\ work'[e][1].step = Job(e).step /\ work'[e][1].read = Job(e).read
                    /\ work'[e][1].of = IF Job(e).of = q THEN None ELSE Job(e).of
    BY <1>3, TimesOutDoes
  <2>3. line' \in Seq(Requests) /\ answer' \in [Requests -> Versions \cup {Failed, None}]
    BY <1>0, <2>1, LeaveDoes DEF ParseTypeOK
  <2>4. \A e \in Executors : (Busy(e)' <=> Busy(e)) /\ (Busy(e) => Job(e)'.of = None)
    BY <1>a, <2>2 DEF Busy, Job
  <2>5. /\ \A e \in Executors : Busy(e)' => Job(e)'.of = None
        /\ \A p \in Requests : answer'[p] = None /\ ~Asked(p)'
    BY <1>0, <2>1, <2>4, LeftTurnstile
  <2>6. ~saturated /\ executor \in Executors /\ executor # None
    BY <2>1 DEF Turnstile, Asked, ParseTypeOK
  <2>7. /\ IsFiniteSet(StillAlive) /\ Cardinality(StillAlive) \in Nat
        /\ Cardinality(StillAlive) <= Cardinality(abandoned) /\ Cardinality(abandoned) \in Nat
    <3>1. IsFiniteSet(abandoned)
      BY FS_Subset DEF ParseTypeOK
    <3>2. StillAlive \subseteq abandoned
      BY DEF StillAlive
    <3> QED
      BY <3>1, <3>2, FS_Subset, FS_CardinalityType
  <2>8. CASE CapReached
    <3>1. saturated' = TRUE /\ probe' = executor /\ abandoned' = StillAlive /\ executor' = executor
      BY <2>1, <2>8 DEF Detach
    <3>2. ParseTypeOK'
      BY <2>1, <2>2, <2>3, <3>1 DEF ParseTypeOK, StillAlive
    <3>3. Threads'
      BY <2>1, <2>7, <3>1 DEF Threads, StillAlive
    <3>4. Turnstile'
      BY <2>5, <2>6, <3>1 DEF Turnstile
    <3> QED
      BY <3>2, <3>3, <3>4, <2>1, <2>2, <2>5 DEF Queues, Current, Busy, Job, Versions
  <2>9. CASE ~CapReached
    <3>1. /\ abandoned' = StillAlive \cup {executor} /\ executor' = None
          /\ UNCHANGED <<saturated, probe>>
      BY <2>1, <2>9 DEF Detach
    <3>2. ParseTypeOK'
      BY <2>1, <2>2, <2>3, <2>6, <3>1 DEF ParseTypeOK, StillAlive
    <3>3. Threads'
      <4>1. Cardinality(abandoned') <= Cardinality(StillAlive) + 1
        <5>1. Cardinality(abandoned') = IF executor \in StillAlive THEN Cardinality(StillAlive)
                                       ELSE Cardinality(StillAlive) + 1
          BY <2>7, <3>1, FS_AddElement, Zenon
        <5> QED
          BY <2>7, <5>1
      <4>2. Cardinality(abandoned') \in Nat
        BY <2>7, <3>1, FS_AddElement, FS_CardinalityType
      <4>3. Cardinality(StillAlive) < MaxAbandoned
        BY <2>7, <2>9 DEF CapReached
      <4>4. alive' \subseteq abandoned' \cup {executor'}
        BY <2>1, <3>1 DEF Threads, StillAlive
      <4> QED
        BY <2>7, <3>1, <4>1, <4>2, <4>3, <4>4 DEF Threads
    <3>4. Turnstile'
      BY <2>5, <2>6, <3>1 DEF Turnstile
    <3> QED
      BY <3>2, <3>3, <3>4, <2>1, <2>2, <2>5 DEF Queues, Current, Busy, Job, Versions
  <2> QED
    BY <2>8, <2>9
<1>4. CASE Apply(q)
  <2>1. /\ answer[q] # None /\ applied' \in {applied} \cup {v \in Versions : v = answer[q]}
        /\ Leave(q)
        /\ UNCHANGED <<routes, edited, executor, abandoned, alive, work, saturated, probe>>
    BY <1>4 DEF Apply
  <2>2. line' \in Seq(Requests) /\ answer' \in [Requests -> Versions \cup {Failed, None}]
    BY <1>0, <2>1, LeaveDoes DEF ParseTypeOK
  <2>3. \A e \in Executors : (Busy(e)' <=> Busy(e)) /\ Job(e)' = Job(e)
    BY <2>1 DEF Busy, Job
  <2>4. \A e \in Executors : Busy(e) => Job(e).of = None
    BY <1>a, <2>1 DEF Turnstile
  <2>5. /\ \A e \in Executors : Busy(e)' => Job(e)'.of = None
        /\ \A p \in Requests : answer'[p] = None /\ ~Asked(p)'
    BY <1>0, <2>1, <2>3, <2>4, LeftTurnstile
  <2>6. ParseTypeOK' /\ Threads' /\ Queues'
    BY <2>1, <2>2 DEF ParseTypeOK, Threads, Queues, Busy
  <2>7. Turnstile'
    BY <2>1, <2>4, <2>5 DEF Turnstile, Asked, Busy
  <2>8. Current'
    <3>1. applied' <= routes /\ None \notin Versions
      BY <2>1 DEF Current, Versions
    <3> QED
      BY <2>1, <2>3, <2>5, <3>1 DEF Current
  <2> QED
    BY <2>6, <2>7, <2>8
<1> QED
  BY <1>1, <1>2, <1>3, <1>4 DEF RequestStep

LEMMA OutsideKeeps ==
  ASSUME ParseInv, EditRoutes \/ EditConfig \/ \E q \in Requests : Arrive(q)
  PROVE  ParseInv'
<1> USE DEF ParseInv
<1>1. CASE EditRoutes \/ EditConfig
  <2>1. /\ UNCHANGED <<answer, alive, work, requestVars>>
        /\ \/ routes < MaxEdits /\ routes' = routes + 1 /\ edited' = edited
           \/ edited = None /\ edited' = routes /\ routes' = routes
    BY <1>1 DEF EditRoutes, EditConfig
  <2>2. ParseTypeOK'
    <3>1. routes' \in Versions /\ edited' \in Versions \cup {None}
      BY <2>1 DEF ParseTypeOK, Versions
    <3> QED
      BY <2>1, <3>1 DEF ParseTypeOK, requestVars
  <2>3. Threads' /\ Queues' /\ Turnstile'
    BY <2>1 DEF Threads, Queues, Turnstile, Asked, Holds, Busy, Job, requestVars
  <2>4. Current'
    <3>1. \A e \in Executors : Busy(e) => Job(e).read \in Int
      BY JobShape DEF Parses, Versions
    <3> QED
      BY <2>1, <3>1 DEF Current, Busy, Job, requestVars, ParseTypeOK, Versions
  <2> QED
    BY <2>2, <2>3, <2>4
<1>2. ASSUME NEW q \in Requests, Arrive(q) PROVE ParseInv'
  <2>1. /\ line' = Append(line, q)
        /\ UNCHANGED <<routes, edited, answer, executor, abandoned, alive, work,
                        saturated, probe, applied>>
    BY <1>2 DEF Arrive
  <2>2. line \in Seq(Requests)
    BY DEF ParseTypeOK
  <2>3. \A p : Holds(p) => Holds(p)'
    BY <2>1, <2>2 DEF Holds
  <2>4. ParseTypeOK' /\ Threads' /\ Queues' /\ Current'
    BY <2>1, <2>2 DEF ParseTypeOK, Threads, Queues, Current, Busy, Job
  <2>5. Turnstile'
    BY <2>1, <2>3 DEF Turnstile, Asked, Busy, Job
  <2> QED
    BY <2>4, <2>5
<1> QED
  BY <1>1, <1>2

LEMMA ParseInvInit == ParseInit => ParseInv
<1> SUFFICES ASSUME ParseInit PROVE ParseInv
  OBVIOUS
<1>1. ParseTypeOK
  <2>1. 0 \in Versions
    BY DEF Versions
  <2>2. <<>> \in Seq(Requests) /\ <<>> \in Seq(Parses)
    OBVIOUS
  <2> QED
    BY <2>1, <2>2 DEF ParseInit, ParseTypeOK
<1>2. Threads
  BY FS_EmptySet DEF ParseInit, Threads
<1>3. Queues /\ Turnstile
  BY EmptySeq DEF ParseInit, Queues, Turnstile, Asked, Busy
<1>4. Current
  BY DEF ParseInit, Current, Versions, Busy
<1> QED
  BY <1>1, <1>2, <1>3, <1>4 DEF ParseInv

LEMMA ParseInvStep == ParseInv /\ [ParseNext]_parseVars => ParseInv'
<1> SUFFICES ASSUME ParseInv, [ParseNext]_parseVars PROVE ParseInv'
  OBVIOUS
<1>1. CASE UNCHANGED parseVars
  BY <1>1 DEF parseVars, ParseInv, ParseTypeOK, Threads, Queues, Turnstile, Current,
              Asked, Holds, Busy, Job
<1>2. CASE ParseNext
  BY <1>2, ThreadKeeps, RequestKeeps, OutsideKeeps DEF ParseNext
<1> QED
  BY <1>1, <1>2

(* What the reloads rely on holds of every state they reach.                *)
THEOREM ParsesAreConsistent == ParseSpec => []ParseInv
  BY ParseInvInit, ParseInvStep, PTL DEF ParseSpec

(* Every variable keeps its type.                                           *)
THEOREM ParseTypeCorrect == ParseSpec => []ParseTypeOK
<1>1. ParseInv => ParseTypeOK
  BY DEF ParseInv
<1> QED
  BY <1>1, ParsesAreConsistent, PTL

(* However many clients reload and however many parses hang, there are      *)
(* never more threads than the cap and the executor in place, and no parse  *)
(* waits behind another.                                                    *)
THEOREM HungParsesBounded == ParseSpec => []WorkersBounded
<1>1. ParseInv => WorkersBounded
  <2> SUFFICES ASSUME ParseInv PROVE WorkersBounded
    OBVIOUS
  <2>1. IsFiniteSet(abandoned) /\ Cardinality(abandoned) \in Nat
    BY FS_Subset, FS_CardinalityType DEF ParseInv, ParseTypeOK
  <2>2. /\ IsFiniteSet(abandoned \cup {executor})
        /\ Cardinality(abandoned \cup {executor}) <= Cardinality(abandoned) + 1
        /\ Cardinality(abandoned \cup {executor}) \in Nat
    <3>1. /\ IsFiniteSet(abandoned \cup {executor})
          /\ Cardinality(abandoned \cup {executor}) =
                IF executor \in abandoned THEN Cardinality(abandoned)
                ELSE Cardinality(abandoned) + 1
      BY <2>1, FS_AddElement, Zenon
    <3> QED
      BY <2>1, <3>1, FS_CardinalityType
  <2>3. Cardinality(alive) <= Cardinality(abandoned \cup {executor}) /\ Cardinality(alive) \in Nat
    BY <2>2, FS_Subset, FS_CardinalityType DEF ParseInv, Threads
  <2>4. Cardinality(abandoned) <= MaxAbandoned
    BY DEF ParseInv, Threads
  <2> QED
    BY <2>1, <2>2, <2>3, <2>4 DEF ParseInv, Queues, WorkersBounded
<1> QED
  BY <1>1, ParsesAreConsistent, PTL

(* No swap goes back to an older routes file, and none takes one that was   *)
(* written after config.yaml had changed.                                   *)
THEOREM SwapsCurrent == ParseSpec => SwapsAreCurrent
<1>1. ParseInv /\ [ParseNext]_parseVars => [NeverOlder /\ RoutesOnly]_applied
  <2> SUFFICES ASSUME ParseInv, ParseNext, applied' # applied
               PROVE  NeverOlder /\ RoutesOnly
    BY DEF parseVars
  <2>1. PICK q \in Requests : Apply(q)
    BY DEF ParseNext, EditRoutes, EditConfig, ThreadStep, ParseStep, ThreadExits, Arrive,
           RequestStep, FailFast, Refused, Submit, TimesOut, requestVars
  <2>2. applied' = answer[q] /\ answer[q] \in Versions
    BY <2>1 DEF Apply
  <2> QED
    BY <2>2 DEF ParseInv, Current, NeverOlder, RoutesOnly
<1> QED
  BY <1>1, ParsesAreConsistent, PTL DEF ParseSpec, SwapsAreCurrent

-----------------------------------------------------------------------------
(* ReloadReaper: the inductive invariant, one operator per idea. *)

USE ConstantsOK, ConfigurationsOK

(* What the proofs call the parts of a state. *)
Asking == {"prompting", "ending"}
Clean(r) == \A t \in Inflight : turn[t].route # r
InPass(x) == reaper[x].pc \in {"turns", "locks"}

(* The passes that the chain of x may still make for the reloads so far.    *)
Slack(x) == MaxFollowups + 2 * (reloads - 1) - reaper[x].attempt

(* A turn is stale only when a reload came after it. *)
FirstFits ==
    reloads = 0 => \A t \in Inflight :
        turn[t].route \in Live /\ turn[t].policy = config[turn[t].route].policy

(* Whom a pass waits for is on no route whose lock it takes.                *)
Apart ==
    \A x \in Reapers :
        /\ reaper[x].pc = "turns" =>
              /\ reaper[x].relevant \subseteq Inflight
              /\ reaper[x].todo = {} /\ reaper[x].drained = {}
        /\ reaper[x].pc = "locks" =>
              /\ reaper[x].todo # {} /\ reaper[x].todo \cap reaper[x].drained = {}
              /\ reaper[x].todo \cup reaper[x].drained \subseteq reaper[x].keys
              /\ \A t \in reaper[x].relevant :
                    t \in Inflight /\ turn[t].route \notin reaper[x].todo \cup reaper[x].drained

Budget == \A x \in Reapers : reaper[x].pc # "idle" => reloads > 0 /\ Slack(x) >= 0

(* A chain without slack has failed on each key that is not clean, and on   *)
(* one at least that it looks at again.                                     *)
LastOne ==
    \A x \in Reapers : reaper[x].pc # "idle" /\ Slack(x) = 0 =>
        /\ reaper[x].eligible # {}
        /\ reaper[x].eligible \subseteq reaper[x].extra \cup (Routes \ Live)
        /\ reaper[x].extra \subseteq reaper[x].eligible \cap Live
        /\ \A r \in (Routes \ Live) \ reaper[x].eligible : Clean(r)

(* Without a reload since it began, a pass knows every turn on a retired    *)
(* route.                                                                   *)
KeysOld ==
    \A x \in Reapers : InPass(x) /\ Slack(x) <= 1 =>
        /\ reaper[x].keys = (Routes \ Live) \cup reaper[x].extra
        /\ \A t \in Inflight : turn[t].route \notin Live => t \in reaper[x].relevant

LastPass ==
    \A x \in Reapers : reaper[x].pc = "locks" /\ Slack(x) = 0 =>
        /\ reaper[x].keys \ (reaper[x].todo \cup reaper[x].drained) \subseteq reaper[x].eligible
        /\ reaper[x].todo \cap reaper[x].eligible # {}

(* x will look at route r: it evicts there, or tries again.                 *)
Looks(x, r) ==
    /\ reaper[x].pc = "scheduled" \/ (InPass(x) /\ r \in reaper[x].keys)
    /\ r \notin Live \/ r \in reaper[x].extra
    /\ reaper[x].attempt < MaxFollowups \/ r \in reaper[x].eligible

(* A stale session has a reaper that looks at its route, or the turn that   *)
(* uses it and has to heal it, or that turn's finalizer raised.             *)
Seen ==
    \A s \in sessions : Stale(s) =>
        \/ \E x \in Reapers : Looks(x, s.route)
        \/ \E t \in Inflight : turn[t].pc \in Asking /\ SessionOf(t) = s
        \/ s \in unhealed

(* x will retire the process: it waits for every turn, and was able to      *)
(* drain whatever it does not force.                                        *)
Kept(E) == \A t \in Inflight : turn[t].route \in E /\ (turn[t].pc = "fresh" => E = Routes)
Retiring(x) ==
    /\ reaper[x].pc \in {"scheduled", "turns"}
    /\ reaper[x].attempt >= MaxFollowups => Kept(reaper[x].eligible)
    /\ reaper[x].pc = "turns" => reaper[x].keys = Routes /\ Inflight \subseteq reaper[x].relevant

Cleared ==
    profile /\ Live = {} =>
        \/ \E x \in Reapers : Retiring(x)
        \/ \E t \in Inflight : turn[t].pc \in Asking
        \/ unhealed # {}

ReaperInv ==
    /\ TypeOK /\ FirstFits /\ Apart /\ Budget /\ LastOne /\ KeysOld /\ LastPass
    /\ Seen /\ Cleared

-----------------------------------------------------------------------------
(* What is in the records, and what each action does to them. *)

LEMMA TurnKinds ==
  ASSUME TypeOK, NEW t \in Turns
  PROVE  /\ t \in Inflight <=> turn[t].pc # "idle"
         /\ t \in Inflight => turn[t] \in TurnsAtWork
  BY DEF TypeOK, Inflight, NoTurn, TurnsAtWork

LEMMA ReaperKinds ==
  ASSUME TypeOK, NEW x \in Reapers
  PROVE  /\ reaper[x].pc \in {"idle", "scheduled", "turns", "locks"}
         /\ reaper[x].pc = "idle" <=> reaper[x] = NoReaper
         /\ reaper[x].pc = "scheduled" => reaper[x] \in Waiters
         /\ InPass(x) => reaper[x] \in Passes
         /\ reaper[x].pc # "idle" =>
               /\ reaper[x].extra \subseteq Routes /\ reaper[x].eligible \subseteq Routes
               /\ reaper[x].attempt \in Nat /\ reaper[x].attempt <= MaxPasses
  BY DEF TypeOK, NoReaper, Waiters, Passes, InPass, MaxPasses

LEMMA NewReaper ==
  ASSUME NEW E \in SUBSET Routes
  PROVE  /\ Scheduled(E, 0, {}) \in Waiters /\ Scheduled(E, 0, {}).pc = "scheduled"
         /\ Scheduled(E, 0, {}).extra = E /\ Scheduled(E, 0, {}).attempt = 0
         /\ Scheduled(E, 0, {}).eligible = {}
  BY DEF Scheduled, Waiters, MaxPasses

LEMMA FreeSlot ==
  ASSUME FreeSlots # {}
  PROVE  /\ (CHOOSE x \in FreeSlots : TRUE) \in Reapers
         /\ reaper[CHOOSE x \in FreeSlots : TRUE] = NoReaper
  BY DEF FreeSlots

(* A turn sets out or goes on.                                              *)
LEMMA GoDoes ==
  ASSUME TypeOK, NEW t \in Turns, NEW r \in Routes,
         Admit(t, r) \/ Attribute(t) \/ Lock(t) \/ GetSession(t)
  PROVE  /\ UNCHANGED <<config, reloads, reaper, unhealed>> /\ turn' \in [Turns -> {NoTurn} \cup TurnsAtWork]
         /\ \A u \in Turns \ {t} : turn'[u] = turn[u]
         /\ turn'[t] \in TurnsAtWork
         /\ \/ /\ t \notin Inflight /\ turn'[t].route \in Live
               /\ turn'[t].policy = config[turn'[t].route].policy
               /\ UNCHANGED <<sessions, profile>>
            \/ /\ t \in Inflight /\ turn'[t].route = turn[t].route
               /\ turn'[t].policy = turn[t].policy /\ turn'[t].pc # "fresh"
               /\ turn[t].pc \in Asking => turn'[t].pc \in Asking
               /\ \/ UNCHANGED <<sessions, profile>>
                  \/ /\ turn'[t].pc \in Asking /\ profile' = TRUE
                     /\ sessions' \in {sessions, sessions \cup {SessionOf(t)}}
<1>0. /\ t \in Inflight <=> turn[t].pc # "idle"
      /\ t \in Inflight => turn[t] \in TurnsAtWork
  BY TurnKinds
<1> USE DEF TypeOK
<1>1. CASE Admit(t, r)
  <2>1. /\ turn' = [turn EXCEPT ![t] = [pc |-> "fresh", route |-> r, policy |-> config[r].policy]]
        /\ turn[t] = NoTurn /\ r \in Live
        /\ UNCHANGED <<config, reloads, sessions, profile, reaper, unhealed>>
    BY <1>1 DEF Admit
  <2>2. config[r].policy \in Policies
    BY DEF Configs
  <2>3. [pc |-> "fresh", route |-> r, policy |-> config[r].policy] \in TurnsAtWork
    BY <2>2 DEF TurnsAtWork
  <2> QED
    BY <2>1, <2>3 DEF Inflight
<1>2. ASSUME NEW where \in {"waiting", "locked", "prompting", "ending"}, Go(t, where),
             t \in Inflight
      PROVE  /\ turn' \in [Turns -> {NoTurn} \cup TurnsAtWork] /\ turn'[t] \in TurnsAtWork
             /\ \A u \in Turns \ {t} : turn'[u] = turn[u]
             /\ turn'[t].route = turn[t].route /\ turn'[t].policy = turn[t].policy
             /\ turn'[t].pc = where
  <2> DEFINE next == [turn[t] EXCEPT !.pc = where]
  <2>1. turn' = [turn EXCEPT ![t] = next]
    BY <1>2 DEF Go
  <2>2. turn[t] \in TurnsAtWork
    BY <1>0, <1>2
  <2>3. /\ next \in TurnsAtWork /\ next.route = turn[t].route /\ next.policy = turn[t].policy
        /\ next.pc = where
    BY <1>2, <2>2 DEF TurnsAtWork
  <2> HIDE DEF next
  <2> QED
    BY <2>1, <2>3
<1>3. CASE Attribute(t)
  <2>1. turn[t].pc = "fresh" /\ Go(t, "waiting") /\ t \in Inflight
    BY <1>0, <1>3 DEF Attribute
  <2>2. UNCHANGED <<config, reloads, sessions, profile, reaper, unhealed>>
    BY <1>3 DEF Attribute
  <2> QED
    BY <1>2, <2>1, <2>2 DEF Asking
<1>4. CASE Lock(t)
  <2>1. turn[t].pc = "waiting" /\ Go(t, "locked") /\ t \in Inflight
    BY <1>0, <1>4 DEF Lock
  <2>2. UNCHANGED <<config, reloads, sessions, profile, reaper, unhealed>>
    BY <1>4 DEF Lock
  <2> QED
    BY <1>2, <2>1, <2>2 DEF Asking
<1>5. CASE GetSession(t)
  <2>1. turn[t].pc = "locked" /\ t \in Inflight
    BY <1>0, <1>5 DEF GetSession
  <2>2. /\ UNCHANGED <<config, reloads, reaper, unhealed>> /\ profile' = TRUE
        /\ sessions' \in {sessions, sessions \cup {SessionOf(t)}}
        /\ Go(t, "prompting") \/ Go(t, "ending")
    BY <1>5 DEF GetSession
  <2> QED
    BY <1>2, <2>1, <2>2 DEF Asking
<1> QED
  BY <1>1, <1>3, <1>4, <1>5

(* A turn is over: whoever waits for it hears so, and it may leave a reaper *)
(* of its own, or nothing where it owed one.                                *)
LEMMA EndDoes ==
  ASSUME TypeOK, NEW t \in Turns, EndTurn(t)
  PROVE  /\ UNCHANGED <<config, reloads, sessions, profile>>
         /\ turn[t].pc \in Holding /\ turn' = [turn EXCEPT ![t] = NoTurn]
         /\ reaper' \in [Reapers -> {NoReaper} \cup Waiters \cup Passes]
         /\ \A x \in Reapers : reaper[x].pc # "idle" =>
               /\ reaper'[x].pc = reaper[x].pc /\ reaper'[x].extra = reaper[x].extra
               /\ reaper'[x].attempt = reaper[x].attempt /\ reaper'[x].eligible = reaper[x].eligible
               /\ InPass(x) =>
                     /\ reaper'[x].keys = reaper[x].keys /\ reaper'[x].todo = reaper[x].todo
                     /\ reaper'[x].drained = reaper[x].drained
                     /\ reaper'[x].relevant = reaper[x].relevant \ {t}
         /\ \/ /\ SelfHeal(t) = "none" /\ unhealed' = unhealed
               /\ \A x \in Reapers : reaper[x].pc = "idle" => reaper'[x] = NoReaper
            \/ /\ SelfHeal(t) # "none" /\ unhealed' = unhealed \cup {SessionOf(t)}
               /\ \A x \in Reapers : reaper[x].pc = "idle" => reaper'[x] = NoReaper
            \/ /\ SelfHeal(t) # "none" /\ unhealed' = unhealed
               /\ \E y \in Reapers, E \in SUBSET Routes :
                     /\ reaper[y] = NoReaper /\ reaper'[y] = Scheduled(E, 0, {})
                     /\ E = IF SelfHeal(t) = "changed" THEN {turn[t].route} ELSE {}
                     /\ \A x \in Reapers \ {y} : reaper[x].pc = "idle" => reaper'[x] = NoReaper
<1>1. /\ UNCHANGED <<config, reloads, sessions, profile>>
      /\ turn[t].pc \in Holding /\ turn' = [turn EXCEPT ![t] = NoTurn]
  BY DEF EndTurn
<1>2. turn[t] \in TurnsAtWork
  BY <1>1, TurnKinds DEF Holding
<1> DEFINE W == WithoutTurn(t)
<1>3. ASSUME NEW x \in Reapers
      PROVE  /\ W[x] \in {NoReaper} \cup Waiters \cup Passes
             /\ reaper[x].pc = "idle" => W[x] = NoReaper
             /\ W[x].pc = reaper[x].pc
             /\ reaper[x].pc # "idle" =>
                   /\ W[x].extra = reaper[x].extra
                   /\ W[x].attempt = reaper[x].attempt /\ W[x].eligible = reaper[x].eligible
                   /\ InPass(x) =>
                         /\ W[x].keys = reaper[x].keys /\ W[x].todo = reaper[x].todo
                         /\ W[x].drained = reaper[x].drained
                         /\ W[x].relevant = reaper[x].relevant \ {t}
  <2>1. CASE InPass(x)
    <3>1. W[x] = [reaper[x] EXCEPT !.relevant = @ \ {t}]
      BY <2>1 DEF WithoutTurn, InPass
    <3>2. reaper[x] \in Passes /\ reaper[x].pc # "idle"
      BY <2>1, ReaperKinds DEF InPass
    <3> HIDE DEF W
    <3> QED
      BY <3>1, <3>2 DEF Passes
  <2>2. CASE ~InPass(x)
    <3>1. W[x] = reaper[x]
      BY <2>2 DEF WithoutTurn, InPass
    <3> HIDE DEF W
    <3> QED
      BY <2>2, <3>1, ReaperKinds DEF TypeOK
  <2> QED
    BY <2>1, <2>2
<1>4. W \in [Reapers -> {NoReaper} \cup Waiters \cup Passes]
  <2>1. W = [x \in Reapers |-> W[x]]
    BY DEF WithoutTurn
  <2> HIDE DEF W
  <2> QED
    BY <1>3, <2>1
<1>0. \/ SelfHeal(t) = "none" /\ reaper' = W /\ unhealed' = unhealed
      \/ SelfHeal(t) # "none" /\ reaper' = W /\ unhealed' = unhealed \cup {SessionOf(t)}
      \/ /\ SelfHeal(t) # "none" /\ unhealed' = unhealed /\ FreeSlots # {}
         /\ reaper' = [W EXCEPT ![CHOOSE x \in FreeSlots : TRUE] =
                         Scheduled(IF SelfHeal(t) = "changed" THEN {turn[t].route} ELSE {},
                                   0, {})]
  BY Zenon DEF EndTurn
<1>5. CASE /\ reaper' = W
           /\ \/ SelfHeal(t) = "none" /\ unhealed' = unhealed
              \/ SelfHeal(t) # "none" /\ unhealed' = unhealed \cup {SessionOf(t)}
  <2> HIDE DEF W
  <2> QED
    BY <1>1, <1>3, <1>4, <1>5
<1>6. CASE /\ SelfHeal(t) # "none" /\ unhealed' = unhealed /\ FreeSlots # {}
           /\ reaper' = [W EXCEPT ![CHOOSE x \in FreeSlots : TRUE] =
                           Scheduled(IF SelfHeal(t) = "changed" THEN {turn[t].route} ELSE {},
                                     0, {})]
  <2> DEFINE y == CHOOSE x \in FreeSlots : TRUE
             E == IF SelfHeal(t) = "changed" THEN {turn[t].route} ELSE {}
  <2>1. FreeSlots # {} /\ reaper' = [W EXCEPT ![y] = Scheduled(E, 0, {})]
    BY <1>6
  <2>2. y \in Reapers /\ reaper[y] = NoReaper
    BY <2>1, FreeSlot
  <2>3. E \in SUBSET Routes
    BY <1>2 DEF TurnsAtWork
  <2>4. Scheduled(E, 0, {}) \in Waiters
    BY <2>3, NewReaper
  <2>5. E = IF SelfHeal(t) = "changed" THEN {turn[t].route} ELSE {}
    OBVIOUS
  <2>6. reaper[y].pc = "idle"
    BY <2>2, ReaperKinds
  <2> HIDE DEF W, y, E
  <2>7. /\ reaper'[y] = Scheduled(E, 0, {}) /\ \A x \in Reapers \ {y} : reaper'[x] = W[x]
        /\ reaper' \in [Reapers -> {NoReaper} \cup Waiters \cup Passes]
    BY <1>4, <2>1, <2>2, <2>4
  <2>8. \A x \in Reapers : reaper[x].pc # "idle" => reaper'[x] = W[x]
    BY <2>6, <2>7
  <2>9. \E z \in Reapers, D \in SUBSET Routes :
           /\ reaper[z] = NoReaper /\ reaper'[z] = Scheduled(D, 0, {})
           /\ D = IF SelfHeal(t) = "changed" THEN {turn[t].route} ELSE {}
           /\ \A x \in Reapers \ {z} : reaper[x].pc = "idle" => reaper'[x] = NoReaper
    BY <1>3, <2>2, <2>3, <2>5, <2>7
  <2>10. \A x \in Reapers : reaper[x].pc # "idle" =>
            /\ reaper'[x].pc = reaper[x].pc /\ reaper'[x].extra = reaper[x].extra
            /\ reaper'[x].attempt = reaper[x].attempt /\ reaper'[x].eligible = reaper[x].eligible
            /\ InPass(x) =>
                  /\ reaper'[x].keys = reaper[x].keys /\ reaper'[x].todo = reaper[x].todo
                  /\ reaper'[x].drained = reaper[x].drained
                  /\ reaper'[x].relevant = reaper[x].relevant \ {t}
    BY <1>3, <2>8
  <2> QED
    BY <1>1, <1>6, <2>7, <2>9, <2>10, Zenon
<1> QED
  BY <1>0, <1>5, <1>6

(* A reload leaves the reapers there are alone, and schedules one that      *)
(* looks at whatever it retires or gives another policy.                    *)
LEMMA ReloadDoes ==
  ASSUME TypeOK, NEW c \in Configurations, Reload(c)
  PROVE  /\ UNCHANGED <<turn, sessions, profile>> /\ config' \in [Routes -> Configs]
         /\ reloads < MaxReloads /\ reloads' = reloads + 1 /\ unhealed' = {}
         /\ reaper' \in [Reapers -> {NoReaper} \cup Waiters \cup Passes]
         /\ \A x \in Reapers : reaper[x].pc # "idle" => reaper'[x] = reaper[x]
         /\ \/ /\ Routes \subseteq Live' /\ \A s \in sessions : config'[s.route].policy = s.policy
               /\ reaper' = reaper
            \/ \E y \in Reapers, E \in SUBSET Routes :
                  /\ reaper[y] = NoReaper /\ reaper'[y] = Scheduled(E, 0, {})
                  /\ \A s \in sessions : s.route \in Live' /\ config'[s.route].policy # s.policy =>
                        s.route \in E
                  /\ \A x \in Reapers \ {y} : reaper'[x] = reaper[x]
<1> DEFINE changed == PolicyChanged(config, config')
           retired == {k \in Routes : config'[k].state # "active"}
<1>1. /\ UNCHANGED <<turn, sessions, profile>>
      /\ reloads < MaxReloads /\ reloads' = reloads + 1 /\ unhealed' = {}
      /\ IF changed \cup retired = {} THEN UNCHANGED reaper ELSE Track(changed)
  BY DEF Reload
<1>2. config' \in [Routes -> Configs]
  BY DEF Reload
<1>3. changed \subseteq Routes
  BY DEF PolicyChanged, TypeOK, SessionKeys
<1>4. \A s \in sessions : s.route \in Live' /\ config'[s.route].policy # s.policy =>
         s.route \in changed
  BY DEF PolicyChanged, Live
<1>5. CASE changed \cup retired = {}
  <2>1. Routes \subseteq Live'
    BY <1>5 DEF Live
  <2>2. \A s \in sessions : s.route \in Routes
    BY DEF TypeOK, SessionKeys
  <2>3. \A s \in sessions : config'[s.route].policy = s.policy
    BY <1>4, <1>5, <2>1, <2>2
  <2>4. reaper' = reaper
    BY <1>1, <1>5
  <2> HIDE DEF changed, retired
  <2> QED
    BY <1>1, <1>2, <2>1, <2>3, <2>4 DEF TypeOK
<1>6. CASE changed \cup retired # {}
  <2> DEFINE y == CHOOSE x \in FreeSlots : TRUE
  <2>1. FreeSlots # {} /\ reaper' = [reaper EXCEPT ![y] = Scheduled(changed, 0, {})]
    BY <1>1, <1>6 DEF Track
  <2>2. y \in Reapers /\ reaper[y] = NoReaper
    BY <2>1, FreeSlot
  <2>3. Scheduled(changed, 0, {}) \in Waiters
    BY <1>3, NewReaper
  <2>4. reaper[y].pc = "idle"
    BY <2>2, ReaperKinds
  <2> HIDE DEF changed, retired, y
  <2> QED
    BY <1>1, <1>2, <1>3, <1>4, <2>1, <2>2, <2>3, <2>4 DEF TypeOK
<1> QED
  BY <1>5, <1>6

-----------------------------------------------------------------------------
(* A step of a reaper: the pass p that it then makes, with what it drains.  *)

(* p is the pass that x is in, or that it begins.                           *)
PassOf(x, p) ==
    /\ p \in Passes /\ p.extra = reaper[x].extra
    /\ p.attempt = reaper[x].attempt /\ p.eligible = reaper[x].eligible
    /\ reaper[x].pc = "scheduled" =>
          p.keys = (Routes \ Live) \cup p.extra /\ p.relevant = Relevant(p.keys)
    /\ InPass(x) => p.keys = reaper[x].keys /\ p.relevant = reaper[x].relevant

(* p took the locks that could be had.                                      *)
TookLocks(x, p) ==
    /\ p.pc = "locks"
    /\ \E S \in SUBSET Routes :
          /\ p.todo = S \ FreeRun(S)
          /\ \/ /\ reaper[x].pc # "locks" /\ S = p.keys \ Contested(p) /\ p.drained = FreeRun(S)
             \/ /\ reaper[x].pc = "locks" /\ S = reaper[x].todo
                /\ p.drained = reaper[x].drained \cup FreeRun(S)

GoesOn(x, p) == reaper' = [reaper EXCEPT ![x] = p] /\ UNCHANGED <<sessions, profile>>

LEMMA TakeLocksDoes ==
  ASSUME TypeOK, NEW x \in Reapers, NEW pass \in Passes, NEW todo \in SUBSET Routes,
         TakeLocks(x, pass, todo)
  PROVE  \E p \in Passes :
            /\ p.pc = "locks" /\ p.extra = pass.extra /\ p.attempt = pass.attempt
            /\ p.eligible = pass.eligible /\ p.keys = pass.keys /\ p.relevant = pass.relevant
            /\ p.todo = todo \ FreeRun(todo) /\ p.drained = pass.drained \cup FreeRun(todo)
            /\ (p.todo = {} /\ Sweep(x, p)) \/ (p.todo # {} /\ GoesOn(x, p))
<1> DEFINE p == [pass EXCEPT !.pc = "locks", !.todo = todo \ FreeRun(todo),
                             !.drained = @ \cup FreeRun(todo)]
<1>1. FreeRun(todo) \subseteq Routes
  BY DEF FreeRun
<1>2. /\ p \in Passes /\ p.pc = "locks" /\ p.extra = pass.extra /\ p.attempt = pass.attempt
      /\ p.eligible = pass.eligible /\ p.keys = pass.keys /\ p.relevant = pass.relevant
      /\ p.todo = todo \ FreeRun(todo) /\ p.drained = pass.drained \cup FreeRun(todo)
  BY <1>1 DEF Passes
<1>3. (p.todo = {} /\ Sweep(x, p)) \/ (p.todo # {} /\ GoesOn(x, p))
  BY Zenon DEF TakeLocks, GoesOn
<1> HIDE DEF p
<1> QED
  BY <1>2, <1>3

LEMMA ReapDoes ==
  ASSUME TypeOK, Apart, NEW x \in Reapers, Reap(x)
  PROVE  /\ UNCHANGED <<config, reloads, turn, unhealed>> /\ reaper[x].pc # "idle"
         /\ \E p : /\ PassOf(x, p)
                   /\ \/ /\ reaper[x].pc = "scheduled" /\ p.pc = "turns" /\ p.relevant # {}
                         /\ p.todo = {} /\ p.drained = {} /\ GoesOn(x, p)
                      \/ TookLocks(x, p) /\ p.todo = {} /\ Sweep(x, p)
                      \/ TookLocks(x, p) /\ p.todo # {} /\ GoesOn(x, p)
                      \/ reaper[x].pc = "locks" /\ p = reaper[x] /\ Sweep(x, p)
<1>1. /\ UNCHANGED <<config, reloads, turn, unhealed>>
      /\ reaper[x].pc \in {"scheduled", "turns", "locks"}
  BY DEF Reap, Begin, TurnsDone, TurnsOverdue, LockTaken, LockOverdue
<1>0. reaper[x].pc # "idle"
  BY <1>1
<1>10. \A pass : pass.relevant = {} => Contested(pass) = {}
  BY DEF Contested
<1>2. ASSUME NEW pass \in Passes, PassOf(x, pass), pass.drained = {}, reaper[x].pc # "locks",
             TakeLocks(x, pass, pass.keys \ Contested(pass))
      PROVE  \E p : /\ PassOf(x, p)
                    /\ \/ TookLocks(x, p) /\ p.todo = {} /\ Sweep(x, p)
                       \/ TookLocks(x, p) /\ p.todo # {} /\ GoesOn(x, p)
  <2> DEFINE S == pass.keys \ Contested(pass)
  <2>1. S \in SUBSET Routes
    BY DEF Passes
  <2>10. TakeLocks(x, pass, S)
    BY <1>2
  <2> HIDE DEF S
  <2>2. PICK p \in Passes :
            /\ p.pc = "locks" /\ p.extra = pass.extra /\ p.attempt = pass.attempt
            /\ p.eligible = pass.eligible /\ p.keys = pass.keys /\ p.relevant = pass.relevant
            /\ p.todo = S \ FreeRun(S) /\ p.drained = pass.drained \cup FreeRun(S)
            /\ (p.todo = {} /\ Sweep(x, p)) \/ (p.todo # {} /\ GoesOn(x, p))
    <3>1. TypeOK /\ x \in Reapers /\ pass \in Passes
      BY <1>2
    <3> QED
      BY ONLY <3>1, <2>1, <2>10, TakeLocksDoes
  <2>3. PassOf(x, p)
    BY <1>2, <2>2 DEF PassOf
  <2>4. Contested(p) = Contested(pass)
    BY <2>2 DEF Contested
  <2>5. TookLocks(x, p)
    BY <1>2, <2>1, <2>2, <2>4 DEF TookLocks, S
  <2> QED
    BY <2>2, <2>3, <2>5
<1>3. CASE Begin(x)
  <2> DEFINE keys == (Routes \ Live) \cup reaper[x].extra
             pass == [pc |-> "turns", extra |-> reaper[x].extra, attempt |-> reaper[x].attempt,
                      eligible |-> reaper[x].eligible, keys |-> keys, relevant |-> Relevant(keys),
                      todo |-> {}, drained |-> {}]
  <2>1. /\ reaper[x].pc = "scheduled"
        /\ IF Relevant(keys) = {} THEN TakeLocks(x, pass, keys) ELSE GoesOn(x, pass)
    BY <1>3 DEF Begin, GoesOn
  <2>2. reaper[x] \in Waiters /\ Relevant(keys) \subseteq Turns
    BY <2>1, ReaperKinds DEF Relevant, Inflight
  <2>3. /\ pass \in Passes /\ PassOf(x, pass) /\ pass.relevant = Relevant(keys)
        /\ pass.pc = "turns" /\ pass.todo = {} /\ pass.drained = {} /\ pass.keys = keys
    BY <2>1, <2>2 DEF PassOf, Passes, Waiters, InPass
  <2> HIDE DEF pass, keys
  <2>4. CASE Relevant(keys) = {}
    <3>1. keys = pass.keys \ Contested(pass)
      BY <1>10, <2>3, <2>4
    <3> QED
      BY <1>0, <1>1, <1>2, <2>1, <2>3, <2>4, <3>1
  <2>5. CASE Relevant(keys) # {}
    BY <1>0, <1>1, <2>1, <2>3, <2>5
  <2> QED
    BY <2>4, <2>5
<1>4. CASE TurnsDone(x) \/ TurnsOverdue(x)
  <2>1. reaper[x].pc = "turns" /\ reaper[x] \in Passes
    BY <1>4, ReaperKinds DEF TurnsDone, TurnsOverdue, InPass
  <2>2. reaper[x].drained = {}
    BY <2>1 DEF Apart
  <2>3. TakeLocks(x, reaper[x], reaper[x].keys \ Contested(reaper[x]))
    <3>1. CASE TurnsDone(x)
      <4>1. reaper[x].relevant = {} /\ TakeLocks(x, reaper[x], reaper[x].keys)
        BY <3>1 DEF TurnsDone
      <4>2. reaper[x].keys \ Contested(reaper[x]) = reaper[x].keys
        BY <1>10, <4>1
      <4> QED
        BY <4>1, <4>2
    <3>2. CASE TurnsOverdue(x)
      BY <3>2 DEF TurnsOverdue
    <3> QED
      BY <1>4, <3>1, <3>2
  <2>4. PassOf(x, reaper[x])
    BY <2>1 DEF PassOf
  <2> QED
    BY <1>0, <1>1, <1>2, <2>1, <2>2, <2>3, <2>4
<1>5. CASE LockTaken(x)
  <2>1. /\ reaper[x].pc = "locks" /\ reaper[x] \in Passes
        /\ TakeLocks(x, reaper[x], reaper[x].todo)
    BY <1>5, ReaperKinds DEF LockTaken, InPass
  <2> DEFINE S == reaper[x].todo
  <2>2. S \in SUBSET Routes
    BY <2>1 DEF Passes
  <2>3. PICK p \in Passes :
            /\ p.pc = "locks" /\ p.extra = reaper[x].extra /\ p.attempt = reaper[x].attempt
            /\ p.eligible = reaper[x].eligible /\ p.keys = reaper[x].keys
            /\ p.relevant = reaper[x].relevant
            /\ p.todo = S \ FreeRun(S) /\ p.drained = reaper[x].drained \cup FreeRun(S)
            /\ (p.todo = {} /\ Sweep(x, p)) \/ (p.todo # {} /\ GoesOn(x, p))
    BY <2>1, <2>2, TakeLocksDoes
  <2>4. PassOf(x, p) /\ TookLocks(x, p)
    BY <2>1, <2>2, <2>3 DEF PassOf, TookLocks
  <2> QED
    BY <1>0, <1>1, <2>3, <2>4
<1>6. CASE LockOverdue(x)
  <2>1. reaper[x].pc = "locks" /\ reaper[x] \in Passes /\ Sweep(x, reaper[x])
    BY <1>6, ReaperKinds DEF LockOverdue, InPass
  <2>2. PassOf(x, reaper[x])
    BY <2>1 DEF PassOf
  <2> QED
    BY <1>0, <1>1, <2>1, <2>2
<1> QED
  BY <1>3, <1>4, <1>5, <1>6 DEF Reap

-----------------------------------------------------------------------------
(* The invariant is kept by turns and by reloads. *)

LEMMA GoKeeps ==
  ASSUME ReaperInv, NEW t \in Turns, NEW r \in Routes,
         Admit(t, r) \/ Attribute(t) \/ Lock(t) \/ GetSession(t)
  PROVE  ReaperInv'
<1>1. TypeOK
  BY DEF ReaperInv
<1>2. /\ UNCHANGED <<config, reloads, reaper, unhealed>> /\ turn' \in [Turns -> {NoTurn} \cup TurnsAtWork]
      /\ \A u \in Turns \ {t} : turn'[u] = turn[u]
      /\ turn'[t] \in TurnsAtWork
      /\ \/ /\ t \notin Inflight /\ turn'[t].route \in Live
            /\ turn'[t].policy = config[turn'[t].route].policy
            /\ UNCHANGED <<sessions, profile>>
         \/ /\ t \in Inflight /\ turn'[t].route = turn[t].route
            /\ turn'[t].policy = turn[t].policy /\ turn'[t].pc # "fresh"
            /\ turn[t].pc \in Asking => turn'[t].pc \in Asking
            /\ \/ UNCHANGED <<sessions, profile>>
               \/ /\ turn'[t].pc \in Asking /\ profile' = TRUE
                  /\ sessions' \in {sessions, sessions \cup {SessionOf(t)}}
  BY <1>1, GoDoes
<1>3. /\ Live' = Live /\ \A s : Stale(s)' <=> Stale(s)
      /\ \A x : InPass(x)' <=> InPass(x)
      /\ \A x : Slack(x)' = Slack(x)
      /\ \A x, q : Looks(x, q)' <=> Looks(x, q)
  BY <1>2 DEF Live, Stale, InPass, Slack, Looks
<1>4. turn'[t] # NoTurn /\ t \in Inflight'
  BY <1>2 DEF NoTurn, TurnsAtWork, Inflight
<1>5. \A u \in Inflight :
         /\ u \in Inflight' /\ turn'[u].route = turn[u].route /\ turn'[u].policy = turn[u].policy
         /\ turn'[u].pc = "fresh" => turn[u].pc = "fresh"
         /\ turn[u].pc \in Asking => turn'[u].pc \in Asking
  BY <1>2, <1>4 DEF Inflight
<1>6. \A u \in Inflight' : u \notin Inflight =>
         /\ u = t /\ turn'[u].route \in Live
         /\ turn'[u].policy = config[turn'[u].route].policy
         /\ UNCHANGED <<sessions, profile>>
  BY <1>2 DEF Inflight
<1>7. \A q \in Routes \ Live : Clean(q) => Clean(q)'
  BY <1>5, <1>6 DEF Clean
<1>8. TypeOK'
  <2>1. t \in Inflight => SessionOf(t) \in SessionKeys
    BY <1>1, TurnKinds DEF SessionOf, SessionKeys, TurnsAtWork
  <2> QED
    BY <1>1, <1>2, <2>1 DEF TypeOK
<1>9. FirstFits'
  <2>1. FirstFits
    BY DEF ReaperInv
  <2> QED
    BY ONLY <2>1, <1>2, <1>3, <1>5, <1>6 DEF FirstFits
<1>10. Apart'
  <2>1. Apart
    BY DEF ReaperInv
  <2> QED
    BY ONLY <2>1, <1>2, <1>5 DEF Apart
<1>11. Budget' /\ LastPass'
  <2>1. Budget /\ LastPass
    BY DEF ReaperInv
  <2> QED
    BY <2>1, <1>2, <1>3 DEF Budget, LastPass
<1>12. LastOne'
  <2>1. LastOne
    BY DEF ReaperInv
  <2> QED
    BY ONLY <2>1, <1>2, <1>3, <1>7 DEF LastOne
<1>13. KeysOld'
  <2>1. KeysOld
    BY DEF ReaperInv
  <2> QED
    BY ONLY <2>1, <1>2, <1>3, <1>5, <1>6 DEF KeysOld
<1>14. Seen'
  <2>1. Seen
    BY DEF ReaperInv
  <2>2. \A u \in Inflight : SessionOf(u)' = SessionOf(u)
    BY <1>5 DEF SessionOf
  <2>3. \A s \in sessions' :
           s \in sessions \/ (s = SessionOf(t) /\ t \in Inflight /\ turn'[t].pc \in Asking)
    BY <1>2
  <2>4. ASSUME NEW s \in sessions', Stale(s)'
        PROVE  \/ \E x \in Reapers : Looks(x, s.route)'
               \/ \E u \in Inflight' : turn'[u].pc \in Asking /\ SessionOf(u)' = s
               \/ s \in unhealed'
    <3>1. CASE s \in sessions
      <4>1. \/ \E x \in Reapers : Looks(x, s.route)
            \/ \E u \in Inflight : turn[u].pc \in Asking /\ SessionOf(u) = s
            \/ s \in unhealed
        BY <3>1, <2>1, <2>4, <1>3 DEF Seen
      <4> QED
        BY ONLY <4>1, <1>2, <1>3, <1>5, <2>2
    <3>2. CASE s \notin sessions
      BY <3>2, <2>2, <2>3, <1>4
    <3> QED
      BY <3>1, <3>2
  <2> QED
    BY <2>4 DEF Seen
<1>15. Cleared'
  <2>1. Cleared
    BY DEF ReaperInv
  <2>2. SUFFICES ASSUME profile', Live = {}
                 PROVE  \/ \E x \in Reapers : Retiring(x)'
                        \/ \E u \in Inflight' : turn'[u].pc \in Asking
                        \/ unhealed' # {}
    BY <1>3 DEF Cleared
  <2>3. \A u \in Inflight' : u \in Inflight
    BY <1>6, <2>2
  <2>4. CASE profile
    <3>1. \A E : Kept(E) => Kept(E)'
      BY <1>5, <2>3 DEF Kept
    <3>2. \A x \in Reapers : Retiring(x) => Retiring(x)'
      BY <1>2, <2>3, <3>1 DEF Retiring
    <3> QED
      BY <1>2, <1>5, <2>1, <2>2, <2>4, <3>2 DEF Cleared
  <2>5. CASE ~profile
    BY <1>2, <1>4, <2>2, <2>5
  <2> QED
    BY <2>4, <2>5
<1> QED
  BY <1>8, <1>9, <1>10, <1>11, <1>12, <1>13, <1>14, <1>15 DEF ReaperInv

LEMMA EndKeeps ==
  ASSUME ReaperInv, NEW t \in Turns, EndTurn(t)
  PROVE  ReaperInv'
<1>1. TypeOK /\ FirstFits
  BY DEF ReaperInv
<1>2. /\ UNCHANGED <<config, reloads, sessions, profile>>
      /\ turn[t].pc \in Holding /\ turn' = [turn EXCEPT ![t] = NoTurn]
      /\ reaper' \in [Reapers -> {NoReaper} \cup Waiters \cup Passes]
      /\ \A x \in Reapers : reaper[x].pc # "idle" =>
            /\ reaper'[x].pc = reaper[x].pc /\ reaper'[x].extra = reaper[x].extra
            /\ reaper'[x].attempt = reaper[x].attempt /\ reaper'[x].eligible = reaper[x].eligible
            /\ InPass(x) =>
                  /\ reaper'[x].keys = reaper[x].keys /\ reaper'[x].todo = reaper[x].todo
                  /\ reaper'[x].drained = reaper[x].drained
                  /\ reaper'[x].relevant = reaper[x].relevant \ {t}
      /\ \/ /\ SelfHeal(t) = "none" /\ unhealed' = unhealed
            /\ \A x \in Reapers : reaper[x].pc = "idle" => reaper'[x] = NoReaper
         \/ /\ SelfHeal(t) # "none" /\ unhealed' = unhealed \cup {SessionOf(t)}
            /\ \A x \in Reapers : reaper[x].pc = "idle" => reaper'[x] = NoReaper
         \/ /\ SelfHeal(t) # "none" /\ unhealed' = unhealed
            /\ \E y \in Reapers, E \in SUBSET Routes :
                  /\ reaper[y] = NoReaper /\ reaper'[y] = Scheduled(E, 0, {})
                  /\ E = IF SelfHeal(t) = "changed" THEN {turn[t].route} ELSE {}
                  /\ \A x \in Reapers \ {y} : reaper[x].pc = "idle" => reaper'[x] = NoReaper
  BY <1>1, EndDoes
<1>3. t \in Inflight /\ turn[t] \in TurnsAtWork
  BY <1>1, <1>2, TurnKinds DEF Holding
<1>4. /\ Live' = Live /\ \A s : Stale(s)' <=> Stale(s)
  BY <1>2 DEF Live, Stale
<1>5. /\ Inflight' = Inflight \ {t}
      /\ \A u \in Inflight' : turn'[u] = turn[u]
  BY <1>1, <1>2 DEF Inflight, TypeOK
<1>6. \A q : Clean(q) => Clean(q)'
  BY <1>5 DEF Clean
<1>23. unhealed \subseteq unhealed'
  BY <1>2
(* The reaper that the turn schedules, if any. *)
<1>7. ASSUME NEW y \in Reapers, reaper[y].pc = "idle", reaper'[y].pc # "idle"
      PROVE  /\ reaper'[y].pc = "scheduled" /\ reaper'[y].attempt = 0
             /\ reloads > 0 /\ ~InPass(y)'
  <2>1. SelfHeal(t) # "none" /\ \E E \in SUBSET Routes : reaper'[y] = Scheduled(E, 0, {})
    BY <1>2, <1>7 DEF NoReaper
  <2>2. reloads # 0
    BY <1>1, <1>3, <2>1 DEF FirstFits, SelfHeal
  <2> QED
    BY <1>1, <2>1, <2>2 DEF Scheduled, InPass, TypeOK
<1>8. ASSUME SelfHeal(t) # "none", SessionOf(t) \notin unhealed'
      PROVE  \E y \in Reapers :
                /\ reaper'[y].pc = "scheduled" /\ reaper'[y].attempt = 0
                /\ SelfHeal(t) = "changed" => turn[t].route \in reaper'[y].extra
  <2>1. PICK y \in Reapers, E \in SUBSET Routes :
           /\ reaper'[y] = Scheduled(E, 0, {})
           /\ E = IF SelfHeal(t) = "changed" THEN {turn[t].route} ELSE {}
    BY <1>2, <1>8
  <2> QED
    BY <2>1, NewReaper
<1>9. ASSUME NEW x \in Reapers, reaper[x].pc # "idle"
      PROVE  /\ reaper'[x].pc = reaper[x].pc /\ Slack(x)' = Slack(x)
             /\ InPass(x)' <=> InPass(x)
  BY <1>2, <1>9 DEF Slack, InPass
<1>10. \A x \in Reapers : InPass(x) => reaper[x].pc # "idle"
  BY DEF InPass
<1>11. \A x \in Reapers : \A q : Looks(x, q) => Looks(x, q)'
  BY <1>2, <1>4, <1>9, <1>10 DEF Looks
<1>12. \A x \in Reapers : InPass(x)' => InPass(x)
  BY <1>7, <1>9, <1>10 DEF InPass
<1>13. \A x \in Reapers : reaper[x].pc = "idle" /\ reaper'[x].pc # "idle" => Slack(x)' >= 1
  BY <1>1, <1>2, <1>7 DEF Slack, TypeOK
<1>14. TypeOK'
  <2>1. SessionOf(t) \in SessionKeys
    BY <1>3 DEF SessionOf, SessionKeys, TurnsAtWork
  <2>2. unhealed' \subseteq SessionKeys
    BY <1>1, <1>2, <2>1 DEF TypeOK
  <2> QED
    BY <1>1, <1>2, <2>2 DEF TypeOK
<1>15. FirstFits'
  BY <1>1, <1>2, <1>4, <1>5 DEF FirstFits
<1>16. Apart'
  <2>1. Apart
    BY DEF ReaperInv
  <2>2. ASSUME NEW x \in Reapers, InPass(x)'
        PROVE  /\ InPass(x) /\ reaper'[x].pc = reaper[x].pc
               /\ reaper'[x].keys = reaper[x].keys /\ reaper'[x].todo = reaper[x].todo
               /\ reaper'[x].drained = reaper[x].drained
               /\ reaper'[x].relevant = reaper[x].relevant \ {t}
    BY <1>2, <1>10, <1>12, <2>2
  <2> QED
    BY <1>5, <2>1, <2>2 DEF Apart, InPass
<1>17. Budget'
  <2>1. Budget
    BY DEF ReaperInv
  <2>2. ASSUME NEW x \in Reapers, reaper'[x].pc # "idle"
        PROVE  reloads' > 0 /\ Slack(x)' >= 0
    <3>1. CASE reaper[x].pc # "idle"
      BY <1>2, <1>9, <2>1, <3>1 DEF Budget
    <3>2. CASE reaper[x].pc = "idle"
      <4>1. Slack(x)' \in Int
        BY <1>1, <1>2, <1>7, <2>2, <3>2 DEF Slack, TypeOK
      <4> QED
        BY <1>2, <1>7, <1>13, <2>2, <3>2, <4>1
    <3> QED
      BY <3>1, <3>2
  <2> QED
    BY <2>2 DEF Budget
<1>18. LastOne'
  <2>1. LastOne
    BY DEF ReaperInv
  <2>2. \A x \in Reapers : reaper'[x].pc # "idle" /\ Slack(x)' = 0 =>
           /\ reaper[x].pc # "idle" /\ Slack(x) = 0
           /\ reaper'[x].extra = reaper[x].extra /\ reaper'[x].eligible = reaper[x].eligible
    BY <1>2, <1>9, <1>13
  <2> QED
    BY ONLY <1>4, <1>6, <2>1, <2>2 DEF LastOne
<1>19. KeysOld'
  <2>1. KeysOld
    BY DEF ReaperInv
  <2>2. \A x \in Reapers : InPass(x)' =>
           /\ InPass(x) /\ Slack(x)' = Slack(x)
           /\ reaper'[x].keys = reaper[x].keys /\ reaper'[x].extra = reaper[x].extra
           /\ reaper'[x].relevant = reaper[x].relevant \ {t}
    BY <1>2, <1>9, <1>10, <1>12
  <2> QED
    BY ONLY <1>4, <1>5, <2>1, <2>2 DEF KeysOld
<1>20. LastPass'
  <2>1. LastPass
    BY DEF ReaperInv
  <2>2. \A x \in Reapers : InPass(x)' =>
           /\ InPass(x) /\ Slack(x)' = Slack(x) /\ reaper'[x].pc = reaper[x].pc
           /\ reaper'[x].keys = reaper[x].keys /\ reaper'[x].eligible = reaper[x].eligible
           /\ reaper'[x].todo = reaper[x].todo /\ reaper'[x].drained = reaper[x].drained
    BY <1>2, <1>9, <1>10, <1>12
  <2> QED
    BY <2>1, <2>2 DEF LastPass, InPass
<1>21. Seen'
  <2>1. Seen
    BY DEF ReaperInv
  <2>2. \A u \in Inflight' : SessionOf(u)' = SessionOf(u) /\ turn'[u].pc = turn[u].pc
    BY <1>5 DEF SessionOf
  <2>3. ASSUME NEW s \in sessions, Stale(s), turn[t].pc \in Asking, SessionOf(t) = s,
               s \notin unhealed'
        PROVE  \E x \in Reapers : Looks(x, s.route)'
    <3>1. s.route = turn[t].route /\ s.policy = turn[t].policy
      BY <2>3 DEF SessionOf
    <3>2. SelfHeal(t) # "none" /\ (s.route \notin Live \/ SelfHeal(t) = "changed")
      BY <1>3, <2>3, <3>1 DEF SelfHeal, Asking, Stale, Live, TurnsAtWork
    <3> QED
      BY <1>4, <1>8, <2>3, <3>1, <3>2 DEF Looks
  <2>4. ASSUME NEW s \in sessions', Stale(s)'
        PROVE  \/ \E x \in Reapers : Looks(x, s.route)'
               \/ \E u \in Inflight' : turn'[u].pc \in Asking /\ SessionOf(u)' = s
               \/ s \in unhealed'
    <3>1. s \in sessions /\ Stale(s)
      BY <1>2, <1>4, <2>4
    <3>2. \/ \E x \in Reapers : Looks(x, s.route)
          \/ \E u \in Inflight : turn[u].pc \in Asking /\ SessionOf(u) = s
          \/ s \in unhealed
      BY <2>1, <3>1 DEF Seen
    <3> QED
      BY <1>5, <1>11, <1>23, <2>2, <2>3, <3>1, <3>2
  <2> QED
    BY <2>4 DEF Seen
<1>22. Cleared'
  <2>1. Cleared
    BY DEF ReaperInv
  <2>2. SUFFICES ASSUME profile, Live = {}
                 PROVE  \/ \E x \in Reapers : Retiring(x)'
                        \/ \E u \in Inflight' : turn'[u].pc \in Asking
                        \/ unhealed' # {}
    BY <1>2, <1>4 DEF Cleared
  <2>3. \A E : Kept(E) => Kept(E)'
    BY <1>5 DEF Kept
  <2>4. \A x \in Reapers : Retiring(x) => Retiring(x)'
    BY <1>2, <1>5, <1>9, <2>3 DEF Retiring, InPass
  <2>5. CASE turn[t].pc \in Asking
    <3>1. SelfHeal(t) # "none"
      BY <2>2, <2>5 DEF SelfHeal, Asking
    <3> QED
      BY <1>8, <3>1 DEF Retiring
  <2> QED
    BY <1>5, <1>23, <2>1, <2>2, <2>4, <2>5 DEF Cleared
<1> QED
  BY <1>14, <1>15, <1>16, <1>17, <1>18, <1>19, <1>20, <1>21, <1>22 DEF ReaperInv

LEMMA ReloadKeeps ==
  ASSUME ReaperInv, NEW c \in Configurations, Reload(c)
  PROVE  ReaperInv'
<1>1. TypeOK
  BY DEF ReaperInv
<1>2. /\ UNCHANGED <<turn, sessions, profile>> /\ config' \in [Routes -> Configs]
      /\ reloads < MaxReloads /\ reloads' = reloads + 1 /\ unhealed' = {}
      /\ reaper' \in [Reapers -> {NoReaper} \cup Waiters \cup Passes]
      /\ \A x \in Reapers : reaper[x].pc # "idle" => reaper'[x] = reaper[x]
      /\ \/ /\ Routes \subseteq Live' /\ \A s \in sessions : config'[s.route].policy = s.policy
            /\ reaper' = reaper
         \/ \E y \in Reapers, E \in SUBSET Routes :
               /\ reaper[y] = NoReaper /\ reaper'[y] = Scheduled(E, 0, {})
               /\ \A s \in sessions : s.route \in Live' /\ config'[s.route].policy # s.policy =>
                     s.route \in E
               /\ \A x \in Reapers \ {y} : reaper'[x] = reaper[x]
  BY <1>1, ReloadDoes
<1>3. Inflight' = Inflight
  BY <1>2 DEF Inflight
<1>12. \A E \in SUBSET Routes :
         /\ Scheduled(E, 0, {}).pc = "scheduled" /\ Scheduled(E, 0, {}).attempt = 0
         /\ Scheduled(E, 0, {}).extra = E
  BY NewReaper
<1>4. \A x \in Reapers : reaper'[x] = reaper[x] \/
         (reaper[x].pc = "idle" /\ reaper'[x].pc = "scheduled" /\ reaper'[x].attempt = 0)
  BY <1>2, <1>12 DEF NoReaper
<1>5. TypeOK'
  BY <1>1, <1>2 DEF TypeOK
<1>6. reloads \in Nat /\ reloads' \in Nat /\ reloads' > 0
  BY <1>1, <1>2 DEF TypeOK
<1>7. ASSUME NEW x \in Reapers, reaper'[x].pc # "idle"
      PROVE  Slack(x)' \in Int /\ Slack(x)' >= 1 /\ (InPass(x)' => Slack(x)' >= 2)
  <2>1. Budget
    BY DEF ReaperInv
  <2>2. CASE reaper'[x] = reaper[x]
    <3>1. reaper[x].attempt \in Nat /\ Slack(x) >= 0
      BY <1>1, <1>7, <2>1, <2>2, ReaperKinds DEF Budget
    <3> QED
      BY <1>2, <1>6, <2>2, <3>1 DEF Slack
  <2>3. CASE reaper'[x].pc = "scheduled" /\ reaper'[x].attempt = 0
    BY <1>2, <1>6, <2>3 DEF Slack, InPass
  <2> QED
    BY <1>4, <2>2, <2>3
<1>8. FirstFits' /\ Budget' /\ LastOne' /\ KeysOld' /\ LastPass'
  <2>1. FirstFits'
    BY <1>6 DEF FirstFits
  <2>2. Budget'
    BY <1>6, <1>7 DEF Budget
  <2>3. LastOne'
    BY <1>7 DEF LastOne
  <2>4. KeysOld'
    <3>1. \A x \in Reapers : InPass(x)' => reaper'[x].pc # "idle"
      BY DEF InPass
    <3> QED
      BY <1>7, <3>1 DEF KeysOld
  <2>5. LastPass'
    BY <1>7 DEF LastPass
  <2> QED
    BY <2>1, <2>2, <2>3, <2>4, <2>5
<1>9. Apart'
  <2>1. Apart
    BY DEF ReaperInv
  <2> QED
    BY <1>2, <1>3, <1>4, <2>1 DEF Apart
<1>10. Seen'
  <2>1. ASSUME NEW s \in sessions, Stale(s)'
        PROVE  \E x \in Reapers : Looks(x, s.route)'
    <3>1. s.route \in Routes
      BY <1>1 DEF TypeOK, SessionKeys
    <3>2. s.route \notin Live' \/ config'[s.route].policy # s.policy
      BY <2>1, <3>1 DEF Stale, Live
    <3>3. PICK y \in Reapers, E \in SUBSET Routes :
             /\ reaper'[y] = Scheduled(E, 0, {})
             /\ \A q \in sessions : q.route \in Live' /\ config'[q.route].policy # q.policy =>
                   q.route \in E
      BY <1>2, <3>1, <3>2
    <3>4. /\ reaper'[y].pc = "scheduled" /\ reaper'[y].attempt < MaxFollowups
          /\ s.route \notin Live' \/ s.route \in reaper'[y].extra
      BY <1>12, <3>2, <3>3
    <3> QED
      BY <3>4 DEF Looks
  <2> QED
    BY <1>2, <2>1 DEF Seen
<1>11. Cleared'
  <2>1. Routes # {}
    <3>1. config \in [Routes -> Configs] /\ config' # config
      BY <1>1 DEF TypeOK, Reload
    <3> QED
      BY <1>2, <3>1
  <2>2. ASSUME Live' = {}
        PROVE  \E y \in Reapers : reaper'[y].pc = "scheduled" /\ reaper'[y].attempt = 0
    <3>1. ~(Routes \subseteq Live')
      BY <2>1, <2>2
    <3>2. PICK y \in Reapers, E \in SUBSET Routes : reaper'[y] = Scheduled(E, 0, {})
      BY <1>2, <3>1
    <3> QED
      BY <1>12, <3>2
  <2> QED
    BY <2>2 DEF Cleared, Retiring
<1> QED
  BY <1>5, <1>8, <1>9, <1>10, <1>11 DEF ReaperInv

-----------------------------------------------------------------------------
(* What a pass knows, and what it drains. *)

LEMMA RunsUpToATaken ==
  ASSUME NEW S \in SUBSET Routes, S \ FreeRun(S) # {}
  PROVE  \E j \in S \ FreeRun(S) : ~Clean(j)
<1>1. PICK k \in S : k \notin FreeRun(S)
  OBVIOUS
<1>2. PICK j \in S : j <= k /\ ~Free(j)
  BY <1>1 DEF FreeRun
<1>3. j \in Nat
  OBVIOUS
<1>4. j \notin FreeRun(S)
  BY <1>2, <1>3 DEF FreeRun
<1>5. ~Clean(j)
  BY <1>2 DEF Free, Clean
<1> QED
  BY <1>2, <1>4, <1>5

LEMMA PassKnows ==
  ASSUME ReaperInv, NEW x \in Reapers, reaper[x].pc # "idle", NEW p, PassOf(x, p)
  PROVE  /\ p.relevant \subseteq Inflight
         /\ Slack(x) <= 1 =>
               /\ p.keys = (Routes \ Live) \cup p.extra
               /\ \A t \in Inflight : turn[t].route \notin Live => t \in p.relevant
<1>1. TypeOK /\ Apart /\ KeysOld
  BY DEF ReaperInv
<1>2. reaper[x].pc \in {"scheduled", "turns", "locks"}
  BY <1>1, ReaperKinds
<1>3. CASE reaper[x].pc = "scheduled"
  <2>1. p.keys = (Routes \ Live) \cup p.extra /\ p.relevant = Relevant(p.keys)
    BY <1>3 DEF PassOf
  <2>2. \A t \in Inflight : turn[t].route \in Routes
    BY <1>1, TurnKinds DEF TurnsAtWork, Inflight
  <2> QED
    BY <2>1, <2>2 DEF Relevant
<1>4. CASE InPass(x)
  <2>1. /\ p.keys = reaper[x].keys /\ p.relevant = reaper[x].relevant
        /\ p.extra = reaper[x].extra
    BY <1>4 DEF PassOf
  <2>2. reaper[x].relevant \subseteq Inflight
    BY <1>1, <1>4 DEF Apart, InPass
  <2> QED
    BY <1>1, <1>4, <2>1, <2>2 DEF KeysOld
<1> QED
  BY <1>2, <1>3, <1>4 DEF InPass

(* p has tried the locks: it took those of drained, todo is left.           *)
Tried(x, p) ==
    /\ PassOf(x, p) /\ reaper[x].pc # "idle"
    /\ TookLocks(x, p) \/ (reaper[x].pc = "locks" /\ p = reaper[x])

LEMMA PassTakes ==
  ASSUME ReaperInv, NEW x \in Reapers, NEW p, Tried(x, p)
  PROVE  /\ p.pc = "locks" /\ p.todo \cap p.drained = {}
         /\ p.todo \cup p.drained \subseteq p.keys
         /\ \A t \in p.relevant : turn[t].route \notin p.todo \cup p.drained
         /\ Slack(x) <= 1 => \A r \in (p.todo \cup p.drained) \ Live : Clean(r)
<1>1. Apart /\ PassOf(x, p) /\ reaper[x].pc # "idle"
  BY DEF ReaperInv, Tried
<1>2. /\ p.pc = "locks" /\ p.todo \cap p.drained = {}
      /\ p.todo \cup p.drained \subseteq p.keys
      /\ \A t \in p.relevant : turn[t].route \notin p.todo \cup p.drained
  <2>1. CASE reaper[x].pc = "locks" /\ p = reaper[x]
    BY <1>1, <2>1 DEF Apart
  <2>2. CASE TookLocks(x, p)
    <3>1. PICK S \in SUBSET Routes :
             /\ p.todo = S \ FreeRun(S)
             /\ \/ reaper[x].pc # "locks" /\ S = p.keys \ Contested(p) /\ p.drained = FreeRun(S)
                \/ /\ reaper[x].pc = "locks" /\ S = reaper[x].todo
                   /\ p.drained = reaper[x].drained \cup FreeRun(S)
      BY <2>2 DEF TookLocks
    <3>2. FreeRun(S) \subseteq S /\ p.pc = "locks"
      BY <2>2 DEF FreeRun, TookLocks
    <3>3. CASE reaper[x].pc # "locks"
      <4>1. p.todo \cup p.drained = S /\ p.todo \cap p.drained = {} /\ S = p.keys \ Contested(p)
        BY <3>1, <3>2, <3>3
      <4>2. ASSUME NEW t \in p.relevant, turn[t].route \in p.keys
            PROVE  turn[t].route \in Contested(p)
        BY <4>2 DEF Contested
      <4> QED
        BY <3>2, <4>1, <4>2
    <3>4. CASE reaper[x].pc = "locks"
      <4>1. /\ p.todo \cup p.drained = reaper[x].todo \cup reaper[x].drained
            /\ p.todo \subseteq reaper[x].todo
            /\ \A r \in p.drained : r \in reaper[x].drained \/ r \notin p.todo
        BY <3>1, <3>2, <3>4
      <4>2. p.keys = reaper[x].keys /\ p.relevant = reaper[x].relevant
        BY <1>1, <3>4 DEF PassOf, InPass
      <4> QED
        BY <1>1, <3>2, <3>4, <4>1, <4>2 DEF Apart
    <3> QED
      BY <3>3, <3>4
  <2> QED
    BY <2>1, <2>2 DEF Tried
<1>3. ASSUME Slack(x) <= 1, NEW r \in (p.todo \cup p.drained) \ Live
      PROVE  Clean(r)
  <2>1. \A t \in Inflight : turn[t].route \notin Live => t \in p.relevant
    BY <1>1, <1>3, PassKnows
  <2> QED
    BY <1>2, <1>3, <2>1 DEF Clean
<1> QED
  BY <1>2, <1>3

(* In its last pass a chain meets only taken locks that it has met before,  *)
(* or is kept from every key by a turn that is not attributed yet.          *)
LEMMA LastTakes ==
  ASSUME ReaperInv, NEW x \in Reapers, NEW p, Tried(x, p), Slack(x) = 0
  PROVE  /\ p.todo # {} => p.todo \cap p.eligible # {}
         /\ \/ p.keys \ (p.todo \cup p.drained) \subseteq p.eligible
            \/ p.todo = {} /\ p.drained = {}
         /\ p.eligible # {} /\ p.eligible \subseteq p.keys
         /\ p.keys = p.extra \cup (Routes \ Live) /\ p.extra \subseteq p.eligible \cap Live
<1>1. TypeOK /\ Apart /\ LastOne /\ LastPass /\ PassOf(x, p) /\ reaper[x].pc # "idle"
  BY DEF ReaperInv, Tried
<1>2. p.eligible = reaper[x].eligible /\ p.extra = reaper[x].extra
  BY <1>1 DEF PassOf
<1>3. /\ p.eligible # {} /\ p.eligible \subseteq p.extra \cup (Routes \ Live)
      /\ p.extra \subseteq p.eligible \cap Live
      /\ \A r \in (Routes \ Live) \ p.eligible : Clean(r)
  BY <1>1, <1>2 DEF LastOne
<1>4. /\ p.keys = (Routes \ Live) \cup p.extra
      /\ p.relevant \subseteq Inflight
  BY <1>1, PassKnows
<1>5. /\ p.todo \cap p.drained = {} /\ p.todo \cup p.drained \subseteq p.keys
      /\ \A r \in (p.todo \cup p.drained) \ Live : Clean(r)
  BY PassTakes
<1>6. CASE reaper[x].pc = "locks" /\ p = reaper[x]
  <2>1. /\ p.keys \ (p.todo \cup p.drained) \subseteq p.eligible
        /\ p.todo \cap p.eligible # {}
    BY <1>1, <1>6 DEF LastPass
  <2> QED
    BY <1>3, <1>4, <2>1
<1>7. CASE TookLocks(x, p)
  <2>1. PICK S \in SUBSET Routes :
           /\ p.todo = S \ FreeRun(S)
           /\ \/ reaper[x].pc # "locks" /\ S = p.keys \ Contested(p) /\ p.drained = FreeRun(S)
              \/ /\ reaper[x].pc = "locks" /\ S = reaper[x].todo
                 /\ p.drained = reaper[x].drained \cup FreeRun(S)
    BY <1>7 DEF TookLocks
  <2>2. FreeRun(S) \subseteq S
    BY DEF FreeRun
  <2>3. p.todo # {} => p.todo \cap p.eligible # {}
    <3>1. ASSUME p.todo # {} PROVE \E j \in p.todo : ~Clean(j)
      BY <2>1, <3>1, RunsUpToATaken
    <3>2. \A j \in p.todo : ~Clean(j) => j \in p.extra
      BY <1>4, <1>5
    <3> QED
      BY <1>3, <3>1, <3>2
  <2>4. CASE reaper[x].pc = "locks"
    <3>1. /\ reaper[x].keys \ (reaper[x].todo \cup reaper[x].drained) \subseteq reaper[x].eligible
          /\ p.keys = reaper[x].keys
      BY <1>1, <2>4 DEF LastPass, PassOf, InPass
    <3>2. p.todo \cup p.drained = reaper[x].todo \cup reaper[x].drained
      BY <2>1, <2>2, <2>4
    <3> QED
      BY <1>2, <1>3, <1>4, <2>3, <3>1, <3>2
  <2>5. CASE reaper[x].pc # "locks" /\ \E t \in p.relevant : turn[t].pc = "fresh"
    <3>1. p.keys \subseteq Contested(p)
      BY <2>5 DEF Contested
    <3> QED
      BY <1>3, <1>4, <2>1, <2>2, <2>5, <3>1
  <2>6. CASE reaper[x].pc # "locks" /\ \A t \in p.relevant : turn[t].pc # "fresh"
    <3>1. p.keys \ (p.todo \cup p.drained) \subseteq Contested(p)
      BY <2>1, <2>6
    <3>2. \A k \in Contested(p) : ~Clean(k)
      BY <1>4, <2>6 DEF Contested, Clean
    <3>3. p.keys \ (p.todo \cup p.drained) \subseteq p.eligible
      BY <1>3, <1>4, <3>1, <3>2
    <3> QED
      BY <1>3, <1>4, <2>3, <3>3
  <2> QED
    BY <2>4, <2>5, <2>6
<1> QED
  BY <1>6, <1>7 DEF Tried

(* So it ends: what it has left it forces, some of it at least.             *)
LEMMA LastSweepEnds ==
  ASSUME ReaperInv, NEW x \in Reapers, NEW p, Tried(x, p), Slack(x) = 0, Left(p) # {}
  PROVE  Forces(p)
<1>1. /\ p.todo # {} => p.todo \cap p.eligible # {}
      /\ \/ p.keys \ (p.todo \cup p.drained) \subseteq p.eligible
         \/ p.todo = {} /\ p.drained = {}
      /\ p.eligible # {} /\ p.eligible \subseteq p.keys
      /\ p.keys = p.extra \cup (Routes \ Live) /\ p.extra \subseteq p.eligible \cap Live
  BY LastTakes
<1>2. p.todo \cap p.drained = {} /\ p.todo \subseteq p.keys
  BY PassTakes
<1>3. Left(p) = p.keys \ p.drained
  BY <1>1 DEF Left, LeftPolicy
<1>4. Left(p) \cap p.eligible # {}
  <2>1. PICK k \in Left(p) : TRUE
    OBVIOUS
  <2>2. CASE p.todo = {}
    BY <1>1, <1>3, <2>1, <2>2
  <2>3. CASE p.todo # {}
    BY <1>1, <1>2, <1>3, <2>3
  <2> QED
    BY <2>2, <2>3
<1>5. ForceKeys(p) # {}
  BY <1>1, <1>4 DEF ForceKeys
<1>6. p.attempt >= MaxFollowups
  <2>1. TypeOK /\ Budget /\ reaper[x].pc # "idle" /\ p.attempt = reaper[x].attempt
    BY DEF ReaperInv, Tried, PassOf
  <2>2. reloads \in Nat /\ reloads > 0 /\ p.attempt \in Nat
    BY <2>1, ReaperKinds DEF TypeOK, Budget
  <2> QED
    BY <2>1, <2>2 DEF Slack
<1> QED
  BY <1>5, <1>6 DEF Forces

LEMMA FollowUpIs ==
  ASSUME ReaperInv, NEW x \in Reapers, NEW p, Tried(x, p), Left(p) # {}, ~Forces(p)
  PROVE  /\ FollowUp(p) \in Waiters /\ FollowUp(p).pc = "scheduled"
         /\ FollowUp(p).extra = LeftPolicy(p) /\ FollowUp(p).eligible = Left(p)
         /\ FollowUp(p).attempt = reaper[x].attempt + 1
         /\ Slack(x) >= 1 /\ Slack(x) \in Int
<1>1. /\ TypeOK /\ Budget /\ reaper[x].pc # "idle" /\ p.attempt = reaper[x].attempt
      /\ p.extra \subseteq Routes
  BY DEF ReaperInv, Tried, PassOf, Passes
<1>2. /\ reloads \in 0..MaxReloads /\ reaper[x].attempt \in Nat
      /\ Slack(x) >= 0
  BY <1>1, ReaperKinds DEF TypeOK, Budget
<1>3. Slack(x) # 0
  BY LastSweepEnds
<1>4. Slack(x) \in Int /\ Slack(x) >= 1
  BY <1>2, <1>3 DEF Slack
<1>5. p.attempt < MaxPasses /\ p.attempt + 1 \in 0..MaxPasses
  BY <1>1, <1>2, <1>4 DEF Slack, MaxPasses
<1>6. LeftPolicy(p) \subseteq Routes /\ Left(p) \subseteq Routes
  BY <1>1 DEF LeftPolicy, Left
<1>7. FollowUp(p) = Scheduled(LeftPolicy(p), p.attempt + 1, Left(p))
  BY <1>5 DEF FollowUp
<1> QED
  BY <1>1, <1>4, <1>5, <1>6, <1>7 DEF Scheduled, Waiters

-----------------------------------------------------------------------------
(* The invariant is kept by reapers. *)

(* What a step of x leaves alone. *)
LEMMA OthersKept ==
  ASSUME ReaperInv, NEW x \in Reapers, UNCHANGED <<config, reloads, turn, unhealed>>,
         NEW r, reaper' = [reaper EXCEPT ![x] = r]
  PROVE  /\ Live' = Live /\ Inflight' = Inflight
         /\ \A s : Stale(s)' <=> Stale(s)
         /\ \A q : Clean(q)' <=> Clean(q)
         /\ \A E : Kept(E)' <=> Kept(E)
         /\ \A t : SessionOf(t)' = SessionOf(t)
         /\ reaper'[x] = r
         /\ \A y \in Reapers \ {x} :
               /\ reaper'[y] = reaper[y] /\ Slack(y)' = Slack(y)
               /\ InPass(y)' <=> InPass(y)
               /\ Retiring(y)' <=> Retiring(y)
               /\ \A q : Looks(y, q)' <=> Looks(y, q)
<1>1. TypeOK
  BY DEF ReaperInv
<1>2. Live' = Live /\ Inflight' = Inflight
  BY DEF Live, Inflight
<1>3. \A E : Kept(E)' <=> Kept(E)
  BY <1>2 DEF Kept
<1>4. reaper'[x] = r /\ \A y \in Reapers \ {x} : reaper'[y] = reaper[y]
  BY <1>1 DEF TypeOK
<1>5. ASSUME NEW y \in Reapers \ {x}
      PROVE  /\ Slack(y)' = Slack(y) /\ (InPass(y)' <=> InPass(y))
             /\ Retiring(y)' <=> Retiring(y)
             /\ \A q : Looks(y, q)' <=> Looks(y, q)
  BY <1>2, <1>3, <1>4 DEF Slack, InPass, Retiring, Looks
<1> QED
  BY <1>2, <1>3, <1>4, <1>5 DEF Stale, Clean, SessionOf

(* It is kept when it is kept of x.                                         *)
OneKeeps(x) ==
    /\ reaper'[x].pc = "turns" =>
          /\ reaper'[x].relevant \subseteq Inflight
          /\ reaper'[x].todo = {} /\ reaper'[x].drained = {}
    /\ reaper'[x].pc = "locks" =>
          /\ reaper'[x].todo # {} /\ reaper'[x].todo \cap reaper'[x].drained = {}
          /\ reaper'[x].todo \cup reaper'[x].drained \subseteq reaper'[x].keys
          /\ \A t \in reaper'[x].relevant :
                t \in Inflight /\ turn[t].route \notin reaper'[x].todo \cup reaper'[x].drained
    /\ reaper'[x].pc # "idle" => reloads > 0 /\ Slack(x)' >= 0
    /\ reaper'[x].pc # "idle" /\ Slack(x)' = 0 =>
          /\ reaper'[x].eligible # {}
          /\ reaper'[x].eligible \subseteq reaper'[x].extra \cup (Routes \ Live)
          /\ reaper'[x].extra \subseteq reaper'[x].eligible \cap Live
          /\ \A r \in (Routes \ Live) \ reaper'[x].eligible : Clean(r)
    /\ InPass(x)' /\ Slack(x)' <= 1 =>
          /\ reaper'[x].keys = (Routes \ Live) \cup reaper'[x].extra
          /\ \A t \in Inflight : turn[t].route \notin Live => t \in reaper'[x].relevant
    /\ reaper'[x].pc = "locks" /\ Slack(x)' = 0 =>
          /\ reaper'[x].keys \ (reaper'[x].todo \cup reaper'[x].drained)
                \subseteq reaper'[x].eligible
          /\ reaper'[x].todo \cap reaper'[x].eligible # {}
    /\ \A s \in sessions' : Stale(s) /\ Looks(x, s.route) => Looks(x, s.route)'
    /\ profile' /\ Live = {} /\ Retiring(x) => Retiring(x)'

LEMMA KeptOfAll ==
  ASSUME ReaperInv, NEW x \in Reapers, UNCHANGED <<config, reloads, turn, unhealed>>,
         NEW r \in {NoReaper} \cup Waiters \cup Passes, reaper' = [reaper EXCEPT ![x] = r],
         sessions' \subseteq sessions, profile' \in BOOLEAN, profile' => profile,
         OneKeeps(x)
  PROVE  ReaperInv'
<1>1. TypeOK /\ FirstFits
  BY DEF ReaperInv
<1>2. /\ Live' = Live /\ Inflight' = Inflight
      /\ \A s : Stale(s)' <=> Stale(s)
      /\ \A q : Clean(q)' <=> Clean(q)
      /\ \A t : SessionOf(t)' = SessionOf(t)
      /\ \A y \in Reapers \ {x} :
            /\ reaper'[y] = reaper[y] /\ Slack(y)' = Slack(y)
            /\ InPass(y)' <=> InPass(y)
            /\ Retiring(y)' <=> Retiring(y)
            /\ \A q : Looks(y, q)' <=> Looks(y, q)
  BY OthersKept
<1>3. TypeOK'
  BY <1>1 DEF TypeOK
<1>4. FirstFits'
  BY <1>1, <1>2 DEF FirstFits
<1>5. Apart'
  <2>1. Apart
    BY DEF ReaperInv
  <2>2. ASSUME NEW y \in Reapers
        PROVE  /\ reaper'[y].pc = "turns" =>
                     /\ reaper'[y].relevant \subseteq Inflight
                     /\ reaper'[y].todo = {} /\ reaper'[y].drained = {}
               /\ reaper'[y].pc = "locks" =>
                     /\ reaper'[y].todo # {} /\ reaper'[y].todo \cap reaper'[y].drained = {}
                     /\ reaper'[y].todo \cup reaper'[y].drained \subseteq reaper'[y].keys
                     /\ \A t \in reaper'[y].relevant :
                           /\ t \in Inflight
                           /\ turn[t].route \notin reaper'[y].todo \cup reaper'[y].drained
    <3>1. CASE y = x
      BY <3>1 DEF OneKeeps
    <3>2. CASE y # x
      BY <1>2, <2>1, <3>2 DEF Apart
    <3> QED
      BY <3>1, <3>2
  <2> QED
    BY <1>2, <2>2 DEF Apart
<1>6. Budget'
  <2>1. Budget
    BY DEF ReaperInv
  <2> QED
    BY <1>2, <2>1 DEF Budget, OneKeeps
<1>7. LastOne'
  <2>1. LastOne
    BY DEF ReaperInv
  <2>2. ASSUME NEW y \in Reapers, reaper'[y].pc # "idle", Slack(y)' = 0
        PROVE  /\ reaper'[y].eligible # {}
               /\ reaper'[y].eligible \subseteq reaper'[y].extra \cup (Routes \ Live)
               /\ reaper'[y].extra \subseteq reaper'[y].eligible \cap Live
               /\ \A q \in (Routes \ Live) \ reaper'[y].eligible : Clean(q)
    <3>1. CASE y = x
      BY <2>2, <3>1 DEF OneKeeps
    <3>2. CASE y # x
      BY <1>2, <2>1, <2>2, <3>2 DEF LastOne
    <3> QED
      BY <3>1, <3>2
  <2> QED
    BY <1>2, <2>2 DEF LastOne
<1>8. KeysOld'
  <2>1. KeysOld
    BY DEF ReaperInv
  <2>2. ASSUME NEW y \in Reapers, InPass(y)', Slack(y)' <= 1
        PROVE  /\ reaper'[y].keys = (Routes \ Live) \cup reaper'[y].extra
               /\ \A t \in Inflight : turn[t].route \notin Live => t \in reaper'[y].relevant
    <3>1. CASE y = x
      BY <2>2, <3>1 DEF OneKeeps
    <3>2. CASE y # x
      BY <1>2, <2>1, <2>2, <3>2 DEF KeysOld
    <3> QED
      BY <3>1, <3>2
  <2> QED
    BY <1>2, <2>2 DEF KeysOld
<1>9. LastPass'
  <2>1. LastPass
    BY DEF ReaperInv
  <2>2. ASSUME NEW y \in Reapers, reaper'[y].pc = "locks", Slack(y)' = 0
        PROVE  /\ reaper'[y].keys \ (reaper'[y].todo \cup reaper'[y].drained)
                     \subseteq reaper'[y].eligible
               /\ reaper'[y].todo \cap reaper'[y].eligible # {}
    <3>1. CASE y = x
      BY <2>2, <3>1 DEF OneKeeps
    <3>2. CASE y # x
      BY <1>2, <2>1, <2>2, <3>2 DEF LastPass
    <3> QED
      BY <3>1, <3>2
  <2> QED
    BY <2>2 DEF LastPass
<1>10. Seen'
  <2>1. ASSUME NEW s \in sessions', Stale(s)'
        PROVE  \/ \E y \in Reapers : Looks(y, s.route)'
               \/ \E u \in Inflight' : turn'[u].pc \in Asking /\ SessionOf(u)' = s
               \/ s \in unhealed'
    <3>1. s \in sessions /\ Stale(s)
      BY <1>2, <2>1
    <3>2. Seen
      BY DEF ReaperInv
    <3>3. \/ \E y \in Reapers : Looks(y, s.route)
          \/ \E u \in Inflight : turn[u].pc \in Asking /\ SessionOf(u) = s
          \/ s \in unhealed
      BY <3>1, <3>2 DEF Seen
    <3>4. \A y \in Reapers : Looks(y, s.route) => Looks(y, s.route)'
      BY <1>2, <3>1 DEF OneKeeps
    <3> QED
      BY <1>2, <3>3, <3>4
  <2> QED
    BY <2>1 DEF Seen
<1>11. Cleared'
  <2>1. Cleared
    BY DEF ReaperInv
  <2>2. profile' /\ Live = {} => \A y \in Reapers : Retiring(y) => Retiring(y)'
    BY <1>2 DEF OneKeeps
  <2> QED
    BY <1>2, <2>1, <2>2 DEF Cleared
<1> QED
  BY <1>3, <1>4, <1>5, <1>6, <1>7, <1>8, <1>9, <1>10, <1>11 DEF ReaperInv

(* x waits for turns, or for a lock. *)
LEMMA GoingOnKeeps ==
  ASSUME ReaperInv, NEW x \in Reapers, reaper[x].pc # "idle",
         UNCHANGED <<config, reloads, turn, unhealed>>, NEW p, PassOf(x, p), GoesOn(x, p),
         \/ reaper[x].pc = "scheduled" /\ p.pc = "turns" /\ p.todo = {} /\ p.drained = {}
         \/ TookLocks(x, p) /\ p.todo # {}
  PROVE  ReaperInv'
<1>1. TypeOK /\ Budget /\ LastOne
  BY DEF ReaperInv
<1>2. /\ reaper' = [reaper EXCEPT ![x] = p] /\ UNCHANGED <<sessions, profile>>
      /\ p \in Passes /\ p.extra = reaper[x].extra
      /\ p.attempt = reaper[x].attempt /\ p.eligible = reaper[x].eligible
      /\ reaper[x].pc = "scheduled" =>
            p.keys = (Routes \ Live) \cup p.extra /\ p.relevant = Relevant(p.keys)
      /\ InPass(x) => p.keys = reaper[x].keys /\ p.relevant = reaper[x].relevant
  BY DEF GoesOn, PassOf
<1>3. /\ p.relevant \subseteq Inflight
      /\ Slack(x) <= 1 =>
            /\ p.keys = (Routes \ Live) \cup p.extra
            /\ \A t \in Inflight : turn[t].route \notin Live => t \in p.relevant
  BY PassKnows
<1>4. reaper'[x] = p /\ p.pc \in {"turns", "locks"} /\ InPass(x)'
  BY <1>1, <1>2 DEF TypeOK, Passes, InPass
<1>5. Slack(x)' = Slack(x)
  BY <1>2, <1>4 DEF Slack
<1>6. p.pc = "locks" => TookLocks(x, p) /\ Tried(x, p) /\ p.todo # {}
  BY DEF Tried
<1>7. p.pc = "locks" =>
         /\ p.todo # {} /\ p.todo \cap p.drained = {}
         /\ p.todo \cup p.drained \subseteq p.keys
         /\ \A t \in p.relevant : turn[t].route \notin p.todo \cup p.drained
  BY <1>6, PassTakes
<1>8. p.pc = "locks" /\ Slack(x) = 0 =>
         /\ p.keys \ (p.todo \cup p.drained) \subseteq p.eligible
         /\ p.todo \cap p.eligible # {}
  BY <1>6, LastTakes
<1>9. p.pc = "turns" => reaper[x].pc = "scheduled" /\ p.todo = {} /\ p.drained = {}
  BY DEF TookLocks
<1>10. reloads > 0 /\ Slack(x) >= 0 /\ x \in Reapers /\ (Slack(x) = 0 =>
          /\ p.eligible # {} /\ p.eligible \subseteq p.extra \cup (Routes \ Live)
          /\ p.extra \subseteq p.eligible \cap Live
          /\ \A r \in (Routes \ Live) \ p.eligible : Clean(r))
  BY <1>1, <1>2 DEF Budget, LastOne
<1>11. ASSUME NEW q, Looks(x, q), q \in Routes PROVE Looks(x, q)'
  <2>1. q \in p.keys
    BY <1>2, <1>11 DEF Looks
  <2>2. Live' = Live
    BY DEF Live
  <2> QED
    BY <1>2, <1>4, <1>11, <2>1, <2>2 DEF Looks
<1>12. ASSUME Live = {}, Retiring(x) PROVE Retiring(x)'
  <2>1. \A E : Kept(E)' <=> Kept(E)
    BY <1>2, OthersKept
  <2>2. Inflight' = Inflight /\ \A t \in Inflight : turn[t].route \in Routes
    BY <1>1, TurnKinds DEF Inflight, TurnsAtWork
  <2>3. reaper[x].pc \in {"scheduled", "turns"}
    BY <1>12 DEF Retiring
  <2>4. p.keys = Routes /\ Inflight \subseteq p.relevant
    <3>1. CASE reaper[x].pc = "scheduled"
      <4>1. p.extra \subseteq Routes
        BY <1>2 DEF Passes
      <4> QED
        BY <1>2, <1>12, <2>2, <3>1, <4>1 DEF Relevant
    <3>2. CASE reaper[x].pc = "turns"
      BY <1>2, <1>12, <3>2 DEF Retiring, InPass
    <3> QED
      BY <2>3, <3>1, <3>2
  <2>5. p.pc = "turns"
    <3> SUFFICES ASSUME p.pc = "locks" PROVE FALSE
      BY <1>4
    <3>1. PICK S \in SUBSET Routes : p.todo = S \ FreeRun(S) /\ S = p.keys \ Contested(p)
      BY <1>6, <2>3 DEF TookLocks
    <3>2. PICK j \in S : ~Clean(j)
      BY <1>6, <3>1, RunsUpToATaken
    <3>3. PICK t \in p.relevant : turn[t].route = j
      BY <2>4, <3>2 DEF Clean
    <3>4. j \in Contested(p)
      BY <3>1, <3>2, <3>3 DEF Contested
    <3> QED
      BY <3>1, <3>2, <3>4
  <2> QED
    BY <1>2, <1>4, <1>12, <2>1, <2>2, <2>4, <2>5 DEF Retiring
<1>13. OneKeeps(x)
  <2>1. \A s \in sessions' : s.route \in Routes
    BY <1>1, <1>2 DEF TypeOK, SessionKeys
  <2> QED
    BY <1>3, <1>4, <1>5, <1>7, <1>8, <1>9, <1>10, <1>11, <1>12, <2>1 DEF OneKeeps
<1> QED
  BY <1>1, <1>2, <1>13, KeptOfAll DEF TypeOK

(* x evicts and retires. *)
LEMMA SweepKeeps ==
  ASSUME ReaperInv, NEW x \in Reapers, UNCHANGED <<config, reloads, turn, unhealed>>,
         NEW p, Tried(x, p), Sweep(x, p), p = reaper[x] \/ p.todo = {}
  PROVE  ReaperInv'
<1>1. TypeOK /\ Budget /\ LastOne
  BY DEF ReaperInv
<1> DEFINE r == IF Left(p) = {} \/ Forces(p) THEN NoReaper ELSE FollowUp(p)
<1>2. /\ sessions' = sessions \ Evicted(Scope(p))
      /\ profile' = (profile /\ ~Retires(Scope(p)))
      /\ reaper' = [reaper EXCEPT ![x] = r]
  BY Zenon DEF Sweep
<1>3. PassOf(x, p) /\ reaper[x].pc # "idle"
  BY DEF Tried
<1>4. /\ p \in Passes /\ p.extra = reaper[x].extra
      /\ p.attempt = reaper[x].attempt /\ p.eligible = reaper[x].eligible
      /\ reaper[x].pc = "scheduled" =>
            p.keys = (Routes \ Live) \cup p.extra /\ p.relevant = Relevant(p.keys)
      /\ InPass(x) => p.keys = reaper[x].keys /\ p.relevant = reaper[x].relevant
  BY <1>3 DEF PassOf
<1>5. /\ p.todo \cap p.drained = {} /\ p.todo \cup p.drained \subseteq p.keys
      /\ \A t \in p.relevant : turn[t].route \notin p.todo \cup p.drained
      /\ Slack(x) <= 1 => \A q \in (p.todo \cup p.drained) \ Live : Clean(q)
  BY PassTakes
<1>6. Left(p) # {} /\ ~Forces(p) =>
         /\ r = FollowUp(p) /\ r \in Waiters /\ r.pc = "scheduled"
         /\ r.extra = LeftPolicy(p) /\ r.eligible = Left(p)
         /\ r.attempt = reaper[x].attempt + 1
         /\ Slack(x) >= 1 /\ Slack(x) \in Int
  BY FollowUpIs
<1>7. Left(p) = {} \/ Forces(p) => r = NoReaper /\ r.pc = "idle"
  BY DEF NoReaper
<1>8. r \in {NoReaper} \cup Waiters \cup Passes
  BY <1>6, <1>7
<1> HIDE DEF r
<1>9. /\ reaper'[x] = r /\ Live' = Live
      /\ \A E : Kept(E)' <=> Kept(E)
  BY <1>2, OthersKept
<1>10. reaper'[x].pc # "idle" =>
          /\ Left(p) # {} /\ ~Forces(p) /\ reaper'[x].pc = "scheduled"
          /\ reaper'[x].extra = LeftPolicy(p) /\ reaper'[x].eligible = Left(p)
          /\ reaper'[x].attempt = reaper[x].attempt + 1
          /\ Slack(x) >= 1 /\ Slack(x) \in Int
  BY <1>6, <1>7, <1>9
<1>11. reaper'[x].pc \in {"idle", "scheduled"} /\ ~InPass(x)'
  BY <1>10 DEF InPass
<1>12. reaper'[x].pc # "idle" => Slack(x)' = Slack(x) - 1
  <2>1. reaper[x].attempt \in Nat /\ reloads \in Nat
    BY <1>1, <1>3, ReaperKinds DEF TypeOK
  <2> QED
    BY <1>10, <2>1 DEF Slack
<1>13. Left(p) = ((p.extra \cap Live) \ p.drained) \cup ((Routes \ Live) \ p.drained)
  BY DEF Left, LeftPolicy
<1>14. reaper'[x].pc # "idle" => reloads > 0 /\ Slack(x)' >= 0
  <2>1. reloads > 0
    BY <1>1, <1>3 DEF Budget
  <2> QED
    BY <1>10, <1>12, <2>1
<1>15. ASSUME reaper'[x].pc # "idle", Slack(x)' = 0
       PROVE  /\ reaper'[x].eligible # {}
              /\ reaper'[x].eligible \subseteq reaper'[x].extra \cup (Routes \ Live)
              /\ reaper'[x].extra \subseteq reaper'[x].eligible \cap Live
              /\ \A q \in (Routes \ Live) \ reaper'[x].eligible : Clean(q)
  <2>1. Slack(x) = 1
    BY <1>10, <1>12, <1>15
  <2>2. \A q \in (Routes \ Live) \ Left(p) : q \in p.drained
    BY <1>13
  <2> QED
    BY <1>5, <1>10, <1>13, <1>15, <2>1, <2>2 DEF LeftPolicy
(* A session that is not evicted is on a key that is left over.             *)
<1>16. ASSUME NEW s \in sessions', Stale(s), Looks(x, s.route)
       PROVE  Looks(x, s.route)'
  <2>1. s \in sessions /\ s.route \notin Scope(p)
    BY <1>2, <1>16 DEF Evicted
  <2>2. s.route \in Routes
    BY <1>1, <2>1 DEF TypeOK, SessionKeys
  <2>3. /\ s.route \in p.keys
        /\ s.route \notin Live \/ s.route \in p.extra
        /\ p.attempt < MaxFollowups \/ s.route \in p.eligible
    BY <1>4, <1>16, <2>2 DEF Looks
  <2>4. s.route \notin p.drained
    BY <2>1 DEF Scope
  <2>5. s.route \in Left(p)
    BY <1>13, <2>2, <2>3, <2>4
  <2>6. ~Forces(p)
    <3> SUFFICES ASSUME Forces(p) PROVE FALSE
      OBVIOUS
    <3>1. p.attempt >= MaxFollowups /\ p.attempt \in Nat
      BY <1>4 DEF Forces, Passes
    <3>3. s.route \in p.eligible
      BY <2>3, <3>1
    <3>2. s.route \in ForceKeys(p)
      BY <2>3, <2>5, <3>3 DEF ForceKeys
    <3> QED
      BY <2>1, <3>2 DEF Scope
  <2>7. reaper'[x].pc # "idle"
    BY <1>6, <1>9, <2>5, <2>6
  <2>8. s.route \notin Live \/ s.route \in LeftPolicy(p)
    BY <2>5 DEF Left
  <2> QED
    BY <1>9, <1>10, <2>5, <2>7, <2>8 DEF Looks
(* A process that stays has a turn on every route that is left over.        *)
<1>17. ASSUME profile', Live = {}, Retiring(x)
       PROVE  Retiring(x)'
  <2>1. /\ reaper[x].pc \in {"scheduled", "turns"}
        /\ reaper[x].attempt >= MaxFollowups => Kept(reaper[x].eligible)
        /\ reaper[x].pc = "turns" => reaper[x].keys = Routes /\ Inflight \subseteq reaper[x].relevant
    BY <1>17 DEF Retiring
  <2>2. \A t \in Inflight : turn[t].route \in Routes
    BY <1>1, TurnKinds DEF Inflight, TurnsAtWork
  <2>3. p.keys = Routes /\ Inflight \subseteq p.relevant
    <3>1. CASE reaper[x].pc = "scheduled"
      <4>1. p.extra \subseteq Routes
        BY <1>4 DEF Passes
      <4> QED
        BY <1>4, <1>17, <2>2, <3>1, <4>1 DEF Relevant
    <3>2. CASE reaper[x].pc = "turns"
      BY <1>4, <2>1, <3>2 DEF InPass
    <3> QED
      BY <2>1, <3>1, <3>2
  <2>4. p.relevant \subseteq Inflight
    BY <1>3, PassKnows
  <2>5. TookLocks(x, p)
    BY <2>1 DEF Tried
  <2>6. PICK S \in SUBSET Routes :
           p.todo = S \ FreeRun(S) /\ S = p.keys \ Contested(p) /\ p.drained = FreeRun(S)
    BY <2>1, <2>5 DEF TookLocks
  <2>7. p.drained = Routes \ Contested(p)
    <3>1. S \ FreeRun(S) = {}
      <4> SUFFICES ASSUME S \ FreeRun(S) # {} PROVE FALSE
        OBVIOUS
      <4>1. PICK j \in S : ~Clean(j)
        BY RunsUpToATaken
      <4>2. PICK t \in p.relevant : turn[t].route = j
        BY <2>3, <4>1 DEF Clean
      <4>3. j \in Contested(p)
        BY <2>6, <4>1, <4>2 DEF Contested
      <4> QED
        BY <2>6, <4>1, <4>3
    <3>2. FreeRun(S) \subseteq S
      BY DEF FreeRun
    <3> QED
      BY <2>3, <2>6, <3>1, <3>2
  <2>8. Left(p) = Routes \cap Contested(p)
    BY <1>13, <1>17, <2>7
  <2>9. ~(Routes \subseteq Scope(p))
    BY <1>2, <1>17 DEF Retires
  <2>10. Left(p) # {}
    BY <2>7, <2>8, <2>9 DEF Scope
  <2>11. ~Forces(p)
    <3> SUFFICES ASSUME Forces(p) PROVE FALSE
      OBVIOUS
    <3>1. Kept(p.eligible)
      BY <1>4, <2>1 DEF Forces
    <3>2. Contested(p) \cap Routes \subseteq p.eligible
      BY <2>3, <2>4, <3>1 DEF Kept, Contested
    <3>3. ForceKeys(p) = Left(p)
      BY <2>3, <2>8, <3>2 DEF ForceKeys
    <3> QED
      BY <2>7, <2>8, <2>9, <3>3 DEF Scope
  <2>12. Kept(Left(p))
    <3>1. ASSUME NEW t \in Inflight
          PROVE  turn[t].route \in Left(p) /\ (turn[t].pc = "fresh" => Left(p) = Routes)
      <4>1. t \in p.relevant /\ turn[t].route \in Routes
        BY <2>2, <2>3
      <4>2. turn[t].pc = "fresh" => Routes \subseteq Contested(p)
        BY <2>3, <4>1 DEF Contested
      <4>3. turn[t].route \in Contested(p)
        BY <2>3, <4>1 DEF Contested
      <4> QED
        BY <2>8, <4>1, <4>2, <4>3
    <3> QED
      BY <3>1 DEF Kept
  <2>13. reaper'[x].pc # "idle"
    BY <1>6, <1>9, <2>10, <2>11
  <2> QED
    BY <1>9, <1>10, <2>12, <2>13 DEF Retiring
<1>18. OneKeeps(x)
  BY <1>11, <1>14, <1>15, <1>16, <1>17 DEF OneKeeps
<1>19. sessions' \subseteq sessions /\ profile' \in BOOLEAN /\ (profile' => profile)
  BY <1>2
<1> QED
  BY <1>2, <1>8, <1>18, <1>19, KeptOfAll

LEMMA ReapKeeps ==
  ASSUME ReaperInv, NEW x \in Reapers, Reap(x)
  PROVE  ReaperInv'
<1>1. TypeOK /\ Apart
  BY DEF ReaperInv
<1>2. /\ UNCHANGED <<config, reloads, turn, unhealed>> /\ reaper[x].pc # "idle"
      /\ \E p : /\ PassOf(x, p)
                /\ \/ /\ reaper[x].pc = "scheduled" /\ p.pc = "turns" /\ p.relevant # {}
                      /\ p.todo = {} /\ p.drained = {} /\ GoesOn(x, p)
                   \/ TookLocks(x, p) /\ p.todo = {} /\ Sweep(x, p)
                   \/ TookLocks(x, p) /\ p.todo # {} /\ GoesOn(x, p)
                   \/ reaper[x].pc = "locks" /\ p = reaper[x] /\ Sweep(x, p)
  BY <1>1, ReapDoes
<1>3. PICK p : /\ PassOf(x, p)
               /\ \/ /\ reaper[x].pc = "scheduled" /\ p.pc = "turns" /\ p.relevant # {}
                     /\ p.todo = {} /\ p.drained = {} /\ GoesOn(x, p)
                  \/ TookLocks(x, p) /\ p.todo = {} /\ Sweep(x, p)
                  \/ TookLocks(x, p) /\ p.todo # {} /\ GoesOn(x, p)
                  \/ reaper[x].pc = "locks" /\ p = reaper[x] /\ Sweep(x, p)
  BY <1>2
<1>4. CASE /\ GoesOn(x, p)
           /\ \/ reaper[x].pc = "scheduled" /\ p.pc = "turns" /\ p.todo = {} /\ p.drained = {}
              \/ TookLocks(x, p) /\ p.todo # {}
  BY <1>2, <1>3, <1>4, GoingOnKeeps
<1>5. CASE Sweep(x, p) /\ (TookLocks(x, p) \/ (reaper[x].pc = "locks" /\ p = reaper[x]))
           /\ (p = reaper[x] \/ p.todo = {})
  <2>1. Tried(x, p)
    BY <1>2, <1>3, <1>5 DEF Tried
  <2> QED
    BY <1>2, <1>5, <2>1, SweepKeeps
<1> QED
  BY <1>3, <1>4, <1>5

-----------------------------------------------------------------------------
LEMMA ReaperInvInit == Init => ReaperInv
<1> SUFFICES ASSUME Init PROVE ReaperInv
  OBVIOUS
<1>1. /\ config \in [Routes -> Configs] /\ reloads = 0
      /\ turn = [t \in Turns |-> NoTurn] /\ sessions = {} /\ profile = FALSE
      /\ reaper = [x \in Reapers |-> NoReaper] /\ unhealed = {}
  BY DEF Init
<1>2. Inflight = {}
  BY <1>1 DEF Inflight
<1>3. \A x \in Reapers : reaper[x].pc = "idle" /\ ~InPass(x)
  BY <1>1 DEF NoReaper, InPass
<1>4. TypeOK
  <2>1. reloads \in 0..MaxReloads
    BY <1>1
  <2>2. turn \in [Turns -> {NoTurn} \cup TurnsAtWork]
    BY <1>1
  <2>3. reaper \in [Reapers -> {NoReaper} \cup Waiters \cup Passes]
    BY <1>1
  <2> QED
    BY <1>1, <2>1, <2>2, <2>3 DEF TypeOK
<1>5. FirstFits /\ Apart /\ Budget /\ LastOne /\ KeysOld /\ LastPass
  BY <1>2, <1>3 DEF FirstFits, Apart, Budget, LastOne, KeysOld, LastPass
<1>6. Seen /\ Cleared
  BY <1>1 DEF Seen, Cleared
<1> QED
  BY <1>4, <1>5, <1>6 DEF ReaperInv

LEMMA ReaperInvStep == ReaperInv /\ [Next]_vars => ReaperInv'
<1> SUFFICES ASSUME ReaperInv, [Next]_vars PROVE ReaperInv'
  OBVIOUS
<1>1. ASSUME NEW c \in Configurations, Reload(c) PROVE ReaperInv'
  BY <1>1, ReloadKeeps
<1>2. ASSUME NEW t \in Turns, NEW r \in Routes, Admit(t, r) PROVE ReaperInv'
  BY <1>2, GoKeeps
<1>3. ASSUME NEW t \in Turns, Attribute(t) \/ Lock(t) \/ GetSession(t) PROVE ReaperInv'
  <2>1. t \in Inflight /\ turn[t].route \in Routes
    <3>1. turn[t].pc \in {"fresh", "waiting", "locked"}
      BY <1>3 DEF Attribute, Lock, GetSession
    <3> QED
      BY <3>1, TurnKinds DEF ReaperInv, TurnsAtWork
  <2> QED
    BY <1>3, <2>1, GoKeeps
<1>4. ASSUME NEW t \in Turns, EndTurn(t) PROVE ReaperInv'
  BY <1>4, EndKeeps
<1>5. ASSUME NEW x \in Reapers, Reap(x) PROVE ReaperInv'
  BY <1>5, ReapKeeps
<1>6. CASE UNCHANGED vars
  <2>1. /\ UNCHANGED <<config, reloads, turn, sessions, profile, reaper, unhealed>>
    BY <1>6 DEF vars
  <2>2. TypeOK' /\ FirstFits' /\ Apart'
    BY <2>1 DEF ReaperInv, TypeOK, FirstFits, Apart, Inflight, Live
  <2>3. Budget' /\ LastOne' /\ KeysOld' /\ LastPass'
    BY <2>1 DEF ReaperInv, Budget, LastOne, KeysOld, LastPass, Slack, InPass, Clean, Inflight, Live
  <2>4. Seen'
    BY <2>1 DEF ReaperInv, Seen, Stale, Looks, SessionOf, InPass, Inflight, Live
  <2>5. Cleared'
    BY <2>1 DEF ReaperInv, Cleared, Retiring, Kept, Inflight, Live
  <2> QED
    BY <2>2, <2>3, <2>4, <2>5 DEF ReaperInv
<1> QED
  BY <1>1, <1>2, <1>3, <1>4, <1>5, <1>6 DEF Next, Work

(* Turns, reloads and the passes of the reapers stay consistent with each   *)
(* other at every step, for any number of each.                             *)
THEOREM ReapersAreConsistent == Spec => []ReaperInv
  BY ReaperInvInit, ReaperInvStep, PTL DEF Spec

(* The state that the reapers and the turns share keeps its shape.          *)
THEOREM ReaperTypeCorrect == Spec => []TypeOK
<1>1. ReaperInv => TypeOK
  BY DEF ReaperInv
<1> QED
  BY <1>1, ReapersAreConsistent, PTL

(* Whatever a reload retires has someone who will clear it away: a reaper,  *)
(* or a turn whose end schedules one; all but what a turn whose finalizer   *)
(* raised has left since the last reload.                                   *)
THEOREM RetiredIsCleared == Spec => []NothingForgotten
<1>1. ReaperInv => NothingForgotten
  <2> SUFFICES ASSUME ReaperInv PROVE StaleIsDue /\ ProcessIsDue
    BY DEF NothingForgotten
  <2>1. Seen /\ Cleared
    BY DEF ReaperInv
  <2>2. StaleIsDue
    <3>1. ASSUME NEW s \in sessions, NEW x \in Reapers, Looks(x, s.route)
          PROVE  \/ reaper[x].pc = "scheduled"
                 \/ reaper[x].pc # "idle" /\ s.route \in reaper[x].keys
      BY <3>1 DEF Looks, InPass
    <3>2. ASSUME NEW s \in sessions, NEW t \in Inflight, SessionOf(t) = s
          PROVE  turn[t].route = s.route
      BY <3>2 DEF SessionOf
    <3> QED
      BY <2>1, <3>1, <3>2 DEF Seen, StaleIsDue
  <2>3. ProcessIsDue
    <3>1. \A x \in Reapers : Retiring(x) => x \notin FreeSlots
      BY DEF Retiring, FreeSlots, NoReaper
    <3> QED
      BY <2>1, <3>1 DEF Cleared, ProcessIsDue
  <2> QED
    BY <2>2, <2>3
<1> QED
  BY <1>1, ReapersAreConsistent, PTL

(* A chain of follow-ups ends within its budget, prolonged by two passes at *)
(* most for each reload, whatever the turns do.                             *)
THEOREM ChainsBounded == Spec => []ChainsEnd
<1>1. ReaperInv => ChainsEnd
  <2> SUFFICES ASSUME ReaperInv, NEW x \in Reapers, reaper[x].pc # "idle"
               PROVE  reaper[x].attempt <= MaxFollowups + 2 * (reloads - 1)
    BY DEF ChainsEnd
  <2>1. TypeOK /\ Slack(x) >= 0
    BY DEF ReaperInv, Budget
  <2>2. reaper[x].attempt \in Nat /\ reloads \in Nat
    BY <2>1, ReaperKinds DEF TypeOK
  <2> QED
    BY <2>1, <2>2 DEF Slack
<1> QED
  BY <1>1, ReapersAreConsistent, PTL

LEMMA CutByForce ==
  ASSUME ReaperInv, [Next]_vars, NEW x \in Reapers, InPass(x), reaper'[x] # reaper[x],
         NEW t \in Cut \cap reaper[x].relevant
  PROVE  reaper[x].attempt >= MaxFollowups /\ turn[t].route \in reaper[x].eligible
<1>1. TypeOK /\ Apart
  BY DEF ReaperInv
<1>2. t \in Inflight /\ turn'[t] = turn[t] /\
         \/ SessionOf(t) \in sessions /\ SessionOf(t) \notin sessions'
         \/ profile /\ ~profile'
  BY DEF Cut
<1>3. ~(UNCHANGED <<sessions, profile>>)
  BY <1>2
<1>4. ASSUME NEW u \in Turns, NEW q \in Routes,
             Admit(u, q) \/ Attribute(u) \/ Lock(u) \/ GetSession(u)
      PROVE  FALSE
  <2>1. UNCHANGED reaper
    BY <1>1, <1>4, GoDoes
  <2> QED
    BY <2>1
<1>5. ASSUME NEW u \in Turns, EndTurn(u) PROVE FALSE
  BY <1>3, <1>5 DEF EndTurn
<1>6. ASSUME NEW c \in Configurations, Reload(c) PROVE FALSE
  BY <1>3, <1>6 DEF Reload
<1>7. ASSUME NEW y \in Reapers, Reap(y)
      PROVE  reaper[x].attempt >= MaxFollowups /\ turn[t].route \in reaper[x].eligible
  <2>1. /\ UNCHANGED <<config, reloads, turn, unhealed>> /\ reaper[y].pc # "idle"
        /\ \E p : /\ PassOf(y, p)
                  /\ \/ /\ reaper[y].pc = "scheduled" /\ p.pc = "turns" /\ p.relevant # {}
                        /\ p.todo = {} /\ p.drained = {} /\ GoesOn(y, p)
                     \/ TookLocks(y, p) /\ p.todo = {} /\ Sweep(y, p)
                     \/ TookLocks(y, p) /\ p.todo # {} /\ GoesOn(y, p)
                     \/ reaper[y].pc = "locks" /\ p = reaper[y] /\ Sweep(y, p)
    BY <1>1, <1>7, ReapDoes
  <2>2. PICK p : /\ PassOf(y, p)
                 /\ \/ GoesOn(y, p)
                    \/ /\ Sweep(y, p)
                       /\ TookLocks(y, p) \/ (reaper[y].pc = "locks" /\ p = reaper[y])
    BY <2>1
  <2>3. Sweep(y, p) /\ Tried(y, p)
    BY <1>3, <2>1, <2>2 DEF GoesOn, Tried
  <2>4. y = x
    BY <1>1, <2>3 DEF Sweep, TypeOK
  <2>5. /\ sessions' = sessions \ Evicted(Scope(p))
        /\ profile' = (profile /\ ~Retires(Scope(p)))
    BY <2>3 DEF Sweep
  <2>6. /\ p.relevant = reaper[x].relevant /\ p.attempt = reaper[x].attempt
        /\ p.eligible = reaper[x].eligible
    BY <2>2, <2>4 DEF PassOf
  <2>7. turn[t].route \notin p.drained
    BY <2>3, <2>6, PassTakes
  <2>8. turn[t].route \in Scope(p)
    <3>1. turn[t].route \in Routes
      BY <1>1, <1>2, TurnKinds DEF Inflight, TurnsAtWork
    <3>2. CASE SessionOf(t) \in sessions /\ SessionOf(t) \notin sessions'
      BY <2>5, <3>2 DEF Evicted, SessionOf
    <3>3. CASE profile /\ ~profile'
      BY <2>5, <3>1, <3>3 DEF Retires
    <3> QED
      BY <1>2, <3>2, <3>3
  <2>9. Forces(p) /\ turn[t].route \in ForceKeys(p)
    BY <2>7, <2>8 DEF Scope
  <2> QED
    BY <2>6, <2>9 DEF Forces, ForceKeys
<1>8. CASE UNCHANGED vars
  BY <1>3, <1>8 DEF vars
<1>9. turn[t].route \in Routes
  BY <1>1, <1>2, TurnKinds DEF Inflight, TurnsAtWork
<1> QED
  BY <1>4, <1>5, <1>6, <1>7, <1>8, <1>9 DEF Next, Work

(* A reaper cuts a turn that it knows of only after its chain has used up   *)
(* its follow-ups, and only on a route that it failed to drain before.      *)
THEOREM CutsAreForced == Spec => CutOnlyByForce
<1>1. ReaperInv /\ [Next]_vars =>
        [\A x \in Reapers : reaper[x].pc \in {"turns", "locks"} /\ reaper'[x] # reaper[x] =>
           \A t \in Cut \cap reaper[x].relevant :
              reaper[x].attempt >= MaxFollowups /\ turn[t].route \in reaper[x].eligible]_vars
  BY CutByForce DEF InPass
<1> QED
  BY <1>1, ReapersAreConsistent, PTL DEF Spec, CutOnlyByForce
====
