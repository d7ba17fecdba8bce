---- MODULE BoundaryProofs ----
(***************************************************************************)
(* Proofs about the boundary of the router: AcpPeer, the agent's process   *)
(* and the tasks around it, for any requests and calls of close(); and     *)
(* TurnIO, what turns do to media, to Signal and to the rate limit, for    *)
(* any turns, files, limits and clocks.                                    *)
(***************************************************************************)
EXTENDS AcpPeer, TurnIO, FiniteSetTheorems, TLAPS

-----------------------------------------------------------------------------
(* AcpPeer *)

USE ExtrasKnown, RequestsApart

-----------------------------------------------------------------------------
(* The inductive invariant, one operator per idea. *)

(* A request that still waits for its answer is one the reader will find.   *)
Registered ==
    \A r \in Requests :
        req[r] \in {"writing", "waiting"} /\ future[r] = "open" => r \in pending

JunkIn == \E i \in DOMAIN frames : frames[i] = "junk"

(* Junk is written once. *)
JunkOnce ==
    /\ \A i, j \in DOMAIN frames : frames[i] = "junk" /\ frames[j] = "junk" => i = j
    /\ JunkIn => "junk" \notin owed

(* The report waits for the watcher; what close() knew of is known still,   *)
(* and nothing suppresses the report of it while the watcher lives.         *)
ReportDue ==
    /\ watcher # "done" => reports = 0
    /\ known => Evidence
    /\ known /\ watcher # "done" => ~expected
    /\ expected => \E c \in Closers : closer[c] # "idle"
    /\ watcher # "done" /\ "watcher" \in cancels => expected
    /\ \A c \in Closers : closer[c] \notin {"idle", "handoff", "gave up"} => expected

PeerInv ==
    /\ TypeOK /\ Registered /\ JunkOnce /\ ReportDue
    /\ NoProcessLeft /\ DeathReported /\ ToldOfExit /\ AnswersAreHarmless

LEMMA InvInit == Init => PeerInv
<1> SUFFICES ASSUME Init PROVE PeerInv
  OBVIOUS
<1> USE DEF Init
<1>1. TypeOK
  <2>1. /\ frames \in Seq(Requests \cup Extras) /\ held \in BOOLEAN /\ cancels = {} /\ reports \in 0..1
        /\ closer \in [Closers -> {"idle"}] /\ req \in [Requests -> {"idle"}]
        /\ future \in [Requests -> {"open"}]
    OBVIOUS
  <2> QED
    BY <2>1 DEF TypeOK
<1>2. Registered /\ JunkOnce
  BY DEF Registered, JunkOnce, JunkIn
<1>3. ReportDue
  BY DEF ReportDue, Evidence
<1>4. NoProcessLeft /\ DeathReported /\ ToldOfExit /\ AnswersAreHarmless
  BY DEF NoProcessLeft, DeathReported, ToldOfExit, AnswersAreHarmless, CloserOver, ReaderOver
<1> QED
  BY <1>1, <1>2, <1>3, <1>4 DEF PeerInv

-----------------------------------------------------------------------------
(* However close() ends, the process is dead: every way out of it is the    *)
(* backstop, and the dead stay dead.                                        *)
LEMMA ProcessGone ==
  TypeOK /\ NoProcessLeft /\ [Next]_vars => NoProcessLeft'
<1> SUFFICES ASSUME TypeOK, NoProcessLeft, [Next]_vars PROVE NoProcessLeft'
  OBVIOUS
<1>t. /\ child \in {"alive", "dead", "reaped"}
      /\ closer \in [Closers -> {"idle", "handoff", "watcher", "reader", "stderr", "grace", "reap"}
                                \cup CloserOver]
  BY DEF TypeOK
<1> USE <1>t DEF NoProcessLeft, Gone, CloserOver, childVars, closeVars
<1>1. CASE UNCHANGED <<child, closer>>
  BY <1>1
<1>2. CASE CloseStdout \/ Die \/ Reap
  BY <1>2 DEF CloseStdout, Die, Reap
<1>3. ASSUME NEW c \in Closers, Close(c) \/ HandedOff(c) \/ TaskStopped(c) PROVE NoProcessLeft'
  <2>1. CASE child' = child /\ closer' = [closer EXCEPT ![c] = "handoff"]
    BY <2>1
  <2>2. CASE CloseOn(c)
    BY <2>2 DEF CloseOn, AwaitTask, Backstop, At, Killed
  <2> QED
    BY <1>3, <2>1, <2>2 DEF Close, HandedOff, TaskStopped, At
<1>4. ASSUME NEW c \in Closers, ProcessWaited(c) \/ GraceOverdue(c) \/ CloseCancelled(c)
      PROVE  NoProcessLeft'
  BY <1>4 DEF ProcessWaited, GraceOverdue, CloseCancelled, Finished, Backstop, At, Killed
<1> QED
  BY <1>1, <1>2, <1>3, <1>4
  DEF Next, Over, Child, Write, Read, ReadAnswer, ReadJunk, ReadAsk, ReplySent, ReadEof,
      ReaderCancelled, StderrEnds, Watch, WatchExit, Settled, SettleOverdue, WatcherCancelled,
      WatcherReports, CloseGoes, RequestGoes, Request, Written, TimesOut, Returns,
      RequestCancelled, vars

-----------------------------------------------------------------------------
(* The end of the reader tells every request that is registered.            *)

LEMMA ReaderEndTells ==
  ASSUME TypeOK, Registered, ReaderEnds("ended") \/ ReaderEnds("failed")
  PROVE  Registered' /\ ToldOfExit'
BY DEF TypeOK, Registered, ToldOfExit, ReaderEnds, FailPending

LEMMA RequestsTold ==
  TypeOK /\ Registered /\ ToldOfExit /\ [Next]_vars => Registered' /\ ToldOfExit'
<1> SUFFICES ASSUME TypeOK, Registered, ToldOfExit, [Next]_vars
             PROVE  Registered' /\ ToldOfExit'
  OBVIOUS
<1> USE DEF childVars, pipeVars, taskVars, closeVars, reqVars
<1>t. /\ req \in [Requests -> {"idle", "writing", "waiting", "over"}]
      /\ future \in [Requests -> {"open", "result", "exited", "cancelled"}]
      /\ pending \subseteq Requests
  BY DEF TypeOK
<1>1. CASE UNCHANGED <<reader, req, future, pending, late>>
  BY <1>1 DEF Registered, ToldOfExit
<1>2. CASE ReaderEnds("ended") \/ ReaderEnds("failed")
  BY <1>2, ReaderEndTells
<1>3. CASE ReadAnswer /\ ~ReaderEnds("failed")
  <2>1. /\ reader' = reader /\ reader \notin ReaderOver /\ req' = req
        /\ \E r \in Requests :
              \/ /\ future' = [future EXCEPT ![r] = "result"] /\ pending' = pending \ {r}
              \/ /\ ~(r \in pending /\ future[r] = "open")
                 /\ future' = future /\ pending' = pending \ {r}
    BY <1>3 DEF ReadAnswer, Reading, Settable, ReaderOver
  <2>2. Registered'
    BY <1>t, <2>1 DEF Registered
  <2> QED
    BY <2>1, <2>2 DEF ToldOfExit
<1>4. CASE /\ reader' \notin ReaderOver
           /\ UNCHANGED <<req, future, pending, late>>
  BY <1>4 DEF Registered, ToldOfExit
<1>5. ASSUME NEW r \in Requests, RequestGoes(r) PROVE Registered' /\ ToldOfExit'
  <2>1. CASE Request(r)
    BY <1>t, <2>1 DEF Request, Stage, Registered, ToldOfExit
  <2>2. CASE Written(r)
    <3>1. /\ reader' = reader /\ late' = late /\ future' = future /\ req[r] = "writing"
          /\ \/ req' = [req EXCEPT ![r] = "over"] /\ pending' = pending \ {r}
             \/ req' = [req EXCEPT ![r] = "waiting"] /\ pending' = pending
      BY <2>2 DEF Written, Stage
    <3> QED
      BY <1>t, <3>1 DEF Registered, ToldOfExit
  <2>3. CASE TimesOut(r)
    BY <1>t, <2>3 DEF TimesOut, Registered, ToldOfExit
  <2>4. CASE Returns(r) \/ RequestCancelled(r)
    BY <1>t, <2>4 DEF Returns, RequestCancelled, Stage, Registered, ToldOfExit
  <2> QED
    BY <1>5, <2>1, <2>2, <2>3, <2>4 DEF RequestGoes
<1>6. Read => \/ UNCHANGED <<reader, req, future, pending, late>>
              \/ ReaderEnds("ended") \/ ReaderEnds("failed")
              \/ ReadAnswer /\ ~ReaderEnds("failed")
              \/ reader' \notin ReaderOver /\ UNCHANGED <<req, future, pending, late>>
  BY DEF Read, ReadAnswer, ReadJunk, ReadAsk, ReplySent, ReadEof, ReaderCancelled, ReaderOver
<1>7. ASSUME NEW c \in Closers, Close(c) \/ CloseGoes(c) \/ CloseCancelled(c)
      PROVE  UNCHANGED <<reader, req, future, pending, late>>
  BY <1>7 DEF Close, CloseGoes, CloseCancelled, HandedOff, TaskStopped, CloseOn, ProcessWaited,
              GraceOverdue, Finished, Backstop
<1>8. Child \/ Reap \/ StderrEnds \/ Watch \/ Over \/ UNCHANGED vars =>
        UNCHANGED <<reader, req, future, pending, late>>
  BY DEF Child, Write, CloseStdout, Die, Reap, StderrEnds, Watch, WatchExit, Settled,
         SettleOverdue, WatcherCancelled, WatcherReports, Over, vars
<1> QED
  BY <1>1, <1>2, <1>3, <1>4, <1>5, <1>6, <1>7, <1>8 DEF Next

-----------------------------------------------------------------------------
(* What the process writes.                                                 *)

LEMMA ReaderDiesOfJunk ==
  ASSUME TypeOK, JunkOnce, AnswersAreHarmless, [Next]_vars
  PROVE  JunkOnce' /\ AnswersAreHarmless'
<1> USE DEF childVars, pipeVars, taskVars, closeVars, reqVars
<1>t. /\ frames \in Seq(Requests \cup Extras) /\ owed \subseteq Requests \cup Extras
      /\ broken \in BOOLEAN /\ "junk" \notin Requests
  BY DEF TypeOK
<1> DEFINE Harmless == JunkOnce' /\ AnswersAreHarmless'
<1>1. CASE /\ UNCHANGED <<frames, owed>>
           /\ broken => broken'
           /\ reader' = "failed" => reader = "failed" \/ broken'
  <2>1. (JunkIn' <=> JunkIn) /\ JunkOnce'
    BY <1>1 DEF JunkOnce, JunkIn
  <2> QED
    BY <1>1, <2>1 DEF AnswersAreHarmless, JunkIn
<1>2. ASSUME NEW f \in owed, Write(f) PROVE Harmless
  <2>1. /\ frames' = Append(frames, f) /\ owed' = owed \ {f}
        /\ UNCHANGED <<reader, broken>> /\ f \in Requests \cup Extras
    BY <1>t, <1>2 DEF Write
  <2> DEFINE n == Len(frames)
  <2>2. /\ n \in Nat /\ DOMAIN frames = 1..n /\ DOMAIN frames' = 1..(n + 1)
        /\ \A i \in 1..n : frames'[i] = frames[i] /\ frames'[n + 1] = f
    BY <1>t, <2>1
  <2>3. frames'[n + 1] = f
    BY <1>t, <2>1
  <2> HIDE DEF n
  <2>4. JunkIn' => JunkIn \/ f = "junk"
    BY <2>2, <2>3 DEF JunkIn
  <2>5. JunkOnce'
    <3>1. \A i \in DOMAIN frames' : i \in DOMAIN frames \/ i = n + 1
      BY <2>2
    <3> QED
      BY <1>2, <2>1, <2>2, <2>3, <2>4, <3>1 DEF JunkOnce, JunkIn
  <2>6. AnswersAreHarmless'
    BY <1>2, <2>1, <2>4 DEF AnswersAreHarmless, JunkIn
  <2> QED
    BY <2>5, <2>6
<1>3. ASSUME Reading, owed' = owed, broken' = broken,
             reader' = "failed" => reader = "failed" \/ Head(frames) = "junk"
      PROVE  Harmless
  <2> DEFINE n == Len(frames)
  <2>1. frames # <<>> /\ frames' = Tail(frames)
    BY <1>3 DEF Reading
  <2>2. /\ n \in Nat /\ n >= 1 /\ DOMAIN frames = 1..n /\ DOMAIN frames' = 1..(n - 1)
        /\ \A i \in 1..(n - 1) : frames'[i] = frames[i + 1]
        /\ Head(frames) = frames[1]
    BY <1>t, <2>1
  <2> HIDE DEF n
  <2>3. \A i \in DOMAIN frames' : i + 1 \in DOMAIN frames /\ i \in Nat /\ i + 1 # 1
    BY <2>2
  <2>4. 1 \in DOMAIN frames
    BY <2>2
  <2>5. JunkIn' => JunkIn
    BY <2>2, <2>3 DEF JunkIn
  <2>6. JunkOnce'
    BY <1>3, <2>2, <2>3, <2>5 DEF JunkOnce, JunkIn
  <2>7. Head(frames) = "junk" => ~JunkIn' /\ "junk" \in Extras \ owed
    BY <1>t, <2>2, <2>3, <2>4 DEF JunkOnce, JunkIn
  <2>8. AnswersAreHarmless'
    BY <1>3, <2>5, <2>7 DEF AnswersAreHarmless, JunkIn
  <2> QED
    BY <2>6, <2>8
<1>4. CASE ReadAnswer
  <2>1. /\ Reading /\ owed' = owed /\ broken' = broken /\ reader' = reader
    BY <1>4 DEF ReadAnswer, Settable
  <2> QED
    BY <1>3, <2>1
<1>5. CASE ReadJunk \/ ReadAsk
  <2>1. /\ Reading /\ owed' = owed /\ broken' = broken
        /\ reader' = "failed" => reader = "failed" \/ Head(frames) = "junk"
    BY <1>5 DEF ReadJunk, ReadAsk
  <2> QED
    BY <1>3, <2>1
<1>6. CASE ReplySent
  <2>1. /\ UNCHANGED <<frames, owed>>
        /\ \/ broken' = TRUE
           \/ reader' = "reading" /\ broken' = broken
    BY <1>6 DEF ReplySent
  <2> QED
    BY <1>1, <2>1
<1>7. CASE ReadEof \/ ReaderCancelled
  <2>1. UNCHANGED <<frames, owed, broken>> /\ reader' = "ended"
    BY <1>7 DEF ReadEof, ReaderCancelled, ReaderEnds
  <2> QED
    BY <1>1, <2>1
<1>8. ASSUME NEW r \in Requests, RequestGoes(r) PROVE Harmless
  <2>1. CASE Written(r)
    <3>1. /\ frames' = frames /\ reader' = reader
          /\ broken => broken'
          /\ owed' = owed \/ owed' = owed \cup {r}
      BY <2>1 DEF Written
    <3>2. "junk" \in owed' => "junk" \in owed
      BY <1>t, <3>1
    <3>3. (JunkIn' <=> JunkIn) /\ JunkOnce'
      BY <3>1, <3>2 DEF JunkOnce, JunkIn
    <3> QED
      BY <3>1, <3>2, <3>3 DEF AnswersAreHarmless, JunkIn
  <2>2. CASE ~Written(r)
    <3>1. UNCHANGED <<frames, owed, broken, reader>>
      BY <1>8, <2>2 DEF RequestGoes, Request, TimesOut, Returns, RequestCancelled
    <3> QED
      BY <1>1, <3>1
  <2> QED
    BY <2>1, <2>2
<1>9. ASSUME NEW c \in Closers, Close(c) \/ CloseGoes(c) \/ CloseCancelled(c)
      PROVE  UNCHANGED <<frames, owed, broken, reader>>
  BY <1>9 DEF Close, CloseGoes, CloseCancelled, HandedOff, TaskStopped, CloseOn, ProcessWaited,
              GraceOverdue, Finished
<1>10. CloseStdout \/ Die \/ Reap \/ StderrEnds \/ Watch \/ Over \/ UNCHANGED vars =>
         UNCHANGED <<frames, owed, broken, reader>>
  BY DEF CloseStdout, Die, Reap, StderrEnds, Watch, WatchExit, Settled,
         SettleOverdue, WatcherCancelled, WatcherReports, Over, vars
<1> QED
  BY <1>1, <1>2, <1>4, <1>5, <1>6, <1>7, <1>8, <1>9, <1>10 DEF Next, Child, Read

-----------------------------------------------------------------------------
(* The report of the exit.                                                  *)

LEMMA EvidenceLasts ==
  ASSUME TypeOK, [Next]_vars
  PROVE  Evidence => Evidence'
<1> USE DEF childVars, pipeVars, taskVars, closeVars, reqVars, Evidence
<1>1. CASE UNCHANGED <<child, eof, broken>>
  BY <1>1
<1>2. CASE CloseStdout \/ Die \/ Reap
  BY <1>2 DEF CloseStdout, Die, Reap
<1>3. CASE ReplySent \/ ReadEof
  BY <1>3 DEF ReplySent, ReadEof
<1>4. ASSUME NEW r \in Requests, RequestGoes(r) PROVE Evidence => Evidence'
  BY <1>4 DEF RequestGoes, Request, Written, TimesOut, Returns, RequestCancelled
<1>5. ASSUME NEW c \in Closers, Close(c) \/ CloseGoes(c) \/ CloseCancelled(c)
      PROVE  Evidence => Evidence'
  <2>1. CASE CloseOn(c)
    BY <2>1 DEF CloseOn, AwaitTask, Backstop, At, Killed
  <2>2. CASE ~CloseOn(c)
    BY <1>5, <2>2 DEF Close, CloseGoes, CloseCancelled, HandedOff, TaskStopped, ProcessWaited,
       GraceOverdue, Finished, Backstop, Killed
  <2> QED
    BY <2>1, <2>2
<1> QED
  BY <1>1, <1>2, <1>3, <1>4, <1>5
  DEF Next, Over, Child, Write, Read, ReadAnswer, ReadJunk, ReadAsk, ReaderCancelled, StderrEnds,
      Watch, WatchExit, Settled, SettleOverdue, WatcherCancelled, WatcherReports, vars

(* What close() does past the suppression says nothing to the watcher but   *)
(* "stop", and it said so before.                                           *)
LEMMA CloseOnEffect ==
  ASSUME TypeOK, NEW c \in Closers, CloseOn(c)
  PROVE  /\ UNCHANGED <<watcher, reports>>
         /\ \E s \in {"watcher", "reader", "stderr", "grace"} \cup CloserOver :
               closer' = [closer EXCEPT ![c] = s] /\ s # "gave up"
<1> USE DEF CloseOn
<1>1. UNCHANGED <<watcher, reports>>
  OBVIOUS
<1>2. \E s \in {"watcher", "reader", "stderr", "grace", "raised", "closed"} :
         closer' = [closer EXCEPT ![c] = s]
  BY DEF AwaitTask, Backstop, At
<1> QED
  BY <1>1, <1>2 DEF CloserOver

LEMMA ReportStep ==
  ASSUME TypeOK, ReportDue, DeathReported, [Next]_vars
  PROVE  ReportDue' /\ DeathReported'
<1> USE DEF childVars, pipeVars, taskVars, closeVars, reqVars
<1>t. /\ closer \in [Closers -> {"idle", "handoff", "watcher", "reader", "stderr", "grace", "reap"}
                                \cup CloserOver]
      /\ expected \in BOOLEAN /\ known \in BOOLEAN /\ reports \in 0..1
      /\ watcher \in {"waiting", "settling", "cancelling", "done"}
  BY DEF TypeOK
<1> DEFINE Reported == ReportDue' /\ DeathReported'
<1>1. ASSUME UNCHANGED <<watcher, reports, expected, closer, known>>,
             watcher # "done" /\ "watcher" \in cancels' => "watcher" \in cancels
      PROVE  Reported
  BY <1>1, EvidenceLasts DEF ReportDue, DeathReported
<1>2. ASSUME WatcherReports, watcher # "done" PROVE Reported
  <2>1. /\ watcher' = "done" /\ UNCHANGED <<expected, closer, known, cancels>>
        /\ reports' = IF expected THEN reports ELSE reports + 1
    BY <1>2 DEF WatcherReports
  <2>2. reports = 0 /\ (known => ~expected) /\ ((\A c \in Closers : closer[c] = "idle") => ~expected)
    BY <1>2 DEF ReportDue
  <2>3. ReportDue'
    BY <2>1, EvidenceLasts DEF ReportDue
  <2>4. DeathReported'
    BY <1>t, <2>1, <2>2 DEF DeathReported
  <2> QED
    BY <2>3, <2>4
<1>3. CASE WatchExit
  <2>1. CASE WatcherReports
    BY <1>2, <1>3, <2>1 DEF WatchExit
  <2>2. CASE ~WatcherReports
    <3>1. /\ watcher = "waiting" /\ watcher' = "settling"
          /\ UNCHANGED <<reports, expected, closer, known, cancels>>
      BY <1>3, <2>2 DEF WatchExit
    <3> QED
      BY <3>1, EvidenceLasts DEF ReportDue, DeathReported
  <2> QED
    BY <2>1, <2>2
<1>4. CASE Settled
  BY <1>2, <1>4 DEF Settled
<1>5. CASE SettleOverdue
  <2>1. /\ watcher = "settling" /\ watcher' = "cancelling" /\ cancels' = cancels \cup Drains
        /\ UNCHANGED <<reports, expected, closer, known>>
    BY <1>5 DEF SettleOverdue
  <2>2. "watcher" \notin Drains
    BY DEF Drains
  <2> QED
    BY <2>1, <2>2, EvidenceLasts DEF ReportDue, DeathReported
<1>6. CASE WatcherCancelled
  <2>1. /\ watcher # "done" /\ "watcher" \in cancels /\ watcher' = "done"
        /\ UNCHANGED <<reports, expected, closer, known, cancels>>
    BY <1>6 DEF WatcherCancelled
  <2> QED
    BY <2>1, EvidenceLasts DEF ReportDue, DeathReported
<1>7. ASSUME NEW c \in Closers, CloseOn(c), expected' = TRUE, known' = known,
             watcher = "done" \/ ~known
      PROVE  Reported
  <2>1. PICK s \in {"watcher", "reader", "stderr", "grace"} \cup CloserOver :
           closer' = [closer EXCEPT ![c] = s] /\ s # "gave up"
    BY <1>7, CloseOnEffect
  <2>2. s # "idle" /\ watcher' = watcher /\ reports' = reports
    BY <1>7, <2>1, CloseOnEffect DEF CloserOver
  <2>3. ReportDue'
    BY <1>t, <1>7, <2>1, <2>2, EvidenceLasts DEF ReportDue
  <2>4. DeathReported'
    BY <1>t, <1>7, <2>1, <2>2 DEF DeathReported
  <2> QED
    BY <2>3, <2>4
<1>8. ASSUME NEW c \in Closers, Close(c) PROVE Reported
  <2>1. CASE known' = known
    <3>1. CASE HandsOff
      <4>1. /\ closer' = [closer EXCEPT ![c] = "handoff"]
            /\ UNCHANGED <<expected, reports, watcher, cancels>>
        BY <1>8, <3>1 DEF Close, At
      <4>2. ReportDue'
        BY <1>t, <2>1, <4>1, EvidenceLasts DEF ReportDue
      <4>3. DeathReported'
        BY <1>t, <2>1, <4>1 DEF DeathReported
      <4> QED
        BY <4>2, <4>3
    <3>2. CASE ~HandsOff
      <4>1. CloseOn(c) /\ expected' = TRUE
        BY <1>8, <3>2 DEF Close
      <4>2. watcher = "done" \/ ~known
        BY <3>2 DEF HandsOff, ReportDue
      <4> QED
        BY <1>7, <2>1, <4>1, <4>2
    <3> QED
      BY <3>1, <3>2
  <2>2. CASE known' # known
    <3>1. known' = TRUE /\ Evidence /\ \A d \in Closers : closer[d] = "idle"
      BY <1>t, <1>8, <2>2 DEF Close
    <3>2. ~expected
      BY <3>1 DEF ReportDue
    <3>3. CASE HandsOff
      <4>1. /\ closer' = [closer EXCEPT ![c] = "handoff"] /\ watcher # "done"
            /\ UNCHANGED <<expected, reports, watcher, cancels>>
        BY <1>8, <3>3 DEF Close, At, HandsOff
      <4>2. ReportDue'
        BY <1>t, <3>1, <3>2, <4>1, EvidenceLasts DEF ReportDue
      <4>3. DeathReported'
        BY <4>1 DEF DeathReported
      <4> QED
        BY <4>2, <4>3
    <3>4. CASE ~HandsOff
      <4>1. CloseOn(c) /\ expected' = TRUE /\ watcher = "done"
        BY <1>8, <3>1, <3>4 DEF Close, HandsOff
      <4>2. PICK s \in {"watcher", "reader", "stderr", "grace"} \cup CloserOver :
               closer' = [closer EXCEPT ![c] = s] /\ s # "gave up"
        BY <4>1, CloseOnEffect
      <4>3. s # "idle" /\ watcher' = watcher /\ reports' = reports
        BY <4>1, <4>2, CloseOnEffect DEF CloserOver
      <4>4. reports = 1
        BY <3>1, <4>1 DEF DeathReported
      <4>5. ReportDue'
        BY <1>t, <3>1, <4>1, <4>2, <4>3, EvidenceLasts DEF ReportDue
      <4> QED
        BY <4>3, <4>4, <4>5 DEF DeathReported
    <3> QED
      BY <3>3, <3>4
  <2> QED
    BY <2>1, <2>2
<1>9. ASSUME NEW c \in Closers, HandedOff(c) PROVE Reported
  BY <1>7, <1>9 DEF HandedOff
<1>10. ASSUME NEW c \in Closers, TaskStopped(c) PROVE Reported
  <2>1. expected /\ CloseOn(c) /\ UNCHANGED <<expected, known>>
    BY <1>10 DEF TaskStopped, ReportDue
  <2>2. expected' = TRUE /\ (watcher = "done" \/ ~known)
    BY <1>t, <2>1 DEF ReportDue
  <2> QED
    BY <1>7, <2>1, <2>2
<1>11. ASSUME NEW c \in Closers, ProcessWaited(c) \/ GraceOverdue(c) \/ CloseCancelled(c)
       PROVE  Reported
  <2>1. /\ UNCHANGED <<watcher, reports, expected, known, cancels>>
        /\ \/ closer[c] \in {"grace", "reap"}
              /\ \E s \in {"closed", "reap", "cancelled"} : closer' = [closer EXCEPT ![c] = s]
           \/ closer[c] = "handoff" /\ closer' = [closer EXCEPT ![c] = "gave up"]
    BY <1>11 DEF ProcessWaited, GraceOverdue, CloseCancelled, Finished, Backstop, At
  <2>2. ReportDue'
    BY <1>t, <2>1, EvidenceLasts DEF ReportDue
  <2>3. DeathReported'
    BY <1>t, <2>1 DEF DeathReported
  <2> QED
    BY <2>2, <2>3
<1>12. ASSUME NEW r \in Requests, RequestGoes(r)
       PROVE  UNCHANGED <<watcher, reports, expected, closer, known, cancels>>
  BY <1>12 DEF RequestGoes, Request, Written, TimesOut, Returns, RequestCancelled
<1>13. Child \/ Reap \/ StderrEnds \/ Read \/ Over \/ UNCHANGED vars =>
         UNCHANGED <<watcher, reports, expected, closer, known, cancels>>
  BY DEF Child, Write, CloseStdout, Die, Reap, StderrEnds, Read, ReadAnswer, ReadJunk, ReadAsk,
         ReplySent, ReadEof, ReaderCancelled, Over, vars
<1> QED
  BY <1>1, <1>3, <1>4, <1>5, <1>6, <1>8, <1>9, <1>10, <1>11, <1>12, <1>13
  DEF Next, Watch, CloseGoes

-----------------------------------------------------------------------------
(* Every action keeps the types; one lemma per group of variables.          *)

LEMMA ScalarTypes ==
  ASSUME TypeOK, [Next]_vars
  PROVE  /\ child' \in {"alive", "dead", "reaped"} /\ cause' \in {"none", "own", "router"}
         /\ termed' \in BOOLEAN /\ held' \in BOOLEAN /\ muted' \in BOOLEAN /\ eof' \in BOOLEAN
         /\ broken' \in BOOLEAN /\ piped' \in BOOLEAN /\ expected' \in BOOLEAN /\ known' \in BOOLEAN
<1> USE DEF childVars, pipeVars, taskVars, closeVars, reqVars
<1>t. /\ child \in {"alive", "dead", "reaped"} /\ cause \in {"none", "own", "router"}
      /\ termed \in BOOLEAN /\ held \in BOOLEAN /\ muted \in BOOLEAN /\ eof \in BOOLEAN
      /\ broken \in BOOLEAN /\ piped \in BOOLEAN /\ expected \in BOOLEAN /\ known \in BOOLEAN
  BY DEF TypeOK
<1> DEFINE Scalars ==
      /\ child' \in {"alive", "dead", "reaped"} /\ cause' \in {"none", "own", "router"}
      /\ termed' \in BOOLEAN /\ held' \in BOOLEAN /\ muted' \in BOOLEAN /\ eof' \in BOOLEAN
      /\ broken' \in BOOLEAN /\ piped' \in BOOLEAN /\ expected' \in BOOLEAN /\ known' \in BOOLEAN
<1>1. CASE UNCHANGED <<child, cause, termed, held, muted, eof, broken, piped, expected, known>>
  BY <1>1, <1>t
<1>2. CASE CloseStdout \/ Die \/ Reap
  BY <1>2, <1>t, ZenonT(60) DEF CloseStdout, Die, Reap
<1>3. CASE ReplySent \/ ReadEof
  BY <1>3, <1>t, ZenonT(60) DEF ReplySent, ReadEof
<1>4. CASE WatchExit \/ Settled
  BY <1>4, <1>t, ZenonT(60) DEF WatchExit, Settled, WatcherReports
<1>5. ASSUME NEW c \in Closers, CloseOn(c), expected' \in BOOLEAN, known' \in BOOLEAN PROVE Scalars
  <2>1. UNCHANGED <<held, muted, eof, broken>>
    BY <1>5 DEF CloseOn
  <2>2. /\ child' \in {"alive", "dead", "reaped"} /\ cause' \in {"none", "own", "router"}
        /\ termed' \in BOOLEAN /\ piped' \in BOOLEAN
    BY <1>5, <1>t DEF CloseOn, AwaitTask, Backstop, At, Killed, KilledBy
  <2> QED
    BY <1>5, <1>t, <2>1, <2>2
<1>6. ASSUME NEW c \in Closers, Close(c) PROVE Scalars
  <2>1. known' \in BOOLEAN
    BY <1>6, <1>t DEF Close
  <2>2. CASE HandsOff
    BY <1>6, <1>t, <2>1, <2>2 DEF Close
  <2>3. CASE ~HandsOff
    BY <1>5, <1>6, <2>1, <2>3 DEF Close
  <2> QED
    BY <2>2, <2>3
<1>7. ASSUME NEW c \in Closers, HandedOff(c) \/ TaskStopped(c) PROVE Scalars
  BY <1>t, <1>5, <1>7 DEF HandedOff, TaskStopped
<1>8. ASSUME NEW c \in Closers, ProcessWaited(c) \/ GraceOverdue(c) \/ CloseCancelled(c) PROVE Scalars
  <2>1. UNCHANGED <<termed, held, muted, eof, broken, expected, known>>
    BY <1>8 DEF ProcessWaited, GraceOverdue, CloseCancelled, Finished, Backstop
  <2>2. /\ child' = Killed /\ cause' = KilledBy
        /\ piped' = TRUE \/ piped' = piped
    BY <1>8 DEF ProcessWaited, GraceOverdue, CloseCancelled, Finished, Backstop
  <2> QED
    BY <1>t, <2>1, <2>2 DEF Killed, KilledBy
<1>9. ASSUME NEW r \in Requests, RequestGoes(r) PROVE Scalars
  <2>1. CASE Written(r)
    BY <1>t, <2>1 DEF Written
  <2>2. CASE ~Written(r)
    BY <1>1, <1>9, <2>2 DEF RequestGoes, Request, TimesOut, Returns, RequestCancelled
  <2> QED
    BY <2>1, <2>2
<1> QED
  BY <1>1, <1>2, <1>3, <1>4, <1>6, <1>7, <1>8, <1>9
  DEF Next, Over, Child, Write, Read, ReadAnswer, ReadJunk, ReadAsk, ReaderCancelled, StderrEnds,
      Watch, SettleOverdue, WatcherCancelled, CloseGoes, vars

LEMMA PipeTypes ==
  ASSUME TypeOK, [Next]_vars
  PROVE  frames' \in Seq(Requests \cup Extras) /\ owed' \subseteq Requests \cup Extras
<1> USE DEF childVars, pipeVars, taskVars, closeVars, reqVars
<1>t. frames \in Seq(Requests \cup Extras) /\ owed \subseteq Requests \cup Extras
  BY DEF TypeOK
<1> DEFINE Pipes == frames' \in Seq(Requests \cup Extras) /\ owed' \subseteq Requests \cup Extras
<1>1. CASE UNCHANGED <<frames, owed>>
  BY <1>1, <1>t
<1>2. ASSUME NEW f \in owed, Write(f) PROVE Pipes
  BY <1>2, <1>t DEF Write
<1>3. CASE Reading /\ owed' = owed
  BY <1>3, <1>t DEF Reading
<1>4. ASSUME NEW r \in Requests, RequestGoes(r) PROVE Pipes
  BY <1>4, <1>t DEF RequestGoes, Request, Written, TimesOut, Returns, RequestCancelled
<1>5. ASSUME NEW c \in Closers, Close(c) \/ CloseGoes(c) \/ CloseCancelled(c)
      PROVE  UNCHANGED <<frames, owed>>
  BY <1>5 DEF Close, CloseGoes, CloseCancelled, HandedOff, TaskStopped, CloseOn, ProcessWaited,
              GraceOverdue, Finished
<1>6. ReadAnswer \/ ReadJunk \/ ReadAsk => Reading /\ owed' = owed
  BY DEF ReadAnswer, ReadJunk, ReadAsk
<1> QED
  BY <1>1, <1>2, <1>3, <1>4, <1>5, <1>6
  DEF Next, Over, Child, CloseStdout, Die, Reap, Read, ReplySent, ReadEof, ReaderCancelled,
      StderrEnds, Watch, WatchExit, Settled, SettleOverdue, WatcherCancelled, WatcherReports, vars

LEMMA TaskTypes ==
  ASSUME TypeOK, ReportDue, [Next]_vars
  PROVE  /\ reader' \in {"reading", "answering"} \cup ReaderOver /\ stderr' \in {"draining", "ended"}
         /\ watcher' \in {"waiting", "settling", "cancelling", "done"}
         /\ cancels' \subseteq {"reader", "stderr", "watcher"} /\ reports' \in 0..1
<1> USE DEF childVars, pipeVars, taskVars, closeVars, reqVars, ReaderOver
<1>t. /\ reader \in {"reading", "answering"} \cup ReaderOver /\ stderr \in {"draining", "ended"}
      /\ watcher \in {"waiting", "settling", "cancelling", "done"}
      /\ cancels \subseteq {"reader", "stderr", "watcher"} /\ reports \in 0..1
  BY DEF TypeOK
<1> DEFINE Tasks ==
      /\ reader' \in {"reading", "answering"} \cup ReaderOver /\ stderr' \in {"draining", "ended"}
      /\ watcher' \in {"waiting", "settling", "cancelling", "done"}
      /\ cancels' \subseteq {"reader", "stderr", "watcher"} /\ reports' \in 0..1
<1>1. CASE UNCHANGED <<reader, stderr, watcher, cancels, reports>>
  BY <1>1, <1>t
<1>2. CASE Read
  <2>1. UNCHANGED <<stderr, watcher, cancels, reports>>
    BY <1>2 DEF Read, ReadAnswer, ReadJunk, ReadAsk, ReplySent, ReadEof, ReaderCancelled
  <2>2. reader' \in {"reading", "answering"} \cup ReaderOver
    BY <1>2, <1>t
    DEF Read, ReadAnswer, ReadJunk, ReadAsk, ReplySent, ReadEof, ReaderCancelled, ReaderEnds
  <2> QED
    BY <1>t, <2>1, <2>2
<1>3. CASE StderrEnds \/ WatcherCancelled \/ SettleOverdue
  BY <1>3, <1>t DEF StderrEnds, WatcherCancelled, SettleOverdue, Drains
<1>4. CASE WatcherReports /\ watcher # "done"
  <2>1. reports = 0
    BY <1>4 DEF ReportDue
  <2> QED
    BY <1>4, <1>t, <2>1 DEF WatcherReports
<1>5. CASE WatchExit \/ Settled
  BY <1>4, <1>5, <1>t DEF WatchExit, Settled
<1>6. ASSUME NEW c \in Closers, CloseOn(c) PROVE Tasks
  <2>1. UNCHANGED <<reader, stderr, watcher, reports>>
    BY <1>6 DEF CloseOn
  <2>2. cancels' \subseteq {"reader", "stderr", "watcher"}
    BY <1>6, <1>t DEF CloseOn, AwaitTask, Backstop
  <2> QED
    BY <1>t, <2>1, <2>2
<1>7. ASSUME NEW c \in Closers, Close(c) \/ CloseGoes(c) \/ CloseCancelled(c), ~CloseOn(c)
      PROVE  UNCHANGED <<reader, stderr, watcher, cancels, reports>>
  BY <1>7 DEF Close, CloseGoes, CloseCancelled, HandedOff, TaskStopped, ProcessWaited,
              GraceOverdue, Finished, Backstop
<1>8. ASSUME NEW r \in Requests, RequestGoes(r)
      PROVE  UNCHANGED <<reader, stderr, watcher, cancels, reports>>
  BY <1>8 DEF RequestGoes, Request, Written, TimesOut, Returns, RequestCancelled
<1> QED
  BY <1>1, <1>2, <1>3, <1>5, <1>6, <1>7, <1>8
  DEF Next, Over, Child, Write, CloseStdout, Die, Reap, Watch, vars

LEMMA CallTypes ==
  ASSUME TypeOK, [Next]_vars
  PROVE  /\ closer' \in [Closers -> {"idle", "handoff", "watcher", "reader", "stderr", "grace", "reap"}
                                     \cup CloserOver]
         /\ req' \in [Requests -> {"idle", "writing", "waiting", "over"}]
         /\ future' \in [Requests -> {"open", "result", "exited", "cancelled"}]
         /\ pending' \subseteq Requests /\ late' \subseteq Requests
<1> USE DEF childVars, pipeVars, taskVars, closeVars, reqVars
<1>t. /\ closer \in [Closers -> {"idle", "handoff", "watcher", "reader", "stderr", "grace", "reap"}
                                \cup CloserOver]
      /\ req \in [Requests -> {"idle", "writing", "waiting", "over"}]
      /\ future \in [Requests -> {"open", "result", "exited", "cancelled"}]
      /\ pending \subseteq Requests /\ late \subseteq Requests
  BY DEF TypeOK
<1> DEFINE Calls ==
      /\ closer' \in [Closers -> {"idle", "handoff", "watcher", "reader", "stderr", "grace", "reap"}
                                 \cup CloserOver]
      /\ req' \in [Requests -> {"idle", "writing", "waiting", "over"}]
      /\ future' \in [Requests -> {"open", "result", "exited", "cancelled"}]
      /\ pending' \subseteq Requests /\ late' \subseteq Requests
<1>1. CASE UNCHANGED <<closer, req, future, pending, late>>
  BY <1>1, <1>t
<1>2. CASE Read
  <2>1. closer' = closer /\ req' = req /\ late' = late
    BY <1>2 DEF Read, ReadAnswer, ReadJunk, ReadAsk, ReplySent, ReadEof, ReaderCancelled, ReaderEnds
  <2>2. \/ UNCHANGED <<future, pending>>
        \/ FailPending
        \/ \E r \in Requests : /\ pending' = pending \ {r}
                               /\ \/ future' = future
                                  \/ future' = [future EXCEPT ![r] = "result"]
    BY <1>2 DEF Read, ReadAnswer, ReadJunk, ReadAsk, ReplySent, ReadEof, ReaderCancelled, ReaderEnds
  <2> QED
    BY <1>t, <2>1, <2>2 DEF FailPending
<1>3. ASSUME NEW c \in Closers, Close(c) \/ CloseGoes(c) \/ CloseCancelled(c) PROVE Calls
  <2>1. UNCHANGED <<req, future, pending, late>>
    BY <1>3 DEF Close, CloseGoes, CloseCancelled, HandedOff, TaskStopped, CloseOn, ProcessWaited,
                GraceOverdue, Finished
  <2>2. \E s \in {"handoff", "watcher", "reader", "stderr", "grace", "reap"} \cup CloserOver :
           closer' = [closer EXCEPT ![c] = s]
    <3>1. CASE CloseOn(c)
      BY <3>1, CloseOnEffect
    <3>2. CASE ~CloseOn(c)
      BY <1>3, <3>2 DEF Close, CloseGoes, CloseCancelled, HandedOff, TaskStopped, ProcessWaited,
                        GraceOverdue, Finished, Backstop, At, CloserOver
    <3> QED
      BY <3>1, <3>2
  <2> QED
    BY <1>t, <2>1, <2>2
<1>4. ASSUME NEW r \in Requests, RequestGoes(r) PROVE Calls
  BY <1>4, <1>t DEF RequestGoes, Request, Written, TimesOut, Returns, RequestCancelled, Stage
<1> QED
  BY <1>1, <1>2, <1>3, <1>4
  DEF Next, Over, Child, Write, CloseStdout, Die, Reap, StderrEnds, Watch, WatchExit, Settled,
      SettleOverdue, WatcherCancelled, WatcherReports, vars

LEMMA TypeStep == TypeOK /\ ReportDue /\ [Next]_vars => TypeOK'
<1> SUFFICES ASSUME TypeOK, ReportDue, [Next]_vars PROVE TypeOK'
  OBVIOUS
<1> QED
  BY ScalarTypes, PipeTypes, TaskTypes, CallTypes DEF TypeOK, ReaderOver, CloserOver

-----------------------------------------------------------------------------
(* What the runs check. *)

LEMMA InvStep == PeerInv /\ [Next]_vars => PeerInv'
<1> SUFFICES ASSUME PeerInv, [Next]_vars PROVE PeerInv'
  OBVIOUS
<1> QED
  BY ProcessGone, RequestsTold, ReaderDiesOfJunk, ReportStep, TypeStep DEF PeerInv

(* The conjunction above is an inductive invariant of the peer.             *)
THEOREM PeerIsConsistent == Spec => []PeerInv
  BY InvInit, InvStep, PTL DEF Spec

(* The variables keep their types; on_exit is called once at the most.      *)
THEOREM TypeCorrect == Spec => []TypeOK
<1>1. PeerInv => TypeOK
  BY DEF PeerInv
<1> QED
  BY <1>1, PeerIsConsistent, PTL

(* However many tasks call close(), and whichever of them are cancelled     *)
(* where, none of the calls ends before the process is dead.                *)
THEOREM CloseKillsTheProcess == Spec => []NoProcessLeft
<1>1. PeerInv => NoProcessLeft
  BY DEF PeerInv
<1> QED
  BY <1>1, PeerIsConsistent, PTL

(* A death nobody asked for, or one close() could know of, is reported.     *)
THEOREM DeathIsReported == Spec => []DeathReported
<1>1. PeerInv => DeathReported
  BY DEF PeerInv
<1> QED
  BY <1>1, PeerIsConsistent, PTL

(* No request registered before the reader ended goes on waiting after it.  *)
THEOREM RequestsAreTold == Spec => []ToldOfExit
<1>1. PeerInv => ToldOfExit
  BY DEF PeerInv
<1> QED
  BY <1>1, PeerIsConsistent, PTL

(* The reader fails of junk or of a broken pipe, never of an answer, early, *)
(* late or unasked for.                                                     *)
THEOREM AnswersNeverHarm == Spec => []AnswersAreHarmless
<1>1. PeerInv => AnswersAreHarmless
  BY DEF PeerInv
<1> QED
  BY <1>1, PeerIsConsistent, PTL

-----------------------------------------------------------------------------
(* TurnIO *)

USE IOConstantsOK

(* The inductive invariant of TurnIO, one operator per idea. *)

Waiting == {"storing", "stored"}
BeforeReply == {"idle", "freezing", "copied", "queued", "storing", "stored", "ready",
                "prompting", "stopping"}

(* What a turn is at says what it is, which thread works for it, whether it *)
(* may hold a token, and how far its reply is.                              *)
TurnOK(t) ==
    /\ turn[t].at \in {"idle", "over"} \cup Waiting => Signal(t)
    /\ turn[t].at \in {"freezing", "copied", "queued"} => turn[t].kind = "notify"
    /\ turn[t].at \notin Stages \/ ~Signal(t) => turn[t].token = "none"
    /\ worker[t] = "store" => turn[t].at \in {"storing", "over"}
    /\ worker[t] = "copy" <=> turn[t].at = "freezing"
    /\ worker[t] = "abandoned" => turn[t].at = "over"

ReplyOK(t) ==
    /\ Sending(t) => notice[t] = "over"
    /\ turn[t].at \in BeforeReply => \A i \in Chunks : accepted[t][i] = 0
    /\ Sending(t) =>
          /\ 1 <= turn[t].chunk /\ turn[t].chunk <= turn[t].chunks
          /\ \A i \in Chunks : accepted[t][i] = IF i < turn[t].chunk THEN 1 ELSE 0
    /\ turn[t].at \in {"replied", "over"} =>
          \A i \in Chunks : /\ accepted[t][i] <= 1
                            /\ i > 1 /\ accepted[t][i] > 0 => accepted[t][i - 1] = 1

(* What is written and not yet live is young, and no plan knows of it; what *)
(* a plan knows of a path is not newer than the path.                       *)
Unguarded(t, p) ==
    (turn[t].at = "stored" /\ p \in Files) \/ (turn[t].at = "copied" /\ p = t)
Known(p) == {m \in Nat : <<p, m>> \in sweep}
Young ==
    \A t \in Turns, p \in Paths : Unguarded(t, p) =>
        ~file[p].old /\ \A m \in Known(p) : m < file[p].mtime
PlansAreOld == \A p \in Paths : \A m \in Known(p) : m <= file[p].mtime

(* References are counted: one for each turn on the archive, those of its   *)
(* own turn on a frozen copy.                                               *)
Holders == {t \in Turns : Signal(t) /\ turn[t].at \in Stages \ Waiting}
Counted ==
    /\ \A p \in Files : live[p] = Cardinality(Holders)
    /\ \A t \in Turns : live[t] = References(t)[t]

(* A frozen copy is there only while its turn is.                           *)
CopiesOwned ==
    \A t \in Turns : file[t].there =>
        turn[t].kind = "notify" /\ turn[t].at \in {"copied", "queued"} \cup Stages

Lent == {t \in Turns : Refundable(t)}
TokensCovered ==
    /\ rate = NoBucket => \A t \in Turns : turn[t].token # "held"
    /\ rate # NoBucket =>
          /\ 0 <= rate.first /\ rate.first <= rate.last
          /\ rate.tokens + rate.spent + Cardinality(Lent) <= Capacity + rate.last - rate.first

IOInv ==
    /\ IOTypeOK /\ \A t \in Turns : TurnOK(t) /\ ReplyOK(t)
    /\ Young /\ PlansAreOld /\ Counted /\ CopiesOwned /\ FilesInUseStay /\ TokensCovered

-----------------------------------------------------------------------------
(* What each action does to the turn whose action it is. *)

LEMMA RecordKinds ==
  ASSUME IOTypeOK, NEW t \in Turns
  PROVE  /\ turn[t] \in TurnRecords
         /\ turn[t].at \in {"idle", "freezing", "copied", "queued", "over"} \cup Stages
         /\ turn[t].kind \in {"signal", "notify"}
         /\ turn[t].token \in {"none", "held", "orphan"}
         /\ turn[t].chunk \in 0..MaxChunks /\ turn[t].chunks \in 0..MaxChunks
  BY DEF IOTypeOK, TurnRecords

(* Turn t becomes r. *)
Becomes(t, r) == r \in TurnRecords /\ turn' = [turn EXCEPT ![t] = r]

LEMMA BecomesDoes ==
  ASSUME IOTypeOK, NEW t \in Turns, NEW r, Becomes(t, r)
  PROVE  /\ turn' \in [Turns -> TurnRecords] /\ turn'[t] = r
         /\ \A u \in Turns \ {t} : turn'[u] = turn[u]
  BY DEF Becomes, IOTypeOK

LEMMA GoesTo ==
  ASSUME IOTypeOK, NEW t \in Turns,
         NEW stage \in {"idle", "freezing", "copied", "queued", "over"} \cup Stages, Go(t, stage)
  PROVE  \E r : /\ Becomes(t, r) /\ r.at = stage /\ r.kind = turn[t].kind
                /\ r.token = turn[t].token /\ r.chunk = turn[t].chunk
                /\ r.chunks = turn[t].chunks
<1> DEFINE r == [turn[t] EXCEPT !.at = stage]
<1>1. turn[t] \in TurnRecords
  BY RecordKinds
<1>2. /\ r \in TurnRecords /\ r.at = stage /\ r.kind = turn[t].kind
      /\ r.token = turn[t].token /\ r.chunk = turn[t].chunk /\ r.chunks = turn[t].chunks
  BY <1>1 DEF TurnRecords
<1>3. turn' = [turn EXCEPT ![t] = r]
  BY DEF Go
<1> HIDE DEF r
<1> QED
  BY <1>2, <1>3 DEF Becomes

-----------------------------------------------------------------------------
(* What keeps which part of the invariant. *)

LEMMA OthersAreOK ==
  ASSUME IOInv, NEW t \in Turns, NEW r, Becomes(t, r),
         \A u \in Turns \ {t} :
             worker'[u] = worker[u] /\ notice'[u] = notice[u] /\ accepted'[u] = accepted[u],
         TurnOK(t)', ReplyOK(t)'
  PROVE  \A u \in Turns : TurnOK(u)' /\ ReplyOK(u)'
<1>1. \A u \in Turns \ {t} : turn'[u] = turn[u]
  BY BecomesDoes DEF IOInv
<1>2. ASSUME NEW u \in Turns \ {t} PROVE TurnOK(u)' /\ ReplyOK(u)'
  <2>1. TurnOK(u) /\ ReplyOK(u)
    BY DEF IOInv
  <2>2. TurnOK(u)'
    BY <1>1, <2>1 DEF TurnOK, Signal
  <2>3. ReplyOK(u)'
    BY <1>1, <2>1 DEF ReplyOK, Sending
  <2> QED
    BY <2>2, <2>3
<1> QED
  BY <1>2

LEMMA FinitelyMany ==
  ASSUME NEW S, S \subseteq Turns
  PROVE  IsFiniteSet(S) /\ Cardinality(S) \in Nat
  BY FS_Subset, FS_CardinalityType

(* Nothing that a turn does between holding files matters to them.          *)
Empty == {"idle", "freezing", "storing", "over"}
SameHold(u) ==
    \/ turn'[u].at = turn[u].at /\ turn'[u].kind = turn[u].kind
    \/ turn[u].at \in Empty /\ turn'[u].at \in Empty
    \/ /\ turn'[u].kind = turn[u].kind
       /\ turn[u].at \in Stages \ Waiting /\ turn'[u].at \in Stages \ Waiting

MediaInv == Young /\ PlansAreOld /\ Counted /\ CopiesOwned /\ FilesInUseStay

LEMMA SameHoldKeeps ==
  ASSUME IOInv, \A u \in Turns : TurnOK(u)' /\ SameHold(u), UNCHANGED <<file, live, sweep>>
  PROVE  MediaInv'
<1>1. ASSUME NEW u \in Turns
      PROVE  /\ \A p : Unguarded(u, p)' <=> Unguarded(u, p)
             /\ \A p : InUse(u, p)' <=> InUse(u, p)
             /\ u \in Holders' <=> u \in Holders
             /\ \A p \in Paths : References(u)'[p] = References(u)[p]
             /\ (turn'[u].kind = "notify" /\ turn'[u].at \in {"copied", "queued"} \cup Stages)
                  <=> (turn[u].kind = "notify" /\ turn[u].at \in {"copied", "queued"} \cup Stages)
  <2>1. TurnOK(u) /\ TurnOK(u)' /\ SameHold(u)
    BY DEF IOInv
  <2>2. /\ turn[u].kind \in {"signal", "notify"}
        /\ turn[u].at \in {"idle", "freezing", "copied", "queued", "over"} \cup Stages
    BY RecordKinds DEF IOInv
  <2>3. CASE turn'[u].at = turn[u].at /\ turn'[u].kind = turn[u].kind
    BY <2>3 DEF Unguarded, InUse, Holders, References, Signal
  <2>4. CASE turn[u].at \in Empty /\ turn'[u].at \in Empty
    <3>1. /\ turn[u].at = "storing" => turn[u].kind = "signal"
          /\ turn'[u].at = "storing" => turn'[u].kind = "signal"
      BY <2>1 DEF TurnOK, Signal, Waiting
    <3> QED
      BY <2>4, <3>1 DEF Unguarded, InUse, Holders, References, Signal, Empty, Stages, Waiting
  <2>5. CASE /\ turn'[u].kind = turn[u].kind
             /\ turn[u].at \in Stages \ Waiting /\ turn'[u].at \in Stages \ Waiting
    BY <2>5 DEF Unguarded, InUse, Holders, References, Signal, Stages, Waiting
  <2> QED
    BY <2>1, <2>3, <2>4, <2>5 DEF SameHold
<1>2. Holders' = Holders
  BY <1>1 DEF Holders
<1>3. Young /\ PlansAreOld /\ Counted /\ CopiesOwned /\ FilesInUseStay
  BY DEF IOInv
<1>4. \A p : Known(p)' = Known(p)
  BY DEF Known
<1>5. Young' /\ PlansAreOld'
  BY <1>1, <1>3, <1>4 DEF Young, PlansAreOld
<1>6. Counted'
  <2>1. \A u \in Turns : References(u)'[u] = References(u)[u]
    BY <1>1 DEF Paths
  <2> QED
    BY <1>2, <1>3, <2>1 DEF Counted
<1>7. CopiesOwned'
  BY <1>1, <1>3 DEF CopiesOwned
<1>8. FilesInUseStay'
  BY <1>1, <1>3 DEF FilesInUseStay
<1> QED
  BY <1>5, <1>6, <1>7, <1>8 DEF MediaInv

SameLoan(u) ==
    /\ turn'[u].token = turn[u].token
    /\ turn[u].token = "held" =>
         (turn'[u].at \in {"storing", "stored", "ready"} <=> turn[u].at \in {"storing", "stored", "ready"})

LEMMA SameLoanKeeps ==
  ASSUME IOInv, \A u \in Turns : SameLoan(u), UNCHANGED rate
  PROVE  TokensCovered'
<1>1. Lent' = Lent
  BY DEF SameLoan, Lent, Refundable
<1> QED
  BY <1>1 DEF IOInv, TokensCovered, SameLoan

LEMMA AllKept ==
  ASSUME IOTypeOK', \A u \in Turns : TurnOK(u)' /\ ReplyOK(u)', MediaInv', TokensCovered'
  PROVE  IOInv'
  BY DEF IOInv, MediaInv

-----------------------------------------------------------------------------
(* The invariant is kept: by the clock and a reload of the limit, *)

LEMMA ClockKeeps ==
  ASSUME IOInv, NEW now \in 0..MaxClock, ClockSteps(now)
  PROVE  IOInv'
<1>1. /\ clock' = now
      /\ UNCHANGED <<turn, worker, file, live, sweep, notice, accepted, rate>>
  BY DEF ClockSteps, mediaVars
<1>2. IOTypeOK'
  BY <1>1 DEF IOInv, IOTypeOK
<1>3. \A u \in Turns : TurnOK(u)' /\ ReplyOK(u)'
  BY <1>1 DEF IOInv, TurnOK, ReplyOK, Signal, Sending
<1>4. MediaInv'
  <2>1. \A u \in Turns : SameHold(u)
    BY <1>1 DEF SameHold
  <2> QED
    BY <1>1, <1>3, <2>1, SameHoldKeeps
<1>5. TokensCovered'
  <2>1. \A u \in Turns : SameLoan(u)
    BY <1>1 DEF SameLoan
  <2> QED
    BY <1>1, <2>1, SameLoanKeeps
<1> QED
  BY <1>2, <1>3, <1>4, <1>5, AllKept

LEMMA ReloadLimitKeeps ==
  ASSUME IOInv, ReloadLimit
  PROVE  IOInv'
<1>1. /\ rate' = NoBucket
      /\ turn' = [t \in Turns |-> IF turn[t].token = "held" THEN [turn[t] EXCEPT !.token = "orphan"]
                                  ELSE turn[t]]
      /\ UNCHANGED <<worker, file, live, sweep, notice, accepted, clock>>
  BY DEF ReloadLimit, mediaVars
<1>2. ASSUME NEW u \in Turns
      PROVE  /\ turn'[u] \in TurnRecords /\ turn'[u].at = turn[u].at
             /\ turn'[u].kind = turn[u].kind /\ turn'[u].chunk = turn[u].chunk
             /\ turn'[u].chunks = turn[u].chunks /\ turn'[u].token # "held"
             /\ turn[u].token = "none" => turn'[u].token = "none"
  <2>1. turn[u] \in TurnRecords
    BY RecordKinds DEF IOInv
  <2>2. turn'[u] = IF turn[u].token = "held" THEN [turn[u] EXCEPT !.token = "orphan"] ELSE turn[u]
    BY <1>1
  <2> QED
    BY <2>1, <2>2 DEF TurnRecords
<1>3. IOTypeOK'
  <2>1. turn' \in [Turns -> TurnRecords]
    BY <1>1, <1>2
  <2>2. NoBucket \in Buckets
    BY DEF NoBucket, Buckets
  <2> QED
    BY <1>1, <2>1, <2>2 DEF IOInv, IOTypeOK
<1>4. \A u \in Turns : TurnOK(u)' /\ ReplyOK(u)'
  <2>1. ASSUME NEW u \in Turns PROVE TurnOK(u)' /\ ReplyOK(u)'
    <3>1. TurnOK(u) /\ ReplyOK(u)
      BY DEF IOInv
    <3>2. TurnOK(u)'
      BY <1>1, <1>2, <3>1 DEF TurnOK, Signal
    <3>3. ReplyOK(u)'
      BY <1>1, <1>2, <3>1 DEF ReplyOK, Sending
    <3> QED
      BY <3>2, <3>3
  <2> QED
    BY <2>1
<1>5. MediaInv'
  <2>1. \A u \in Turns : SameHold(u)
    BY <1>2 DEF SameHold
  <2> QED
    BY <1>1, <1>4, <2>1, SameHoldKeeps
<1>6. TokensCovered'
  BY <1>1, <1>2 DEF TokensCovered
<1> QED
  BY <1>3, <1>4, <1>5, <1>6, AllKept

-----------------------------------------------------------------------------
(* by media threads and the sweep, *)

LEMMA StoreDoneKeeps ==
  ASSUME IOInv, NEW t \in Turns, StoreDone(t)
  PROVE  IOInv'
<1>1. /\ worker[t] = "store" /\ worker' = [worker EXCEPT ![t] = "none"]
      /\ \/ /\ file' = [p \in Paths |-> IF p \in Files THEN Rewritten(p) ELSE file[p]]
            /\ IF turn[t].at = "storing" THEN Go(t, "stored") ELSE UNCHANGED turn
         \/ turn[t].at = "over" /\ UNCHANGED <<file, turn>>
      /\ UNCHANGED <<live, sweep, notice, accepted, clock, rate>>
  BY DEF StoreDone, rateVars
<1>2. IOTypeOK /\ TurnOK(t) /\ ReplyOK(t)
  BY DEF IOInv
<1>3. worker' \in [Turns -> {"none", "store", "copy", "abandoned"}] /\ worker'[t] = "none"
      /\ \A u \in Turns \ {t} : worker'[u] = worker[u]
  BY <1>1, <1>2 DEF IOTypeOK
(* The turn goes on, or is what it was. *)
<1>4. \E r : /\ Becomes(t, r) /\ r.kind = turn[t].kind /\ r.token = turn[t].token
             /\ r.chunk = turn[t].chunk /\ r.chunks = turn[t].chunks
             /\ \/ turn[t].at = "storing" /\ r.at = "stored"
                \/ turn[t].at = "over" /\ r.at = "over"
  <2>1. turn[t].at \in {"storing", "over"}
    BY <1>1, <1>2 DEF TurnOK
  <2>2. CASE turn[t].at = "storing"
    BY <1>1, <1>2, <2>2, GoesTo DEF Stages
  <2>3. CASE turn[t].at = "over"
    <3>1. turn' = [turn EXCEPT ![t] = turn[t]]
      BY <1>1, <1>2, <2>3 DEF IOTypeOK
    <3> QED
      BY <1>2, <2>3, <3>1, RecordKinds DEF Becomes
  <2> QED
    BY <2>1, <2>2, <2>3
<1>5. PICK r : /\ Becomes(t, r) /\ r.kind = turn[t].kind /\ r.token = turn[t].token
               /\ r.chunk = turn[t].chunk /\ r.chunks = turn[t].chunks
               /\ \/ turn[t].at = "storing" /\ r.at = "stored"
                  \/ turn[t].at = "over" /\ r.at = "over"
  BY <1>4
<1>6. /\ turn' \in [Turns -> TurnRecords] /\ turn'[t] = r
      /\ \A u \in Turns \ {t} : turn'[u] = turn[u]
  BY <1>2, <1>5, BecomesDoes
<1>7. \A u \in Turns : TurnOK(u)' /\ ReplyOK(u)'
  <2>1. TurnOK(t)'
    BY <1>1, <1>2, <1>3, <1>5, <1>6 DEF TurnOK, Signal, Waiting, Stages
  <2>2. ReplyOK(t)'
    BY <1>1, <1>2, <1>5, <1>6 DEF ReplyOK, BeforeReply, Sending
  <2> QED
    BY <1>1, <1>3, <1>5, <2>1, <2>2, OthersAreOK
(* A file that is written is there, younger than before, and not old.       *)
<1>8. /\ file' \in [Paths -> FileRecords]
      /\ \A p \in Paths : \/ file'[p] = file[p]
                          \/ /\ p \in Files /\ file'[p].there /\ ~file'[p].old
                             /\ file'[p].mtime = file[p].mtime + 1
      /\ turn[t].at = "storing" =>
            \A p \in Files : /\ file'[p].there /\ ~file'[p].old
                             /\ file'[p].mtime = file[p].mtime + 1
  <2>1. file \in [Paths -> FileRecords]
    BY <1>2 DEF IOTypeOK
  <2>2. \A p \in Paths : file[p].mtime \in Nat
    BY <2>1 DEF FileRecords
  <2>3. \A p \in Paths : /\ Rewritten(p) \in FileRecords /\ Rewritten(p).there
                         /\ ~Rewritten(p).old /\ Rewritten(p).mtime = file[p].mtime + 1
    BY <2>2 DEF Rewritten, FileRecords
  <2>4. CASE file' = [p \in Paths |-> IF p \in Files THEN Rewritten(p) ELSE file[p]]
    BY <2>1, <2>3, <2>4 DEF Paths
  <2>5. CASE turn[t].at = "over" /\ file' = file
    BY <2>1, <2>5
  <2> QED
    BY <1>1, <2>4, <2>5
<1>9. IOTypeOK'
  BY <1>1, <1>2, <1>3, <1>6, <1>8 DEF IOTypeOK
<1>10. \A p : Known(p)' = Known(p) /\ Known(p) \subseteq Nat
  BY <1>1 DEF Known
<1>11. \A p \in Paths : file[p].mtime \in Nat
  BY <1>2 DEF IOTypeOK, FileRecords
<1>12. Young /\ PlansAreOld /\ Counted /\ CopiesOwned /\ FilesInUseStay
  BY DEF IOInv
<1>13. \A p \in Files : \A m \in Known(p) : m < file[p].mtime + 1
  BY <1>10, <1>11, <1>12 DEF PlansAreOld, Paths
<1>14. PlansAreOld'
  <2>1. ASSUME NEW p \in Paths, NEW m \in Known(p) PROVE m <= file'[p].mtime
    BY <1>8, <1>10, <1>11, <1>12, <2>1 DEF PlansAreOld
  <2> QED
    BY <1>10, <2>1 DEF PlansAreOld
<1>15. ASSUME NEW u \in Turns, NEW p \in Paths, Unguarded(u, p)'
       PROVE  ~file'[p].old /\ \A m \in Known(p) : m < file'[p].mtime
  <2>1. CASE Unguarded(u, p)
    <3>1. ~file[p].old /\ \A m \in Known(p) : m < file[p].mtime
      BY <1>12, <2>1 DEF Young
    <3> QED
      BY <1>8, <1>10, <1>11, <1>13, <3>1
  <2>2. CASE ~Unguarded(u, p)
    <3>1. u = t /\ turn[t].at = "storing" /\ p \in Files
      BY <1>5, <1>6, <1>15, <2>2 DEF Unguarded
    <3> QED
      BY <1>8, <1>13, <3>1
  <2> QED
    BY <2>1, <2>2
<1>16. Young'
  BY <1>10, <1>15 DEF Young
<1>17. \A u \in Turns : \A p \in Paths : References(u)'[p] = References(u)[p]
  BY <1>2, <1>5, <1>6 DEF References, Signal, Stages, TurnOK, Waiting
<1>18. Counted'
  <2>1. Holders' = Holders
    BY <1>5, <1>6 DEF Holders, Signal, Waiting
  <2> QED
    BY <1>1, <1>12, <1>17, <2>1 DEF Counted, Paths
<1>19. CopiesOwned'
  <2>1. \A u \in Turns : file'[u] = file[u]
    BY <1>8 DEF Paths
  <2> QED
    BY <1>2, <1>5, <1>6, <1>12, <2>1 DEF CopiesOwned, TurnOK, Signal, Stages, Waiting
<1>20. FilesInUseStay'
  <2>1. ASSUME NEW u \in Turns, NEW p \in Paths, InUse(u, p)' PROVE file'[p].there
    <3>1. CASE InUse(u, p)
      BY <1>8, <1>12, <3>1 DEF FilesInUseStay
    <3>2. CASE ~InUse(u, p)
      <4>1. u = t /\ turn[t].at = "storing" /\ p \in Files
        BY <1>2, <1>5, <1>6, <2>1, <3>2 DEF InUse, Signal, TurnOK, Waiting, Stages
      <4> QED
        BY <1>8, <4>1
    <3> QED
      BY <3>1, <3>2
  <2> QED
    BY <2>1 DEF FilesInUseStay
<1>21. TokensCovered'
  <2>1. \A u \in Turns : SameLoan(u)
    BY <1>5, <1>6 DEF SameLoan
  <2> QED
    BY <1>1, <2>1, SameLoanKeeps
<1> QED
  BY <1>7, <1>9, <1>14, <1>16, <1>18, <1>19, <1>20, <1>21, AllKept DEF MediaInv

LEMMA CopyDoneKeeps ==
  ASSUME IOInv, NEW t \in Turns, CopyDone(t)
  PROVE  IOInv'
<1>1. /\ worker[t] = "copy" /\ worker' = [worker EXCEPT ![t] = "none"]
      /\ file' = [file EXCEPT ![t] = Rewritten(t)] /\ Go(t, "copied")
      /\ UNCHANGED <<live, sweep, notice, accepted, clock, rate>>
  BY DEF CopyDone, rateVars
<1>2. IOTypeOK /\ TurnOK(t) /\ ReplyOK(t)
  BY DEF IOInv
<1>3. turn[t].at = "freezing" /\ turn[t].kind = "notify" /\ turn[t].token = "none"
  BY <1>1, <1>2 DEF TurnOK, Stages
<1>4. PICK r : /\ Becomes(t, r) /\ r.at = "copied" /\ r.kind = turn[t].kind
               /\ r.token = turn[t].token /\ r.chunk = turn[t].chunk
               /\ r.chunks = turn[t].chunks
  BY <1>1, <1>2, GoesTo
<1>5. /\ turn' \in [Turns -> TurnRecords] /\ turn'[t] = r
      /\ \A u \in Turns \ {t} : turn'[u] = turn[u]
  BY <1>2, <1>4, BecomesDoes
<1>6. worker' \in [Turns -> {"none", "store", "copy", "abandoned"}] /\ worker'[t] = "none"
      /\ \A u \in Turns \ {t} : worker'[u] = worker[u]
  BY <1>1, <1>2 DEF IOTypeOK
<1>7. \A u \in Turns : TurnOK(u)' /\ ReplyOK(u)'
  <2>1. TurnOK(t)'
    BY <1>3, <1>4, <1>5, <1>6 DEF TurnOK, Signal, Waiting, Stages
  <2>2. ReplyOK(t)'
    BY <1>1, <1>2, <1>3, <1>4, <1>5 DEF ReplyOK, BeforeReply, Sending
  <2> QED
    BY <1>1, <1>4, <1>6, <2>1, <2>2, OthersAreOK
<1>8. /\ file' \in [Paths -> FileRecords] /\ t \in Paths /\ t \notin Files
      /\ \A p \in Paths \ {t} : file'[p] = file[p]
      /\ file'[t].there /\ ~file'[t].old /\ file'[t].mtime = file[t].mtime + 1
  <2>1. file \in [Paths -> FileRecords] /\ t \in Paths
    BY <1>2 DEF IOTypeOK, Paths
  <2>2. file[t].mtime \in Nat
    BY <2>1 DEF FileRecords
  <2> QED
    BY <1>1, <2>1, <2>2 DEF Rewritten, FileRecords
<1>9. IOTypeOK'
  BY <1>1, <1>2, <1>5, <1>6, <1>8 DEF IOTypeOK
<1>10. \A p : Known(p)' = Known(p) /\ Known(p) \subseteq Nat
  BY <1>1 DEF Known
<1>11. \A p \in Paths : file[p].mtime \in Nat
  BY <1>2 DEF IOTypeOK, FileRecords
<1>12. Young /\ PlansAreOld /\ Counted /\ CopiesOwned /\ FilesInUseStay
  BY DEF IOInv
<1>13. \A m \in Known(t) : m < file[t].mtime + 1
  BY <1>8, <1>10, <1>11, <1>12 DEF PlansAreOld
<1>14. PlansAreOld'
  <2>1. ASSUME NEW p \in Paths, NEW m \in Known(p) PROVE m <= file'[p].mtime
    BY <1>8, <1>10, <1>11, <1>12, <2>1 DEF PlansAreOld
  <2> QED
    BY <1>10, <2>1 DEF PlansAreOld
<1>15. ASSUME NEW u \in Turns, NEW p \in Paths, Unguarded(u, p)'
       PROVE  ~file'[p].old /\ \A m \in Known(p) : m < file'[p].mtime
  <2>1. CASE p = t
    BY <1>8, <1>13, <2>1
  <2>2. CASE p # t
    <3>1. Unguarded(u, p)
      BY <1>4, <1>5, <1>15, <2>2 DEF Unguarded
    <3> QED
      BY <1>8, <1>12, <2>2, <3>1 DEF Young
  <2> QED
    BY <2>1, <2>2
<1>16. Young'
  BY <1>10, <1>15 DEF Young
<1>17. \A u \in Turns : \A p \in Paths : References(u)'[p] = References(u)[p]
  BY <1>3, <1>4, <1>5 DEF References, Signal, Stages
<1>18. Counted'
  <2>1. Holders' = Holders
    BY <1>3, <1>4, <1>5 DEF Holders, Signal
  <2> QED
    BY <1>1, <1>12, <1>17, <2>1 DEF Counted, Paths
<1>19. CopiesOwned'
  <2>1. \A u \in Turns \ {t} : file'[u] = file[u]
    BY <1>8 DEF Paths
  <2> QED
    BY <1>3, <1>4, <1>5, <1>12, <2>1 DEF CopiesOwned
<1>20. FilesInUseStay'
  <2>1. ASSUME NEW u \in Turns, NEW p \in Paths, InUse(u, p)' PROVE file'[p].there
    <3>1. CASE u = t
      BY <1>3, <1>4, <1>5, <1>8, <2>1, <3>1 DEF InUse, Signal
    <3>2. CASE u # t
      <4>1. InUse(u, p)
        BY <1>5, <2>1, <3>2 DEF InUse, Signal
      <4> QED
        BY <1>8, <1>12, <4>1 DEF FilesInUseStay
    <3> QED
      BY <3>1, <3>2
  <2> QED
    BY <2>1 DEF FilesInUseStay
<1>21. TokensCovered'
  <2>1. \A u \in Turns : SameLoan(u)
    BY <1>3, <1>4, <1>5 DEF SameLoan
  <2> QED
    BY <1>1, <2>1, SameLoanKeeps
<1> QED
  BY <1>7, <1>9, <1>14, <1>16, <1>18, <1>19, <1>20, <1>21, AllKept DEF MediaInv

LEMMA AbandonedKeeps ==
  ASSUME IOInv, NEW t \in Turns, AbandonedCopyDone(t)
  PROVE  IOInv'
<1>1. /\ worker[t] = "abandoned" /\ worker' = [worker EXCEPT ![t] = "none"]
      /\ UNCHANGED <<turn, file, live, sweep, notice, accepted, clock, rate>>
  BY DEF AbandonedCopyDone, rateVars, Discarded
<1>2. IOTypeOK /\ \A u \in Turns : TurnOK(u) /\ ReplyOK(u)
  BY DEF IOInv
<1>3. worker' \in [Turns -> {"none", "store", "copy", "abandoned"}] /\ worker'[t] = "none"
      /\ \A u \in Turns \ {t} : worker'[u] = worker[u]
  BY <1>1, <1>2 DEF IOTypeOK
<1>4. IOTypeOK'
  BY <1>1, <1>2, <1>3 DEF IOTypeOK
<1>5. \A u \in Turns : TurnOK(u)' /\ ReplyOK(u)'
  <2>1. \A u \in Turns : TurnOK(u)'
    BY <1>1, <1>2, <1>3 DEF TurnOK, Signal
  <2>2. \A u \in Turns : ReplyOK(u)'
    BY <1>1, <1>2 DEF ReplyOK, Sending
  <2> QED
    BY <2>1, <2>2
<1>6. MediaInv'
  <2>1. \A u \in Turns : SameHold(u)
    BY <1>1 DEF SameHold
  <2> QED
    BY <1>1, <1>5, <2>1, SameHoldKeeps
<1>7. TokensCovered'
  <2>1. \A u \in Turns : SameLoan(u)
    BY <1>1 DEF SameLoan
  <2> QED
    BY <1>1, <2>1, SameLoanKeeps
<1> QED
  BY <1>4, <1>5, <1>6, <1>7, AllKept

LEMMA AgeKeeps ==
  ASSUME IOInv, Age
  PROVE  IOInv'
<1>1. /\ \A t \in Turns : turn[t].at \notin {"storing", "stored", "freezing", "copied"}
      /\ file' = [p \in Paths |-> [file[p] EXCEPT !.old = TRUE]]
      /\ UNCHANGED <<turn, worker, live, sweep, notice, accepted, clock, rate>>
  BY DEF Age, rateVars
<1>2. IOTypeOK /\ \A u \in Turns : TurnOK(u) /\ ReplyOK(u)
  BY DEF IOInv
<1>3. /\ file' \in [Paths -> FileRecords]
      /\ \A p \in Paths : file'[p].there = file[p].there /\ file'[p].mtime = file[p].mtime
  <2>1. \A p \in Paths : file[p] \in FileRecords
    BY <1>2 DEF IOTypeOK
  <2>2. \A p \in Paths : /\ [file[p] EXCEPT !.old = TRUE] \in FileRecords
                         /\ [file[p] EXCEPT !.old = TRUE].there = file[p].there
                         /\ [file[p] EXCEPT !.old = TRUE].mtime = file[p].mtime
    BY <2>1 DEF FileRecords
  <2> QED
    BY <1>1, <2>2
<1>4. IOTypeOK'
  BY <1>1, <1>2, <1>3 DEF IOTypeOK
<1>5. \A u \in Turns : TurnOK(u)' /\ ReplyOK(u)'
  BY <1>1, <1>2 DEF TurnOK, ReplyOK, Signal, Sending
<1>6. Young /\ PlansAreOld /\ Counted /\ CopiesOwned /\ FilesInUseStay
  BY DEF IOInv
<1>7. Young'
  BY <1>1 DEF Young, Unguarded
<1>8. PlansAreOld'
  BY <1>1, <1>3, <1>6 DEF PlansAreOld, Known
<1>12. turn' = turn /\ live' = live
  BY <1>1
<1>9. Counted'
  BY <1>6, <1>12 DEF Counted, Holders, Signal, References
<1>10. CopiesOwned' /\ FilesInUseStay'
  BY <1>3, <1>6, <1>12 DEF CopiesOwned, FilesInUseStay, InUse, Signal, Paths
<1>11. TokensCovered'
  <2>1. \A u \in Turns : SameLoan(u)
    BY <1>1 DEF SameLoan
  <2> QED
    BY <1>1, <2>1, SameLoanKeeps
<1> QED
  BY <1>4, <1>5, <1>7, <1>8, <1>9, <1>10, <1>11, AllKept DEF MediaInv

LEMMA PlanKeeps ==
  ASSUME IOInv, NEW P \in SUBSET Paths, Plan(P)
  PROVE  IOInv'
<1>1. /\ \A p \in P : file[p].there /\ file[p].old
      /\ sweep' = {<<p, file[p].mtime>> : p \in P}
      /\ UNCHANGED <<turn, worker, file, live, notice, accepted, clock, rate>>
  BY DEF Plan, rateVars
<1>2. IOTypeOK /\ \A u \in Turns : TurnOK(u) /\ ReplyOK(u)
  BY DEF IOInv
<1>3. \A p \in Paths : file[p].mtime \in Nat
  BY <1>2 DEF IOTypeOK, FileRecords
<1>4. IOTypeOK'
  <2>1. sweep' \subseteq Paths \X Nat
    BY <1>1, <1>3
  <2> QED
    BY <1>1, <1>2, <2>1 DEF IOTypeOK
<1>5. \A u \in Turns : TurnOK(u)' /\ ReplyOK(u)'
  BY <1>1, <1>2 DEF TurnOK, ReplyOK, Signal, Sending
<1>6. Young /\ PlansAreOld /\ Counted /\ CopiesOwned /\ FilesInUseStay
  BY DEF IOInv
<1>7. \A p \in Paths : \A m \in Known(p)' : p \in P /\ m = file[p].mtime
  BY <1>1 DEF Known
<1>8. Young'
  BY <1>1, <1>6, <1>7 DEF Young, Unguarded
<1>9. PlansAreOld'
  BY <1>1, <1>3, <1>7 DEF PlansAreOld
<1>10. Counted'
  BY <1>1, <1>6 DEF Counted, Holders, Signal, References
<1>11. CopiesOwned' /\ FilesInUseStay'
  BY <1>1, <1>6 DEF CopiesOwned, FilesInUseStay, InUse, Signal
<1>12. TokensCovered'
  <2>1. \A u \in Turns : SameLoan(u)
    BY <1>1 DEF SameLoan
  <2> QED
    BY <1>1, <2>1, SameLoanKeeps
<1> QED
  BY <1>4, <1>5, <1>8, <1>9, <1>10, <1>11, <1>12, AllKept DEF MediaInv

(* What is live is in use, and what is in use is live or too young.         *)
LEMMA GuardedInUse ==
  ASSUME IOInv, NEW t \in Turns, NEW p \in Paths, InUse(t, p)
  PROVE  Unguarded(t, p) \/ live[p] > 0
<1>1. IOTypeOK /\ TurnOK(t) /\ Counted
  BY DEF IOInv
<1>2. CASE Signal(t)
  <2>1. p \in Files /\ turn[t].at \in Stages \ {"storing"}
    BY <1>2 DEF InUse
  <2>2. CASE turn[t].at = "stored"
    BY <2>1, <2>2 DEF Unguarded
  <2>3. CASE turn[t].at # "stored"
    <3>1. t \in Holders
      BY <1>2, <2>1, <2>3 DEF Holders, Waiting
    <3>2. IsFiniteSet(Holders) /\ Cardinality(Holders) \in Nat /\ Cardinality(Holders) # 0
      BY <3>1, FinitelyMany, FS_EmptySet DEF Holders
    <3> QED
      BY <1>1, <2>1, <3>2 DEF Counted
  <2> QED
    BY <2>2, <2>3
<1>3. CASE ~Signal(t)
  <2>1. p = t /\ turn[t].at \in {"copied", "queued"} \cup Stages
    BY <1>3 DEF InUse
  <2>2. CASE turn[t].at = "copied"
    BY <2>1, <2>2 DEF Unguarded
  <2>3. CASE turn[t].at # "copied"
    <3>1. References(t)[t] \in {1, 2}
      BY <1>3, <2>1, <2>3 DEF References, Paths
    <3> QED
      BY <1>1, <2>1, <3>1 DEF Counted
  <2> QED
    BY <2>2, <2>3
<1> QED
  BY <1>2, <1>3

LEMMA SweepBatchKeeps ==
  ASSUME IOInv, NEW p \in Paths, NEW m \in Nat, SweepBatch(p, m)
  PROVE  IOInv'
<1>1. /\ <<p, m>> \in sweep
      /\ sweep' \subseteq sweep
      /\ \/ file' = [file EXCEPT ![p].there = FALSE] /\ Swept(p, m)
         \/ file' = file
      /\ UNCHANGED <<turn, worker, live, notice, accepted, clock, rate>>
  BY DEF SweepBatch, rateVars
<1>2. IOTypeOK /\ \A u \in Turns : TurnOK(u) /\ ReplyOK(u)
  BY DEF IOInv
<1>3. /\ file' \in [Paths -> FileRecords]
      /\ \A q \in Paths : /\ file'[q].mtime = file[q].mtime /\ file'[q].old = file[q].old
                          /\ file'[q].there => file[q].there
      /\ \A q \in Paths \ {p} : file'[q] = file[q]
  <2>1. file \in [Paths -> FileRecords]
    BY <1>2 DEF IOTypeOK
  <2>2. CASE file' = file
    BY <2>1, <2>2
  <2>3. CASE file' = [file EXCEPT ![p].there = FALSE]
    <3> DEFINE r == [file[p] EXCEPT !.there = FALSE]
    <3>1. file[p] \in FileRecords
      BY <2>1
    <3>2. r \in FileRecords /\ r.mtime = file[p].mtime /\ r.old = file[p].old /\ ~r.there
      BY <3>1 DEF FileRecords
    <3>3. file' = [file EXCEPT ![p] = r]
      BY <2>3
    <3> HIDE DEF r
    <3> QED
      BY <2>1, <3>2, <3>3
  <2> QED
    BY <1>1, <2>2, <2>3
<1>4. IOTypeOK'
  BY <1>1, <1>2, <1>3 DEF IOTypeOK
<1>5. \A u \in Turns : TurnOK(u)' /\ ReplyOK(u)'
  BY <1>1, <1>2 DEF TurnOK, ReplyOK, Signal, Sending
<1>6. Young /\ PlansAreOld /\ Counted /\ CopiesOwned /\ FilesInUseStay
  BY DEF IOInv
<1>7. \A q : Known(q)' \subseteq Known(q)
  BY <1>1 DEF Known
<1>8. Young' /\ PlansAreOld'
  BY <1>1, <1>3, <1>6, <1>7 DEF Young, PlansAreOld, Unguarded
<1>9. Counted'
  BY <1>1, <1>6 DEF Counted, Holders, Signal, References
<1>10. CopiesOwned'
  BY <1>1, <1>3, <1>6 DEF CopiesOwned, Paths
<1>11. FilesInUseStay'
  <2>1. ASSUME NEW u \in Turns, NEW q \in Paths, InUse(u, q)' PROVE file'[q].there
    <3>1. InUse(u, q) /\ file[q].there
      BY <1>1, <1>6, <2>1 DEF InUse, Signal, FilesInUseStay
    <3>2. CASE q # p \/ file' = file
      BY <1>3, <3>1, <3>2
    <3>3. CASE q = p /\ Swept(p, m)
      <4>1. live[p] = 0 /\ file[p].mtime = m /\ m \in Known(p)
        BY <1>1, <3>3 DEF Swept, Known
      <4>2. Unguarded(u, p)
        BY <3>1, <3>3, <4>1, GuardedInUse
      <4>3. m < file[p].mtime
        BY <1>6, <4>1, <4>2 DEF Young
      <4> QED
        BY <4>1, <4>3
    <3> QED
      BY <1>1, <3>2, <3>3
  <2> QED
    BY <2>1 DEF FilesInUseStay
<1>12. TokensCovered'
  <2>1. \A u \in Turns : SameLoan(u)
    BY <1>1 DEF SameLoan
  <2> QED
    BY <1>1, <2>1, SameLoanKeeps
<1> QED
  BY <1>4, <1>5, <1>8, <1>9, <1>10, <1>11, <1>12, AllKept DEF MediaInv

-----------------------------------------------------------------------------
(* by a turn that begins, *)

(* The bucket that a turn finds, or makes, covers what was lent before.     *)
LEMMA BucketCovers ==
  ASSUME IOInv
  PROVE  /\ Bucket \in Buckets /\ Bucket # NoBucket
         /\ 0 <= Bucket.first /\ Bucket.first <= Bucket.last
         /\ Bucket.tokens + Bucket.spent + Cardinality(Lent)
              <= Capacity + Bucket.last - Bucket.first
<1>1. rate \in Buckets /\ clock \in 0..MaxClock /\ TokensCovered
  BY DEF IOInv, IOTypeOK
<1>2. IsFiniteSet(Lent) /\ Cardinality(Lent) \in Nat
  BY FinitelyMany DEF Lent
<1>3. CASE rate = NoBucket
  <2>1. Bucket = [tokens |-> Capacity, last |-> clock, first |-> clock, spent |-> 0]
    BY <1>3 DEF Bucket
  <2>2. Lent = {}
    BY <1>1, <1>3 DEF TokensCovered, Lent, Refundable
  <2>3. Cardinality(Lent) = 0
    BY <2>2, FS_EmptySet
  <2>4. Bucket \in Buckets
    BY <1>1, <2>1 DEF Buckets
  <2> QED
    BY <1>1, <2>1, <2>3, <2>4 DEF NoBucket
<1>4. CASE rate # NoBucket
  <2>1. /\ 0 <= rate.first /\ rate.first <= rate.last
        /\ rate.tokens + rate.spent + Cardinality(Lent) <= Capacity + rate.last - rate.first
    BY <1>1, <1>4 DEF TokensCovered
  <2>2. /\ rate.tokens \in 0..Capacity /\ rate.last \in -1..MaxClock
        /\ rate.first \in -1..MaxClock /\ rate.spent \in Nat
    BY <1>1 DEF Buckets
  <2>3. Bucket = Refilled
    BY <1>4 DEF Bucket
  <2>4. CASE clock <= rate.last
    BY <1>1, <1>4, <2>1, <2>3, <2>4 DEF Refilled
  <2>5. CASE ~(clock <= rate.last)
    <3> DEFINE n == Capped(rate.tokens + clock - rate.last)
    <3>1. Bucket = [rate EXCEPT !.tokens = n, !.last = clock]
      BY <2>3, <2>5 DEF Refilled
    <3>2. n \in 0..Capacity /\ n <= rate.tokens + clock - rate.last
      BY <1>1, <2>2, <2>5 DEF Capped
    <3> HIDE DEF n
    <3>6. Bucket = [tokens |-> n, last |-> clock, first |-> rate.first, spent |-> rate.spent]
      BY <1>1, <3>1 DEF Buckets
    <3>7. clock \in -1..MaxClock
      BY <1>1
    <3>3. /\ Bucket \in Buckets /\ Bucket.tokens = n /\ Bucket.last = clock
          /\ Bucket.first = rate.first /\ Bucket.spent = rate.spent
      BY <2>2, <3>2, <3>6, <3>7 DEF Buckets
    <3>4. Bucket # NoBucket
      BY <1>1, <3>3 DEF NoBucket
    <3>5. n + rate.spent + Cardinality(Lent) <= Capacity + clock - rate.first
      BY <1>1, <1>2, <2>1, <2>2, <3>2
    <3> QED
      BY <1>1, <2>1, <2>2, <2>5, <3>3, <3>4, <3>5
  <2> QED
    BY <2>4, <2>5
<1> QED
  BY <1>3, <1>4

LEMMA StartSignalKeeps ==
  ASSUME IOInv, NEW t \in Turns, StartSignal(t)
  PROVE  IOInv'
<1>1. /\ turn[t].at = "idle"
      /\ IF RouteOf[t] \in Limited
         THEN /\ rate' = IF Bucket.tokens = 0 THEN Bucket ELSE [Bucket EXCEPT !.tokens = @ - 1]
              /\ turn' = [turn EXCEPT ![t].at = IF Bucket.tokens = 0 THEN "over" ELSE "storing",
                                      ![t].token = IF Bucket.tokens = 0 THEN "none" ELSE "held"]
         ELSE Go(t, "storing") /\ UNCHANGED rate
      /\ worker' = IF turn'[t].at = "storing" THEN [worker EXCEPT ![t] = "store"] ELSE worker
      /\ UNCHANGED <<file, live, sweep, notice, accepted, clock>>
  BY DEF StartSignal
<1>2. IOTypeOK /\ TurnOK(t) /\ ReplyOK(t) /\ TokensCovered
  BY DEF IOInv
<1>3. /\ turn[t].kind = "signal" /\ turn[t].token = "none" /\ worker[t] = "none"
      /\ turn[t] \in TurnRecords
  BY <1>1, <1>2, RecordKinds DEF TurnOK, Signal, Stages, IOTypeOK
<1>4. \E r : /\ Becomes(t, r) /\ r.kind = "signal"
             /\ \/ r.at = "storing" /\ r.token = "none" /\ UNCHANGED rate
                \/ r.at = "over" /\ r.token = "none" /\ rate' = Bucket
                \/ /\ r.at = "storing" /\ r.token = "held" /\ Bucket.tokens # 0
                   /\ rate' = [Bucket EXCEPT !.tokens = @ - 1]
  <2>1. CASE RouteOf[t] \notin Limited
    BY <1>1, <1>2, <1>3, <2>1, GoesTo DEF Stages
  <2>2. CASE RouteOf[t] \in Limited /\ Bucket.tokens = 0
    <3> DEFINE r == [turn[t] EXCEPT !.at = "over", !.token = "none"]
    <3>1. turn' = [turn EXCEPT ![t].at = "over", ![t].token = "none"] /\ rate' = Bucket
      BY <1>1, <2>2
    <3>2. turn' = [turn EXCEPT ![t] = r]
      BY <1>2, <3>1 DEF IOTypeOK
    <3>3. r \in TurnRecords /\ r.kind = "signal" /\ r.at = "over" /\ r.token = "none"
      BY <1>3 DEF TurnRecords
    <3> HIDE DEF r
    <3> QED
      BY <3>1, <3>2, <3>3 DEF Becomes
  <2>3. CASE RouteOf[t] \in Limited /\ Bucket.tokens # 0
    <3> DEFINE r == [turn[t] EXCEPT !.at = "storing", !.token = "held"]
    <3>1. /\ turn' = [turn EXCEPT ![t].at = "storing", ![t].token = "held"]
          /\ rate' = [Bucket EXCEPT !.tokens = @ - 1]
      BY <1>1, <2>3
    <3>2. turn' = [turn EXCEPT ![t] = r]
      BY <1>2, <3>1 DEF IOTypeOK
    <3>3. r \in TurnRecords /\ r.kind = "signal" /\ r.at = "storing" /\ r.token = "held"
      BY <1>3 DEF TurnRecords, Stages
    <3> HIDE DEF r
    <3> QED
      BY <2>3, <3>1, <3>2, <3>3 DEF Becomes
  <2> QED
    BY <2>1, <2>2, <2>3
<1>5. PICK r : /\ Becomes(t, r) /\ r.kind = "signal"
               /\ \/ r.at = "storing" /\ r.token = "none" /\ UNCHANGED rate
                  \/ r.at = "over" /\ r.token = "none" /\ rate' = Bucket
                  \/ /\ r.at = "storing" /\ r.token = "held" /\ Bucket.tokens # 0
                     /\ rate' = [Bucket EXCEPT !.tokens = @ - 1]
  BY <1>4
<1>6. /\ turn' \in [Turns -> TurnRecords] /\ turn'[t] = r
      /\ \A u \in Turns \ {t} : turn'[u] = turn[u]
  BY <1>2, <1>5, BecomesDoes
<1>7. /\ worker' \in [Turns -> {"none", "store", "copy", "abandoned"}]
      /\ \A u \in Turns \ {t} : worker'[u] = worker[u]
      /\ worker'[t] \in {"none", "store"} /\ (worker'[t] = "store" => r.at = "storing")
  BY <1>1, <1>2, <1>3, <1>6 DEF IOTypeOK
<1>8. \A u \in Turns : TurnOK(u)' /\ ReplyOK(u)'
  <2>1. TurnOK(t)'
    BY <1>5, <1>6, <1>7 DEF TurnOK, Signal, Waiting, Stages
  <2>2. ReplyOK(t)'
    <3>1. \A i \in Chunks : accepted'[t][i] = 0
      BY <1>1, <1>2 DEF ReplyOK, BeforeReply
    <3>2. turn'[t].at \in {"storing", "over"}
      BY <1>5, <1>6
    <3>3. \A i \in Chunks : i > 1 => i - 1 \in Chunks
      BY DEF Chunks
    <3> QED
      BY <3>1, <3>2, <3>3 DEF ReplyOK, Sending
  <2> QED
    BY <1>1, <1>5, <1>7, <2>1, <2>2, OthersAreOK
<1>9. MediaInv'
  <2>1. \A u \in Turns : SameHold(u)
    BY <1>1, <1>5, <1>6 DEF SameHold, Empty
  <2> QED
    BY <1>1, <1>8, <2>1, SameHoldKeeps
<1> DEFINE B == Bucket
<1>10. /\ B \in Buckets /\ B # NoBucket
       /\ 0 <= B.first /\ B.first <= B.last
       /\ B.tokens + B.spent + Cardinality(Lent) <= Capacity + B.last - B.first
  BY BucketCovers
<1>11. IsFiniteSet(Lent) /\ Cardinality(Lent) \in Nat /\ t \notin Lent
  BY <1>3, FinitelyMany DEF Lent, Refundable
<1>12. rate' \in Buckets /\ TokensCovered'
  <2>1. CASE r.token = "none" /\ UNCHANGED rate
    <3>1. \A u \in Turns : SameLoan(u)
      BY <1>3, <1>6, <2>1 DEF SameLoan
    <3> QED
      BY <1>2, <2>1, <3>1, SameLoanKeeps DEF IOTypeOK
  <2>2. CASE r.token = "none" /\ rate' = B
    <3>1. Lent' = Lent
      BY <1>3, <1>6, <2>2 DEF Lent, Refundable
    <3> HIDE DEF B
    <3> QED
      BY <1>10, <2>2, <3>1 DEF TokensCovered
  <2>3. CASE /\ r.at = "storing" /\ r.token = "held" /\ B.tokens # 0
             /\ rate' = [B EXCEPT !.tokens = @ - 1]
    <3>1. Lent' = Lent \cup {t}
      BY <1>6, <2>3 DEF Lent, Refundable
    <3>2. Cardinality(Lent') = Cardinality(Lent) + 1
      BY <1>11, <3>1, FS_AddElement, Zenon
    <3> HIDE DEF B
    <3>3. /\ B.tokens \in 0..Capacity /\ B.spent \in Nat
          /\ B.last \in -1..MaxClock /\ B.first \in -1..MaxClock
      BY <1>10 DEF Buckets
    <3>4. rate' = [tokens |-> B.tokens - 1, last |-> B.last, first |-> B.first, spent |-> B.spent]
      BY <1>10, <2>3 DEF Buckets
    <3>5. rate' \in Buckets /\ rate'.last >= 0
      BY <1>10, <2>3, <3>3, <3>4 DEF Buckets
    <3>6. rate' # NoBucket
      BY <3>5 DEF NoBucket
    <3>7. rate'.tokens + rate'.spent + Cardinality(Lent') <= Capacity + rate'.last - rate'.first
      BY <1>10, <1>11, <3>2, <3>3, <3>4
    <3> QED
      BY <1>10, <3>3, <3>4, <3>5, <3>6, <3>7 DEF TokensCovered
  <2> QED
    BY <1>5, <2>1, <2>2, <2>3
<1>13. IOTypeOK'
  BY <1>1, <1>2, <1>6, <1>7, <1>12 DEF IOTypeOK
<1> QED
  BY <1>8, <1>9, <1>12, <1>13, AllKept

LEMMA StartNotifyKeeps ==
  ASSUME IOInv, NEW t \in Turns, StartNotify(t)
  PROVE  IOInv'
<1>1. /\ turn[t].at = "idle"
      /\ turn' = [turn EXCEPT ![t].at = "freezing", ![t].kind = "notify"]
      /\ worker' = [worker EXCEPT ![t] = "copy"]
      /\ UNCHANGED <<file, live, sweep, notice, accepted, clock, rate>>
  BY DEF StartNotify, rateVars
<1>2. IOTypeOK /\ TurnOK(t) /\ ReplyOK(t)
  BY DEF IOInv
<1> DEFINE r == [turn[t] EXCEPT !.at = "freezing", !.kind = "notify"]
<1>3. turn[t].token = "none" /\ turn[t] \in TurnRecords
  BY <1>1, <1>2, RecordKinds DEF TurnOK, Stages
<1>4. /\ r \in TurnRecords /\ r.kind = "notify" /\ r.at = "freezing" /\ r.token = "none"
  BY <1>3 DEF TurnRecords
<1>5. turn' = [turn EXCEPT ![t] = r]
  BY <1>1, <1>2 DEF IOTypeOK
<1> HIDE DEF r
<1>6. Becomes(t, r)
  BY <1>4, <1>5 DEF Becomes
<1>7. /\ turn' \in [Turns -> TurnRecords] /\ turn'[t] = r
      /\ \A u \in Turns \ {t} : turn'[u] = turn[u]
  BY <1>2, <1>6, BecomesDoes
<1>8. /\ worker' \in [Turns -> {"none", "store", "copy", "abandoned"}]
      /\ \A u \in Turns \ {t} : worker'[u] = worker[u]
      /\ worker'[t] = "copy"
  BY <1>1, <1>2 DEF IOTypeOK
<1>9. \A u \in Turns : TurnOK(u)' /\ ReplyOK(u)'
  <2>1. TurnOK(t)'
    BY <1>4, <1>7, <1>8 DEF TurnOK, Signal, Waiting, Stages
  <2>2. ReplyOK(t)'
    BY <1>1, <1>2, <1>4, <1>7 DEF ReplyOK, BeforeReply, Sending
  <2> QED
    BY <1>1, <1>6, <1>8, <2>1, <2>2, OthersAreOK
<1>10. MediaInv'
  <2>1. \A u \in Turns : SameHold(u)
    <3>1. SameHold(t)
      BY <1>4, <1>7, <1>2, <1>1, SMT DEF SameHold, Empty
    <3> QED
      BY <1>7, <3>1 DEF SameHold
  <2> QED
    BY <1>1, <1>9, <2>1, SameHoldKeeps
<1>11. TokensCovered'
  <2>1. \A u \in Turns : SameLoan(u)
    BY <1>3, <1>4, <1>7 DEF SameLoan
  <2> QED
    BY <1>1, <2>1, SameLoanKeeps
<1>12. IOTypeOK'
  BY <1>1, <1>2, <1>7, <1>8 DEF IOTypeOK
<1> QED
  BY <1>9, <1>10, <1>11, <1>12, AllKept

(* A turn that goes on with its files live.                                 *)
LEMMA LiveKeeps ==
  ASSUME IOInv, NEW t \in Turns, Stored(t) \/ Frozen(t) \/ RunNotify(t)
  PROVE  IOInv'
<1>1. UNCHANGED <<worker, file, sweep, notice, accepted, clock, rate>>
  BY DEF Stored, Frozen, RunNotify, rateVars
<1>2. /\ IOTypeOK /\ TurnOK(t) /\ ReplyOK(t)
      /\ Young /\ PlansAreOld /\ Counted /\ CopiesOwned /\ FilesInUseStay
  BY DEF IOInv
<1>3. \E r : /\ Becomes(t, r) /\ r.kind = turn[t].kind /\ r.token = turn[t].token
             /\ \/ Stored(t) /\ turn[t].at = "stored" /\ r.at = "ready" /\ r.kind = "signal"
                \/ Frozen(t) /\ turn[t].at = "copied" /\ r.at = "queued" /\ r.kind = "notify"
                \/ RunNotify(t) /\ turn[t].at = "queued" /\ r.at = "ready" /\ r.kind = "notify"
  <2>1. CASE Stored(t)
    <3>1. turn[t].at = "stored" /\ Go(t, "ready") /\ turn[t].kind = "signal"
      BY <1>2, <2>1 DEF Stored, TurnOK, Waiting, Signal
    <3> QED
      BY <1>2, <2>1, <3>1, GoesTo DEF Stages
  <2>2. CASE Frozen(t)
    <3>1. turn[t].at = "copied" /\ Go(t, "queued") /\ turn[t].kind = "notify"
      BY <1>2, <2>2 DEF Frozen, TurnOK
    <3> QED
      BY <1>2, <2>2, <3>1, GoesTo
  <2>3. CASE RunNotify(t)
    <3>1. turn[t].at = "queued" /\ Go(t, "ready") /\ turn[t].kind = "notify"
      BY <1>2, <2>3 DEF RunNotify, TurnOK
    <3> QED
      BY <1>2, <2>3, <3>1, GoesTo DEF Stages
  <2> QED
    BY <2>1, <2>2, <2>3
<1>4. PICK r : /\ Becomes(t, r) /\ r.kind = turn[t].kind /\ r.token = turn[t].token
               /\ \/ Stored(t) /\ turn[t].at = "stored" /\ r.at = "ready" /\ r.kind = "signal"
                  \/ Frozen(t) /\ turn[t].at = "copied" /\ r.at = "queued" /\ r.kind = "notify"
                  \/ RunNotify(t) /\ turn[t].at = "queued" /\ r.at = "ready" /\ r.kind = "notify"
  BY <1>3
<1>5. /\ turn' \in [Turns -> TurnRecords] /\ turn'[t] = r
      /\ \A u \in Turns \ {t} : turn'[u] = turn[u]
  BY <1>2, <1>4, BecomesDoes
<1>6. \A u \in Turns : TurnOK(u)' /\ ReplyOK(u)'
  <2>1. TurnOK(t)'
    BY <1>1, <1>2, <1>4, <1>5 DEF TurnOK, Signal, Waiting, Stages
  <2>2. ReplyOK(t)'
    BY <1>1, <1>2, <1>4, <1>5 DEF ReplyOK, BeforeReply, Sending
  <2> QED
    BY <1>1, <1>4, <2>1, <2>2, OthersAreOK
<1>7. \A p : Known(p)' = Known(p)
  BY <1>1 DEF Known
<1>8. \A u \in Turns : \A p : Unguarded(u, p)' => Unguarded(u, p)
  BY <1>4, <1>5 DEF Unguarded
<1>9. Young' /\ PlansAreOld'
  BY <1>1, <1>2, <1>7, <1>8 DEF Young, PlansAreOld
<1>10. CopiesOwned'
  BY <1>1, <1>2, <1>4, <1>5 DEF CopiesOwned, Stages
<1>11. FilesInUseStay'
  <2>1. \A u \in Turns : \A p : InUse(u, p)' <=> InUse(u, p)
    BY <1>4, <1>5 DEF InUse, Signal, Stages
  <2> QED
    BY <1>1, <1>2, <2>1 DEF FilesInUseStay
<1>12. \A u \in Turns \ {t} : \A p \in Paths : References(u)'[p] = References(u)[p]
  BY <1>5 DEF References, Signal
<1>13. IsFiniteSet(Holders) /\ Cardinality(Holders) \in Nat
  BY FinitelyMany DEF Holders
<1>14. t \in Paths /\ t \notin Files /\ live \in [Paths -> Nat] /\ \A p \in Files : p \in Paths
  BY <1>2 DEF Paths, IOTypeOK
<1>15. live' \in [Paths -> Nat] /\ Counted'
  <2>1. CASE Stored(t)
    <3>1. /\ turn[t].at = "stored" /\ turn'[t].at = "ready" /\ turn'[t].kind = "signal"
          /\ turn[t].kind = "signal"
      BY <1>4, <1>5, <2>1 DEF Stored
    <3>2. live' = [p \in Paths |-> IF p \in Files THEN live[p] + 1 ELSE live[p]]
      BY <2>1 DEF Stored
    <3>3. Holders' = Holders \cup {t} /\ t \notin Holders
      BY <1>5, <3>1 DEF Holders, Signal, Stages, Waiting
    <3>4. Cardinality(Holders') = Cardinality(Holders) + 1
      BY <1>13, <3>3, FS_AddElement, Zenon
    <3>5. References(t)'[t] = References(t)[t]
      BY <1>14, <3>1 DEF References, Signal
    <3>6. \A u \in Turns : u \in Paths /\ u \notin Files
      BY DEF Paths
    <3>7. live' \in [Paths -> Nat]
      BY <1>14, <3>2
    <3>8. \A p \in Files : live'[p] = Cardinality(Holders')
      BY <1>2, <1>14, <3>2, <3>4 DEF Counted
    <3>9. \A u \in Turns : live'[u] = References(u)'[u]
      BY <1>2, <1>12, <3>2, <3>5, <3>6 DEF Counted
    <3> QED
      BY <3>7, <3>8, <3>9 DEF Counted
  <2>2. CASE Frozen(t) \/ RunNotify(t)
    <3>1. /\ turn'[t].kind = "notify" /\ turn[t].kind = "notify"
          /\ \/ turn[t].at = "copied" /\ turn'[t].at = "queued"
             \/ turn[t].at = "queued" /\ turn'[t].at = "ready"
      <4>1. turn[t].at # "stored"
        BY <2>2 DEF Frozen, RunNotify
      <4> QED
        BY <1>4, <1>5, <4>1
    <3>2. live' = [live EXCEPT ![t] = @ + 1]
      BY <2>2 DEF Frozen, RunNotify, Uses
    <3>3. Holders' = Holders
      BY <1>5, <3>1 DEF Holders, Signal
    <3>4. References(t)'[t] = References(t)[t] + 1
      BY <1>14, <3>1 DEF References, Signal, Stages
    <3>5. live' \in [Paths -> Nat] /\ live'[t] = live[t] + 1
          /\ \A p \in Paths \ {t} : live'[p] = live[p]
      BY <1>14, <3>2
    <3>6. \A u \in Turns : u \in Paths
      BY DEF Paths
    <3>7. \A p \in Files : live'[p] = Cardinality(Holders')
      BY <1>2, <1>14, <3>3, <3>5 DEF Counted
    <3>8. \A u \in Turns : live'[u] = References(u)'[u]
      BY <1>2, <1>12, <3>4, <3>5, <3>6 DEF Counted
    <3> QED
      BY <3>5, <3>7, <3>8 DEF Counted
  <2> QED
    BY <2>1, <2>2
<1>16. TokensCovered'
  <2>1. \A u \in Turns : SameLoan(u)
    <3>1. SameLoan(t)
      BY <1>2, <1>4, <1>5 DEF SameLoan, TurnOK, Signal
    <3> QED
      BY <1>5, <3>1 DEF SameLoan
  <2> QED
    BY <1>1, <2>1, SameLoanKeeps
<1>17. IOTypeOK'
  BY <1>1, <1>2, <1>5, <1>15 DEF IOTypeOK
<1> QED
  BY <1>6, <1>9, <1>10, <1>11, <1>15, <1>16, <1>17, AllKept DEF MediaInv

-----------------------------------------------------------------------------
(* by a turn that ends, *)

LEMMA EndKeepsTurns ==
  ASSUME IOInv, NEW t \in Turns, End(t),
         turn[t].at \in {"freezing", "copied", "queued"} \cup Stages
  PROVE  /\ turn' \in [Turns -> TurnRecords] /\ turn'[t] = Without("over")
         /\ \A u \in Turns \ {t} : turn'[u] = turn[u]
         /\ worker' \in [Turns -> {"none", "store", "copy", "abandoned"}]
         /\ notice' \in [Turns -> {"none", "waiting", "sending", "over"}]
         /\ \A u \in Turns : TurnOK(u)' /\ ReplyOK(u)'
<1>1. /\ turn' = [turn EXCEPT ![t] = Without("over")]
      /\ worker' = IF worker[t] = "copy" THEN [worker EXCEPT ![t] = "abandoned"] ELSE worker
      /\ notice' = [notice EXCEPT ![t] = IF @ = "none" THEN @ ELSE "over"]
      /\ UNCHANGED accepted
  BY DEF End
<1>2. IOTypeOK /\ TurnOK(t) /\ ReplyOK(t)
  BY DEF IOInv
<1>3. /\ Without("over") \in TurnRecords /\ Without("over").at = "over"
      /\ Without("over").kind = "signal" /\ Without("over").token = "none"
  BY DEF Without, TurnRecords
<1>4. Becomes(t, Without("over"))
  BY <1>1, <1>3 DEF Becomes
<1>5. /\ turn' \in [Turns -> TurnRecords] /\ turn'[t] = Without("over")
      /\ \A u \in Turns \ {t} : turn'[u] = turn[u]
  BY <1>2, <1>4, BecomesDoes
<1>6. /\ worker' \in [Turns -> {"none", "store", "copy", "abandoned"}]
      /\ \A u \in Turns \ {t} : worker'[u] = worker[u]
      /\ worker'[t] # "copy"
  BY <1>1, <1>2 DEF IOTypeOK
<1>7. /\ notice' \in [Turns -> {"none", "waiting", "sending", "over"}]
      /\ \A u \in Turns \ {t} : notice'[u] = notice[u]
  BY <1>1, <1>2 DEF IOTypeOK
<1>8. TurnOK(t)'
  BY <1>3, <1>5, <1>6 DEF TurnOK, Signal, Waiting, Stages
<1>9. ReplyOK(t)'
  <2>1. \A i \in Chunks : /\ accepted[t][i] <= 1
                          /\ i > 1 /\ accepted[t][i] > 0 => accepted[t][i - 1] = 1
    <3>1. \A i \in Chunks : i > 1 => i - 1 \in Chunks
      BY DEF Chunks
    <3>2. CASE turn[t].at \in BeforeReply
      BY <1>2, <3>1, <3>2 DEF ReplyOK
    <3>3. CASE Sending(t)
      <4>1. turn[t].chunk \in Nat
        BY <1>2, RecordKinds
      <4>2. \A i \in Chunks : accepted[t][i] = IF i < turn[t].chunk THEN 1 ELSE 0
        BY <1>2, <3>3 DEF ReplyOK
      <4>3. \A i \in Chunks : i \in Nat
        BY DEF Chunks
      <4> QED
        BY <3>1, <4>1, <4>2, <4>3
    <3>4. CASE turn[t].at = "replied"
      BY <1>2, <3>4 DEF ReplyOK
    <3> QED
      BY <3>2, <3>3, <3>4 DEF BeforeReply, Sending, Stages
  <2> QED
    BY <1>1, <1>3, <1>5, <2>1 DEF ReplyOK, Sending, BeforeReply
<1> QED
  BY <1>1, <1>4, <1>5, <1>6, <1>7, <1>8, <1>9, OthersAreOK

LEMMA EndIsOver ==
  ASSUME IOInv, NEW t \in Turns, End(t),
         turn[t].at \in {"freezing", "copied", "queued"} \cup Stages
  PROVE  IOInv'
<1>1. /\ live' = [p \in Paths |-> live[p] - References(t)[p]]
      /\ file' = IF Signal(t) \/ worker[t] = "copy" THEN file ELSE [file EXCEPT ![t].there = FALSE]
      /\ rate' = IF Refundable(t) THEN [rate EXCEPT !.tokens = Capped(@ + 1)] ELSE rate
      /\ UNCHANGED <<sweep, accepted, clock>>
  BY DEF End, Released
<1>2. /\ IOTypeOK /\ TurnOK(t) /\ TokensCovered
      /\ Young /\ PlansAreOld /\ Counted /\ CopiesOwned /\ FilesInUseStay
  BY DEF IOInv
<1>3. /\ turn' \in [Turns -> TurnRecords] /\ turn'[t] = Without("over")
      /\ \A u \in Turns \ {t} : turn'[u] = turn[u]
      /\ worker' \in [Turns -> {"none", "store", "copy", "abandoned"}]
      /\ notice' \in [Turns -> {"none", "waiting", "sending", "over"}]
      /\ \A u \in Turns : TurnOK(u)' /\ ReplyOK(u)'
  BY EndKeepsTurns
<1>4. turn'[t].at = "over" /\ turn'[t].kind = "signal" /\ turn'[t].token = "none"
  BY <1>3 DEF Without
<1>5. /\ t \in Paths /\ t \notin Files /\ live \in [Paths -> Nat] /\ file \in [Paths -> FileRecords]
      /\ \A p \in Files : p \in Paths
      /\ \A u \in Turns : u \in Paths /\ u \notin Files
  BY <1>2 DEF Paths, IOTypeOK
(* Its copy, if it has one, is gone. *)
<1>6. /\ file' \in [Paths -> FileRecords]
      /\ \A p \in Paths \ {t} : file'[p] = file[p]
      /\ \A p \in Paths : file'[p].mtime = file[p].mtime /\ file'[p].old = file[p].old
      /\ ~file'[t].there
  <2>1. CASE Signal(t) \/ worker[t] = "copy"
    <3>1. file' = file
      BY <1>1, <2>1
    <3>2. ~file[t].there
      BY <1>2, <2>1 DEF CopiesOwned, Signal, TurnOK, Stages
    <3> QED
      BY <1>5, <3>1, <3>2
  <2>2. CASE ~(Signal(t) \/ worker[t] = "copy")
    <3> DEFINE f == [file[t] EXCEPT !.there = FALSE]
    <3>1. file' = [file EXCEPT ![t] = f]
      BY <1>1, <2>2
    <3>2. f \in FileRecords /\ f.mtime = file[t].mtime /\ f.old = file[t].old /\ ~f.there
      BY <1>5 DEF FileRecords
    <3> HIDE DEF f
    <3> QED
      BY <1>5, <3>1, <3>2
  <2> QED
    BY <2>1, <2>2
<1>7. \A p : Known(p)' = Known(p)
  BY <1>1 DEF Known
<1>8. \A u \in Turns : \A p : Unguarded(u, p)' => Unguarded(u, p)
  BY <1>3, <1>4 DEF Unguarded
<1>9. Young' /\ PlansAreOld'
  BY <1>2, <1>6, <1>7, <1>8 DEF Young, PlansAreOld
<1>10. CopiesOwned'
  <2>1. \A u \in Turns \ {t} : file'[u] = file[u]
    BY <1>5, <1>6
  <2> QED
    BY <1>2, <1>3, <1>6, <2>1 DEF CopiesOwned
<1>11. FilesInUseStay'
  <2>1. ASSUME NEW u \in Turns, NEW p \in Paths, InUse(u, p)' PROVE file'[p].there
    <3>1. u # t
      BY <1>4, <2>1 DEF InUse, Signal, Stages
    <3>2. InUse(u, p)
      BY <1>3, <2>1, <3>1 DEF InUse, Signal
    <3>3. p # t
      BY <1>5, <3>1, <3>2 DEF InUse
    <3> QED
      BY <1>2, <1>6, <3>2, <3>3 DEF FilesInUseStay
  <2> QED
    BY <2>1 DEF FilesInUseStay
<1>12. \A u \in Turns \ {t} : \A p \in Paths : References(u)'[p] = References(u)[p]
  BY <1>3 DEF References, Signal
<1>13. IsFiniteSet(Holders) /\ Cardinality(Holders) \in Nat
  BY FinitelyMany DEF Holders
<1>14. \A p \in Files : /\ live'[p] = Cardinality(Holders') /\ live'[p] \in Nat
  <2>1. CASE t \in Holders
    <3>1. Holders' = Holders \ {t}
      BY <1>3, <1>4, <2>1 DEF Holders, Signal, Stages
    <3>2. Cardinality(Holders') = Cardinality(Holders) - 1
      BY <1>13, <2>1, <3>1, FS_RemoveElement, Zenon
    <3>3. IsFiniteSet(Holders') /\ Cardinality(Holders') \in Nat
      BY <1>13, <3>1, FinitelyMany DEF Holders
    <3>4. \A p \in Files : References(t)[p] = 1
      BY <1>5, <2>1 DEF References, Holders, Waiting
    <3>5. \A p \in Files : live'[p] = live[p] - 1 /\ live[p] = Cardinality(Holders)
      BY <1>1, <1>2, <1>5, <3>4 DEF Counted
    <3> QED
      BY <3>2, <3>3, <3>5
  <2>2. CASE t \notin Holders
    <3>1. Holders' = Holders
      BY <1>3, <1>4, <2>2 DEF Holders, Signal, Stages
    <3>2. \A p \in Files : References(t)[p] = 0
      BY <1>5, <2>2 DEF References, Holders, Waiting
    <3>3. \A p \in Files : live'[p] = live[p] - 0 /\ live[p] = Cardinality(Holders)
      BY <1>1, <1>2, <1>5, <3>2 DEF Counted
    <3> QED
      BY <1>13, <3>1, <3>3
  <2> QED
    BY <2>1, <2>2
<1>15. \A u \in Turns : live'[u] = References(u)'[u] /\ live'[u] \in Nat
  <2>1. References(t)'[t] = 0
    BY <1>4, <1>5 DEF References, Signal
  <2>2. live'[t] = 0
    <3>1. live'[t] = live[t] - References(t)[t] /\ live[t] = References(t)[t] /\ live[t] \in Nat
      BY <1>1, <1>2, <1>5 DEF Counted
    <3> QED
      BY <3>1
  <2>3. ASSUME NEW u \in Turns \ {t} PROVE live'[u] = References(u)'[u] /\ live'[u] \in Nat
    <3>1. References(t)[u] = 0
      BY <1>5 DEF References
    <3>2. live'[u] = live[u] - 0 /\ live[u] \in Nat
      BY <1>1, <1>5, <3>1
    <3> QED
      BY <1>2, <1>5, <1>12, <3>2 DEF Counted
  <2> QED
    BY <2>1, <2>2, <2>3
<1>16. Counted' /\ live' \in [Paths -> Nat]
  <2>1. live' = [p \in Paths |-> live'[p]]
    BY <1>1
  <2>2. \A p \in Paths : live'[p] \in Nat
    BY <1>14, <1>15 DEF Paths
  <2> QED
    BY <1>14, <1>15, <2>1, <2>2 DEF Counted
<1>17. IsFiniteSet(Lent) /\ Cardinality(Lent) \in Nat
  BY FinitelyMany DEF Lent
<1>18. rate \in Buckets
  BY <1>2 DEF IOTypeOK
<1>19. rate' \in Buckets /\ TokensCovered'
  <2>1. CASE Refundable(t)
    <3> DEFINE n == Capped(rate.tokens + 1)
    <3>1. rate' = [rate EXCEPT !.tokens = n]
      BY <1>1, <2>1
    <3>2. /\ rate.tokens \in 0..Capacity /\ rate.spent \in Nat
          /\ rate.last \in -1..MaxClock /\ rate.first \in -1..MaxClock
      BY <1>18 DEF Buckets
    <3>3. n \in 0..Capacity /\ n <= rate.tokens + 1
      BY <3>2 DEF Capped
    <3> HIDE DEF n
    <3>4. rate' = [tokens |-> n, last |-> rate.last, first |-> rate.first, spent |-> rate.spent]
      BY <1>18, <3>1 DEF Buckets
    <3>5. /\ rate # NoBucket /\ 0 <= rate.first /\ rate.first <= rate.last
          /\ rate.tokens + rate.spent + Cardinality(Lent) <= Capacity + rate.last - rate.first
      BY <1>2, <2>1 DEF TokensCovered, Refundable
    <3>6. Lent' = Lent \ {t} /\ t \in Lent
      BY <1>3, <1>4, <2>1 DEF Lent, Refundable
    <3>7. Cardinality(Lent') = Cardinality(Lent) - 1
      BY <1>17, <3>6, FS_RemoveElement, Zenon
    <3>8. rate' \in Buckets
      BY <3>2, <3>3, <3>4 DEF Buckets
    <3>9. n + rate.spent + Cardinality(Lent') <= Capacity + rate.last - rate.first
      BY <1>17, <3>2, <3>3, <3>5, <3>7
    <3>10. rate' # NoBucket
      BY <3>4, <3>5 DEF NoBucket
    <3> QED
      BY <3>4, <3>5, <3>8, <3>9, <3>10 DEF TokensCovered
  <2>2. CASE ~Refundable(t)
    <3>1. rate' = rate
      BY <1>1, <2>2
    <3>2. Lent' = Lent
      BY <1>3, <1>4, <2>2 DEF Lent, Refundable
    <3>3. \A u \in Turns : turn'[u].token = "held" => turn[u].token = "held"
      BY <1>3, <1>4
    <3> QED
      BY <1>2, <1>18, <3>1, <3>2, <3>3 DEF TokensCovered
  <2> QED
    BY <2>1, <2>2
<1>20. IOTypeOK'
  BY <1>1, <1>2, <1>3, <1>6, <1>16, <1>19 DEF IOTypeOK
<1> QED
  BY <1>3, <1>9, <1>10, <1>11, <1>16, <1>19, <1>20, AllKept DEF MediaInv

-----------------------------------------------------------------------------
(* and by the prompt, the notice and the reply. *)

LEMMA PromptKeeps ==
  ASSUME IOInv, NEW t \in Turns, Prompt(t)
  PROVE  IOInv'
<1>1. /\ turn[t].at = "ready" /\ Go(t, "prompting")
      /\ notice' = [notice EXCEPT ![t] = "waiting"]
      /\ rate' = IF turn[t].token = "held" THEN [rate EXCEPT !.spent = @ + 1] ELSE rate
      /\ UNCHANGED <<worker, file, live, sweep, accepted, clock>>
  BY DEF Prompt, mediaVars
<1>2. IOTypeOK /\ TurnOK(t) /\ ReplyOK(t) /\ TokensCovered /\ rate \in Buckets
  BY DEF IOInv, IOTypeOK
<1>3. PICK r : /\ Becomes(t, r) /\ r.at = "prompting" /\ r.kind = turn[t].kind
               /\ r.token = turn[t].token /\ r.chunk = turn[t].chunk
               /\ r.chunks = turn[t].chunks
  BY <1>1, <1>2, GoesTo DEF Stages
<1>4. /\ turn' \in [Turns -> TurnRecords] /\ turn'[t] = r
      /\ \A u \in Turns \ {t} : turn'[u] = turn[u]
  BY <1>2, <1>3, BecomesDoes
<1>5. /\ notice' \in [Turns -> {"none", "waiting", "sending", "over"}]
      /\ \A u \in Turns \ {t} : notice'[u] = notice[u]
  BY <1>1, <1>2 DEF IOTypeOK
<1>6. \A u \in Turns : TurnOK(u)' /\ ReplyOK(u)'
  <2>1. TurnOK(t)'
    BY <1>1, <1>2, <1>3, <1>4 DEF TurnOK, Signal, Waiting, Stages
  <2>2. ReplyOK(t)'
    BY <1>1, <1>2, <1>3, <1>4 DEF ReplyOK, BeforeReply, Sending
  <2> QED
    BY <1>1, <1>3, <1>5, <2>1, <2>2, OthersAreOK
<1>7. MediaInv'
  <2>1. \A u \in Turns : SameHold(u)
    BY <1>1, <1>3, <1>4 DEF SameHold, Stages, Waiting
  <2> QED
    BY <1>1, <1>6, <2>1, SameHoldKeeps
<1>8. IsFiniteSet(Lent) /\ Cardinality(Lent) \in Nat
  BY FinitelyMany DEF Lent
<1>9. rate' \in Buckets /\ TokensCovered'
  <2>1. CASE turn[t].token = "held"
    <3>1. /\ rate.tokens \in 0..Capacity /\ rate.spent \in Nat
          /\ rate.last \in -1..MaxClock /\ rate.first \in -1..MaxClock
      BY <1>2 DEF Buckets
    <3>2. rate' = [tokens |-> rate.tokens, last |-> rate.last, first |-> rate.first,
                   spent |-> rate.spent + 1]
      BY <1>1, <1>2, <2>1 DEF Buckets
    <3>3. /\ rate # NoBucket /\ 0 <= rate.first /\ rate.first <= rate.last
          /\ rate.tokens + rate.spent + Cardinality(Lent) <= Capacity + rate.last - rate.first
      BY <1>2, <2>1 DEF TokensCovered
    <3>4. Lent' = Lent \ {t} /\ t \in Lent
      BY <1>1, <1>3, <1>4, <2>1 DEF Lent, Refundable
    <3>5. Cardinality(Lent') = Cardinality(Lent) - 1
      BY <1>8, <3>4, FS_RemoveElement, Zenon
    <3>6. rate' \in Buckets
      BY <3>1, <3>2 DEF Buckets
    <3>7. rate.tokens + (rate.spent + 1) + Cardinality(Lent') <= Capacity + rate.last - rate.first
      BY <1>8, <3>1, <3>3, <3>5
    <3>8. rate' # NoBucket
      BY <3>2, <3>3 DEF NoBucket
    <3> QED
      BY <3>2, <3>3, <3>6, <3>7, <3>8 DEF TokensCovered
  <2>2. CASE turn[t].token # "held"
    <3>1. \A u \in Turns : SameLoan(u)
      BY <1>3, <1>4, <2>2 DEF SameLoan
    <3>2. rate' = rate
      BY <1>1, <2>2
    <3> QED
      BY <1>2, <3>1, <3>2, SameLoanKeeps
  <2> QED
    BY <2>1, <2>2
<1>10. IOTypeOK'
  BY <1>1, <1>2, <1>4, <1>5, <1>9 DEF IOTypeOK
<1> QED
  BY <1>6, <1>7, <1>9, <1>10, AllKept

LEMMA NoticeKeeps ==
  ASSUME IOInv, NEW t \in Turns, NoticeDue(t) \/ NoticeSent(t) \/ NoticeCancelled(t)
  PROVE  IOInv'
<1>1. /\ UNCHANGED <<turn, worker, file, live, sweep, accepted, clock, rate>>
      /\ \E n \in {"sending", "over"} : notice' = [notice EXCEPT ![t] = n]
      /\ notice'[t] = "over" \/ turn[t].at = "prompting"
  BY DEF NoticeDue, NoticeSent, NoticeCancelled, mediaVars, rateVars, IOInv, IOTypeOK
<1>2. IOTypeOK /\ \A u \in Turns : TurnOK(u) /\ ReplyOK(u)
  BY DEF IOInv
<1>3. /\ notice' \in [Turns -> {"none", "waiting", "sending", "over"}]
      /\ \A u \in Turns \ {t} : notice'[u] = notice[u]
  BY <1>1, <1>2 DEF IOTypeOK
<1>4. \A u \in Turns : TurnOK(u)'
  BY <1>1, <1>2 DEF TurnOK, Signal
<1>5. ASSUME NEW u \in Turns PROVE ReplyOK(u)'
  <2>1. Sending(u) => notice'[u] = "over"
    BY <1>1, <1>2, <1>3 DEF ReplyOK, Sending
  <2> QED
    BY <1>1, <1>2, <2>1 DEF ReplyOK, Sending
<1>6. MediaInv'
  <2>1. \A u \in Turns : SameHold(u)
    BY <1>1 DEF SameHold
  <2> QED
    BY <1>1, <1>4, <2>1, SameHoldKeeps
<1>7. TokensCovered'
  <2>1. \A u \in Turns : SameLoan(u)
    BY <1>1 DEF SameLoan
  <2> QED
    BY <1>1, <2>1, SameLoanKeeps
<1>8. IOTypeOK'
  BY <1>1, <1>2, <1>3 DEF IOTypeOK
<1> QED
  BY <1>4, <1>5, <1>6, <1>7, <1>8, AllKept

(* A step of the reply. *)
LEMMA TalkKeeps ==
  ASSUME IOInv, NEW t \in Turns, NEW r, Becomes(t, r),
         turn[t].at \in Stages \ (Waiting \cup {"ready"}),
         r.at \in Stages \ (Waiting \cup {"ready"}),
         r.kind = turn[t].kind, r.token = turn[t].token,
         UNCHANGED <<worker, file, live, sweep, notice, clock, rate>>,
         accepted' \in [Turns -> [Chunks -> 0..2]],
         \A u \in Turns \ {t} : accepted'[u] = accepted[u],
         ReplyOK(t)'
  PROVE  IOInv'
<1>1. IOTypeOK /\ TurnOK(t)
  BY DEF IOInv
<1>2. /\ turn' \in [Turns -> TurnRecords] /\ turn'[t] = r
      /\ \A u \in Turns \ {t} : turn'[u] = turn[u]
  BY <1>1, BecomesDoes
<1>3. TurnOK(t)'
  BY <1>1, <1>2 DEF TurnOK, Signal, Waiting, Stages
<1>4. \A u \in Turns : TurnOK(u)' /\ ReplyOK(u)'
  BY <1>3, OthersAreOK
<1>5. MediaInv'
  <2>1. \A u \in Turns : SameHold(u)
    BY <1>2 DEF SameHold
  <2> QED
    BY <1>4, <2>1, SameHoldKeeps
<1>6. TokensCovered'
  <2>1. SameLoan(t)
    BY <1>2 DEF SameLoan, Waiting
  <2>2. \A u \in Turns : SameLoan(u)
    BY <1>2, <2>1 DEF SameLoan
  <2> QED
    BY <2>2, SameLoanKeeps
<1>7. IOTypeOK'
  BY <1>1, <1>2 DEF IOTypeOK
<1> QED
  BY <1>4, <1>5, <1>6, <1>7, AllKept

LEMMA AnsweredKeeps ==
  ASSUME IOInv, NEW t \in Turns, NEW n \in 0..MaxChunks, Answered(t, n)
  PROVE  IOInv'
<1>1. /\ turn[t].at = "prompting"
      /\ turn' = [turn EXCEPT ![t].at = "stopping", ![t].chunks = n]
      /\ UNCHANGED <<worker, file, live, sweep, notice, accepted, clock, rate>>
  BY DEF Answered, mediaVars, rateVars
<1>2. IOTypeOK /\ ReplyOK(t)
  BY DEF IOInv
<1> DEFINE r == [turn[t] EXCEPT !.at = "stopping", !.chunks = n]
<1>3. turn[t] \in TurnRecords
  BY <1>2, RecordKinds
<1>4. r \in TurnRecords /\ r.at = "stopping" /\ r.kind = turn[t].kind /\ r.token = turn[t].token
  BY <1>3 DEF TurnRecords, Stages
<1>5. turn' = [turn EXCEPT ![t] = r]
  BY <1>1, <1>2 DEF IOTypeOK
<1> HIDE DEF r
<1>6. Becomes(t, r)
  BY <1>4, <1>5 DEF Becomes
<1>7. turn'[t] = r
  BY <1>2, <1>6, BecomesDoes
<1>8. ReplyOK(t)'
  BY <1>1, <1>2, <1>4, <1>7 DEF ReplyOK, BeforeReply, Sending
<1>9. accepted' \in [Turns -> [Chunks -> 0..2]]
  BY <1>1, <1>2 DEF IOTypeOK
<1> QED
  BY <1>1, <1>4, <1>6, <1>8, <1>9, TalkKeeps DEF Stages, Waiting

LEMMA ReplyKeeps ==
  ASSUME IOInv, NEW t \in Turns, Reply(t)
  PROVE  IOInv'
<1>1. /\ turn[t].at = "stopping" /\ notice[t] = "over"
      /\ IF turn[t].chunks = 0 THEN Go(t, "replied")
         ELSE turn' = [turn EXCEPT ![t].at = "sending", ![t].chunk = 1]
      /\ UNCHANGED <<worker, file, live, sweep, notice, accepted, clock, rate>>
  BY DEF Reply, NoticeStopped, mediaVars, rateVars
<1>2. IOTypeOK /\ ReplyOK(t)
  BY DEF IOInv
<1>3. turn[t] \in TurnRecords /\ turn[t].chunks \in 0..MaxChunks
  BY <1>2, RecordKinds
<1>4. accepted' \in [Turns -> [Chunks -> 0..2]] /\ \A i \in Chunks : accepted'[t][i] = 0
  BY <1>1, <1>2 DEF IOTypeOK, ReplyOK, BeforeReply
<1>5. \A i \in Chunks : i \in Nat /\ i >= 1 /\ (i > 1 => i - 1 \in Chunks)
  BY DEF Chunks
<1>6. CASE turn[t].chunks = 0
  <2>1. PICK r : /\ Becomes(t, r) /\ r.at = "replied" /\ r.kind = turn[t].kind
                 /\ r.token = turn[t].token
    BY <1>1, <1>2, <1>6, GoesTo DEF Stages
  <2>2. turn'[t] = r
    BY <1>2, <2>1, BecomesDoes
  <2>3. ReplyOK(t)'
    BY <1>4, <1>5, <2>1, <2>2 DEF ReplyOK, BeforeReply, Sending
  <2> QED
    BY <1>1, <1>4, <2>1, <2>3, TalkKeeps DEF Stages, Waiting
<1>7. CASE turn[t].chunks # 0
  <2> DEFINE r == [turn[t] EXCEPT !.at = "sending", !.chunk = 1]
  <2>1. 1 \in 0..MaxChunks
    OBVIOUS
  <2>2. /\ r \in TurnRecords /\ r.at = "sending" /\ r.kind = turn[t].kind
        /\ r.token = turn[t].token /\ r.chunk = 1 /\ r.chunks = turn[t].chunks
    BY <1>3, <2>1 DEF TurnRecords, Stages
  <2>3. turn' = [turn EXCEPT ![t] = r]
    BY <1>1, <1>2, <1>7 DEF IOTypeOK
  <2> HIDE DEF r
  <2>4. Becomes(t, r)
    BY <2>2, <2>3 DEF Becomes
  <2>5. turn'[t] = r
    BY <1>2, <2>4, BecomesDoes
  <2>6. ReplyOK(t)'
    <3>1. 1 <= turn[t].chunks
      BY <1>3, <1>7
    <3>2. \A i \in Chunks : accepted'[t][i] = IF i < 1 THEN 1 ELSE 0
      <4> SUFFICES ASSUME NEW i \in Chunks
                   PROVE  accepted'[t][i] = IF i < 1 THEN 1 ELSE 0
        OBVIOUS
      <4>1. accepted'[t][i] = 0
        BY ONLY <1>4, i \in Chunks
      <4>2. ~(i < 1)
        BY ONLY <1>5, i \in Chunks, SMT
      <4> QED
        BY ONLY <4>1, <4>2, Zenon
    <3> QED
      BY <1>1, <2>2, <2>5, <3>1, <3>2 DEF ReplyOK, BeforeReply, Sending
  <2> QED
    BY <1>1, <1>4, <2>2, <2>4, <2>6, TalkKeeps DEF Stages, Waiting
<1> QED
  BY <1>6, <1>7

(* The chunk that is due is accepted for the first time. *)
LEMMA AcceptedDoes ==
  ASSUME IOInv, NEW t \in Turns, Sending(t), Accepted(t)
  PROVE  /\ accepted' \in [Turns -> [Chunks -> 0..2]]
         /\ \A u \in Turns \ {t} : accepted'[u] = accepted[u]
         /\ \A i \in Chunks : accepted'[t][i] = IF i < turn[t].chunk + 1 THEN 1 ELSE 0
<1>1. IOTypeOK /\ ReplyOK(t)
  BY DEF IOInv
<1> DEFINE c == turn[t].chunk
<1>2. c \in Nat /\ turn[t].chunks \in 0..MaxChunks
  BY <1>1, RecordKinds
<1>3. /\ 1 <= c /\ c <= turn[t].chunks
      /\ \A i \in Chunks : accepted[t][i] = IF i < c THEN 1 ELSE 0
  BY <1>1 DEF ReplyOK
<1>4. c \in Chunks
  BY <1>2, <1>3 DEF Chunks
<1>5. accepted[t] \in [Chunks -> 0..2] /\ accepted \in [Turns -> [Chunks -> 0..2]]
  BY <1>1 DEF IOTypeOK
<1>6. accepted[t][c] = 0
  BY <1>2, <1>3, <1>4
<1> DEFINE a == [accepted[t] EXCEPT ![c] = @ + 1]
<1>7. accepted' = [accepted EXCEPT ![t] = a]
  BY DEF Accepted
<1>8. a \in [Chunks -> 0..2] /\ a[c] = 1 /\ \A i \in Chunks \ {c} : a[i] = accepted[t][i]
  BY <1>4, <1>5, <1>6
<1> HIDE DEF a
<1>9. \A i \in Chunks : a[i] = IF i < c + 1 THEN 1 ELSE 0
  <2>1. \A i \in Chunks : i \in Nat
    BY DEF Chunks
  <2> QED
    BY <1>2, <1>3, <1>8, <2>1
<1> QED
  BY <1>5, <1>7, <1>8, <1>9

(* What Signal accepted of a reply that is over is a part from its start.   *)
LEMMA StartAccepted ==
  ASSUME NEW a \in [Chunks -> Nat], NEW c \in Nat,
         \A i \in Chunks : a[i] = IF i < c THEN 1 ELSE 0
  PROVE  \A i \in Chunks : a[i] <= 1 /\ (i > 1 /\ a[i] > 0 => a[i - 1] = 1)
<1>1. \A i \in Chunks : i \in Nat /\ (i > 1 => i - 1 \in Chunks)
  BY DEF Chunks
<1> QED
  BY <1>1

LEMMA PostedKeeps ==
  ASSUME IOInv, NEW t \in Turns, Posted(t)
  PROVE  IOInv'
<1>1. /\ Sending(t) /\ Accepted(t)
      /\ IF turn[t].chunk = turn[t].chunks THEN Go(t, "replied")
         ELSE turn' = [turn EXCEPT ![t].at = "sending", ![t].chunk = @ + 1]
      /\ UNCHANGED <<worker, file, live, sweep, notice, clock, rate>>
  BY DEF Posted, mediaVars, rateVars
<1>2. IOTypeOK /\ ReplyOK(t)
  BY DEF IOInv
<1> DEFINE c == turn[t].chunk
<1>3. /\ turn[t] \in TurnRecords /\ turn[t].chunks \in 0..MaxChunks /\ c \in Nat
  BY <1>2, RecordKinds
<1>4. 1 <= c /\ c <= turn[t].chunks /\ notice[t] = "over" /\ turn[t].at \in {"sending", "retrying"}
  BY <1>1, <1>2 DEF ReplyOK, Sending
<1>5. /\ accepted' \in [Turns -> [Chunks -> 0..2]]
      /\ \A u \in Turns \ {t} : accepted'[u] = accepted[u]
      /\ \A i \in Chunks : accepted'[t][i] = IF i < c + 1 THEN 1 ELSE 0
  BY <1>1, AcceptedDoes
<1>6. CASE c = turn[t].chunks
  <2>1. PICK r : /\ Becomes(t, r) /\ r.at = "replied" /\ r.kind = turn[t].kind
                 /\ r.token = turn[t].token
    BY <1>1, <1>2, <1>6, GoesTo DEF Stages
  <2>2. turn'[t] = r
    BY <1>2, <2>1, BecomesDoes
  <2>3. ReplyOK(t)'
    <3>1. c + 1 \in Nat /\ accepted'[t] \in [Chunks -> Nat]
      BY <1>3, <1>5
    <3>2. \A i \in Chunks : /\ accepted'[t][i] <= 1
                            /\ i > 1 /\ accepted'[t][i] > 0 => accepted'[t][i - 1] = 1
      BY <1>5, <3>1, StartAccepted
    <3> QED
      BY <2>1, <2>2, <3>2 DEF ReplyOK, BeforeReply, Sending
  <2> QED
    BY <1>1, <1>4, <1>5, <2>1, <2>3, TalkKeeps DEF Stages, Waiting
<1>7. CASE c # turn[t].chunks
  <2> DEFINE r == [turn[t] EXCEPT !.at = "sending", !.chunk = c + 1]
  <2>1. c + 1 \in 0..MaxChunks /\ c + 1 <= turn[t].chunks
    BY <1>3, <1>4, <1>7
  <2>2. /\ r \in TurnRecords /\ r.at = "sending" /\ r.kind = turn[t].kind
        /\ r.token = turn[t].token /\ r.chunk = c + 1 /\ r.chunks = turn[t].chunks
    BY <1>3, <2>1 DEF TurnRecords, Stages
  <2>3. turn' = [turn EXCEPT ![t] = r]
    BY <1>1, <1>2, <1>7 DEF IOTypeOK
  <2> HIDE DEF r
  <2>4. Becomes(t, r)
    BY <2>2, <2>3 DEF Becomes
  <2>5. turn'[t] = r
    BY <1>2, <2>4, BecomesDoes
  <2>6. ReplyOK(t)'
    <3>1. 1 <= c + 1
      BY <1>3
    <3> QED
      BY <1>1, <1>4, <1>5, <2>1, <2>2, <2>5, <3>1 DEF ReplyOK, BeforeReply, Sending
  <2> QED
    BY <1>1, <1>4, <1>5, <2>2, <2>4, <2>6, TalkKeeps DEF Stages, Waiting
<1> QED
  BY <1>6, <1>7

LEMMA PostFailsKeeps ==
  ASSUME IOInv, NEW t \in Turns, NEW error \in {"unsent", "taken", "refused"},
         PostFails(t, error)
  PROVE  IOInv'
<1>1. /\ Sending(t) /\ Go(t, IF Retries(t, error) THEN "retrying" ELSE "replied")
      /\ IF error = "taken" THEN Accepted(t) ELSE UNCHANGED accepted
      /\ UNCHANGED <<worker, file, live, sweep, notice, clock, rate>>
  BY DEF PostFails, mediaVars, rateVars
<1>2. IOTypeOK /\ ReplyOK(t)
  BY DEF IOInv
<1> DEFINE c == turn[t].chunk
           next == IF Retries(t, error) THEN "retrying" ELSE "replied"
<1>3. c \in Nat
  BY <1>2, RecordKinds
<1>4. /\ 1 <= c /\ c <= turn[t].chunks /\ notice[t] = "over"
      /\ turn[t].at \in {"sending", "retrying"}
      /\ \A i \in Chunks : accepted[t][i] = IF i < c THEN 1 ELSE 0
  BY <1>1, <1>2 DEF ReplyOK, Sending
<1>5. PICK r : /\ Becomes(t, r) /\ r.at = next /\ r.kind = turn[t].kind
               /\ r.token = turn[t].token /\ r.chunk = c /\ r.chunks = turn[t].chunks
  BY <1>1, <1>2, GoesTo DEF Stages
<1>6. turn'[t] = r
  BY <1>2, <1>5, BecomesDoes
<1>7. /\ accepted' \in [Turns -> [Chunks -> 0..2]]
      /\ \A u \in Turns \ {t} : accepted'[u] = accepted[u]
      /\ \/ error = "taken" /\ \A i \in Chunks : accepted'[t][i] = IF i < c + 1 THEN 1 ELSE 0
         \/ error # "taken" /\ \A i \in Chunks : accepted'[t][i] = IF i < c THEN 1 ELSE 0
  <2>1. CASE error = "taken"
    BY <1>1, <2>1, AcceptedDoes
  <2>2. CASE error # "taken"
    BY <1>1, <1>2, <1>4, <2>2 DEF IOTypeOK
  <2> QED
    BY <2>1, <2>2
<1>8. accepted'[t] \in [Chunks -> Nat]
  BY <1>7
<1>9. ReplyOK(t)'
  <2>1. CASE Retries(t, error)
    <3>1. error # "taken" /\ next = "retrying"
      BY <2>1 DEF Retries
    <3> HIDE DEF next
    <3> QED
      BY <1>1, <1>4, <1>5, <1>6, <1>7, <3>1 DEF ReplyOK, BeforeReply, Sending
  <2>2. CASE ~Retries(t, error)
    <3>1. \E d \in Nat : \A i \in Chunks : accepted'[t][i] = IF i < d THEN 1 ELSE 0
      <4>1. c + 1 \in Nat
        BY <1>3
      <4> QED
        BY <1>3, <1>7, <4>1
    <3>2. \A i \in Chunks : /\ accepted'[t][i] <= 1
                            /\ i > 1 /\ accepted'[t][i] > 0 => accepted'[t][i - 1] = 1
      BY <1>8, <3>1, StartAccepted
    <3>3. next = "replied"
      BY <2>2
    <3> HIDE DEF next
    <3> QED
      BY <1>5, <1>6, <3>2, <3>3 DEF ReplyOK, BeforeReply, Sending
  <2> QED
    BY <2>1, <2>2
<1> QED
  BY <1>1, <1>4, <1>5, <1>7, <1>9, TalkKeeps DEF Stages, Waiting

-----------------------------------------------------------------------------
LEMMA IOInvInit == IOInit => IOInv
<1> SUFFICES ASSUME IOInit PROVE IOInv
  OBVIOUS
<1>1. /\ turn = [t \in Turns |-> Without("idle")]
      /\ worker = [t \in Turns |-> "none"]
      /\ live = [p \in Paths |-> 0] /\ sweep = {}
      /\ notice = [t \in Turns |-> "none"]
      /\ accepted = [t \in Turns |-> [i \in Chunks |-> 0]]
      /\ clock = 0 /\ rate = NoBucket
  BY DEF IOInit
<1>2. PICK S \in SUBSET Files :
         file = [p \in Paths |-> [there |-> p \in S, mtime |-> 0, old |-> TRUE]]
  BY DEF IOInit
<1>3. /\ Without("idle") \in TurnRecords /\ Without("idle").at = "idle"
      /\ Without("idle").kind = "signal" /\ Without("idle").token = "none"
  BY DEF Without, TurnRecords
<1>4. \A t \in Turns : turn[t].at = "idle" /\ turn[t].kind = "signal" /\ turn[t].token = "none"
  BY <1>1, <1>3
<1>5. IOTypeOK
  <2>1. turn \in [Turns -> TurnRecords]
    BY <1>1, <1>3
  <2>2. \A p \in Paths : [there |-> p \in S, mtime |-> 0, old |-> TRUE] \in FileRecords
    BY DEF FileRecords
  <2>3. file \in [Paths -> FileRecords]
    BY <1>2, <2>2
  <2>4. rate \in Buckets /\ clock \in 0..MaxClock
    BY <1>1 DEF NoBucket, Buckets
  <2> QED
    BY <1>1, <2>1, <2>3, <2>4 DEF IOTypeOK
<1>6. ASSUME NEW t \in Turns PROVE TurnOK(t) /\ ReplyOK(t)
  <2>1. turn[t].at = "idle" /\ turn[t].kind = "signal" /\ turn[t].token = "none" /\ worker[t] = "none"
    BY <1>1, <1>4
  <2>2. \A i \in Chunks : accepted[t][i] = 0
    BY <1>1
  <2>3. TurnOK(t)
    BY <2>1 DEF TurnOK, Signal
  <2> QED
    BY <2>1, <2>2, <2>3 DEF ReplyOK, Sending
<1>7. Young /\ PlansAreOld
  BY <1>1, <1>4 DEF Young, PlansAreOld, Unguarded, Known
<1>8. Counted
  <2>1. Holders = {}
    BY <1>4 DEF Holders, Stages
  <2>2. Cardinality(Holders) = 0
    BY <2>1, FS_EmptySet
  <2>3. \A t \in Turns : t \in Paths /\ t \notin Files
    BY DEF Paths
  <2>4. \A t \in Turns : References(t)[t] = 0
    BY <1>4, <2>3 DEF References, Signal
  <2> QED
    BY <1>1, <2>2, <2>3, <2>4 DEF Counted, Paths
<1>9. CopiesOwned
  BY <1>2 DEF CopiesOwned, Paths
<1>10. FilesInUseStay
  BY <1>4 DEF FilesInUseStay, InUse, Signal, Stages
<1>11. TokensCovered
  BY <1>1, <1>4 DEF TokensCovered
<1> QED
  BY <1>5, <1>6, <1>7, <1>8, <1>9, <1>10, <1>11 DEF IOInv

LEMMA IOInvStep == IOInv /\ [IONext]_ioVars => IOInv'
<1> SUFFICES ASSUME IOInv, [IONext]_ioVars PROVE IOInv'
  OBVIOUS
<1>1. ASSUME NEW t \in Turns, Begin(t) PROVE IOInv'
  BY <1>1, StartSignalKeeps, StartNotifyKeeps, LiveKeeps DEF Begin
<1>2. ASSUME NEW t \in Turns, Thread(t) PROVE IOInv'
  BY <1>2, StoreDoneKeeps, CopyDoneKeeps, AbandonedKeeps DEF Thread
<1>3. ASSUME NEW t \in Turns, Talk(t) PROVE IOInv'
  BY <1>3, PromptKeeps, NoticeKeeps, AnsweredKeeps, ReplyKeeps, PostedKeeps, PostFailsKeeps
  DEF Talk
<1>4. ASSUME NEW t \in Turns, GiveUp(t) \/ Finish(t) PROVE IOInv'
  <2>1. End(t) /\ turn[t].at \in {"freezing", "copied", "queued"} \cup Stages
    BY <1>4 DEF GiveUp, Finish, Stages
  <2> QED
    BY <2>1, EndIsOver
<1>5. ASSUME Sweep PROVE IOInv'
  <2>1. ASSUME NEW e \in sweep, SweepBatch(e[1], e[2]) PROVE IOInv'
    <3>1. e[1] \in Paths /\ e[2] \in Nat
      BY DEF IOInv, IOTypeOK
    <3> QED
      BY <2>1, <3>1, SweepBatchKeeps
  <2> QED
    BY <1>5, <2>1, PlanKeeps DEF Sweep
<1>6. CASE UNCHANGED ioVars
  <2>1. UNCHANGED <<turn, worker, file, live, sweep, notice, accepted, clock, rate>>
    BY <1>6 DEF ioVars
  <2>2. IOTypeOK'
    BY <2>1 DEF IOInv, IOTypeOK
  <2>3. \A u \in Turns : TurnOK(u)' /\ ReplyOK(u)'
    BY <2>1 DEF IOInv, TurnOK, ReplyOK, Signal, Sending
  <2>4. MediaInv'
    <3>1. \A u \in Turns : SameHold(u)
      BY <2>1 DEF SameHold
    <3> QED
      BY <2>1, <2>3, <3>1, SameHoldKeeps
  <2>5. TokensCovered'
    <3>1. \A u \in Turns : SameLoan(u)
      BY <2>1 DEF SameLoan
    <3> QED
      BY <2>1, <3>1, SameLoanKeeps
  <2> QED
    BY <2>2, <2>3, <2>4, <2>5, AllKept
<1> QED
  BY <1>1, <1>2, <1>3, <1>4, <1>5, <1>6, AgeKeeps, ReloadLimitKeeps, ClockKeeps DEF IONext

(* What the turns do outside is consistent at every step, for any turns,    *)
(* files, limits and clocks.                                                *)
THEOREM TurnsOutsideAreConsistent == IOSpec => []IOInv
  BY IOInvInit, IOInvStep, PTL DEF IOSpec

(* The state of what turns do outside keeps its shape; the bucket never     *)
(* holds more than its capacity.                                            *)
THEOREM IOTypeCorrect == IOSpec => []IOTypeOK
<1>1. IOInv => IOTypeOK
  BY DEF IOInv
<1> QED
  BY <1>1, TurnsOutsideAreConsistent, PTL

(* A file that a turn uses is not swept, and references balance.            *)
THEOREM MediaKept == IOSpec => []InUseKept
<1>1. IOInv => InUseKept
  <2> SUFFICES ASSUME IOInv PROVE FilesInUseStay /\ LiveBalances
    BY DEF InUseKept
  <2>1. IOTypeOK /\ Counted /\ FilesInUseStay
    BY DEF IOInv
  <2>2. ASSUME NEW p \in Files
        PROVE  live[p] > 0 <=> \E t \in Turns : References(t)[p] > 0
    <3>1. p \in Paths /\ p \notin Turns
      BY DEF Paths
    <3>2. \A t \in Turns : References(t)[p] > 0 <=> t \in Holders
      BY <3>1 DEF References, Holders, Waiting
    <3>3. /\ IsFiniteSet(Holders) /\ Cardinality(Holders) \in Nat
          /\ Cardinality(Holders) = 0 <=> Holders = {}
      BY FinitelyMany, FS_EmptySet DEF Holders
    <3>4. live[p] = Cardinality(Holders)
      BY <2>1 DEF Counted
    <3>5. live[p] > 0 <=> Holders # {}
      BY <3>3, <3>4
    <3> QED
      BY <3>2, <3>5 DEF Holders
  <2>3. ASSUME NEW p \in Turns
        PROVE  live[p] > 0 <=> \E t \in Turns : References(t)[p] > 0
    <3>1. p \in Paths /\ p \notin Files
      BY DEF Paths
    <3>2. \A t \in Turns \ {p} : References(t)[p] = 0
      BY <3>1 DEF References
    <3>3. live[p] = References(p)[p]
      BY <2>1 DEF Counted
    <3> QED
      BY <3>2, <3>3
  <2> QED
    BY <2>1, <2>2, <2>3 DEF LiveBalances, Paths
<1> QED
  BY <1>1, TurnsOutsideAreConsistent, PTL

(* A frozen copy does not outlive its turn and the thread that wrote it.    *)
THEOREM NoCopyLeft == IOSpec => []ArtifactsGone
<1>1. IOInv => ArtifactsGone
  BY DEF IOInv, CopiesOwned, ArtifactsGone, Stages
<1> QED
  BY <1>1, TurnsOutsideAreConsistent, PTL

(* However turns give up, limits reload and the clock steps, a bucket lets  *)
(* no more prompts through than its capacity and the time that passed.      *)
THEOREM RateLimited == IOSpec => []RateCap
<1>1. IOInv => RateCap
  BY DEF IOInv, TokensCovered, RateCap, Lent
<1> QED
  BY <1>1, TurnsOutsideAreConsistent, PTL

(* A busy notice is never under way beside the reply.                       *)
THEOREM NoticeBeforeReply == IOSpec => []NoticeNeverLate
<1>1. IOInv => NoticeNeverLate
  BY DEF IOInv, ReplyOK, NoticeNeverLate
<1> QED
  BY <1>1, TurnsOutsideAreConsistent, PTL

(* Signal takes the chunks of a reply in order, none of them twice.         *)
THEOREM ChunksInOrder == IOSpec => []ChunksOnce
<1>1. IOInv => ChunksOnce
  <2> SUFFICES ASSUME IOInv, NEW t \in Turns, NEW i \in Chunks
               PROVE  accepted[t][i] <= 1 /\ (i > 1 /\ accepted[t][i] > 0 => accepted[t][i - 1] = 1)
    BY DEF ChunksOnce
  <2>1. IOTypeOK /\ ReplyOK(t) /\ accepted[t] \in [Chunks -> Nat]
    BY DEF IOInv, IOTypeOK
  <2>2. CASE turn[t].at \in BeforeReply
    <3>1. accepted[t][i] = 0
      BY <2>1, <2>2 DEF ReplyOK
    <3> QED
      BY <3>1
  <2>3. CASE Sending(t)
    <3>1. turn[t].chunk \in Nat
      BY <2>1, RecordKinds
    <3>2. \A j \in Chunks : accepted[t][j] = IF j < turn[t].chunk THEN 1 ELSE 0
      BY <2>1, <2>3 DEF ReplyOK
    <3> QED
      BY <2>1, <3>1, <3>2, StartAccepted
  <2>4. CASE turn[t].at \in {"replied", "over"}
    BY <2>1, <2>4 DEF ReplyOK
  <2> QED
    BY <2>1, <2>2, <2>3, <2>4, RecordKinds DEF BeforeReply, Sending, Stages
<1> QED
  BY <1>1, TurnsOutsideAreConsistent, PTL
====
