---- MODULE AcpPeer ----
(***************************************************************************)
(* One Hermes process and the tasks around it (acp.py, JsonRpcStdioPeer):  *)
(* the reader of its stdout, the drain of its stderr, the exit watcher,    *)
(* the requests of the turns, and close() called by several tasks, any of  *)
(* which may be cancelled.  The process answers, sends requests or junk,   *)
(* closes its stdout, ignores SIGTERM or dies when it likes, and a child   *)
(* of its own may hold its pipes open.  An action is what the event loop   *)
(* runs between two awaits; stage names say what a task awaits.            *)
(***************************************************************************)
EXTENDS Integers, Sequences, FiniteSets

CONSTANTS
    Requests,  \* calls of request()
    Closers,   \* calls of close()
    Extras     \* what else the process writes: "ask", "junk", each once

ASSUME ExtrasKnown == Extras \subseteq {"ask", "junk"}
ASSUME RequestsApart == Requests \cap {"ask", "junk"} = {}

VARIABLES
    child,     \* alive, dead, or reaped: the loop has set returncode
    cause,     \* whose doing its death was
    termed,    \* SIGTERM was sent
    held,      \* a grandchild holds the pipes
    muted,     \* the process closed its own stdout
    frames,    \* written to stdout and not read
    owed,      \* requests and extras the process may still write
    eof,       \* _stdout_eof
    broken,    \* _stdin_write_failed
    piped,     \* the router's ends of the pipes are closed
    reader, stderr, watcher,
    cancels,   \* tasks among these three told to cancel
    expected,  \* _expected_exit
    reports,   \* calls of on_exit
    closer,    \* closer[c]: where a call of close() is
    known,     \* the first close() found evidence of a death of its own
    req,       \* req[r]: where a call of request() is
    future,    \* future[r]: what became of its future
    pending,   \* the keys of _pending
    late       \* requests registered after the reader had ended

childVars == <<child, cause, termed, held, muted>>
pipeVars == <<frames, owed, eof, broken, piped>>
taskVars == <<reader, stderr, watcher, cancels>>
closeVars == <<expected, reports, closer, known>>
reqVars == <<req, future, pending, late>>
vars == <<childVars, pipeVars, taskVars, closeVars, reqVars>>

ReaderOver == {"ended", "failed"}
CloserOver == {"closed", "raised", "cancelled", "gave up"}

TypeOK ==
    /\ child \in {"alive", "dead", "reaped"} /\ cause \in {"none", "own", "router"}
    /\ frames \in Seq(Requests \cup Extras) /\ owed \subseteq Requests \cup Extras
    /\ termed \in BOOLEAN /\ held \in BOOLEAN /\ muted \in BOOLEAN /\ eof \in BOOLEAN
    /\ broken \in BOOLEAN /\ piped \in BOOLEAN /\ expected \in BOOLEAN /\ known \in BOOLEAN
    /\ reader \in {"reading", "answering"} \cup ReaderOver
    /\ stderr \in {"draining", "ended"}
    /\ watcher \in {"waiting", "settling", "cancelling", "done"}
    /\ cancels \subseteq {"reader", "stderr", "watcher"}
    /\ reports \in 0..1
    /\ closer \in [Closers -> {"idle", "handoff", "watcher", "reader", "stderr", "grace", "reap"}
                              \cup CloserOver]
    /\ req \in [Requests -> {"idle", "writing", "waiting", "over"}]
    /\ future \in [Requests -> {"open", "result", "exited", "cancelled"}]
    /\ pending \subseteq Requests /\ late \subseteq Requests

(* start() has returned. *)
Init ==
    /\ child = "alive" /\ cause = "none" /\ termed = FALSE
    /\ held \in BOOLEAN /\ muted = FALSE
    /\ frames = <<>> /\ owed = Extras
    /\ eof = FALSE /\ broken = FALSE /\ piped = FALSE
    /\ reader = "reading" /\ stderr = "draining" /\ watcher = "waiting"
    /\ cancels = {} /\ expected = FALSE /\ reports = 0 /\ known = FALSE
    /\ closer = [c \in Closers |-> "idle"]
    /\ req = [r \in Requests |-> "idle"]
    /\ future = [r \in Requests |-> "open"]
    /\ pending = {} /\ late = {}

-----------------------------------------------------------------------------
(* The process *)

Gone == child # "alive"
ReadersSeeEof == piped \/ (Gone /\ ~held)
WritesBreak == piped \/ (Gone /\ ~held)

Write(f) ==
    /\ child = "alive" /\ ~muted /\ f \in owed
    /\ frames' = Append(frames, f) /\ owed' = owed \ {f}
    /\ UNCHANGED <<childVars, eof, broken, piped, taskVars, closeVars, reqVars>>

CloseStdout ==
    /\ child = "alive" /\ ~muted /\ muted' = TRUE
    /\ UNCHANGED <<child, cause, termed, held, pipeVars, taskVars, closeVars, reqVars>>

Die ==
    /\ child = "alive" /\ child' = "dead"
    /\ cause' = IF termed THEN "router" ELSE "own"
    /\ UNCHANGED <<termed, held, muted, pipeVars, taskVars, closeVars, reqVars>>

Reap ==
    /\ child = "dead" /\ child' = "reaped"
    /\ UNCHANGED <<cause, termed, held, muted, pipeVars, taskVars, closeVars, reqVars>>

Killed == IF child = "alive" THEN "dead" ELSE child
KilledBy == IF child = "alive" THEN "router" ELSE cause

-----------------------------------------------------------------------------
(* The reader and the stderr drain *)

(* The finally of _read_loop: whoever still waits is told. *)
FailNone == pending' = {} /\ UNCHANGED future
FailPending ==
    /\ future' = [r \in Requests |-> IF r \in pending /\ future[r] = "open"
                                     THEN "exited" ELSE future[r]]
    /\ pending' = {}

ReaderEnds(how) == reader' = how /\ FailPending /\ UNCHANGED <<req, late>>
Reading == reader = "reading" /\ frames # <<>> /\ frames' = Tail(frames)

(* Setting the result of a future that is done would raise. *)
SettableAnyway(r) == TRUE
Settable(r) == future[r] = "open"

ReadAnswer ==
    /\ Reading /\ Head(frames) \in Requests
    /\ LET r == Head(frames)
       IN IF r \in pending /\ Settable(r)
          THEN IF future[r] = "open"
               THEN /\ future' = [future EXCEPT ![r] = "result"]
                    /\ pending' = pending \ {r} /\ UNCHANGED <<req, late, reader>>
               ELSE ReaderEnds("failed")
          ELSE pending' = pending \ {r} /\ UNCHANGED <<req, future, late, reader>>
    /\ UNCHANGED <<childVars, owed, eof, broken, piped, stderr, watcher, cancels, closeVars>>

(* Bytes that are no text, or JSON that is no object: the task dies of it. *)
ReadJunk ==
    /\ Reading /\ Head(frames) = "junk"
    /\ ReaderEnds("failed")
    /\ UNCHANGED <<childVars, owed, eof, broken, piped, stderr, watcher, cancels, closeVars>>

ReadAsk ==
    /\ Reading /\ Head(frames) = "ask"
    /\ reader' = "answering"
    /\ UNCHANGED <<childVars, owed, eof, broken, piped, stderr, watcher, cancels, closeVars, reqVars>>

ReplySent ==
    /\ reader = "answering"
    /\ IF WritesBreak THEN broken' = TRUE /\ ReaderEnds("failed")
       ELSE reader' = "reading" /\ UNCHANGED <<broken, reqVars>>
    /\ UNCHANGED <<childVars, frames, owed, eof, piped, stderr, watcher, cancels, closeVars>>

ReadEof ==
    /\ reader = "reading" /\ frames = <<>> /\ (muted \/ ReadersSeeEof)
    /\ eof' = TRUE /\ ReaderEnds("ended")
    /\ UNCHANGED <<childVars, frames, owed, broken, piped, stderr, watcher, cancels, closeVars>>

ReaderCancelled ==
    /\ reader \notin ReaderOver /\ "reader" \in cancels
    /\ ReaderEnds("ended")
    /\ UNCHANGED <<childVars, pipeVars, stderr, watcher, cancels, closeVars>>

StderrEnds ==
    /\ stderr = "draining" /\ (ReadersSeeEof \/ "stderr" \in cancels)
    /\ stderr' = "ended"
    /\ UNCHANGED <<childVars, pipeVars, reader, watcher, cancels, closeVars, reqVars>>

DrainsOver == reader \in ReaderOver /\ stderr = "ended"
Drains == (IF reader \in ReaderOver THEN {} ELSE {"reader"})
          \cup (IF stderr = "ended" THEN {} ELSE {"stderr"})

-----------------------------------------------------------------------------
(* The exit watcher *)

(* Pipes are released and the exit is reported, unless it was expected. *)
WatcherReports ==
    /\ watcher' = "done" /\ piped' = TRUE
    /\ reports' = IF expected THEN reports ELSE reports + 1
    /\ UNCHANGED <<childVars, frames, owed, eof, broken, reader, stderr, cancels,
                   expected, closer, known, reqVars>>

WatchExit ==
    /\ watcher = "waiting" /\ child = "reaped"
    /\ IF DrainsOver THEN WatcherReports
       ELSE /\ watcher' = "settling"
            /\ UNCHANGED <<childVars, pipeVars, reader, stderr, cancels, closeVars, reqVars>>

Settled == watcher \in {"settling", "cancelling"} /\ DrainsOver /\ WatcherReports

SettleOverdue ==
    /\ watcher = "settling" /\ ~DrainsOver
    /\ watcher' = "cancelling" /\ cancels' = cancels \cup Drains
    /\ UNCHANGED <<childVars, pipeVars, reader, stderr, closeVars, reqVars>>

WatcherCancelled ==
    /\ watcher # "done" /\ "watcher" \in cancels
    /\ watcher' = "done"
    /\ UNCHANGED <<childVars, pipeVars, reader, stderr, cancels, closeVars, reqVars>>

-----------------------------------------------------------------------------
(* close() *)

Evidence == child = "reaped" \/ eof \/ broken
At(c, stage) == closer' = [closer EXCEPT ![c] = stage]

(* The finally of close(). *)
NoBackstop(c, how) ==
    /\ At(c, how) /\ piped' = TRUE /\ UNCHANGED <<child, cause, cancels, termed>>
Backstop(c, how) ==
    /\ At(c, how) /\ piped' = TRUE
    /\ child' = Killed /\ cause' = KilledBy
    /\ UNCHANGED <<cancels, termed>>

AwaitTask(c, task) ==
    /\ At(c, task) /\ cancels' = cancels \cup {task}
    /\ UNCHANGED <<child, cause, termed, piped>>

(* From the suppression of the report on: cancel the three tasks in turn,   *)
(* then SIGTERM.  A reader that died of an exception raises it here.        *)
CloseOn(c) ==
    /\ IF watcher # "done" THEN AwaitTask(c, "watcher")
       ELSE IF reader \notin ReaderOver THEN AwaitTask(c, "reader")
       ELSE IF reader = "failed" THEN Backstop(c, "raised")
       ELSE IF stderr # "ended" THEN AwaitTask(c, "stderr")
       ELSE IF child # "reaped"
            THEN At(c, "grace") /\ termed' = TRUE /\ UNCHANGED <<child, cause, cancels, piped>>
       ELSE Backstop(c, "closed")
    /\ UNCHANGED <<held, muted, frames, owed, eof, broken, reader, stderr, watcher, reports,
                   reqVars>>

(* A death the router can know of is left to the watcher to report first. *)
NeverHandsOff == FALSE
HandsOff == watcher # "done" /\ Evidence

Close(c) ==
    /\ closer[c] = "idle"
    /\ known' = (known \/ (Evidence /\ cause = "own" /\ \A d \in Closers : closer[d] = "idle"))
    /\ IF HandsOff
       THEN /\ At(c, "handoff") /\ UNCHANGED expected
            /\ UNCHANGED <<childVars, pipeVars, taskVars, reports, reqVars>>
       ELSE expected' = TRUE /\ CloseOn(c)

(* The bound of the wait is longer than reaping and settling take. *)
HandedOff(c) ==
    /\ closer[c] = "handoff" /\ (watcher = "done" \/ ~known)
    /\ expected' = TRUE /\ CloseOn(c) /\ UNCHANGED known

(* A cancellation that meets close() in one of these waits is swallowed. *)
TaskStopped(c) ==
    /\ \/ closer[c] = "watcher" /\ watcher = "done"
       \/ closer[c] = "reader" /\ reader \in ReaderOver
       \/ closer[c] = "stderr" /\ stderr = "ended"
    /\ CloseOn(c) /\ UNCHANGED <<expected, known>>

Finished(c, how) ==
    /\ Backstop(c, how)
    /\ UNCHANGED <<held, muted, frames, owed, eof, broken, reader, stderr, watcher,
                   expected, reports, known, reqVars>>

(* A waiter of Process.wait() wakes when the process is reaped and every    *)
(* pipe is disconnected.                                                    *)
Disconnected == child = "reaped" /\ (~held \/ piped)
ProcessWaited(c) == closer[c] \in {"grace", "reap"} /\ Disconnected /\ Finished(c, "closed")

(* Five seconds after SIGTERM: SIGKILL, and wait again. *)
OnlyTerminates(c) == FALSE
GraceOverdue(c) ==
    /\ closer[c] = "grace"
    /\ IF child = "reaped" THEN Finished(c, "closed")
       ELSE /\ At(c, "reap") /\ child' = Killed /\ cause' = KilledBy
            /\ UNCHANGED <<termed, held, muted, pipeVars, taskVars, expected, reports, known, reqVars>>

CloseCancelled(c) ==
    \/ closer[c] = "handoff" /\ Finished(c, "gave up")
    \/ closer[c] \in {"grace", "reap"} /\ Finished(c, "cancelled")

-----------------------------------------------------------------------------
(* request() *)

(* "writing" is the wait for _write_lock and for the drain under it, where  *)
(* no deadline runs; that the lock is granted in order is left out.         *)
Stage(r, stage) == req' = [req EXCEPT ![r] = stage]

Request(r) ==
    /\ req[r] = "idle" /\ Stage(r, "writing")
    /\ pending' = pending \cup {r}
    /\ late' = IF reader \in ReaderOver THEN late \cup {r} ELSE late
    /\ UNCHANGED <<childVars, pipeVars, taskVars, closeVars, future>>

(* A write into pipes that only a grandchild holds goes through. *)
Written(r) ==
    /\ req[r] = "writing"
    /\ IF WritesBreak
       THEN /\ broken' = TRUE /\ Stage(r, "over") /\ pending' = pending \ {r}
            /\ UNCHANGED owed
       ELSE /\ Stage(r, "waiting") /\ UNCHANGED <<broken, pending>>
            /\ owed' = IF child = "alive" THEN owed \cup {r} ELSE owed
    /\ UNCHANGED <<childVars, frames, eof, piped, taskVars, closeVars, future, late>>

(* wait_for cancels the future at the deadline; the call runs after that. *)
TimesOut(r) ==
    /\ req[r] = "waiting" /\ future[r] = "open"
    /\ future' = [future EXCEPT ![r] = "cancelled"]
    /\ UNCHANGED <<childVars, pipeVars, taskVars, closeVars, req, pending, late>>

Returns(r) ==
    /\ req[r] = "waiting" /\ future[r] # "open"
    /\ Stage(r, "over") /\ pending' = pending \ {r}
    /\ UNCHANGED <<childVars, pipeVars, taskVars, closeVars, future, late>>

RequestCancelled(r) ==
    /\ req[r] \in {"writing", "waiting"}
    /\ Stage(r, "over") /\ pending' = pending \ {r}
    /\ UNCHANGED <<childVars, pipeVars, taskVars, closeVars, future, late>>

-----------------------------------------------------------------------------
Child == (\E f \in owed : Write(f)) \/ CloseStdout \/ Die
Read == ReadAnswer \/ ReadJunk \/ ReadAsk \/ ReplySent \/ ReadEof \/ ReaderCancelled
Watch == WatchExit \/ Settled \/ SettleOverdue \/ WatcherCancelled
CloseGoes(c) == HandedOff(c) \/ TaskStopped(c) \/ ProcessWaited(c) \/ GraceOverdue(c)
RequestGoes(r) ==
    Request(r) \/ Written(r) \/ TimesOut(r) \/ Returns(r) \/ RequestCancelled(r)

(* Nothing is left to do. *)
Over ==
    /\ watcher = "done" /\ child = "reaped" /\ DrainsOver
    /\ \A c \in Closers : closer[c] \in CloserOver
    /\ \A r \in Requests : req[r] = "over"
    /\ UNCHANGED vars

Next ==
    \/ Child \/ Reap \/ Read \/ StderrEnds \/ Watch
    \/ \E c \in Closers : Close(c) \/ CloseGoes(c) \/ CloseCancelled(c)
    \/ \E r \in Requests : RequestGoes(r)
    \/ Over

Spec == Init /\ [][Next]_vars

(* The loop runs its tasks, their deadlines pass, and the kernel reaps.     *)
(* Nothing is assumed of the process, nor that anybody calls or cancels.    *)
FairSpec ==
    /\ Spec
    /\ WF_vars(Reap) /\ WF_vars(Read) /\ WF_vars(StderrEnds) /\ WF_vars(Watch)
    /\ \A c \in Closers : WF_vars(CloseGoes(c))

-----------------------------------------------------------------------------
(* Properties *)

(* "No exit path of close() may leave a running subprocess" (acp.py:157):   *)
(* however a call of close() ends, the process is dead.                     *)
NoProcessLeft == (\E c \in Closers : closer[c] \in CloserOver) => Gone

(* A death that nobody asked for, or that close() could know of when it was *)
(* called, is reported once, whether the close is cancelled or not.         *)
DeathReported ==
    watcher = "done" /\ (known \/ \A c \in Closers : closer[c] = "idle") => reports = 1

(* A request registered before the reader ended is told of the exit; it     *)
(* does not wait for its timeout.                                           *)
ToldOfExit ==
    reader \in ReaderOver =>
        \A r \in Requests \ late : req[r] \in {"writing", "waiting"} => future[r] # "open"

(* Neither an answer nor its timing can take the reader down, only junk or  *)
(* a broken pipe.                                                           *)
AnswersAreHarmless ==
    reader = "failed" => broken \/ ("junk" \in Extras \ owed /\ ~\E i \in DOMAIN frames : frames[i] = "junk")

(* Every call of close() ends, when no grandchild holds the pipes. *)
CloseEndsUnheld ==
    \A c \in Closers : closer[c] # "idle" /\ ~held ~> closer[c] \in CloserOver

(* "cleanup, which can add up to a few more seconds of SIGTERM grace before *)
(* the process is killed" (docs/configuration.md:696): every call of        *)
(* close() ends.                                                            *)
CloseEnds == \A c \in Closers : closer[c] # "idle" ~> closer[c] \in CloserOver
====
