----------------------------- MODULE Supervisor -----------------------------
(***************************************************************************)
(* Package supervisor: one run goroutine that connects, waits, backs off   *)
(* and reconnects (Supervisor.loop), and the goroutines that call Close,   *)
(* Wait and Stats on it.  A step of the model is one critical section of   *)
(* Supervisor.mu, one channel operation or one call out of the package.    *)
(*                                                                         *)
(* The k-th source a Factory builds is session k; what Stats reports of it *)
(* is abstracted to the number of frames it delivered.                     *)
(***************************************************************************)
EXTENDS Naturals, FiniteSetsExt

CONSTANTS
    Closers,     \* goroutines that call Close
    Waiters,     \* goroutines that call Wait with a context of their own
    Callback,    \* the run goroutine while it calls Close inside OnState
    Errors,      \* causes a Factory or a session may end with, "nil" included
    Retryable,   \* the causes Config.Retryable accepts
    MaxSessions, \* bound: sources the Factory builds
    MaxAttempts, \* bound: consecutive failures
    MaxFrames    \* bound: frames one session delivers

Callers == Closers \cup Waiters \cup {Callback}

ASSUME CallersAssumption ==
    /\ Closers \cap Waiters = {}
    /\ Callback \notin Closers \cup Waiters
    /\ {"free", "fired"} \cap Callers = {}
ASSUME ErrorsAssumption ==
    Errors \cap {"errClosed", "ctxErr", "canceled", "panic"} = {}
ASSUME BoundsAssumption ==
    MaxSessions \in Nat /\ MaxAttempts \in Nat /\ MaxFrames \in Nat

NoErr == "nil"
Sessions == 1 .. MaxSessions

\* The causes a run can hand to finish, and those a shutdown records.
ShutdownCauses == {"errClosed", "ctxErr"}
FailureCauses == Errors \cup {"canceled", "panic"}
Causes == ShutdownCauses \cup FailureCauses \cup {NoErr}

States == {"connecting", "connected", "reconnecting", "closed", "failed"}
Terminal == {"closed", "failed"}

VARIABLES
    pc,         \* control point of the run goroutine
    attempt,    \* loop's consecutive-failure counter
    src,        \* loop's source in hand, 0 when nil
    err,        \* loop's cause in hand
    ctxDone,    \* the run context is cancelled
    once,       \* closeOnce: "free", the caller inside it, or "fired"
    termErr, current, lastStats, state,    \* the fields mu guards
    inCallback, \* the run goroutine is inside OnState
    emitted,    \* the last StateChange handed to OnState
    terminals,  \* how many terminal StateChanges OnState received
    session,    \* what became of each source a Factory built
    frames,     \* frames each session delivered
    panicked,   \* a panic reached recoverRun
    cpc,        \* control point of each caller
    result,     \* what each caller's Wait returned
    reader      \* a goroutine calling Stats: its locals and last answer

loopVars == <<pc, attempt, src, err, inCallback, panicked>>
muVars == <<termErr, current, lastStats, state>>
shutVars == <<ctxDone, once>>
emitVars == <<emitted, terminals>>
srcVars == <<session, frames>>
callerVars == <<cpc, result>>
vars == <<loopVars, muVars, shutVars, emitVars, srcVars, callerVars, reader>>

NoStats == [session |-> 0, frames |-> 0]

Init ==
    /\ pc = "top" /\ attempt = 0 /\ src = 0 /\ err = NoErr
    /\ ctxDone = FALSE /\ once = "free"
    /\ termErr = NoErr /\ current = 0 /\ lastStats = NoStats
    /\ state = "connecting"
    /\ inCallback = FALSE /\ panicked = FALSE
    /\ emitted = [state |-> "none", attempt |-> 0, err |-> NoErr]
    /\ terminals = 0
    /\ session = [s \in Sessions |-> "none"]
    /\ frames = [s \in Sessions |-> 0]
    /\ cpc = [c \in Callers |-> "idle"]
    /\ result = [c \in Callers |-> NoErr]
    /\ reader = [pc |-> "idle", cur |-> 0, last |-> NoStats, answer |-> NoStats]

Built == {s \in Sessions : session[s] # "none"}
Done == pc = "done"                            \* close(s.done) has run

-----------------------------------------------------------------------------
(* The run goroutine: Supervisor.loop and what it calls.                   *)

Goto(from, to) == pc = from /\ pc' = to

\* The head of the loop: give up on a cancelled context, else announce the
\* attempt.  setState records under mu and emits after the unlock.
LoopTop ==
    /\ \/ /\ ctxDone
          /\ Goto("top", "finishClosed")
          /\ UNCHANGED <<src, state>>
       \/ /\ ~ctxDone
          /\ Goto("top", "emitConnecting")
          /\ state' = "connecting"
          /\ src' = 0
    /\ UNCHANGED <<attempt, err, inCallback, panicked, termErr, current,
                   lastStats, shutVars, emitVars, srcVars, callerVars, reader>>

\* What each emit point hands to OnState, and where the loop goes next.
EmitPoints == {"emitConnecting", "emitConnected", "emitReconnecting",
               "emitTerminal"}
Change ==
    CASE pc = "emitConnecting"   -> [state |-> "connecting",
                                     attempt |-> attempt, err |-> NoErr]
      [] pc = "emitConnected"    -> [state |-> "connected",
                                     attempt |-> 0, err |-> NoErr]
      [] pc = "emitReconnecting" -> [state |-> "reconnecting",
                                     attempt |-> attempt, err |-> err]
      [] OTHER                   -> [state |-> state,
                                     attempt |-> 0, err |-> err]
AfterEmit ==
    CASE pc = "emitConnecting"   -> "factory"
      [] pc = "emitConnected"    -> "wait"
      [] pc = "emitReconnecting" -> "sleep"
      [] OTHER                   -> "cancel"

Emit ==
    /\ pc \in EmitPoints
    /\ ~inCallback
    /\ inCallback' = TRUE
    /\ emitted' = Change
    /\ terminals' = IF pc = "emitTerminal" THEN terminals + 1 ELSE terminals
    /\ UNCHANGED <<pc, attempt, src, err, panicked, muVars, shutVars, srcVars,
                   callerVars, reader>>

\* OnState returns, or panics and is recovered; a Close it made has returned.
EmitReturn ==
    /\ pc \in EmitPoints
    /\ inCallback
    /\ cpc[Callback] \in {"idle", "returned"}
    /\ inCallback' = FALSE
    /\ pc' = AfterEmit
    /\ UNCHANGED <<attempt, src, err, panicked, muVars, shutVars, emitVars,
                   srcVars, callerVars, reader>>

\* The Factory answers with a delivering source ...
FactoryOk(s) ==
    /\ Goto("factory", "setCurrent")
    /\ s \notin Built
    /\ \A t \in Sessions : t < s => t \in Built
    /\ session' = [session EXCEPT ![s] = "live"]
    /\ src' = s
    /\ UNCHANGED <<attempt, err, inCallback, panicked, muVars, shutVars,
                   emitVars, frames, callerVars, reader>>

\* ... or with an error; a nil source with a nil error counts as one.  Once
\* the context is cancelled the Factory aborts, as its contract demands.
FactoryErr(e) ==
    /\ Goto("factory", "checkCtx")
    /\ \/ e \in Errors \ {NoErr} /\ attempt < MaxAttempts
       \/ e = "canceled" /\ ctxDone
    /\ err' = e
    /\ UNCHANGED <<attempt, src, inCallback, panicked, muVars, shutVars,
                   emitVars, srcVars, callerVars, reader>>

SetCurrent ==
    /\ Goto("setCurrent", "connected")
    /\ current' = src
    /\ attempt' = 0
    /\ UNCHANGED <<src, err, inCallback, panicked, termErr, lastStats, state,
                   shutVars, emitVars, srcVars, callerVars, reader>>

Connected ==
    /\ Goto("connected", "emitConnected")
    /\ state' = "connected"
    /\ UNCHANGED <<attempt, src, err, inCallback, panicked, termErr, current,
                   lastStats, shutVars, emitVars, srcVars, callerVars, reader>>

\* src.Wait(ctx) returns: the session ended by itself, or ctx was cancelled.
WaitReturns(e) ==
    /\ Goto("wait", "capture")
    /\ \/ e \in Errors
       \/ e = "canceled" /\ ctxDone
    /\ session' = [session EXCEPT ![src] = "ended"]
    /\ err' = e
    /\ UNCHANGED <<attempt, src, inCallback, panicked, muVars, shutVars,
                   emitVars, frames, callerVars, reader>>

\* Mutant: the snapshot is dropped.
CaptureNothing ==
    /\ Goto("capture", "closeSource")
    /\ UNCHANGED <<attempt, src, err, inCallback, panicked, muVars, shutVars,
                   emitVars, srcVars, callerVars, reader>>

CaptureFinal ==
    /\ Goto("capture", "closeSource")
    /\ lastStats' = [session |-> src, frames |-> frames[src]]
    /\ UNCHANGED <<attempt, src, err, inCallback, panicked, termErr, current,
                   state, shutVars, emitVars, srcVars, callerVars, reader>>

CloseSource ==
    /\ Goto("closeSource", "clearCurrent")
    /\ session' = [session EXCEPT ![src] = "closed"]
    /\ UNCHANGED <<attempt, src, err, inCallback, panicked, muVars, shutVars,
                   emitVars, frames, callerVars, reader>>

ClearCurrent ==
    /\ Goto("clearCurrent", "checkCtx")
    /\ current' = 0
    /\ UNCHANGED <<attempt, src, err, inCallback, panicked, termErr, lastStats,
                   state, shutVars, emitVars, srcVars, callerVars, reader>>

CheckCtx ==
    /\ pc = "checkCtx"
    /\ pc' = IF ctxDone THEN "finishClosed" ELSE "classify"
    /\ UNCHANGED <<attempt, src, err, inCallback, panicked, muVars, shutVars,
                   emitVars, srcVars, callerVars, reader>>

\* Config.Retryable decides: back off and announce it, or fail.
Classify ==
    /\ pc = "classify"
    /\ \/ /\ err \in Retryable
          /\ attempt' = attempt + 1
          /\ state' = "reconnecting"
          /\ pc' = "emitReconnecting"
       \/ /\ err \notin Retryable
          /\ pc' = "finishFailed"
          /\ UNCHANGED <<attempt, state>>
    /\ UNCHANGED <<src, err, inCallback, panicked, termErr, current, lastStats,
                   shutVars, emitVars, srcVars, callerVars, reader>>

\* Mutant: only the context ends a backoff.
SleepUntilCancelled ==
    /\ ctxDone /\ Goto("sleep", "finishClosed")
    /\ UNCHANGED <<attempt, src, err, inCallback, panicked, muVars, shutVars,
                   emitVars, srcVars, callerVars, reader>>

\* clock.sleep: a timer and ctx.Done race; both ready, either may win.
Sleep ==
    /\ \/ Goto("sleep", "top")
       \/ ctxDone /\ Goto("sleep", "finishClosed")
    /\ UNCHANGED <<attempt, src, err, inCallback, panicked, muVars, shutVars,
                   emitVars, srcVars, callerVars, reader>>

\* Mutant: finish reports StateFailed even when a shutdown won the race.
FinishAlwaysFailed ==
    /\ Goto("finishFailed", "emitTerminal")
    /\ termErr' = IF termErr = NoErr THEN err ELSE termErr
    /\ state' = "failed"
    /\ err' = termErr'
    /\ UNCHANGED <<attempt, src, inCallback, panicked, current, lastStats,
                   shutVars, emitVars, srcVars, callerVars, reader>>

\* finish(StateFailed, err): a cause recorded before the lock was taken is a
\* deliberate shutdown, and then the phase is StateClosed.  The cause to emit
\* is a local copy of termErr.
Finish ==
    /\ Goto("finishFailed", "emitTerminal")
    /\ \/ /\ termErr = NoErr
          /\ termErr' = err
          /\ state' = "failed"
       \/ /\ termErr # NoErr
          /\ state' = "closed"
          /\ UNCHANGED termErr
    /\ err' = termErr'
    /\ UNCHANGED <<attempt, src, inCallback, panicked, current, lastStats,
                   shutVars, emitVars, srcVars, callerVars, reader>>

\* Mutant: the default cause replaces the recorded one.
FinishClosedOverwrites ==
    /\ Goto("finishClosed", "emitTerminal")
    /\ termErr' = "canceled"
    /\ state' = "closed"
    /\ err' = termErr'
    /\ UNCHANGED <<attempt, src, inCallback, panicked, current, lastStats,
                   shutVars, emitVars, srcVars, callerVars, reader>>

FinishClosed ==
    /\ Goto("finishClosed", "emitTerminal")
    /\ termErr' = IF termErr = NoErr THEN "canceled" ELSE termErr
    /\ state' = "closed"
    /\ err' = termErr'
    /\ UNCHANGED <<attempt, src, inCallback, panicked, current, lastStats,
                   shutVars, emitVars, srcVars, callerVars, reader>>

\* The Factory, Retryable, or the source's Wait or Stats panics.
PanicPoints == {"factory", "wait", "capture", "classify"}
Panic ==
    /\ pc \in PanicPoints
    /\ pc' = "recover"
    /\ panicked' = TRUE
    /\ UNCHANGED <<attempt, src, err, inCallback, muVars, shutVars, emitVars,
                   srcVars, callerVars, reader>>

\* Mutant: recoverRun forgets the source it found.
RecoverWithoutClose ==
    /\ Goto("recover", "recoverCancel")
    /\ src' = current
    /\ current' = 0
    /\ err' = "panic"
    /\ UNCHANGED <<attempt, inCallback, panicked, termErr, lastStats, state,
                   shutVars, emitVars, srcVars, callerVars, reader>>

\* recoverRun, up to the unlock ...
Recover ==
    /\ pc = "recover"
    /\ pc' = IF current = 0 THEN "recoverCancel" ELSE "recoverClose"
    /\ src' = current
    /\ current' = 0
    /\ err' = "panic"
    /\ UNCHANGED <<attempt, inCallback, panicked, termErr, lastStats, state,
                   shutVars, emitVars, srcVars, callerVars, reader>>

\* ... the Close of the source it found, and the cancel before finish.  Close
\* only initiates: nobody Waits for a source whose own Wait panicked, so one
\* that was delivering is left closing, and its reader runs on.
RecoverClose ==
    /\ Goto("recoverClose", "recoverCancel")
    /\ session' = [session EXCEPT ![src] = IF @ = "live" THEN "closing"
                                                         ELSE "closed"]
    /\ UNCHANGED <<attempt, src, err, inCallback, panicked, muVars, shutVars,
                   emitVars, frames, callerVars, reader>>

RecoverCancel ==
    /\ Goto("recoverCancel", "finishFailed")
    /\ ctxDone' = TRUE
    /\ UNCHANGED <<attempt, src, err, inCallback, panicked, muVars, once,
                   emitVars, srcVars, callerVars, reader>>

\* The deferred runCancel, then the deferred close(s.done).
RunReturn ==
    /\ \/ Goto("cancel", "closeDone") /\ ctxDone' = TRUE
       \/ Goto("closeDone", "done") /\ UNCHANGED ctxDone
    /\ UNCHANGED <<attempt, src, err, inCallback, panicked, muVars, once,
                   emitVars, srcVars, callerVars, reader>>

-----------------------------------------------------------------------------
(* A source delivers frames on its own goroutine until that has stopped.   *)

DeliverFrame(s) ==
    /\ session[s] \in {"live", "closing"}
    /\ frames[s] < MaxFrames
    /\ frames' = [frames EXCEPT ![s] = @ + 1]
    /\ UNCHANGED <<loopVars, muVars, shutVars, emitVars, session, callerVars,
                   reader>>

\* A source that was closed and never joined stops at a time of its own.
SessionStops(s) ==
    /\ session[s] = "closing"
    /\ session' = [session EXCEPT ![s] = "closed"]
    /\ UNCHANGED <<loopVars, muVars, shutVars, emitVars, frames, callerVars,
                   reader>>

-----------------------------------------------------------------------------
(* Close and Wait: initiateShutdown through closeOnce, and the selects.    *)

CallersLeaveAlone ==
    UNCHANGED <<loopVars, current, lastStats, state, emitVars, srcVars, reader>>
Advance(c, from, to) ==
    /\ cpc[c] = from
    /\ cpc' = [cpc EXCEPT ![c] = to]

AfterShutdown(c) == IF c \in Waiters THEN "waitDone" ELSE "returned"
CauseOf(c) == IF c \in Waiters THEN "ctxErr" ELSE "errClosed"

CallClose(c) ==
    /\ c \in Closers \/ (c = Callback /\ inCallback)
    /\ Advance(c, "idle", "once")
    /\ CallersLeaveAlone
    /\ UNCHANGED <<termErr, shutVars, result>>

CallWait(w) ==
    /\ Advance(w, "idle", "select")
    /\ CallersLeaveAlone
    /\ UNCHANGED <<termErr, shutVars, result>>

\* Mutant: after its own cancellation Wait does not wait for done.
WaitDoneEarly(w) ==
    /\ \/ Done /\ cpc[w] = "select"
       \/ cpc[w] = "waitDone"
    /\ cpc' = [cpc EXCEPT ![w] = "returned"]
    /\ result' = [result EXCEPT ![w] = termErr]
    /\ CallersLeaveAlone
    /\ UNCHANGED <<termErr, shutVars>>

\* Wait's select: done is closed, or the caller's context is cancelled.
WaitDone(w) ==
    /\ Done
    /\ cpc[w] \in {"select", "waitDone"}
    /\ cpc' = [cpc EXCEPT ![w] = "returned"]
    /\ result' = [result EXCEPT ![w] = termErr]
    /\ CallersLeaveAlone
    /\ UNCHANGED <<termErr, shutVars>>

WaitCtx(w) ==
    /\ Advance(w, "select", "once")
    /\ CallersLeaveAlone
    /\ UNCHANGED <<termErr, shutVars, result>>

\* closeOnce.Do: the first caller runs the body, later ones wait for it.
OnceDo(c) ==
    /\ \/ /\ once = "free"
          /\ once' = c
          /\ Advance(c, "once", "record")
       \/ /\ once = "fired"
          /\ Advance(c, "once", AfterShutdown(c))
          /\ UNCHANGED once
    /\ CallersLeaveAlone
    /\ UNCHANGED <<termErr, ctxDone, result>>

RecordCause(c) ==
    /\ Advance(c, "record", "cancel")
    /\ termErr' = IF termErr = NoErr THEN CauseOf(c) ELSE termErr
    /\ CallersLeaveAlone
    /\ UNCHANGED <<shutVars, result>>

\* Mutant: the run context is never cancelled.
RecordOnly(c) ==
    /\ Advance(c, "cancel", AfterShutdown(c))
    /\ once' = "fired"
    /\ CallersLeaveAlone
    /\ UNCHANGED <<termErr, ctxDone, result>>

CancelRun(c) ==
    /\ Advance(c, "cancel", AfterShutdown(c))
    /\ ctxDone' = TRUE
    /\ once' = "fired"
    /\ CallersLeaveAlone
    /\ UNCHANGED <<termErr, result>>

-----------------------------------------------------------------------------
(* Stats: current and lastStats are read under mu, the live source's own   *)
(* Stats is called after the unlock.                                       *)

StatsLock ==
    /\ reader.pc = "idle"
    /\ reader' = [reader EXCEPT !.pc = "unlocked", !.cur = current,
                                !.last = lastStats]
    /\ UNCHANGED <<loopVars, muVars, shutVars, emitVars, srcVars, callerVars>>

StatsReturn ==
    /\ reader.pc = "unlocked"
    /\ reader' = [pc |-> "idle", cur |-> 0, last |-> NoStats,
                  answer |-> IF reader.cur # 0
                             THEN [session |-> reader.cur,
                                   frames |-> frames[reader.cur]]
                             ELSE reader.last]
    /\ UNCHANGED <<loopVars, muVars, shutVars, emitVars, srcVars, callerVars>>

-----------------------------------------------------------------------------

RunGoroutine ==
    \/ LoopTop \/ Emit \/ EmitReturn
    \/ SetCurrent \/ Connected \/ CaptureFinal \/ CloseSource \/ ClearCurrent
    \/ CheckCtx \/ Classify \/ Sleep \/ Finish \/ FinishClosed
    \/ Recover \/ RecoverClose \/ RecoverCancel \/ RunReturn

\* What the Factory and the source in hand do: not under the package's control.
Environment ==
    \/ \E s \in Sessions : FactoryOk(s) \/ DeliverFrame(s) \/ SessionStops(s)
    \/ \E e \in FailureCauses : FactoryErr(e) \/ WaitReturns(e)
    \/ Panic

CallerStep(c) == OnceDo(c) \/ RecordCause(c) \/ CancelRun(c)

Callings ==
    \/ \E c \in Callers : CallClose(c) \/ CallerStep(c)
    \/ \E w \in Waiters : CallWait(w) \/ WaitDone(w) \/ WaitCtx(w)
    \/ StatsLock \/ StatsReturn

\* Everything has returned: the system may stop here and nowhere else.
Terminated ==
    /\ Done
    /\ \A c \in Callers : cpc[c] \in {"idle", "returned"}
    /\ UNCHANGED vars

Next == RunGoroutine \/ Environment \/ Callings \/ Terminated

(***************************************************************************)
(* Fairness: the goroutines are scheduled; a Factory and a source's Wait   *)
(* return once the run context is cancelled, which is their documented     *)
(* contract.  Nobody is obliged to call Close, and sessions need not end.  *)
(***************************************************************************)
Fairness ==
    /\ WF_vars(RunGoroutine)
    /\ WF_vars(FactoryErr("canceled"))
    /\ WF_vars(WaitReturns("canceled"))
    /\ \A c \in Callers : WF_vars(CallerStep(c))
    /\ \A w \in Waiters : WF_vars(WaitDone(w))

Spec == Init /\ [][Next]_vars
FairSpec == Spec /\ Fairness

-----------------------------------------------------------------------------
(* Properties.                                                             *)

PCs == {"top", "emitConnecting", "factory", "setCurrent", "connected",
        "emitConnected", "wait", "capture", "closeSource", "clearCurrent",
        "checkCtx", "classify", "emitReconnecting", "sleep", "finishFailed",
        "finishClosed", "emitTerminal", "recover", "recoverClose",
        "recoverCancel", "cancel", "closeDone", "done"}
StatsOf == [session : Sessions \cup {0}, frames : 0 .. MaxFrames]

\* The shape of the Supervisor's fields and of the goroutines around it.
TypeOK ==
    /\ pc \in PCs
    /\ attempt \in 0 .. MaxAttempts + 1
    /\ src \in Sessions \cup {0}
    /\ current \in Sessions \cup {0}
    /\ err \in Causes /\ termErr \in Causes
    /\ ctxDone \in BOOLEAN /\ inCallback \in BOOLEAN /\ panicked \in BOOLEAN
    /\ once \in Callers \cup {"free", "fired"}
    /\ lastStats \in StatsOf
    /\ state \in States
    /\ emitted \in [state : States \cup {"none"},
                    attempt : 0 .. MaxAttempts + 1, err : Causes]
    /\ terminals \in Nat
    /\ session \in [Sessions -> {"none", "live", "ended", "closing", "closed"}]
    /\ frames \in [Sessions -> 0 .. MaxFrames]
    /\ cpc \in [Callers -> {"idle", "select", "once", "record", "cancel",
                            "waitDone", "returned"}]
    /\ result \in [Callers -> Causes]
    /\ reader \in [pc : {"idle", "unlocked"}, cur : Sessions \cup {0},
                   last : StatsOf, answer : StatsOf]

\* finish and finishClosed: the terminal phase agrees with the terminal cause.
\* A deliberate shutdown (ErrClosed, a cancelled Wait) ends in StateClosed and
\* any other cause in StateFailed, however Close races a failing session.
TerminalConsistent ==
    state \in Terminal =>
        (state = "closed") = (termErr \in ShutdownCauses)

\* Wait: a Wait that has returned did so after the one terminal StateChange
\* was handed to OnState, and with the cause that change carried.
WaitAfterTerminal ==
    \A w \in Waiters :
        cpc[w] = "returned" =>
            /\ terminals = 1
            /\ emitted.state \in Terminal
            /\ emitted.err = result[w]

\* The Wait doc: "all callers observe the same cause".
SameCause ==
    \A v, w \in Waiters :
        cpc[v] = "returned" /\ cpc[w] = "returned" => result[v] = result[w]

\* finishClosed: the defensive context.Canceled default is never needed,
\* because initiateShutdown records its cause before it cancels the context.
NeverBackfilled == termErr # "canceled"

\* loop and recoverRun: once Wait can return, every source a Factory built has
\* had its Close called, whether the loop or a recovered panic ended the
\* session (after the panic it may still be closing: nobody joins it).
NoLeak == Done => \A s \in Built : session[s] \in {"closing", "closed"}

\* Stats never goes back in time: a later answer is of the same session with
\* no fewer frames, or of a later session, although the live source is read
\* after mu was released and the snapshot of its end is taken before current
\* is cleared (a panic forfeits it).
StatsMonotone ==
    [][~panicked' =>
        LET a == reader.answer  b == reader'.answer
        IN  a.session < b.session \/ (a.session = b.session
                                       /\ a.frames <= b.frames)]_reader

\* Close and a cancelled Wait end the supervisor: the run goroutine unwinds
\* from a Factory, a session, a backoff sleep or OnState, and the Wait returns.
ShutdownCompletes ==
    /\ (\E c \in Callers : cpc[c] = "once") ~> Done
    /\ \A w \in Waiters : cpc[w] = "once" ~> cpc[w] = "returned"

\* A lost session is followed by another attempt or by the terminal state:
\* the supervisor never stays in the reconnect gap.
ReconnectsOrEnds == state = "reconnecting" ~> state # "reconnecting"

\* The frames of the sources the loop joined: a panic abandons the one in hand.
Joined == [s \in Sessions |-> IF panicked /\ s = src THEN 0 ELSE frames[s]]

\* The Source interface (source.go): the supervisor is itself a capture source.
\* It ends once, for its first cause, every Wait returns that cause, and after
\* its end no source that it joined delivers.  A source whose Wait panicked is
\* closed and not joined: it may deliver after the end, against source.go's
\* "After Wait returns, OnFrame will not be called again.", and is left out.
Contract == INSTANCE SourceContract WITH
    NoCause <- NoErr, Deliveries <- [Sessions -> 0 .. MaxFrames],
    cause <- termErr, ended <- Done, delivered <- Joined,
    result <- [w \in Waiters |-> result[w]]
ImplementsSource == Contract!Spec
=============================================================================
