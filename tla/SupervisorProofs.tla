-------------------------- MODULE SupervisorProofs --------------------------
(***************************************************************************)
(* Proofs about Supervisor, for every set of callers, every set of errors  *)
(* and every Config.Retryable that accepts a clean session end, as         *)
(* DefaultRetryable does.  Without that hypothesis the results about the   *)
(* terminal cause fail: classify then gives up with a nil cause, and the   *)
(* session ends with no cause recorded.  The type invariant and the result *)
(* about Stats do without it.                                              *)
(***************************************************************************)
EXTENDS Supervisor, TLAPS

InHand == {"setCurrent", "connected", "emitConnected", "wait", "capture",
           "closeSource", "clearCurrent"}
Published == InHand \ {"setCurrent"}
Ended == {"emitTerminal", "cancel", "closeDone", "done"}

\* Where the loop has a source in hand, and what the failure count may be.
LoopInv ==
    /\ pc \in InHand \cup {"recoverClose"} => src \in Sessions
    /\ pc \in Published => attempt = 0
    /\ pc = "checkCtx" => attempt = 0 \/ attempt < MaxAttempts \/ ctxDone
    /\ pc = "classify" => attempt = 0 \/ attempt < MaxAttempts

TInv == TypeOK /\ LoopInv

\* The supervisor starts in its type invariant.
LEMMA InitTInv == Init => TInv
  <1> SUFFICES ASSUME Init PROVE TInv
    OBVIOUS
  <1> USE BoundsAssumption DEF Init
  <1>a. NoErr \in Causes
    BY DEF Causes
  <1>b. NoStats \in StatsOf
    BY DEF NoStats, StatsOf
  <1>c. emitted \in [state : States \cup {"none"},
                     attempt : 0 .. MaxAttempts + 1, err : Causes]
    BY <1>a
  <1>d. reader \in [pc : {"idle", "unlocked"}, cur : Sessions \cup {0},
                    last : StatsOf, answer : StatsOf]
    BY <1>b
  <1>1. TypeOK
    <2>1. session \in [Sessions -> {"none", "live", "ended", "closing", "closed"}]
      OBVIOUS
    <2>2. frames \in [Sessions -> 0 .. MaxFrames]
      OBVIOUS
    <2>3. /\ cpc \in [Callers -> {"idle", "select", "once", "record", "cancel",
                                  "waitDone", "returned"}]
          /\ result \in [Callers -> Causes]
      BY <1>a
    <2>4. /\ pc \in PCs /\ attempt \in 0 .. MaxAttempts + 1
          /\ src \in Sessions \cup {0} /\ current \in Sessions \cup {0}
          /\ state \in States /\ terminals \in Nat
          /\ once \in Callers \cup {"free", "fired"}
      BY DEF PCs, States
    <2>5. ctxDone \in BOOLEAN /\ inCallback \in BOOLEAN /\ panicked \in BOOLEAN
      OBVIOUS
    <2> QED
      BY <1>a, <1>b, <1>c, <1>d, <2>1, <2>2, <2>3, <2>4, <2>5 DEF TypeOK
  <1>2. LoopInv
    BY DEF LoopInv, InHand, Published
  <1> QED
    BY <1>1, <1>2 DEF TInv

\* The run goroutine keeps the types.
LEMMA RunTInv == TInv /\ RunGoroutine => TInv'
  <1> SUFFICES ASSUME TInv, RunGoroutine PROVE TInv'
    OBVIOUS
  <1> USE BoundsAssumption
      DEF TInv, TypeOK, LoopInv, InHand, Published, PCs, loopVars, muVars,
         shutVars,
          emitVars, srcVars, callerVars, Goto, Causes, FailureCauses,
          ShutdownCauses, NoErr, States, StatsOf
  <1>1. CASE LoopTop
    BY <1>1 DEF LoopTop
  <1>2. CASE Emit
    <2>1. emitted' \in [state : States \cup {"none"},
                        attempt : 0 .. MaxAttempts + 1, err : Causes]
      BY <1>2 DEF Emit, EmitPoints, Change
    <2>2. terminals' \in Nat
      BY <1>2 DEF Emit
    <2> QED
      BY <1>2, <2>1, <2>2 DEF Emit
  <1>3. CASE EmitReturn
    <2>1. /\ pc' \in {"factory", "wait", "sleep", "cancel"}
          /\ pc' = "wait" => pc = "emitConnected"
      BY <1>3 DEF EmitReturn, EmitPoints, AfterEmit
    <2>2. inCallback' \in BOOLEAN
      BY <1>3 DEF EmitReturn
    <2>3. UNCHANGED <<attempt, src, err, panicked, muVars, shutVars, emitVars,
                      srcVars, callerVars, reader>>
      BY <1>3 DEF EmitReturn
    <2>4. TypeOK'
      BY <2>1, <2>2, <2>3
    <2>5. LoopInv'
      BY <2>1, <2>3
    <2> QED
      BY <2>4, <2>5
  <1>4. CASE SetCurrent
    BY <1>4 DEF SetCurrent
  <1>5. CASE Connected
    BY <1>5 DEF Connected
  <1>6. CASE CaptureFinal
    BY <1>6 DEF CaptureFinal
  <1>7. CASE CloseSource
    BY <1>7 DEF CloseSource
  <1>8. CASE ClearCurrent
    BY <1>8 DEF ClearCurrent
  <1>9. CASE CheckCtx
    BY <1>9 DEF CheckCtx
  <1>10. CASE Classify
    BY <1>10 DEF Classify
  <1>11. CASE Sleep
    BY <1>11 DEF Sleep
  <1>12. CASE Finish
    BY <1>12 DEF Finish
  <1>13. CASE FinishClosed
    BY <1>13 DEF FinishClosed
  <1>14. CASE Recover
    BY <1>14 DEF Recover
  <1>15. CASE RecoverClose
    BY <1>15 DEF RecoverClose
  <1>16. CASE RecoverCancel
    BY <1>16 DEF RecoverCancel
  <1>17. CASE RunReturn
    <2>1. CASE Goto("cancel", "closeDone") /\ ctxDone' = TRUE
      BY <1>17, <2>1 DEF RunReturn
    <2>2. CASE Goto("closeDone", "done") /\ UNCHANGED ctxDone
      BY <1>17, <2>2 DEF RunReturn
    <2> QED
      BY <1>17, <2>1, <2>2 DEF RunReturn
  <1> QED
    BY <1>1, <1>2, <1>3, <1>4, <1>5, <1>6, <1>7, <1>8, <1>9, <1>10, <1>11,
       <1>12, <1>13, <1>14, <1>15, <1>16, <1>17 DEF RunGoroutine

\* So do the sessions and the callers.
LEMMA OtherTInv == TInv /\ (Environment \/ Callings \/ UNCHANGED vars) => TInv'
  <1> SUFFICES ASSUME TInv, Environment \/ Callings \/ UNCHANGED vars
               PROVE  TInv'
    OBVIOUS
  <1> USE BoundsAssumption
      DEF TInv, TypeOK, LoopInv, InHand, Published, loopVars, muVars, shutVars,
          emitVars, srcVars, callerVars, Goto
  <1>1. ASSUME NEW s \in Sessions, FactoryOk(s) PROVE TInv'
    BY <1>1 DEF FactoryOk, PCs
  <1>2. ASSUME NEW s \in Sessions, DeliverFrame(s) PROVE TInv'
    <2>1. frames' \in [Sessions -> 0 .. MaxFrames]
      BY <1>2 DEF DeliverFrame
    <2> QED
      BY <1>2, <2>1 DEF DeliverFrame
  <1>11. ASSUME NEW s \in Sessions, SessionStops(s) PROVE TInv'
    BY <1>11 DEF SessionStops
  <1>3. ASSUME NEW e \in FailureCauses, FactoryErr(e) PROVE TInv'
    BY <1>3 DEF FactoryErr, PCs, Causes
  <1>4. ASSUME NEW e \in FailureCauses, WaitReturns(e) PROVE TInv'
    BY <1>4 DEF WaitReturns, PCs, Causes
  <1>5. CASE Panic
    BY <1>5 DEF Panic, PCs
  <1>6. ASSUME NEW c \in Callers,
               CallClose(c) \/ CallerStep(c) \/ CallWait(c) \/ WaitCtx(c)
        PROVE  TInv'
    <2> USE DEF CallersLeaveAlone, Advance
    <2>1. CASE CallClose(c)
      BY <2>1 DEF CallClose
    <2>2. CASE OnceDo(c)
      BY <2>2 DEF OnceDo, AfterShutdown
    <2>3. CASE RecordCause(c)
      BY <2>3 DEF RecordCause, CauseOf, Causes, ShutdownCauses
    <2>4. CASE CancelRun(c)
      BY <2>4 DEF CancelRun, AfterShutdown
    <2>5. CASE CallWait(c)
      BY <2>5 DEF CallWait
    <2>6. CASE WaitCtx(c)
      BY <2>6 DEF WaitCtx
    <2> QED
      BY <1>6, <2>1, <2>2, <2>3, <2>4, <2>5, <2>6 DEF CallerStep
  <1>7. ASSUME NEW w \in Waiters, WaitDone(w) PROVE TInv'
    BY <1>7 DEF WaitDone, CallersLeaveAlone, Callers
  <1>8. CASE StatsLock
    BY <1>8 DEF StatsLock
  <1>9. CASE StatsReturn
    <2>1. reader'.answer \in StatsOf
      BY <1>9 DEF StatsReturn, StatsOf
    <2>2. NoStats \in StatsOf
      BY DEF NoStats, StatsOf
    <2> QED
      BY <1>9, <2>1, <2>2 DEF StatsReturn
  <1>10. CASE UNCHANGED vars
    BY <1>10 DEF vars
  <1> QED
    BY <1>1, <1>2, <1>3, <1>4, <1>5, <1>6, <1>7, <1>8, <1>9, <1>10, <1>11
       DEF Environment, Callings, Callers

\* Type correctness: the fields of the Supervisor and the locals of its
\* goroutines keep their types for any number of callers, sessions, failures.
THEOREM TypeCorrect == Spec => []TypeOK
  <1>1. Init => TInv
    BY InitTInv
  <1>2. TInv /\ [Next]_vars => TInv'
    BY RunTInv, OtherTInv DEF Next, Terminated
  <1>3. TInv => TypeOK
    BY DEF TInv
  <1> QED
    BY <1>1, <1>2, <1>3, PTL DEF Spec

-----------------------------------------------------------------------------
(* The inductive invariant behind the safety properties.                   *)

\* A cause is recorded before the context is cancelled, by the shutdown alone
\* until finish; from finish on, phase, cause and emission agree.
CauseInv ==
    /\ inCallback => pc \in EmitPoints
    /\ pc \notin Ended => /\ termErr \in ShutdownCauses \cup {NoErr}
                          /\ terminals = 0
                          /\ state \notin Terminal
    /\ (ctxDone /\ pc \notin Ended \cup {"finishFailed"})
          => termErr \in ShutdownCauses
    /\ pc = "finishClosed" => ctxDone
    /\ pc \in {"capture", "closeSource", "clearCurrent", "checkCtx"}
          => err \in Errors \/ (err = "canceled" /\ ctxDone)
    /\ pc = "classify" => err \in Errors
    /\ pc \in {"recoverClose", "recoverCancel"} => err = "panic"
    /\ pc = "finishFailed" => err \in (Errors \ {NoErr}) \cup {"panic"}
    /\ pc \in Ended => /\ termErr \notin {NoErr, "canceled"}
                       /\ err = termErr
                       /\ state \in Terminal
                       /\ (state = "closed") <=> (termErr \in ShutdownCauses)
    /\ (pc = "emitTerminal" /\ ~inCallback) => terminals = 0
    /\ (pc \in Ended /\ (pc = "emitTerminal" => inCallback))
          => terminals = 1 /\ emitted.state = state /\ emitted.err = termErr

\* Who is about to cancel has recorded; whose Wait returned saw the end.
CallerInv ==
    /\ \A c \in Callers : cpc[c] = "cancel" => termErr # NoErr
    /\ \A w \in Waiters : cpc[w] = "returned" => Done /\ result[w] = termErr

\* At most one source is not closed: the one in hand, which is published
\* wherever a panic can strike, and after a panic in its Wait the same source,
\* closed by recoverRun and still stopping.
Recovered == {"recoverCancel", "finishFailed", "emitTerminal", "cancel",
              "closeDone", "done"}
SourceInv ==
    /\ pc \in {"recover", "recoverClose"} => panicked
    /\ pc \in Published => current = src
    /\ pc \notin Published \cup {"recover"} => current = 0
    /\ \A s \in Sessions :
          \/ session[s] \in {"none", "closed"}
          \/ s = src /\ pc \in (InHand \ {"clearCurrent"}) \cup {"recoverClose"}
          \/ s = current /\ pc = "recover"
          \/ session[s] = "closing" /\ s = src /\ panicked /\ pc \in Recovered

SInv == TInv /\ CauseInv /\ CallerInv /\ SourceInv

\* The supervisor starts in its safety invariant.
LEMMA InitSInv == Init => SInv
  <1> SUFFICES ASSUME Init PROVE SInv
    OBVIOUS
  <1>1. TInv
    BY InitTInv
  <1>2. CauseInv
    BY DEF Init, CauseInv, Ended, Terminal, NoErr
  <1>3. CallerInv
    BY DEF Init, CallerInv, Callers
  <1>4. SourceInv
    BY DEF Init, SourceInv, InHand, Published
  <1> QED
    BY <1>1, <1>2, <1>3, <1>4 DEF SInv

\* The run goroutine keeps it.
LEMMA RunSInv ==
    ASSUME NoErr \in Retryable, SInv, RunGoroutine
    PROVE  CauseInv' /\ CallerInv' /\ SourceInv'
  <1> USE DEF loopVars, muVars, shutVars, emitVars, srcVars, callerVars, Goto
  <1>1. /\ pc \in PCs
        /\ session \in [Sessions -> {"none", "live", "ended", "closing", "closed"}]
        /\ CauseInv /\ CallerInv /\ SourceInv
    BY DEF SInv, TInv, TypeOK
  <1>2. Errors \cap (ShutdownCauses \cup {"canceled", "panic"}) = {}
    BY ErrorsAssumption DEF ShutdownCauses
  <1>3. CASE LoopTop
    <2> USE <1>3 DEF LoopTop, EmitPoints
    <2>1. CauseInv'
      BY <1>1, <1>2 DEF CauseInv, Ended, Terminal, ShutdownCauses, NoErr,
                        InHand, Published, CallerInv
    <2>2. CallerInv'
      BY <1>1 DEF CallerInv, CauseInv, Ended, Done, NoErr
    <2>3. SourceInv'
      BY <1>1 DEF SourceInv, InHand, Published, Recovered
    <2> QED
      BY <2>1, <2>2, <2>3
  <1>4. CASE Emit
    <2> USE <1>4 DEF Emit, Change, EmitPoints
    <2>1. CauseInv'
      BY <1>1, <1>2 DEF CauseInv, Ended, Terminal, ShutdownCauses, NoErr,
                        InHand, Published, CallerInv
    <2>2. CallerInv'
      BY <1>1 DEF CallerInv, CauseInv, Ended, Done, NoErr
    <2>3. SourceInv'
      BY <1>1 DEF SourceInv, InHand, Published, Recovered
    <2> QED
      BY <2>1, <2>2, <2>3
  <1>5. CASE EmitReturn
    <2> USE <1>5 DEF EmitReturn, AfterEmit, EmitPoints
    <2>1. CauseInv'
      BY <1>1, <1>2 DEF CauseInv, Ended, Terminal, ShutdownCauses, NoErr,
                        InHand, Published, CallerInv
    <2>2. CallerInv'
      BY <1>1 DEF CallerInv, CauseInv, Ended, Done, NoErr
    <2>3. SourceInv'
      BY <1>1 DEF SourceInv, InHand, Published, Recovered
    <2> QED
      BY <2>1, <2>2, <2>3
  <1>6. CASE SetCurrent
    <2> USE <1>6 DEF SetCurrent, EmitPoints
    <2>1. CauseInv'
      BY <1>1, <1>2 DEF CauseInv, Ended, Terminal, ShutdownCauses, NoErr,
                        InHand, Published, CallerInv
    <2>2. CallerInv'
      BY <1>1 DEF CallerInv, CauseInv, Ended, Done, NoErr
    <2>3. SourceInv'
      BY <1>1 DEF SourceInv, InHand, Published, Recovered
    <2> QED
      BY <2>1, <2>2, <2>3
  <1>7. CASE Connected
    <2> USE <1>7 DEF Connected, EmitPoints
    <2>1. CauseInv'
      BY <1>1, <1>2 DEF CauseInv, Ended, Terminal, ShutdownCauses, NoErr,
                        InHand, Published, CallerInv
    <2>2. CallerInv'
      BY <1>1 DEF CallerInv, CauseInv, Ended, Done, NoErr
    <2>3. SourceInv'
      BY <1>1 DEF SourceInv, InHand, Published, Recovered
    <2> QED
      BY <2>1, <2>2, <2>3
  <1>8. CASE CaptureFinal
    <2> USE <1>8 DEF CaptureFinal, EmitPoints
    <2>1. CauseInv'
      BY <1>1, <1>2 DEF CauseInv, Ended, Terminal, ShutdownCauses, NoErr,
                        InHand, Published, CallerInv
    <2>2. CallerInv'
      BY <1>1 DEF CallerInv, CauseInv, Ended, Done, NoErr
    <2>3. SourceInv'
      BY <1>1 DEF SourceInv, InHand, Published, Recovered
    <2> QED
      BY <2>1, <2>2, <2>3
  <1>9. CASE CloseSource
    <2> USE <1>9 DEF CloseSource, EmitPoints
    <2>1. CauseInv'
      BY <1>1, <1>2 DEF CauseInv, Ended, Terminal, ShutdownCauses, NoErr,
                        InHand, Published, CallerInv
    <2>2. CallerInv'
      BY <1>1 DEF CallerInv, CauseInv, Ended, Done, NoErr
    <2>3. SourceInv'
      BY <1>1 DEF SourceInv, InHand, Published, Recovered
    <2> QED
      BY <2>1, <2>2, <2>3
  <1>10. CASE ClearCurrent
    <2> USE <1>10 DEF ClearCurrent, EmitPoints
    <2>1. CauseInv'
      BY <1>1, <1>2 DEF CauseInv, Ended, Terminal, ShutdownCauses, NoErr,
                        InHand, Published, CallerInv
    <2>2. CallerInv'
      BY <1>1 DEF CallerInv, CauseInv, Ended, Done, NoErr
    <2>3. SourceInv'
      BY <1>1 DEF SourceInv, InHand, Published, Recovered
    <2> QED
      BY <2>1, <2>2, <2>3
  <1>11. CASE CheckCtx
    <2> USE <1>11 DEF CheckCtx, EmitPoints
    <2>1. CauseInv'
      BY <1>1, <1>2 DEF CauseInv, Ended, Terminal, ShutdownCauses, NoErr,
                        InHand, Published, CallerInv
    <2>2. CallerInv'
      BY <1>1 DEF CallerInv, CauseInv, Ended, Done, NoErr
    <2>3. SourceInv'
      BY <1>1 DEF SourceInv, InHand, Published, Recovered
    <2> QED
      BY <2>1, <2>2, <2>3
  <1>12. CASE Classify
    <2> USE <1>12 DEF Classify, EmitPoints
    <2>1. CauseInv'
      BY <1>1, <1>2 DEF CauseInv, Ended, Terminal, ShutdownCauses, NoErr,
                        InHand, Published, CallerInv
    <2>2. CallerInv'
      BY <1>1 DEF CallerInv, CauseInv, Ended, Done, NoErr
    <2>3. SourceInv'
      BY <1>1 DEF SourceInv, InHand, Published, Recovered
    <2> QED
      BY <2>1, <2>2, <2>3
  <1>13. CASE Sleep
    <2> USE <1>13 DEF Sleep, EmitPoints
    <2>1. CauseInv'
      BY <1>1, <1>2 DEF CauseInv, Ended, Terminal, ShutdownCauses, NoErr,
                        InHand, Published, CallerInv
    <2>2. CallerInv'
      BY <1>1 DEF CallerInv, CauseInv, Ended, Done, NoErr
    <2>3. SourceInv'
      BY <1>1 DEF SourceInv, InHand, Published, Recovered
    <2> QED
      BY <2>1, <2>2, <2>3
  <1>14. CASE Finish
    <2> USE <1>14 DEF Finish, EmitPoints
    <2>1. CauseInv'
      BY <1>1, <1>2 DEF CauseInv, Ended, Terminal, ShutdownCauses, NoErr,
                        InHand, Published, CallerInv
    <2>2. CallerInv'
      BY <1>1 DEF CallerInv, CauseInv, Ended, Done, NoErr
    <2>3. SourceInv'
      BY <1>1 DEF SourceInv, InHand, Published, Recovered
    <2> QED
      BY <2>1, <2>2, <2>3
  <1>15. CASE FinishClosed
    <2> USE <1>15 DEF FinishClosed, EmitPoints
    <2>1. CauseInv'
      BY <1>1, <1>2 DEF CauseInv, Ended, Terminal, ShutdownCauses, NoErr,
                        InHand, Published, CallerInv
    <2>2. CallerInv'
      BY <1>1 DEF CallerInv, CauseInv, Ended, Done, NoErr
    <2>3. SourceInv'
      BY <1>1 DEF SourceInv, InHand, Published, Recovered
    <2> QED
      BY <2>1, <2>2, <2>3
  <1>16. CASE Recover
    <2> USE <1>16 DEF Recover, EmitPoints
    <2>1. CauseInv'
      BY <1>1, <1>2 DEF CauseInv, Ended, Terminal, ShutdownCauses, NoErr,
                        InHand, Published, CallerInv
    <2>2. CallerInv'
      BY <1>1 DEF CallerInv, CauseInv, Ended, Done, NoErr
    <2>3. SourceInv'
      BY <1>1, BoundsAssumption DEF SourceInv, InHand, Published, Sessions, Recovered
    <2> QED
      BY <2>1, <2>2, <2>3
  <1>17. CASE RecoverClose
    <2> USE <1>17 DEF RecoverClose, EmitPoints
    <2>1. CauseInv'
      BY <1>1, <1>2 DEF CauseInv, Ended, Terminal, ShutdownCauses, NoErr,
                        InHand, Published, CallerInv
    <2>2. CallerInv'
      BY <1>1 DEF CallerInv, CauseInv, Ended, Done, NoErr
    <2>3. SourceInv'
      BY <1>1 DEF SourceInv, InHand, Published, Recovered
    <2> QED
      BY <2>1, <2>2, <2>3
  <1>18. CASE RecoverCancel
    <2> USE <1>18 DEF RecoverCancel, EmitPoints
    <2>1. CauseInv'
      BY <1>1, <1>2 DEF CauseInv, Ended, Terminal, ShutdownCauses, NoErr,
                        InHand, Published, CallerInv
    <2>2. CallerInv'
      BY <1>1 DEF CallerInv, CauseInv, Ended, Done, NoErr
    <2>3. SourceInv'
      BY <1>1 DEF SourceInv, InHand, Published, Recovered
    <2> QED
      BY <2>1, <2>2, <2>3
  <1>19. CASE RunReturn
    <2> USE <1>19 DEF RunReturn, EmitPoints
    <2>1. CauseInv'
      BY <1>1, <1>2 DEF CauseInv, Ended, Terminal, ShutdownCauses, NoErr,
                        InHand, Published, CallerInv
    <2>2. CallerInv'
      BY <1>1 DEF CallerInv, CauseInv, Ended, Done, NoErr
    <2>3. SourceInv'
      BY <1>1 DEF SourceInv, InHand, Published, Recovered
    <2> QED
      BY <2>1, <2>2, <2>3
  <1> QED
    BY <1>3, <1>4, <1>5, <1>6, <1>7, <1>8, <1>9, <1>10, <1>11, <1>12, <1>13,
       <1>14, <1>15, <1>16, <1>17, <1>18, <1>19
       DEF RunGoroutine

\* So do the sessions and the callers.
LEMMA OtherSInv ==
    ASSUME SInv, Environment \/ Callings \/ UNCHANGED vars
    PROVE  CauseInv' /\ CallerInv' /\ SourceInv'
  <1> USE DEF loopVars, muVars, shutVars, emitVars, srcVars, callerVars, Goto
  <1>1. /\ pc \in PCs
        /\ session \in [Sessions -> {"none", "live", "ended", "closing", "closed"}]
        /\ cpc \in [Callers -> {"idle", "select", "once", "record", "cancel",
                               "waitDone", "returned"}]
        /\ result \in [Callers -> Causes]
        /\ CauseInv /\ CallerInv /\ SourceInv
    BY DEF SInv, TInv, TypeOK
  <1>2. ASSUME NEW s \in Sessions, FactoryOk(s)
        PROVE  CauseInv' /\ CallerInv' /\ SourceInv'
    <2> USE <1>2 DEF FactoryOk
    <2>1. CauseInv'
      BY <1>1 DEF CauseInv, Ended, EmitPoints
    <2>2. CallerInv'
      BY <1>1 DEF CallerInv, Done
    <2>3. SourceInv'
      BY <1>1 DEF SourceInv, InHand, Published, Recovered
    <2> QED
      BY <2>1, <2>2, <2>3
  <1>3. ASSUME NEW s \in Sessions, DeliverFrame(s)
        PROVE  CauseInv' /\ CallerInv' /\ SourceInv'
    BY <1>1, <1>3 DEF DeliverFrame, CauseInv, CallerInv, SourceInv, Done
  <1>11. ASSUME NEW s \in Sessions, SessionStops(s)
        PROVE  CauseInv' /\ CallerInv' /\ SourceInv'
    BY <1>1, <1>11 DEF SessionStops, CauseInv, CallerInv, SourceInv, Done
  <1>4. ASSUME NEW e \in FailureCauses, FactoryErr(e)
        PROVE  CauseInv' /\ CallerInv' /\ SourceInv'
    <2> USE <1>4 DEF FactoryErr
    <2>1. CauseInv'
      BY <1>1 DEF CauseInv, Ended, EmitPoints
    <2>2. CallerInv'
      BY <1>1 DEF CallerInv, Done
    <2>3. SourceInv'
      BY <1>1 DEF SourceInv, InHand, Published, Recovered
    <2> QED
      BY <2>1, <2>2, <2>3
  <1>5. ASSUME NEW e \in FailureCauses, WaitReturns(e)
        PROVE  CauseInv' /\ CallerInv' /\ SourceInv'
    <2> USE <1>5 DEF WaitReturns
    <2>1. CauseInv'
      BY <1>1 DEF CauseInv, Ended, EmitPoints
    <2>2. CallerInv'
      BY <1>1 DEF CallerInv, Done
    <2>3. SourceInv'
      BY <1>1 DEF SourceInv, InHand, Published, Recovered
    <2> QED
      BY <2>1, <2>2, <2>3
  <1>6. CASE Panic
    <2> USE <1>6 DEF Panic, PanicPoints
    <2>1. CauseInv'
      BY <1>1 DEF CauseInv, Ended, EmitPoints
    <2>2. CallerInv'
      BY <1>1 DEF CallerInv, Done
    <2>3. SourceInv'
      BY <1>1 DEF SourceInv, InHand, Published, Recovered
    <2> QED
      BY <2>1, <2>2, <2>3
  <1>7. ASSUME NEW c \in Callers,
               CallClose(c) \/ CallerStep(c)
        PROVE  CauseInv' /\ CallerInv' /\ SourceInv'
    <2> USE DEF CallersLeaveAlone, Advance
    <2>1. CASE CallClose(c)
      BY <1>1, <2>1 DEF CallClose, CauseInv, CallerInv, SourceInv, Done
    <2>2. CASE OnceDo(c)
      <3>1. c \in Waiters => AfterShutdown(c) = "waitDone"
        BY DEF AfterShutdown
      <3> QED
        BY <1>1, <2>2, <3>1 DEF OnceDo, CauseInv, CallerInv, SourceInv, Done,
                                Callers, AfterShutdown
    <2>3. CASE RecordCause(c)
      <3> USE <2>3 DEF RecordCause, CauseOf, ShutdownCauses, NoErr
      <3>1. CauseInv'
        BY <1>1 DEF CauseInv
      <3>2. CallerInv'
        BY <1>1 DEF CallerInv, CauseInv, Ended, Done, Callers
      <3>3. SourceInv'
        BY <1>1 DEF SourceInv
      <3> QED
        BY <3>1, <3>2, <3>3
    <2>4. CASE CancelRun(c)
      <3> USE <2>4 DEF CancelRun
      <3>1. CauseInv'
        BY <1>1 DEF CauseInv, CallerInv, EmitPoints, Ended
      <3>2. CallerInv'
        BY <1>1 DEF CallerInv, AfterShutdown, Done, Callers
      <3>3. SourceInv'
        BY <1>1 DEF SourceInv
      <3> QED
        BY <3>1, <3>2, <3>3
    <2> QED
      BY <1>7, <2>1, <2>2, <2>3, <2>4 DEF CallerStep
  <1>8. ASSUME NEW w \in Waiters, CallWait(w) \/ WaitCtx(w) \/ WaitDone(w)
        PROVE  CauseInv' /\ CallerInv' /\ SourceInv'
    <2> USE DEF CallersLeaveAlone, Advance
    <2>1. CASE CallWait(w)
      BY <1>1, <2>1 DEF CallWait, CauseInv, CallerInv, SourceInv, Done, Callers
    <2>3. CASE WaitCtx(w)
      BY <1>1, <2>3 DEF WaitCtx, CauseInv, CallerInv, SourceInv, Done, Callers
    <2>2. CASE WaitDone(w)
      BY <1>1, <2>2 DEF WaitDone, CauseInv, CallerInv, SourceInv, Done, Callers
    <2> QED
      BY <1>8, <2>1, <2>2, <2>3
  <1>9. CASE StatsLock \/ StatsReturn
    BY <1>1, <1>9 DEF StatsLock, StatsReturn, CauseInv, CallerInv, SourceInv,
       Done
  <1>10. CASE UNCHANGED vars
    BY <1>1, <1>10 DEF vars, CauseInv, CallerInv, SourceInv, Done
  <1> QED
    BY <1>2, <1>3, <1>4, <1>5, <1>6, <1>7, <1>8, <1>9, <1>10, <1>11
       DEF Environment, Callings

\* Every step keeps it.
LEMMA StepSInv ==
    ASSUME NoErr \in Retryable, SInv, [Next]_vars
    PROVE  SInv'
  <1>1. TInv'
    BY RunTInv, OtherTInv DEF SInv, Next, Terminated
  <1>2. CauseInv' /\ CallerInv' /\ SourceInv'
    BY RunSInv, OtherSInv DEF Next, Terminated
  <1> QED
    BY <1>1, <1>2 DEF SInv

\* finish and finishClosed: with a clean session end retryable, the terminal
\* phase agrees with the terminal cause for any number of racing callers.
THEOREM TerminalPhase ==
    ASSUME NoErr \in Retryable
    PROVE  Spec => [](TerminalConsistent /\ NeverBackfilled)
  <1>1. Init => SInv
    BY InitSInv
  <1>2. SInv /\ [Next]_vars => SInv'
    BY StepSInv
  <1>3. SInv => TerminalConsistent /\ NeverBackfilled
    <2> SUFFICES ASSUME SInv PROVE TerminalConsistent /\ NeverBackfilled
      OBVIOUS
    <2>1. CauseInv /\ state \in States
      BY DEF SInv, TInv, TypeOK
    <2>2. TerminalConsistent
      BY <2>1 DEF CauseInv, TerminalConsistent, Terminal
    <2>3. NeverBackfilled
      BY <2>1 DEF CauseInv, NeverBackfilled, ShutdownCauses, NoErr
    <2> QED
      BY <2>2, <2>3
  <1> QED
    BY <1>1, <1>2, <1>3, PTL DEF Spec

\* Wait: every Wait returns after the one terminal StateChange was handed to
\* OnState and with the cause it carried, so all callers observe one cause.
THEOREM WaitsAgree ==
    ASSUME NoErr \in Retryable
    PROVE  Spec => [](WaitAfterTerminal /\ SameCause)
  <1>1. Init => SInv
    BY InitSInv
  <1>2. SInv /\ [Next]_vars => SInv'
    BY StepSInv
  <1>3. SInv => WaitAfterTerminal /\ SameCause
    BY DEF SInv, CauseInv, CallerInv, WaitAfterTerminal, SameCause, Done, Ended
  <1> QED
    BY <1>1, <1>2, <1>3, PTL DEF Spec

\* loop and recoverRun: no source a Factory built is left without its Close.
THEOREM SourcesClosed ==
    ASSUME NoErr \in Retryable
    PROVE  Spec => []NoLeak
  <1>1. Init => SInv
    BY InitSInv
  <1>2. SInv /\ [Next]_vars => SInv'
    BY StepSInv
  <1>3. SInv => NoLeak
    BY DEF SInv, SourceInv, NoLeak, Done, Built, InHand
  <1> QED
    BY <1>1, <1>2, <1>3, PTL DEF Spec

-----------------------------------------------------------------------------
(* The supervisor implements the contract of a Source.                     *)

\* A step that shows nothing of itself through the Source interface.
Invisible == /\ termErr' = termErr /\ Done' = Done /\ result' = result
             /\ UNCHANGED <<frames, src, panicked>>

\* What joined sources delivered is a record of the contract, and before the
\* end it may change.
LEMMA DeliverFacts ==
    ASSUME SInv', ~Done, ~Done', UNCHANGED <<termErr, result>>
    PROVE  Contract!Deliver
  <1>1. frames' \in [Sessions -> 0 .. MaxFrames] /\ 0 \in 0 .. MaxFrames
    BY BoundsAssumption DEF SInv, TInv, TypeOK
  <1>2. Joined' \in [Sessions -> 0 .. MaxFrames]
    BY <1>1 DEF Joined
  <1> QED
    BY <1>2 DEF Contract!Deliver, Done

\* A step of the run goroutine is a step of the contract or none.
LEMMA RunContract ==
    ASSUME NoErr \in Retryable, SInv, SInv', RunGoroutine
    PROVE  \/ Invisible \/ Contract!Deliver \/ Contract!Finish
           \/ \E c \in Causes : Contract!EndWith(c)
  <1> USE DEF loopVars, muVars, shutVars, emitVars, srcVars, callerVars, Goto,
              Invisible, Done
  <1>1. CauseInv /\ termErr \in Causes /\ err \in Causes
    BY DEF SInv, TInv, TypeOK
  <1>2. CASE LoopTop
    BY <1>2, DeliverFacts DEF LoopTop
  <1>3. CASE Emit
    BY <1>3 DEF Emit, EmitPoints
  <1>4. CASE EmitReturn
    BY <1>4 DEF EmitReturn, AfterEmit, EmitPoints
  <1>5. CASE SetCurrent
    BY <1>5 DEF SetCurrent
  <1>6. CASE Connected
    BY <1>6 DEF Connected
  <1>7. CASE CaptureFinal
    BY <1>7 DEF CaptureFinal
  <1>8. CASE CloseSource
    BY <1>8 DEF CloseSource
  <1>9. CASE ClearCurrent
    BY <1>9 DEF ClearCurrent
  <1>10. CASE CheckCtx
    BY <1>10 DEF CheckCtx
  <1>11. CASE Classify
    BY <1>11 DEF Classify
  <1>12. CASE Sleep
    BY <1>12 DEF Sleep
  <1>13. CASE Recover
    BY <1>13, DeliverFacts DEF Recover
  <1>14. CASE RecoverClose
    BY <1>14 DEF RecoverClose
  <1>15. CASE RecoverCancel
    BY <1>15 DEF RecoverCancel
  <1>16. CASE Finish
    BY <1>1, <1>16 DEF Finish, CauseInv, Contract!EndWith, Joined
  <1>17. CASE FinishClosed
    BY <1>1, <1>17 DEF FinishClosed, CauseInv, Ended, ShutdownCauses, NoErr
  <1>18. CASE RunReturn
    BY <1>1, <1>18 DEF RunReturn, CauseInv, Ended, Contract!Finish, Joined
  <1> QED
    BY <1>2, <1>3, <1>4, <1>5, <1>6, <1>7, <1>8, <1>9, <1>10, <1>11, <1>12,
       <1>13, <1>14, <1>15, <1>16, <1>17, <1>18
       DEF RunGoroutine

\* So is one of the sessions and the callers.
LEMMA OtherContract ==
    ASSUME SInv, SInv', Environment \/ Callings \/ UNCHANGED vars
    PROVE  Invisible \/ Contract!Next \/ UNCHANGED Contract!vars
  <1> USE DEF loopVars, muVars, shutVars, emitVars, srcVars, callerVars, Goto,
              Invisible, Done
  <1>1. ASSUME NEW s \in Sessions, FactoryOk(s) PROVE Contract!Next
    BY <1>1, DeliverFacts DEF FactoryOk, Contract!Next
  <1>2. ASSUME NEW s \in Sessions, DeliverFrame(s)
        PROVE  Contract!Next \/ UNCHANGED Contract!vars
    <2>1. CASE ~Done
      BY <1>2, <2>1, DeliverFacts DEF DeliverFrame, Contract!Next
    <2>2. CASE Done
      <3>1. s = src /\ panicked
        BY <1>2, <2>2 DEF DeliverFrame, SInv, SourceInv, InHand, Recovered
      <3>2. \A t \in Sessions : t # s => frames'[t] = frames[t]
        BY <1>2 DEF DeliverFrame, SInv, TInv, TypeOK
      <3>3. UNCHANGED <<src, panicked>>
        BY <1>2 DEF DeliverFrame
      <3>4. Joined' = Joined
        BY <3>1, <3>2, <3>3 DEF Joined
      <3> QED
        BY <1>2, <3>4 DEF DeliverFrame, Contract!vars
    <2> QED
      BY <2>1, <2>2
  <1>10. ASSUME NEW s \in Sessions, SessionStops(s) PROVE Invisible
    BY <1>10 DEF SessionStops
  <1>3. ASSUME NEW e \in FailureCauses, FactoryErr(e) \/ WaitReturns(e)
        PROVE  Invisible
    BY <1>3 DEF FactoryErr, WaitReturns
  <1>4. CASE Panic
    BY <1>4, DeliverFacts DEF Panic, PanicPoints, Contract!Next
  <1>5. ASSUME NEW c \in Callers, CallClose(c) \/ CallerStep(c)
        PROVE  Invisible \/ Contract!Next
    <2> USE DEF CallersLeaveAlone
    <2>1. CASE CallClose(c) \/ OnceDo(c) \/ CancelRun(c)
      BY <2>1 DEF CallClose, OnceDo, CancelRun
    <2>2. CASE RecordCause(c)
      <3>1. CauseOf(c) \in Causes
        BY DEF CauseOf, Causes, ShutdownCauses
      <3>2. CASE termErr = NoErr
        <4>1. Contract!EndWith(CauseOf(c))
          BY <2>2, <3>2 DEF RecordCause, Contract!EndWith, Joined
        <4> QED
          BY <3>1, <4>1 DEF Contract!Next
      <3>3. CASE termErr # NoErr
        BY <2>2, <3>3 DEF RecordCause
      <3> QED
        BY <3>2, <3>3
    <2> QED
      BY <1>5, <2>1, <2>2 DEF CallerStep
  <1>6. ASSUME NEW w \in Waiters, CallWait(w) \/ WaitCtx(w) PROVE Invisible
    BY <1>6 DEF CallWait, WaitCtx, CallersLeaveAlone
  <1>7. ASSUME NEW w \in Waiters, WaitDone(w) PROVE Contract!Next
    <2>1. Contract!Wait(w)
      BY <1>7 DEF WaitDone, CallersLeaveAlone, Contract!Wait, SInv, TInv,
                  TypeOK, Callers, Joined
    <2> QED
      BY <2>1 DEF Contract!Next
  <1>8. CASE StatsLock \/ StatsReturn
    BY <1>8 DEF StatsLock, StatsReturn
  <1>9. CASE UNCHANGED vars
    BY <1>9 DEF vars
  <1> QED
    BY <1>1, <1>2, <1>3, <1>4, <1>5, <1>6, <1>7, <1>8, <1>9, <1>10
       DEF Environment, Callings

\* The Source interface (source.go): one end, for the first cause recorded;
\* Wait returns that cause, after the end; after the end no frame of any source
\* but the one whose own Wait panicked, which recoverRun closes and never joins.
THEOREM SupervisorIsSource ==
    ASSUME NoErr \in Retryable
    PROVE  Spec => ImplementsSource
  <1>1. Init => SInv
    BY InitSInv
  <1>2. SInv /\ [Next]_vars => SInv'
    BY StepSInv
  <1>3. Init => Contract!Init
    BY BoundsAssumption DEF Init, Contract!Init, Done, Callers, Joined
  <1>4. SInv /\ SInv' /\ [Next]_vars => [Contract!Next]_Contract!vars
    <2> SUFFICES ASSUME SInv, SInv', [Next]_vars
                 PROVE  [Contract!Next]_Contract!vars
      OBVIOUS
    <2>1. Invisible => UNCHANGED Contract!vars
      BY DEF Invisible, Contract!vars, Joined
    <2>2. CASE RunGoroutine
      BY <2>1, <2>2, RunContract DEF Contract!Next
    <2>3. CASE Environment \/ Callings \/ UNCHANGED vars
      BY <2>1, <2>3, OtherContract
    <2> QED
      BY <2>2, <2>3 DEF Next, Terminated
  <1> QED
    BY <1>1, <1>2, <1>3, <1>4, PTL DEF Spec, ImplementsSource, Contract!Spec

-----------------------------------------------------------------------------
(* Stats.                                                                  *)

Captured == {"closeSource", "clearCurrent"}
Delivering == {"live", "closing"}

\* Factories number their sources upwards; the loop publishes the one in hand.
CurrentInv ==
    /\ \A s \in Built : \A t \in Sessions : t < s => t \in Built
    /\ pc \in InHand \cup {"recoverClose"} => src \in Built
    /\ pc = "recover" => panicked /\ current \in Built \cup {0}
    /\ pc \in {"capture"} \cup Captured => session[src] \notin Delivering
    /\ pc \in Published => current = src
    /\ pc \notin Published \cup {"recover"} => current = 0

\* The snapshot is the final count of a session that ended, older than the one
\* in hand until that one's own is taken.
SnapshotInv ==
    /\ lastStats.session # 0 =>
          /\ lastStats.session \in Built /\ session[lastStats.session] \notin Delivering
          /\ lastStats.frames = frames[lastStats.session]
    /\ pc \in InHand \ Captured => lastStats.session < src
    /\ pc \in Captured => lastStats.session = src

\* b is no earlier than a.
Follows(b, a) ==
    a.session < b.session \/ (a.session = b.session /\ a.frames <= b.frames)

\* What Stats would answer if it ran now, and what the call under way will.
Shown == IF current # 0 THEN [session |-> current, frames |-> frames[current]]
         ELSE lastStats
Pending == IF reader.pc = "idle" THEN Shown
           ELSE IF reader.cur # 0
                THEN [session |-> reader.cur, frames |-> frames[reader.cur]]
                ELSE reader.last

AnswerInv ==
    ~panicked => Follows(Pending, reader.answer) /\ Follows(Shown, Pending)

StatsInv == TInv /\ CurrentInv /\ SnapshotInv /\ AnswerInv

\* Answers are compared like pairs of numbers.
LEMMA FollowsFacts ==
    /\ \A a \in StatsOf : Follows(a, a)
    /\ \A a, b, c \in StatsOf : Follows(b, a) /\ Follows(c, b) => Follows(c, a)
  <1> USE BoundsAssumption
  <1>1. \A a \in StatsOf : a.session \in Nat /\ a.frames \in Nat
    BY DEF StatsOf, Sessions
  <1> QED BY <1>1 DEF Follows

\* What Stats has to answer is an answer.
LEMMA AnswerTypes ==
    ASSUME TInv
    PROVE  Shown \in StatsOf /\ Pending \in StatsOf /\ reader.answer \in StatsOf
  <1>1. Shown \in StatsOf
    BY DEF TInv, TypeOK, Shown, StatsOf
  <1>2. reader.answer \in StatsOf /\ reader.last \in StatsOf
    BY DEF TInv, TypeOK
  <1>3. reader.cur # 0 => [session |-> reader.cur, frames |-> frames[reader.cur]] \in StatsOf
    BY DEF TInv, TypeOK, StatsOf
  <1> QED BY <1>1, <1>2, <1>3 DEF Pending

\* Where a step leaves the call under way alone, it has to show no less.
LEMMA AnswerKept ==
    ASSUME TInv, TInv', AnswerInv, UNCHANGED <<reader, frames>>, panicked' = FALSE => ~panicked,
           ~panicked => Follows(Shown', Shown)
    PROVE  AnswerInv'
  <1> SUFFICES ASSUME ~panicked, ~panicked'
               PROVE  Follows(Pending', reader.answer) /\ Follows(Shown', Pending')
    BY DEF AnswerInv, TInv, TypeOK
  <1>1. /\ Shown \in StatsOf /\ Pending \in StatsOf /\ reader.answer \in StatsOf
        /\ Shown' \in StatsOf /\ Pending' \in StatsOf
    <2>1. (Shown \in StatsOf /\ Pending \in StatsOf /\ reader.answer \in StatsOf)'
      BY AnswerTypes, PTL
    <2> QED BY <2>1, AnswerTypes
  <1>2. Follows(Pending, reader.answer) /\ Follows(Shown, Pending) /\ Follows(Shown', Shown)
    BY DEF AnswerInv
  <1>3. CASE reader.pc = "idle"
    <2>1. Pending = Shown /\ Pending' = Shown'
      BY <1>3 DEF Pending
    <2> QED BY <1>1, <1>2, <2>1, FollowsFacts
  <1>4. CASE reader.pc # "idle"
    <2>1. Pending' = Pending
      BY <1>4 DEF Pending
    <2> QED BY <1>1, <1>2, <2>1, FollowsFacts
  <1> QED BY <1>3, <1>4

\* The supervisor starts without a source or an answer.
LEMMA InitStats == Init => StatsInv
  <1> SUFFICES ASSUME Init PROVE StatsInv
    OBVIOUS
  <1>1. TInv
    BY InitTInv
  <1>2. CurrentInv /\ SnapshotInv
    BY DEF Init, CurrentInv, SnapshotInv, Built, InHand, Published, Captured, NoStats, Delivering
  <1>3. reader.answer = NoStats /\ Shown = NoStats /\ Pending = NoStats
    BY DEF Init, Shown, Pending
  <1>4. NoStats \in StatsOf
    BY <1>1, <1>3, AnswerTypes
  <1>5. AnswerInv
    BY <1>3, <1>4, FollowsFacts DEF AnswerInv
  <1> QED BY <1>1, <1>2, <1>5 DEF StatsInv

\* Every step keeps the order of the sources and the snapshot.
LEMMA SnapshotStep ==
    ASSUME StatsInv, TInv', [Next]_vars
    PROVE  CurrentInv' /\ SnapshotInv'
  <1> USE BoundsAssumption
      DEF StatsInv, TInv, TypeOK, LoopInv, CurrentInv, SnapshotInv, Built, InHand, Published,
          Captured, Delivering, loopVars, muVars, shutVars, emitVars, srcVars, callerVars, Goto
  <1>1. CASE RunGoroutine
    <2>1. CASE CaptureFinal
      <3>1. /\ pc = "capture" /\ pc' = "closeSource" /\ src \in Built /\ session[src] \notin Delivering
            /\ UNCHANGED <<src, session, frames, current>>
            /\ lastStats' = [session |-> src, frames |-> frames[src]]
        BY <2>1 DEF CaptureFinal
      <3>2. lastStats'.session = src /\ lastStats'.frames = frames[src]
        BY <3>1
      <3> QED BY <3>1, <3>2
    <2>2. CASE CloseSource
      BY <2>2 DEF CloseSource
    <2>3. CASE RecoverClose
      BY <2>3 DEF RecoverClose
    <2>4. CASE LoopTop \/ SetCurrent \/ Connected \/ ClearCurrent \/ CheckCtx \/ Classify \/ Sleep
      BY <2>4 DEF LoopTop, SetCurrent, Connected, ClearCurrent, CheckCtx, Classify, Sleep
    <2>5. CASE Finish \/ FinishClosed \/ Recover \/ RecoverCancel \/ RunReturn
      BY <2>5 DEF Finish, FinishClosed, Recover, RecoverCancel, RunReturn
    <2>6. CASE Emit
      BY <2>6 DEF Emit
    <2>7. CASE EmitReturn
      <3>1. /\ pc' \in {"factory", "wait", "sleep", "cancel"}
            /\ pc' = "wait" <=> pc = "emitConnected"
            /\ pc \notin Captured \cup {"capture", "recover"}
            /\ UNCHANGED <<src, session, frames, current, lastStats>>
        BY <2>7 DEF EmitReturn, EmitPoints, AfterEmit
      <3>2. pc \in EmitPoints
        BY <2>7 DEF EmitReturn
      <3> QED BY <3>1, <3>2 DEF EmitPoints
    <2> QED
      BY <1>1, <2>1, <2>2, <2>3, <2>4, <2>5, <2>6, <2>7 DEF RunGoroutine
  <1>2. CASE Environment
    <2>1. ASSUME NEW s \in Sessions, FactoryOk(s) PROVE CurrentInv' /\ SnapshotInv'
      <3>1. /\ s \notin Built /\ \A t \in Sessions : t < s => t \in Built
            /\ session' = [session EXCEPT ![s] = "live"] /\ src' = s
            /\ UNCHANGED <<frames, current, lastStats>> /\ pc = "factory" /\ pc' = "setCurrent"
        BY <2>1 DEF FactoryOk
      <3>2. \A u \in Built : u \in Sessions /\ u # s /\ u < s
        <4> TAKE u \in Built
        <4>1. u \in Sessions /\ s \in Nat /\ u \in Nat /\ u # s
          BY <3>1 DEF Sessions
        <4>2. ~(s < u)
          BY <3>1, <4>1
        <4> QED BY <4>1, <4>2
      <3>3. Built' = Built \cup {s}
        BY <3>1
      <3>4. \A u \in Built : session'[u] = session[u]
        BY <3>1, <3>2
      <3>5. \A u \in Built' : \A t \in Sessions : t < u => t \in Built'
        BY <3>1, <3>3
      <3>6. lastStats.session < s
        <4>1. CASE lastStats.session = 0
          BY <4>1 DEF Sessions
        <4>2. CASE lastStats.session # 0
          BY <3>2, <4>2
        <4> QED BY <4>1, <4>2
      <3>7. CurrentInv'
        BY <3>1, <3>3, <3>5
      <3>8. lastStats.session # 0 => session'[lastStats.session] \notin Delivering
        BY <3>4
      <3> QED BY <3>1, <3>3, <3>6, <3>7, <3>8
    <2>2. ASSUME NEW s \in Sessions, DeliverFrame(s) PROVE CurrentInv' /\ SnapshotInv'
      <3>1. /\ session[s] \in Delivering /\ UNCHANGED <<pc, src, session, current, lastStats, panicked>>
            /\ \A u \in Sessions : u # s => frames'[u] = frames[u]
        BY <2>2 DEF DeliverFrame
      <3>2. lastStats.session # 0 => frames'[lastStats.session] = frames[lastStats.session]
        BY <3>1
      <3> QED BY <3>1, <3>2
    <2>3. ASSUME NEW e \in FailureCauses, FactoryErr(e) PROVE CurrentInv' /\ SnapshotInv'
      BY <2>3 DEF FactoryErr
    <2>4. ASSUME NEW e \in FailureCauses, WaitReturns(e) PROVE CurrentInv' /\ SnapshotInv'
      BY <2>4 DEF WaitReturns
    <2>5. CASE Panic
      BY <2>5 DEF Panic, PanicPoints
    <2>6. ASSUME NEW s \in Sessions, SessionStops(s) PROVE CurrentInv' /\ SnapshotInv'
      BY <2>6 DEF SessionStops
    <2> QED BY <1>2, <2>1, <2>2, <2>3, <2>4, <2>5, <2>6 DEF Environment
  <1>3. CASE Callings \/ UNCHANGED vars
    <2>1. UNCHANGED <<pc, src, session, frames, current, lastStats, panicked>>
      BY <1>3 DEF Callings, CallClose, CallerStep, OnceDo, RecordCause, CancelRun, CallWait,
                  WaitDone, WaitCtx, StatsLock, StatsReturn, CallersLeaveAlone, vars
    <2> QED BY <2>1
  <1> QED BY <1>1, <1>2, <1>3 DEF Next, Terminated

\* Every step shows no less than before, and an answer is what is shown.
LEMMA AnswerStep ==
    ASSUME StatsInv, TInv', [Next]_vars
    PROVE  AnswerInv'
  <1> USE BoundsAssumption
      DEF StatsInv, TInv, TypeOK, LoopInv, CurrentInv, SnapshotInv, InHand, Published,
          Captured, Delivering, loopVars, muVars, shutVars, emitVars, srcVars, callerVars, Goto
  <1>t. /\ Shown \in StatsOf /\ Pending \in StatsOf /\ reader.answer \in StatsOf
        /\ Shown' \in StatsOf /\ Pending' \in StatsOf /\ reader'.answer \in StatsOf
    <2>1. (Shown \in StatsOf /\ Pending \in StatsOf /\ reader.answer \in StatsOf)'
      BY AnswerTypes, PTL
    <2> QED BY <2>1, AnswerTypes
  <1>k. ASSUME UNCHANGED <<current, lastStats, frames, reader>>, panicked' = FALSE => ~panicked
        PROVE  AnswerInv'
    <2>1. Follows(Shown', Shown)
      BY <1>k, <1>t, FollowsFacts DEF Shown
    <2> QED BY <1>k, <2>1, AnswerKept
  <1>1. CASE SetCurrent
    <2>1. Shown = lastStats /\ Shown'.session = src
      BY <1>1 DEF SetCurrent, Shown, Sessions
    <2>2. Follows(Shown', Shown)
      BY <1>1, <2>1 DEF SetCurrent, Follows
    <2> QED BY <1>1, <2>2, AnswerKept DEF SetCurrent
  <1>2. CASE CaptureFinal
    <2>1. Shown' = Shown
      BY <1>2 DEF CaptureFinal, Shown, Sessions
    <2> QED BY <1>2, <1>t, <2>1, AnswerKept, FollowsFacts DEF CaptureFinal
  <1>3. CASE ClearCurrent
    <2>1. /\ current = src /\ src # 0 /\ current' = 0 /\ UNCHANGED <<lastStats, frames, reader, panicked>>
          /\ lastStats.session = src /\ lastStats.frames = frames[src]
      BY <1>3 DEF ClearCurrent, Sessions
    <2>2. /\ Shown.session = Shown'.session /\ Shown.frames = Shown'.frames
      BY <2>1 DEF Shown
    <2>3. Follows(Shown', Shown)
      <3>1. Follows(Shown, Shown)
        BY <1>t, FollowsFacts
      <3> QED BY <2>2, <3>1 DEF Follows
    <2> QED BY <2>1, <2>3, AnswerKept
  <1>4. CASE Recover \/ Panic
    <2>1. panicked' # FALSE
      BY <1>4 DEF Recover, Panic
    <2> QED BY <2>1 DEF AnswerInv
  <1>5. CASE \/ LoopTop \/ Emit \/ EmitReturn \/ Connected \/ CloseSource \/ CheckCtx
             \/ Classify \/ Sleep \/ Finish \/ FinishClosed \/ RecoverClose \/ RecoverCancel
             \/ RunReturn
    BY <1>5, <1>k DEF LoopTop, Emit, EmitReturn, Connected, CloseSource, CheckCtx, Classify,
                      Sleep, Finish, FinishClosed, RecoverClose, RecoverCancel, RunReturn
  <1>6. CASE \/ \E s \in Sessions : FactoryOk(s) \/ SessionStops(s)
             \/ \E e \in FailureCauses : FactoryErr(e) \/ WaitReturns(e)
    BY <1>6, <1>k DEF FactoryOk, SessionStops, FactoryErr, WaitReturns
  <1>7. ASSUME NEW s \in Sessions, DeliverFrame(s) PROVE AnswerInv'
    <2>1. /\ session[s] \in Delivering /\ UNCHANGED <<pc, current, lastStats, reader, panicked>>
          /\ \A u \in Sessions : frames[u] <= frames'[u] /\ (u # s => frames'[u] = frames[u])
      BY <1>7 DEF DeliverFrame
    <2>2. Shown'.session = Shown.session /\ Shown.frames <= Shown'.frames
      <3>1. lastStats.frames <= lastStats.frames
        BY DEF StatsOf
      <3>2. current # 0 => frames[current] <= frames'[current]
        BY <2>1
      <3> QED BY <2>1, <3>1, <3>2 DEF Shown
    <2>3. Follows(Shown', Shown)
      BY <2>2 DEF Follows
    <2>4. Pending'.session = Pending.session /\ Pending.frames <= Pending'.frames
      <3>1. reader.last.frames <= reader.last.frames
        BY DEF StatsOf
      <3>2. reader.cur # 0 => frames[reader.cur] <= frames'[reader.cur]
        BY <2>1
      <3> QED BY <2>1, <2>2, <3>1, <3>2 DEF Pending
    <2>5. Follows(Pending', Pending)
      BY <2>4 DEF Follows
    <2>6. ASSUME ~panicked PROVE Follows(Shown', Pending')
      <3>1. Follows(Shown, Pending)
        BY <2>6 DEF AnswerInv
      <3>2. CASE Pending' = Pending
        BY <1>t, <2>3, <3>1, <3>2, FollowsFacts
      <3>3. CASE Pending' # Pending /\ reader.pc = "idle"
        BY <1>t, <2>1, <3>3, FollowsFacts DEF Pending
      <3>4. CASE Pending' # Pending /\ reader.pc # "idle"
        <4>1. reader.cur = s
          BY <2>1, <3>4 DEF Pending
        <4>2. Pending.session = s /\ Pending'.session = s /\ Pending'.frames = frames'[s]
          BY <2>1, <3>4, <4>1 DEF Pending, Sessions
        <4>3. CASE Shown.session = s
          <5>1. current = s
            BY <2>1, <4>3 DEF Shown, Sessions
          <5>2. Shown' = Pending'
            BY <2>1, <3>4, <4>1, <5>1 DEF Shown, Pending
          <5> QED BY <1>t, <5>2, FollowsFacts
        <4>4. CASE Shown.session # s
          BY <2>2, <3>1, <4>2, <4>4 DEF Follows
        <4> QED BY <4>3, <4>4
      <3> QED BY <3>2, <3>3, <3>4
    <2> QED BY <1>t, <2>1, <2>5, <2>6, FollowsFacts DEF AnswerInv
  <1>8. CASE StatsLock
    <2>1. UNCHANGED <<current, lastStats, frames, panicked>> /\ reader'.answer = reader.answer
          /\ reader.pc = "idle" /\ reader'.pc = "unlocked" /\ reader'.cur = current
          /\ reader'.last = lastStats
      BY <1>8 DEF StatsLock
    <2>2. Shown' = Shown /\ Pending = Shown /\ Pending' = Shown
      BY <2>1 DEF Shown, Pending
    <2> QED BY <1>t, <2>1, <2>2, FollowsFacts DEF AnswerInv
  <1>9. CASE StatsReturn
    <2>1. UNCHANGED <<current, lastStats, frames, panicked>> /\ reader.pc = "unlocked"
          /\ reader'.pc = "idle" /\ reader'.answer = Pending
      BY <1>9 DEF StatsReturn, Pending
    <2>2. Shown' = Shown /\ Pending' = Shown
      BY <2>1 DEF Shown, Pending
    <2> QED BY <1>t, <2>1, <2>2, FollowsFacts DEF AnswerInv
  <1>10. CASE (Callings /\ ~StatsLock /\ ~StatsReturn) \/ UNCHANGED vars
    BY <1>10, <1>k DEF Callings, CallClose, CallerStep, OnceDo, RecordCause, CancelRun, CallWait,
                       WaitDone, WaitCtx, CallersLeaveAlone, vars
  <1> QED
    BY <1>1, <1>2, <1>3, <1>4, <1>5, <1>6, <1>7, <1>8, <1>9, <1>10
    DEF Next, RunGoroutine, Environment, Callings, Terminated

\* Stats, captureFinal and the loop's setCurrent and clearCurrent: however a call
\* of Stats is interleaved with the end of one session and the start of the
\* next, a later answer is never of an earlier moment, until a panic forfeits
\* the snapshot.
THEOREM StatsNeverGoBack == Spec => StatsMonotone
  <1>1. Init => StatsInv
    BY InitStats
  <1>2. StatsInv /\ [Next]_vars => StatsInv'
    <2> SUFFICES ASSUME StatsInv, [Next]_vars PROVE StatsInv'
      OBVIOUS
    <2>1. TInv'
      BY RunTInv, OtherTInv DEF Next, Terminated, StatsInv
    <2> QED BY <2>1, SnapshotStep, AnswerStep DEF StatsInv
  <1>3. ASSUME StatsInv, StatsInv', [Next]_vars
        PROVE  [~panicked' => LET a == reader.answer  b == reader'.answer
                              IN  a.session < b.session \/ (a.session = b.session
                                                             /\ a.frames <= b.frames)]_reader
    <2>1. StatsLock \/ StatsReturn \/ UNCHANGED reader
      BY <1>3 DEF Next, RunGoroutine, Environment, Callings, Terminated, vars, LoopTop, Emit,
                  EmitReturn, SetCurrent, Connected, CaptureFinal, CloseSource, ClearCurrent,
                  CheckCtx, Classify, Sleep, Finish, FinishClosed, Recover, RecoverClose,
                  RecoverCancel, RunReturn, FactoryOk, DeliverFrame, SessionStops, FactoryErr,
                  WaitReturns, Panic, CallClose, CallerStep, OnceDo, RecordCause, CancelRun, CallWait,
                  WaitDone, WaitCtx, CallersLeaveAlone
    <2>2. CASE StatsLock
      <3>1. reader'.answer = reader.answer
        BY <1>3, <2>2 DEF StatsLock, StatsInv, TInv, TypeOK
      <3>2. Follows(reader.answer, reader.answer)
        BY <1>3, AnswerTypes, FollowsFacts DEF StatsInv
      <3> QED BY <3>1, <3>2 DEF Follows
    <2>3. CASE StatsReturn
      <3>1. reader'.answer = Pending /\ panicked' = panicked
        BY <2>3 DEF StatsReturn, Pending, loopVars
      <3>2. ~panicked => Follows(Pending, reader.answer)
        BY <1>3 DEF StatsInv, AnswerInv
      <3> QED BY <3>1, <3>2 DEF Follows
    <2> QED BY <2>1, <2>2, <2>3
  <1> QED
    BY <1>1, <1>2, <1>3, PTL DEF Spec, StatsMonotone
=============================================================================
