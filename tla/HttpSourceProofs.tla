-------------------------- MODULE HttpSourceProofs --------------------------
(***************************************************************************)
(* Proofs about HttpSource, for every set of scenarios (what is served and *)
(* with which credentials it is asked), every set of answers, every set of *)
(* callers and every buffer and probe size.                                *)
(***************************************************************************)
EXTENDS HttpSource, FiniteSetTheorems, SequenceTheorems, TLAPS

FunnelPCs == {"once", "setTerm", "closing", "cancel"}
ProbePCs == {"sniff", "l16", "mp3", "other", "wav", "chunk", "aac"}
OpenPCs == {"start", "do", "answered", "status", "publish", "spawn", "cleanup",
            "opened", "failed"} \cup ProbePCs
TimerPCs == {"armed", "cancelOpen", "stopped"}
ReadPCs == {"loop", "absorb", "drain", "readErr", "finish"}
EndPCs == {"teardown", "join", "done"}
ReaderPCs == {"unborn"} \cup ReadPCs \cup EndPCs \cup FunnelPCs
WatchPCs == {"unborn", "watch", "exited"} \cup FunnelPCs
CallerPCs == {"idle", "waitDone", "returned"} \cup FunnelPCs
SourceCauses == {"errClosed", "ctxErr", "streamEnded", "connClosed",
                 "readTimeout", "panic"}

\* Where the goroutines are; only an opened source has any besides Open's own.
ControlInv ==
    /\ pc \in [Actors -> OpenPCs \cup TimerPCs \cup ReaderPCs \cup WatchPCs
                         \cup CallerPCs]
    /\ pc["open"] \in OpenPCs
    /\ pc["timer"] \in TimerPCs /\ pc["bridge"] \in TimerPCs
    /\ pc["reader"] \in ReaderPCs /\ pc["watchdog"] \in WatchPCs
    /\ \A c \in Callers : pc[c] \in CallerPCs
    /\ ret \in [Actors -> {"none", "returned", "waitDone", "exited", "teardown",
                           "readErr", "drain"}]
    /\ pc["reader"] \in FunnelPCs => ret["reader"] \in {"teardown", "readErr", "drain"}
    /\ pc["watchdog"] \in FunnelPCs => ret["watchdog"] = "exited"
    /\ \A c \in Callers : pc[c] \in FunnelPCs => ret[c] \in {"returned", "waitDone"}
    /\ pc["open"] # "opened" =>
          /\ pc["reader"] = "unborn" /\ pc["watchdog"] = "unborn"
          /\ \A c \in Callers : pc[c] = "idle"
    /\ scen \in Scenarios

\* initiateShutdown: the stages of the caller that won closeOnce.
FunnelInv ==
    /\ once \in Actors \cup {"free", "fired"}
    /\ cause \in [Actors -> SourceCauses \cup {NoErr}]
    /\ termErr \in SourceCauses \cup {NoErr}
    /\ \A a \in Actors :
          /\ pc[a] \in FunnelPCs => cause[a] # NoErr
          /\ pc[a] \in FunnelPCs \ {"once"} => once = a
          /\ pc[a] \in {"closing", "cancel"} => termErr # NoErr
          /\ pc[a] = "cancel" => closing
    /\ once = "fired" => closing
    /\ closing => termErr # NoErr
    /\ pc["reader"] \in EndPCs => closing

\* Who may have cancelled the request while Open runs, and what Open has told.
VerdictInv ==
    /\ pc["timer"] = "cancelOpen" => timedOut
    /\ pc["bridge"] = "cancelOpen" => ctxDone
    /\ cancelled /\ pc["open"] \notin {"opened", "failed"} => timedOut \/ ctxDone
    /\ pc["open"] \notin {"cleanup", "failed"} =>
          failedBy = "none" /\ verdict \in {"none", "ok"}
    /\ OpenVerdict

\* The answers whose bodies are open: at most the last one, which is c.body
\* from the moment Open accepts it.
BodyInv ==
    /\ try \in Nat
    /\ bodies \subseteq {try}
    /\ pc["open"] = "start" => try = 0 /\ bodies = {}
    /\ pc["open"] \notin {"start", "do", "answered"} => bodies \subseteq {body}
    /\ pc["open"] = "failed" => bodies = {} /\ (try > 0 => cancelled)
    /\ pc["reader"] \in {"join", "done"} => bodies = {}
    /\ Done => pc["watchdog"] \in {"unborn", "exited"}

\* The requests sent so far and the credentials each one carried.
SentInv ==
    /\ sent \in Seq({"bare", "basic", "digest"})
    /\ (\E i \in DOMAIN sent : sent[i] = "basic") => scen.safe
    /\ pc["open"] = "start" => Len(sent) = 0
    /\ pc["open"] = "do" =>
          /\ Len(sent) = try + 1 /\ try <= 2
          /\ try = 2 => reply.status = "401" /\ reply.stale
    /\ pc["open"] \notin {"start", "do"} => Len(sent) = try /\ try <= 3
    /\ pc["open"] = "answered" => try >= 1

\* The frames delivered so far are a sequence, of whatever frames.
DeliveredInv == \E S : delivered \in Seq(S)

-----------------------------------------------------------------------------
(* The steps of the source, one by one; what the probe and the reader do   *)
(* is summed up by what the invariants see of it.                          *)

Blamed == {"malformedWAV", "formatUnknown", "unsupported"}

\* A failure why of the probe that is reported as v.
Honest(v, why) ==
    \/ why = "server" /\ v \in Blamed
    \/ why \in Faults /\ v = OpenErr(why)
    \/ why = "eof" /\ v \in Blamed \cup {OpenErr("eof")}

ProbeEffect ==
    /\ pc["open"] \in ProbePCs
    /\ UNCHANGED <<scen, openVars, funnelVars, result, cancelled, authVars,
                   delivered, ret, cause>>
    /\ \/ \E p \in ProbePCs \cup {"publish"} : Go("open", p) /\ UNCHANGED verdictVars
       \/ Go("open", "cleanup") /\ Honest(verdict', failedBy')

ReaderEffect ==
    /\ pc["reader"] \in ReadPCs
    /\ UNCHANGED <<scen, openVars, funnelVars, cancelled, result, verdictVars,
                   authVars>>
    /\ delivered' = delivered \/ \E e : delivered' = Append(delivered, e)
    /\ \/ \E p \in ReadPCs : Goto("reader", p)
       \/ closing /\ Goto("reader", "teardown")
       \/ \E c \in SourceCauses, p \in {"teardown", "readErr", "drain"} :
             (c = "streamEnded" => p = "teardown") /\ Shutdown("reader", c, p)

NextCase ==
    \/ CtxCancel
    \/ TimerFire
    \/ BridgeFire
    \/ \E a \in {"timer", "bridge"} : CancelOpen(a)
    \/ OpenStart
    \/ Do
    \/ Answered
    \/ Status
    \/ ProbeEffect
    \/ Publish
    \/ Spawn
    \/ Cleanup
    \/ ReaderEffect
    \/ Teardown
    \/ Join
    \/ Elapse
    \/ Watchdog
    \/ \E a \in Actors : OnceDo(a) /\ UNCHANGED ownVars
    \/ \E a \in Actors : SetTerm(a) /\ UNCHANGED ownVars
    \/ \E a \in Actors : CloseClosing(a) /\ UNCHANGED ownVars
    \/ \E a \in Actors : CancelRequest(a) /\ UNCHANGED ownVars
    \/ \E c \in Closers : At("open", "opened") /\ Close(c) /\ UNCHANGED ownVars
    \/ \E w \in Waiters : At("open", "opened") /\ WaitCtx(w) /\ UNCHANGED ownVars
    \/ \E w \in Waiters : At("open", "opened") /\ WaitDone(w) /\ UNCHANGED ownVars
    \/ UNCHANGED vars

\* The actors are pairwise distinct, and none is named like closeOnce's state.
LEMMA ActorFacts ==
    /\ {"open", "timer", "bridge", "reader", "watchdog"} \subseteq Actors
    /\ Callers \subseteq Actors /\ Closers \subseteq Callers /\ Waiters \subseteq Callers
    /\ {"open", "timer", "bridge", "reader", "watchdog"} \cap Callers = {}
    /\ Actors = {"open", "timer", "bridge", "reader", "watchdog"} \cup Callers
    /\ "free" \notin Actors /\ "fired" \notin Actors
  BY LifecycleAssumption, HttpAssumption DEF Actors, Callers

\* A step of the format probe either goes on or fails honestly.
LEMMA ProbeSteps ==
    ASSUME \/ SetupSniff \/ SetupL16 \/ SetupMP3 \/ Unsupported \/ RiffHeader
           \/ Chunk \/ SkipID3 \/ SetupAAC
    PROVE  ProbeEffect
  <1> USE DEF ProbeEffect, ProbeStep, OpenStep, At, Goto, Go, Adopt, Fail, KeepProbe,
              ProbePCs, verdictVars, authVars, openVars, funnelVars
  <1>1. ASSUME NEW v \in Blamed, NEW ends, HeaderFault(v, ends)
        PROVE  Go("open", "cleanup") /\ UNCHANGED <<ret, cause>> /\ Honest(verdict', failedBy')
    BY <1>1 DEF HeaderFault, HeaderErr, Honest, Faults
  <1>2. ASSUME SetupRaw
        PROVE  /\ UNCHANGED <<ret, cause>>
               /\ \/ Go("open", "publish") /\ UNCHANGED verdictVars
                  \/ Go("open", "cleanup") /\ Honest(verdict', failedBy')
    BY <1>2 DEF SetupRaw, Honest, Blamed
  <1>3. CASE SetupSniff
    BY <1>1, <1>2, <1>3 DEF SetupSniff, Honest, Blamed
  <1>4. CASE SetupL16
    BY <1>2, <1>4 DEF SetupL16
  <1>5. CASE SetupMP3
    BY <1>5 DEF SetupMP3
  <1>6. CASE Unsupported
    BY <1>6 DEF Unsupported, Honest, Blamed
  <1>7. CASE RiffHeader
    BY <1>1, <1>7 DEF RiffHeader, Honest, Blamed
  <1>8. CASE Chunk
    BY <1>1, <1>8 DEF Chunk, FmtVerdict, Honest, Blamed
  <1>9. CASE SkipID3
    BY <1>1, <1>9 DEF SkipID3, Honest, Blamed
  <1>10. CASE SetupAAC
    BY <1>1, <1>10 DEF SetupAAC, HeaderErr, Honest, Blamed
  <1> QED BY <1>3, <1>4, <1>5, <1>6, <1>7, <1>8, <1>9, <1>10

\* A step of the reader's loop reads, delivers or calls initiateShutdown.
LEMMA ReaderSteps ==
    ASSUME FunnelInv, \/ LoopClosing \/ DataEnd \/ Read \/ Absorb \/ Drain \/ ReadErr
                      \/ FinishStream
    PROVE  ReaderEffect
  <1> USE DEF ReaderEffect, ReaderStep, At, Goto, ReadPCs, SourceCauses, verdictVars,
              authVars, openVars, funnelVars, readVars
  <1>1. CASE LoopClosing
    BY <1>1 DEF LoopClosing
  <1>2. CASE DataEnd
    BY <1>2 DEF DataEnd
  <1>3. CASE Read
    BY <1>3 DEF Read
  <1>4. CASE Absorb
    BY <1>4 DEF Absorb, Emit
  <1>5. CASE Drain
    BY <1>5 DEF Drain, Emit
  <1>6. CASE ReadErr
    BY <1>6 DEF ReadErr, ReadCause, FunnelInv
  <1>7. CASE FinishStream
    BY <1>7 DEF FinishStream
  <1> QED BY <1>1, <1>2, <1>3, <1>4, <1>5, <1>6, <1>7

\* Every step is one of NextCase.
LEMMA NextCases == FunnelInv /\ [Next]_vars => NextCase
  <1>1. OpenPhase => NextCase
    BY ProbeSteps DEF OpenPhase, Open, NextCase
  <1>2. FunnelInv /\ Reader => NextCase
    BY ReaderSteps DEF Reader, NextCase
  <1>3. Shutdowns => NextCase
    BY DEF Shutdowns, Funnel, NextCase
  <1>4. ApiCalls => NextCase
    BY DEF ApiCalls, Calls, NextCase
  <1> QED BY <1>1, <1>2, <1>3, <1>4 DEF Next, Terminated, NextCase

\* Every goroutine stays in its own program.
LEMMA ControlStep ==
    ASSUME ControlInv, FunnelInv, NextCase
    PROVE  ControlInv'
  <1> USE ActorFacts
      DEF At, Go, Goto, Shutdown, funnelVars, callVars, lifecycleVars,
          openVars, authVars, verdictVars, probeVars, readVars, ownVars,
          ControlInv, FunnelPCs, ProbePCs, OpenPCs, TimerPCs, ReadPCs,
          EndPCs, ReaderPCs, WatchPCs, CallerPCs
  <1>1. CASE CtxCancel
    BY <1>1 DEF CtxCancel, Opening
  <1>2. CASE TimerFire
    BY <1>2 DEF TimerFire, Opening
  <1>3. CASE BridgeFire
    BY <1>3 DEF BridgeFire, Opening
  <1>4. CASE \E a \in {"timer", "bridge"} : CancelOpen(a)
    BY <1>4 DEF CancelOpen
  <1>5. CASE OpenStart
    BY <1>5 DEF OpenStart, OpenStep
  <1>6. CASE Do
    BY <1>6 DEF Do, OpenStep, Fail, Supersede
  <1>7. CASE Answered
    BY <1>7 DEF Answered, OpenStep, Fail
  <1>8. CASE Status
    <2>1. pc["open"] = "status" /\ UNCHANGED <<cancelled, result, ret, cause>>
      BY <1>8 DEF Status, OpenStep, Fail
    <2>2. \E p \in ProbePCs \cup {"cleanup"} : pc' = [pc EXCEPT !["open"] = p]
      <3>1. scen.type \in ProbePCs
        BY HttpAssumption DEF ScenarioType
      <3> QED BY <1>8, <3>1 DEF Status, Fail
    <2> QED BY <1>8, <2>1, <2>2 DEF Status, OpenStep
  <1>9. CASE ProbeEffect
    <2> PICK p \in ProbePCs \cup {"publish", "cleanup"} : pc' = [pc EXCEPT !["open"] = p]
      BY <1>9 DEF ProbeEffect
    <2>1. p # "opened" /\ pc["open"] # "opened"
      BY <1>9 DEF ProbeEffect
    <2> QED BY <1>9, <2>1 DEF ProbeEffect
  <1>10. CASE Publish
    BY <1>10 DEF Publish
  <1>11. CASE Spawn
    BY <1>11 DEF Spawn, OpenStep
  <1>12. CASE Cleanup
    BY <1>12 DEF Cleanup, OpenStep
  <1>13. CASE ReaderEffect
    BY <1>13 DEF ReaderEffect
  <1>14. CASE Teardown
    BY <1>14 DEF Teardown, ReaderStep
  <1>15. CASE Join
    BY <1>15 DEF Join, ReaderStep
  <1>16. CASE Elapse
    BY <1>16 DEF Elapse
  <1>17. CASE Watchdog
    BY <1>17 DEF Watchdog
  <1>18. CASE \E a \in Actors : OnceDo(a) /\ UNCHANGED ownVars
    BY <1>18 DEF OnceDo
  <1>19. CASE \E a \in Actors : SetTerm(a) /\ UNCHANGED ownVars
    BY <1>19 DEF SetTerm
  <1>20. CASE \E a \in Actors : CloseClosing(a) /\ UNCHANGED ownVars
    BY <1>20 DEF CloseClosing
  <1>21. CASE \E a \in Actors : CancelRequest(a) /\ UNCHANGED ownVars
    BY <1>21 DEF CancelRequest
  <1>22. CASE \E c \in Closers : At("open", "opened") /\ Close(c) /\ UNCHANGED ownVars
    BY <1>22 DEF Close
  <1>23. CASE \E w \in Waiters : At("open", "opened") /\ WaitCtx(w) /\ UNCHANGED ownVars
    BY <1>23 DEF WaitCtx
  <1>24. CASE \E w \in Waiters : At("open", "opened") /\ WaitDone(w) /\ UNCHANGED ownVars
    BY <1>24 DEF WaitDone
  <1>25. CASE UNCHANGED vars
    BY <1>25 DEF vars
  <1> QED
    BY <1>1, <1>2, <1>3, <1>4, <1>5, <1>6, <1>7, <1>8, <1>9, <1>10, <1>11,
       <1>12, <1>13, <1>14, <1>15, <1>16, <1>17, <1>18, <1>19, <1>20, <1>21,
       <1>22, <1>23, <1>24, <1>25 DEF NextCase

\* One caller at a time is inside closeOnce, and each stage leaves its mark.
LEMMA FunnelStep ==
    ASSUME ControlInv, FunnelInv, NextCase
    PROVE  FunnelInv'
  <1> USE ActorFacts
      DEF At, Go, Goto, Shutdown, funnelVars, callVars, lifecycleVars,
          openVars, authVars, verdictVars, probeVars, readVars, ownVars,
          ControlInv, FunnelPCs, ProbePCs, OpenPCs, TimerPCs, ReadPCs,
          EndPCs, ReaderPCs, WatchPCs, CallerPCs, FunnelInv
  <1>1. CASE CtxCancel
    BY <1>1 DEF CtxCancel, Opening
  <1>2. CASE TimerFire
    BY <1>2 DEF TimerFire, Opening
  <1>3. CASE BridgeFire
    BY <1>3 DEF BridgeFire, Opening
  <1>4. CASE \E a \in {"timer", "bridge"} : CancelOpen(a)
    BY <1>4 DEF CancelOpen
  <1>5. CASE OpenStart
    BY <1>5 DEF OpenStart, OpenStep
  <1>6. CASE Do
    BY <1>6 DEF Do, OpenStep, Fail, Supersede
  <1>7. CASE Answered
    BY <1>7 DEF Answered, OpenStep, Fail
  <1>8. CASE Status
    <2>1. pc["open"] = "status" /\ UNCHANGED <<cancelled, result, ret, cause>>
      BY <1>8 DEF Status, OpenStep, Fail
    <2>2. \E p \in ProbePCs \cup {"cleanup"} : pc' = [pc EXCEPT !["open"] = p]
      <3>1. scen.type \in ProbePCs
        BY HttpAssumption DEF ScenarioType
      <3> QED BY <1>8, <3>1 DEF Status, Fail
    <2> QED BY <1>8, <2>1, <2>2 DEF Status, OpenStep
  <1>9. CASE ProbeEffect
    BY <1>9 DEF ProbeEffect, Honest, Blamed
  <1>10. CASE Publish
    BY <1>10 DEF Publish
  <1>11. CASE Spawn
    BY <1>11 DEF Spawn, OpenStep
  <1>12. CASE Cleanup
    BY <1>12 DEF Cleanup, OpenStep
  <1>13. CASE ReaderEffect
    BY <1>13 DEF ReaderEffect, SourceCauses, NoErr
  <1>14. CASE Teardown
    BY <1>14 DEF Teardown, ReaderStep
  <1>15. CASE Join
    BY <1>15 DEF Join, ReaderStep
  <1>16. CASE Elapse
    BY <1>16 DEF Elapse
  <1>17. CASE Watchdog
    BY <1>17 DEF Watchdog, SourceCauses, NoErr
  <1>18. CASE \E a \in Actors : OnceDo(a) /\ UNCHANGED ownVars
    BY <1>18 DEF OnceDo
  <1>19. CASE \E a \in Actors : SetTerm(a) /\ UNCHANGED ownVars
    BY <1>19 DEF SetTerm, SourceCauses, NoErr
  <1>20. CASE \E a \in Actors : CloseClosing(a) /\ UNCHANGED ownVars
    BY <1>20 DEF CloseClosing
  <1>21. CASE \E a \in Actors : CancelRequest(a) /\ UNCHANGED ownVars
    BY <1>21 DEF CancelRequest
  <1>22. CASE \E c \in Closers : At("open", "opened") /\ Close(c) /\ UNCHANGED ownVars
    BY <1>22 DEF Close, SourceCauses, NoErr
  <1>23. CASE \E w \in Waiters : At("open", "opened") /\ WaitCtx(w) /\ UNCHANGED ownVars
    BY <1>23 DEF WaitCtx, SourceCauses, NoErr
  <1>24. CASE \E w \in Waiters : At("open", "opened") /\ WaitDone(w) /\ UNCHANGED ownVars
    BY <1>24 DEF WaitDone
  <1>25. CASE UNCHANGED vars
    BY <1>25 DEF vars
  <1> QED
    BY <1>1, <1>2, <1>3, <1>4, <1>5, <1>6, <1>7, <1>8, <1>9, <1>10, <1>11,
       <1>12, <1>13, <1>14, <1>15, <1>16, <1>17, <1>18, <1>19, <1>20, <1>21,
       <1>22, <1>23, <1>24, <1>25 DEF NextCase

\* The open phase is cancelled only by its timer or its context, which leave
\* their flags before they cancel.
LEMMA VerdictStep ==
    ASSUME ControlInv, VerdictInv, NextCase
    PROVE  VerdictInv'
  <1> USE ActorFacts
      DEF At, Go, Goto, Shutdown, funnelVars, callVars, lifecycleVars,
          openVars, authVars, verdictVars, probeVars, readVars, ownVars,
          ControlInv, FunnelPCs, ProbePCs, OpenPCs, TimerPCs, ReadPCs,
          EndPCs, ReaderPCs, WatchPCs, CallerPCs, VerdictInv, OpenVerdict
  <1>1. CASE CtxCancel
    BY <1>1 DEF CtxCancel, Opening
  <1>2. CASE TimerFire
    BY <1>2 DEF TimerFire, Opening
  <1>3. CASE BridgeFire
    BY <1>3 DEF BridgeFire, Opening
  <1>4. CASE \E a \in {"timer", "bridge"} : CancelOpen(a)
    BY <1>4 DEF CancelOpen
  <1>5. CASE OpenStart
    BY <1>5 DEF OpenStart, OpenStep
  <1>6. CASE Do
    BY <1>6 DEF Do, OpenStep, Fail, Supersede, OpenErr, Faults
  <1>7. CASE Answered
    BY <1>7 DEF Answered, OpenStep, Fail
  <1>8. CASE Status
    <2>1. pc["open"] = "status" /\ UNCHANGED <<cancelled, result, ret, cause>>
      BY <1>8 DEF Status, OpenStep, Fail
    <2>2. \E p \in ProbePCs \cup {"cleanup"} : pc' = [pc EXCEPT !["open"] = p]
      <3>1. scen.type \in ProbePCs
        BY HttpAssumption DEF ScenarioType
      <3> QED BY <1>8, <3>1 DEF Status, Fail
    <2> QED BY <1>8, <2>1, <2>2 DEF Status, OpenStep, Fail
  <1>9. CASE ProbeEffect
    BY <1>9 DEF ProbeEffect, Honest, Blamed, OpenErr, Faults
  <1>10. CASE Publish
    BY <1>10 DEF Publish
  <1>11. CASE Spawn
    BY <1>11 DEF Spawn, OpenStep
  <1>12. CASE Cleanup
    BY <1>12 DEF Cleanup, OpenStep
  <1>13. CASE ReaderEffect
    BY <1>13 DEF ReaderEffect
  <1>14. CASE Teardown
    BY <1>14 DEF Teardown, ReaderStep
  <1>15. CASE Join
    BY <1>15 DEF Join, ReaderStep
  <1>16. CASE Elapse
    BY <1>16 DEF Elapse
  <1>17. CASE Watchdog
    BY <1>17 DEF Watchdog
  <1>18. CASE \E a \in Actors : OnceDo(a) /\ UNCHANGED ownVars
    BY <1>18 DEF OnceDo
  <1>19. CASE \E a \in Actors : SetTerm(a) /\ UNCHANGED ownVars
    BY <1>19 DEF SetTerm
  <1>20. CASE \E a \in Actors : CloseClosing(a) /\ UNCHANGED ownVars
    BY <1>20 DEF CloseClosing
  <1>21. CASE \E a \in Actors : CancelRequest(a) /\ UNCHANGED ownVars
    BY <1>21 DEF CancelRequest
  <1>22. CASE \E c \in Closers : At("open", "opened") /\ Close(c) /\ UNCHANGED ownVars
    BY <1>22 DEF Close
  <1>23. CASE \E w \in Waiters : At("open", "opened") /\ WaitCtx(w) /\ UNCHANGED ownVars
    BY <1>23 DEF WaitCtx
  <1>24. CASE \E w \in Waiters : At("open", "opened") /\ WaitDone(w) /\ UNCHANGED ownVars
    BY <1>24 DEF WaitDone
  <1>25. CASE UNCHANGED vars
    BY <1>25 DEF vars
  <1> QED
    BY <1>1, <1>2, <1>3, <1>4, <1>5, <1>6, <1>7, <1>8, <1>9, <1>10, <1>11,
       <1>12, <1>13, <1>14, <1>15, <1>16, <1>17, <1>18, <1>19, <1>20, <1>21,
       <1>22, <1>23, <1>24, <1>25 DEF NextCase

\* A body is closed by the retry that supersedes it, by a failing Open, or by
\* the reader.
LEMMA BodyStep ==
    ASSUME ControlInv, BodyInv, NextCase
    PROVE  BodyInv'
  <1> USE ActorFacts
      DEF At, Go, Goto, Shutdown, funnelVars, callVars, lifecycleVars,
          openVars, authVars, verdictVars, probeVars, readVars, ownVars,
          ControlInv, FunnelPCs, ProbePCs, OpenPCs, TimerPCs, ReadPCs,
          EndPCs, ReaderPCs, WatchPCs, CallerPCs, BodyInv, Done
  <1>1. CASE CtxCancel
    BY <1>1 DEF CtxCancel, Opening
  <1>2. CASE TimerFire
    BY <1>2 DEF TimerFire, Opening
  <1>3. CASE BridgeFire
    BY <1>3 DEF BridgeFire, Opening
  <1>4. CASE \E a \in {"timer", "bridge"} : CancelOpen(a)
    <2>1. /\ pc'["open"] = pc["open"] /\ pc'["reader"] = pc["reader"]
          /\ pc'["watchdog"] = pc["watchdog"]
      BY <1>4 DEF CancelOpen
    <2>2. UNCHANGED <<try, bodies, body>> /\ (cancelled => cancelled')
      BY <1>4 DEF CancelOpen
    <2> HIDE DEF ControlInv
    <2> QED BY <2>1, <2>2
  <1>5. CASE OpenStart
    <2>1. /\ pc["open"] = "start" /\ UNCHANGED <<try, bodies, body>>
          /\ pc'["open"] \in {"failed", "do"} /\ pc'["reader"] = pc["reader"]
          /\ pc'["watchdog"] = pc["watchdog"]
      BY <1>5 DEF OpenStart, OpenStep
    <2> HIDE DEF ControlInv
    <2> QED BY <2>1
  <1>6. CASE Do
    <2>1. /\ pc["open"] = "do" /\ try' = try + 1
          /\ pc'["reader"] = pc["reader"] /\ pc'["watchdog"] = pc["watchdog"]
          /\ pc["reader"] = "unborn" /\ pc["watchdog"] = "unborn"
      BY <1>6 DEF Do, OpenStep, Fail
    <2>2. \/ pc'["open"] = "answered" /\ bodies' = {try + 1}
          \/ pc'["open"] = "cleanup" /\ bodies' = {}
      BY <1>6 DEF Do, OpenStep, Fail, Supersede
    <2> HIDE DEF ControlInv
    <2> QED BY <2>1, <2>2
  <1>7. CASE Answered
    <2>1. /\ pc["open"] = "answered" /\ try' = try
          /\ pc'["reader"] = pc["reader"] /\ pc'["watchdog"] = pc["watchdog"]
          /\ pc["reader"] = "unborn" /\ pc["watchdog"] = "unborn"
      BY <1>7 DEF Answered, OpenStep, Fail
    <2>2. \/ pc'["open"] = "do" /\ bodies' = bodies
          \/ pc'["open"] = "cleanup" /\ bodies' = bodies \ {try}
          \/ pc'["open"] = "status" /\ bodies' = bodies /\ body' = try
      BY <1>7 DEF Answered, Fail
    <2> HIDE DEF ControlInv
    <2> QED BY <2>1, <2>2
  <1>8. CASE Status
    <2>1. pc["open"] = "status" /\ UNCHANGED <<cancelled, result, ret, cause>>
      BY <1>8 DEF Status, OpenStep, Fail
    <2>2. \E p \in ProbePCs \cup {"cleanup"} : pc' = [pc EXCEPT !["open"] = p]
      <3>1. scen.type \in ProbePCs
        BY HttpAssumption DEF ScenarioType
      <3> QED BY <1>8, <3>1 DEF Status, Fail
    <2> QED BY <1>8, <2>1, <2>2 DEF Status, OpenStep
  <1>9. CASE ProbeEffect
    BY <1>9 DEF ProbeEffect, Honest, Blamed
  <1>10. CASE Publish
    BY <1>10 DEF Publish
  <1>11. CASE Spawn
    BY <1>11 DEF Spawn, OpenStep
  <1>12. CASE Cleanup
    BY <1>12 DEF Cleanup, OpenStep
  <1>13. CASE ReaderEffect
    BY <1>13 DEF ReaderEffect
  <1>14. CASE Teardown
    BY <1>14 DEF Teardown, ReaderStep
  <1>15. CASE Join
    BY <1>15 DEF Join, ReaderStep
  <1>16. CASE Elapse
    BY <1>16 DEF Elapse
  <1>17. CASE Watchdog
    BY <1>17 DEF Watchdog
  <1>18. CASE \E a \in Actors : OnceDo(a) /\ UNCHANGED ownVars
    BY <1>18 DEF OnceDo
  <1>19. CASE \E a \in Actors : SetTerm(a) /\ UNCHANGED ownVars
    BY <1>19 DEF SetTerm
  <1>20. CASE \E a \in Actors : CloseClosing(a) /\ UNCHANGED ownVars
    BY <1>20 DEF CloseClosing
  <1>21. CASE \E a \in Actors : CancelRequest(a) /\ UNCHANGED ownVars
    BY <1>21 DEF CancelRequest
  <1>22. CASE \E c \in Closers : At("open", "opened") /\ Close(c) /\ UNCHANGED ownVars
    BY <1>22 DEF Close
  <1>23. CASE \E w \in Waiters : At("open", "opened") /\ WaitCtx(w) /\ UNCHANGED ownVars
    BY <1>23 DEF WaitCtx
  <1>24. CASE \E w \in Waiters : At("open", "opened") /\ WaitDone(w) /\ UNCHANGED ownVars
    BY <1>24 DEF WaitDone
  <1>25. CASE UNCHANGED vars
    BY <1>25 DEF vars
  <1> QED
    BY <1>1, <1>2, <1>3, <1>4, <1>5, <1>6, <1>7, <1>8, <1>9, <1>10, <1>11,
       <1>12, <1>13, <1>14, <1>15, <1>16, <1>17, <1>18, <1>19, <1>20, <1>21,
       <1>22, <1>23, <1>24, <1>25 DEF NextCase

\* A retry is answered at most twice.
LEMMA SentStep ==
    ASSUME ControlInv, BodyInv, SentInv, NextCase
    PROVE  SentInv'
  <1> USE ActorFacts
      DEF At, Go, Goto, Shutdown, funnelVars, callVars, lifecycleVars,
          openVars, authVars, verdictVars, probeVars, readVars, ownVars,
          ControlInv, FunnelPCs, ProbePCs, OpenPCs, TimerPCs, ReadPCs,
          EndPCs, ReaderPCs, WatchPCs, CallerPCs, SentInv
  <1>1. CASE CtxCancel
    BY <1>1 DEF CtxCancel, Opening
  <1>2. CASE TimerFire
    BY <1>2 DEF TimerFire, Opening
  <1>3. CASE BridgeFire
    BY <1>3 DEF BridgeFire, Opening
  <1>4. CASE \E a \in {"timer", "bridge"} : CancelOpen(a)
    BY <1>4 DEF CancelOpen
  <1>5. CASE OpenStart
    <2>1. /\ pc["open"] = "start" /\ UNCHANGED <<try, scen, reply>> /\ try = 0
          /\ \/ pc'["open"] = "failed" /\ sent' = sent
             \/ /\ pc'["open"] = "do"
                /\ sent' = <<IF scen.creds /\ scen.safe THEN "basic" ELSE "bare">>
      BY <1>5 DEF OpenStart, OpenStep, BodyInv
    <2> HIDE DEF ControlInv
    <2>2. CASE sent' = sent /\ pc'["open"] = "failed"
      BY <2>1, <2>2
    <2>3. CASE pc'["open"] = "do" /\ sent' = <<"basic">> /\ scen.safe
      BY <2>1, <2>3
    <2>4. CASE pc'["open"] = "do" /\ sent' = <<"bare">>
      BY <2>1, <2>4
    <2> QED BY <2>1, <2>2, <2>3, <2>4
  <1>6. CASE Do
    <2>1. /\ pc["open"] = "do" /\ try' = try + 1 /\ UNCHANGED <<sent, scen>>
          /\ pc'["open"] \in {"answered", "cleanup"} /\ try \in Nat
      BY <1>6 DEF Do, OpenStep, Fail, BodyInv
    <2> HIDE DEF ControlInv
    <2>2. Len(sent') = try' /\ try' <= 3 /\ try' >= 1
      BY <2>1
    <2> QED BY <2>1, <2>2
  <1>7. CASE Answered
    BY <1>7 DEF Answered, OpenStep, Fail, MayRetry
  <1>8. CASE Status
    <2>1. pc["open"] = "status" /\ UNCHANGED <<cancelled, result, ret, cause>>
      BY <1>8 DEF Status, OpenStep, Fail
    <2>2. \E p \in ProbePCs \cup {"cleanup"} : pc' = [pc EXCEPT !["open"] = p]
      <3>1. scen.type \in ProbePCs
        BY HttpAssumption DEF ScenarioType
      <3> QED BY <1>8, <3>1 DEF Status, Fail
    <2> QED BY <1>8, <2>1, <2>2 DEF Status, OpenStep
  <1>9. CASE ProbeEffect
    BY <1>9 DEF ProbeEffect, Honest, Blamed
  <1>10. CASE Publish
    BY <1>10 DEF Publish
  <1>11. CASE Spawn
    BY <1>11 DEF Spawn, OpenStep
  <1>12. CASE Cleanup
    BY <1>12 DEF Cleanup, OpenStep
  <1>13. CASE ReaderEffect
    BY <1>13 DEF ReaderEffect
  <1>14. CASE Teardown
    BY <1>14 DEF Teardown, ReaderStep
  <1>15. CASE Join
    BY <1>15 DEF Join, ReaderStep
  <1>16. CASE Elapse
    BY <1>16 DEF Elapse
  <1>17. CASE Watchdog
    BY <1>17 DEF Watchdog
  <1>18. CASE \E a \in Actors : OnceDo(a) /\ UNCHANGED ownVars
    BY <1>18 DEF OnceDo
  <1>19. CASE \E a \in Actors : SetTerm(a) /\ UNCHANGED ownVars
    BY <1>19 DEF SetTerm
  <1>20. CASE \E a \in Actors : CloseClosing(a) /\ UNCHANGED ownVars
    BY <1>20 DEF CloseClosing
  <1>21. CASE \E a \in Actors : CancelRequest(a) /\ UNCHANGED ownVars
    BY <1>21 DEF CancelRequest
  <1>22. CASE \E c \in Closers : At("open", "opened") /\ Close(c) /\ UNCHANGED ownVars
    BY <1>22 DEF Close
  <1>23. CASE \E w \in Waiters : At("open", "opened") /\ WaitCtx(w) /\ UNCHANGED ownVars
    BY <1>23 DEF WaitCtx
  <1>24. CASE \E w \in Waiters : At("open", "opened") /\ WaitDone(w) /\ UNCHANGED ownVars
    BY <1>24 DEF WaitDone
  <1>25. CASE UNCHANGED vars
    BY <1>25 DEF vars
  <1> QED
    BY <1>1, <1>2, <1>3, <1>4, <1>5, <1>6, <1>7, <1>8, <1>9, <1>10, <1>11,
       <1>12, <1>13, <1>14, <1>15, <1>16, <1>17, <1>18, <1>19, <1>20, <1>21,
       <1>22, <1>23, <1>24, <1>25 DEF NextCase

\* What the Source interface shows of the source, and the delivery of a frame.
Invisible == UNCHANGED <<termErr, Done, delivered, result>>
Delivers ==
    /\ \E e : delivered' = Append(delivered, e)
    /\ ~Done /\ ~Done' /\ UNCHANGED <<termErr, result>>
Visible ==
    \/ Delivers
    \/ /\ UNCHANGED delivered
       /\ \/ \E c \in SourceCauses : Contract!EndWith(c)
          \/ Contract!Finish
          \/ \E w \in Waiters : Contract!Wait(w)

\* The steps a user of the Source interface can see.
LEMMA VisibleStep ==
    ASSUME ControlInv, FunnelInv, NextCase
    PROVE  Invisible \/ Visible
  <1> USE ActorFacts
      DEF At, Go, Goto, Shutdown, funnelVars, callVars, lifecycleVars,
          openVars, authVars, verdictVars, probeVars, readVars, ownVars,
          ControlInv, FunnelPCs, ProbePCs, OpenPCs, TimerPCs, ReadPCs,
          EndPCs, ReaderPCs, WatchPCs, CallerPCs, Invisible, Done
  <1>1. CASE CtxCancel
    BY <1>1 DEF CtxCancel, Opening
  <1>2. CASE TimerFire
    BY <1>2 DEF TimerFire, Opening
  <1>3. CASE BridgeFire
    BY <1>3 DEF BridgeFire, Opening
  <1>4. CASE \E a \in {"timer", "bridge"} : CancelOpen(a)
    BY <1>4 DEF CancelOpen
  <1>5. CASE OpenStart
    BY <1>5 DEF OpenStart, OpenStep
  <1>6. CASE Do
    BY <1>6 DEF Do, OpenStep, Fail, Supersede
  <1>7. CASE Answered
    BY <1>7 DEF Answered, OpenStep, Fail
  <1>8. CASE Status
    <2>1. UNCHANGED <<termErr, delivered, result>>
      BY <1>8 DEF Status, OpenStep
    <2>2. Done' = Done
      BY <1>8 DEF Status, Fail
    <2> QED BY <2>1, <2>2
  <1>9. CASE ProbeEffect
    BY <1>9 DEF ProbeEffect, Honest, Blamed
  <1>10. CASE Publish
    BY <1>10 DEF Publish
  <1>11. CASE Spawn
    BY <1>11 DEF Spawn, OpenStep
  <1>12. CASE Cleanup
    BY <1>12 DEF Cleanup, OpenStep
  <1>13. CASE ReaderEffect
    <2>1. ~Done /\ ~Done' /\ UNCHANGED <<termErr, result>>
      BY <1>13 DEF ReaderEffect
    <2>2. delivered' = delivered \/ \E e : delivered' = Append(delivered, e)
      BY <1>13 DEF ReaderEffect
    <2> QED BY <2>1, <2>2 DEF Visible, Delivers
  <1>14. CASE Teardown
    BY <1>14 DEF Teardown, ReaderStep
  <1>15. CASE Join
    <2>1. Contract!Finish /\ UNCHANGED delivered
      BY <1>15 DEF Join, ReaderStep, Contract!Finish, FunnelInv
    <2> QED BY <2>1 DEF Visible
  <1>16. CASE Elapse
    BY <1>16 DEF Elapse
  <1>17. CASE Watchdog
    BY <1>17 DEF Watchdog
  <1>18. CASE \E a \in Actors : OnceDo(a) /\ UNCHANGED ownVars
    BY <1>18 DEF OnceDo
  <1>19. CASE \E a \in Actors : SetTerm(a) /\ UNCHANGED ownVars
    <2> PICK a \in Actors : SetTerm(a) /\ UNCHANGED ownVars
      BY <1>19
    <2>1. UNCHANGED <<Done, delivered, result>> /\ cause[a] \in SourceCauses
      BY DEF SetTerm, FunnelInv
    <2>2. CASE termErr = NoErr
      <3>1. Contract!EndWith(cause[a])
        BY <2>1, <2>2 DEF SetTerm, Contract!EndWith
      <3> QED BY <2>1, <3>1 DEF Visible
    <2>3. CASE termErr # NoErr
      BY <2>1, <2>3 DEF SetTerm
    <2> QED BY <2>2, <2>3
  <1>20. CASE \E a \in Actors : CloseClosing(a) /\ UNCHANGED ownVars
    BY <1>20 DEF CloseClosing
  <1>21. CASE \E a \in Actors : CancelRequest(a) /\ UNCHANGED ownVars
    BY <1>21 DEF CancelRequest
  <1>22. CASE \E c \in Closers : At("open", "opened") /\ Close(c) /\ UNCHANGED ownVars
    BY <1>22 DEF Close
  <1>23. CASE \E w \in Waiters : At("open", "opened") /\ WaitCtx(w) /\ UNCHANGED ownVars
    BY <1>23 DEF WaitCtx
  <1>24. CASE \E w \in Waiters : At("open", "opened") /\ WaitDone(w) /\ UNCHANGED ownVars
    <2> PICK w \in Waiters : WaitDone(w) /\ UNCHANGED ownVars
      BY <1>24
    <2>1. Contract!Wait(w) /\ UNCHANGED delivered
      BY DEF WaitDone, Contract!Wait
    <2> QED BY <2>1 DEF Visible
  <1>25. CASE UNCHANGED vars
    BY <1>25 DEF vars
  <1> QED
    BY <1>1, <1>2, <1>3, <1>4, <1>5, <1>6, <1>7, <1>8, <1>9, <1>10, <1>11,
       <1>12, <1>13, <1>14, <1>15, <1>16, <1>17, <1>18, <1>19, <1>20, <1>21,
       <1>22, <1>23, <1>24, <1>25 DEF NextCase

\* Appending a frame makes the record of them one longer.
LEMMA AppendFrame ==
    ASSUME DeliveredInv, NEW e, delivered' = Append(delivered, e)
    PROVE  DeliveredInv' /\ Len(delivered') = Len(delivered) + 1 /\ Len(delivered') \in Nat
  <1> PICK S : delivered \in Seq(S)
    BY DEF DeliveredInv
  <1> DEFINE T == S \cup {e}
  <1>1. delivered \in Seq(T) /\ e \in T
    BY SeqMonotonic
  <1> HIDE DEF T
  <1>2. /\ Append(delivered, e) \in Seq(T)
        /\ Len(Append(delivered, e)) = Len(delivered) + 1
    BY <1>1, AppendProperties
  <1>3. Len(delivered') \in Nat
    BY <1>2, LenProperties
  <1> QED BY <1>2, <1>3 DEF DeliveredInv

-----------------------------------------------------------------------------
(* The framers: what one iteration of next / NextFrame does to a body.     *)

FramerState == [off : Nat, skip : Nat, synced : BOOLEAN, ended : BOOLEAN, gaps : Nat]

\* Between two positions there is no frame that has to be delivered.
NoneMissed(codec_, cells, lo, hi) ==
    \A p \in (lo + 1)..hi : ~MustDeliver(codec_, cells, p)

\* The framer went from s to t past cells of which none is a frame it owes; if
\* it counted no gap they are cells of tags.
Passes(codec_, cells, s, t) ==
    /\ t \in FramerState /\ s.off <= t.off /\ t.ended = s.ended
    /\ NoneMissed(codec_, cells, s.off, t.off)
    /\ t.gaps = 0 =>
          s.gaps = 0 /\ \A p \in (s.off + 1)..t.off : InTag(cells, p)

\* The framer went from s to t and returned the frame that ends at t.off.
Returns(codec_, cells, s, t) ==
    /\ t \in FramerState /\ s.off + FrameLen <= t.off /\ t.ended = s.ended
    /\ HeaderAt(cells, t.off - FrameLen + 1)
    /\ codec_ = "aac" => cells[t.off - FrameLen + 1] # "m"
    /\ \A p \in (s.off + 1)..t.off :
          MustDeliver(codec_, cells, p) => p = t.off - FrameLen + 1
    /\ t.gaps = 0 =>
          s.gaps = 0 /\ \A p \in (s.off + 1)..(t.off - FrameLen) : InTag(cells, p)

\* What is left to skip lies inside a tag, and only the MP3 framer skips.
SkipsTag(codec_, cells, s) ==
    s.skip > 0 =>
        /\ codec_ = "mp3"
        /\ \E q \in DOMAIN cells :
              /\ cells[q] \in {"t", "T"}
              /\ q <= s.off + 1 /\ s.off + s.skip < q + TagLen

\* One iteration from s on the first n cells, with the outcome r.
Iterates(codec_, cells, s, n, r) ==
    /\ \/ r.st = "frame" /\ Returns(codec_, cells, s, r.s)
       \/ r.st \in {"again", "wait"} /\ Passes(codec_, cells, s, r.s)
    /\ r.s.off <= n
    /\ SkipsTag(codec_, cells, r.s)
    /\ r.st = "wait" /\ s.ended /\ n = Len(cells) =>
          NoneMissed(codec_, cells, r.s.off, n)

\* The header and the frame take at least a cell.
LEMMA SizeFacts ==
    /\ HeaderLen \in Nat /\ FrameLen \in Nat /\ TagLen \in Nat
    /\ HeaderLen >= 1 /\ FrameLen >= 1 /\ TagLen >= 1
    /\ HeaderLen <= FrameLen /\ HeaderLen <= TagLen
  BY FramerAssumption

\* A frame that has to be delivered starts with a header, is whole and is
\* followed by a header that agrees.
LEMMA MustFacts ==
    ASSUME NEW codec_, NEW cells, NEW p, MustDeliver(codec_, cells, p)
    PROVE  /\ p \in DOMAIN cells /\ cells[p] \in Headers
           /\ codec_ = "aac" => cells[p] # "m"
           /\ p + FrameLen + HeaderLen <= Len(cells) + 1
           /\ Consistent(cells, p)
  BY DEF MustDeliver, HeaderAt

\* It does not start inside another frame.
LEMMA FrameHides ==
    ASSUME NEW codec_, NEW cells, NEW q \in DOMAIN cells, cells[q] \in Headers,
           NEW p, q < p, p < q + FrameLen
    PROVE  ~MustDeliver(codec_, cells, p)
  BY DEF MustDeliver, Exposed

\* Nor does it start inside a tag.
LEMMA TagHides ==
    ASSUME NEW codec_, NEW cells \in Seq(Cells), NEW p \in Nat, InTag(cells, p)
    PROVE  ~MustDeliver(codec_, cells, p)
  <1> PICK q \in DOMAIN cells : cells[q] \in {"t", "T"} /\ q <= p /\ p < q + TagLen
    BY DEF InTag
  <1>1. q \in Nat
    OBVIOUS
  <1>2. CASE q = p
    BY <1>2 DEF MustDeliver, HeaderAt, Headers
  <1>3. CASE q < p
    BY <1>3 DEF MustDeliver, Exposed
  <1> QED BY <1>1, <1>2, <1>3

\* The fields of a framer.
LEMMA FramerFields ==
    ASSUME NEW s \in FramerState
    PROVE  /\ s.off \in Nat /\ s.skip \in Nat /\ s.gaps \in Nat
           /\ s.synced \in BOOLEAN /\ s.ended \in BOOLEAN
  BY DEF FramerState

\* Discard, and a resynchronisation after it.
LEMMA DiscardFacts ==
    ASSUME NEW s \in FramerState, NEW n \in Nat
    PROVE  LET t == [Discard(s, n) EXCEPT !.synced = FALSE]
           IN  /\ t \in FramerState /\ t.off = s.off + n /\ t.gaps = s.gaps + 1
               /\ t.skip = s.skip /\ t.ended = s.ended /\ t.synced = FALSE
  <1> DEFINE m == s.off + n
             g == s.gaps + 1
             no == FALSE
             d == [s EXCEPT !.off = m, !.gaps = g]
  <1>1. m \in Nat /\ g \in Nat /\ no \in BOOLEAN
    BY FramerFields
  <1>2. Discard(s, n) = d
    BY DEF Discard
  <1> HIDE DEF m, g, no
  <1>3. d \in FramerState /\ d.off = m /\ d.gaps = g /\ d.skip = s.skip /\ d.ended = s.ended
    BY <1>1 DEF FramerState
  <1> HIDE DEF d
  <1>4. LET t == [d EXCEPT !.synced = no]
        IN  /\ t \in FramerState /\ t.off = d.off /\ t.gaps = d.gaps /\ t.skip = d.skip
            /\ t.ended = d.ended /\ t.synced = no
    BY <1>1, <1>3 DEF FramerState
  <1> QED BY <1>2, <1>3, <1>4 DEF m, g, no

\* A whole frame with its header at s.off + 1: it is returned, or dropped and
\* counted.
LEMMA TakeFacts ==
    ASSUME NEW codec_ \in {"mp3", "aac"}, NEW cells \in Seq(Cells),
           NEW s \in FramerState, s.skip = 0,
           s.off + FrameLen <= Len(cells), cells[s.off + 1] \in Headers
    PROVE  LET r == Take(codec_, s, cells[s.off + 1])
           IN  /\ \/ r.st = "frame" /\ Returns(codec_, cells, s, r.s)
                  \/ r.st = "again" /\ Passes(codec_, cells, s, r.s)
               /\ r.s.off = s.off + FrameLen /\ r.s.skip = 0
  <1> DEFINE h == s.off + 1
             n == s.off + FrameLen
             g == s.gaps + 1
             t == [s EXCEPT !.off = n]
             u == [t EXCEPT !.gaps = g]
             r == Take(codec_, s, cells[h])
  <1>0. /\ s.off \in Nat /\ s.gaps \in Nat /\ FrameLen \in Nat /\ FrameLen >= 1
        /\ Len(cells) \in Nat /\ DOMAIN cells = 1..Len(cells)
    BY FramerFields, SizeFacts
  <1>1. n \in Nat /\ g \in Nat /\ h \in DOMAIN cells /\ g # 0
    BY <1>0
  <1>2. /\ t \in FramerState /\ t.off = n /\ t.gaps = s.gaps /\ t.skip = 0 /\ t.ended = s.ended
    <2> HIDE DEF n
    <2> QED BY <1>1 DEF FramerState
  <1>3. /\ u \in FramerState /\ u.off = n /\ u.gaps = g /\ u.skip = 0 /\ u.ended = s.ended
    <2> HIDE DEF n, g, t
    <2> QED BY <1>1, <1>2 DEF FramerState
  <1>4. r = IF codec_ = "aac" /\ cells[h] = "m" THEN Reads("again", u) ELSE Reads("frame", t)
    <2>1. t.gaps + 1 = g
      BY <1>2
    <2>2. [t EXCEPT !.gaps = @ + 1] = u
      <3> HIDE DEF t, g
      <3> QED BY <1>2, <2>1
    <2> QED BY <2>2 DEF Take
  <1>5. \A p \in (s.off + 1)..n : MustDeliver(codec_, cells, p) => p = h
    <2> SUFFICES ASSUME NEW p \in (s.off + 1)..n, MustDeliver(codec_, cells, p), p # h
                 PROVE  FALSE
      OBVIOUS
    <2>1. h < p /\ p < h + FrameLen
      BY <1>0
    <2> QED BY <1>1, <2>1, FrameHides
  <1>6. n - FrameLen + 1 = h /\ n - FrameLen = s.off /\ s.off + FrameLen <= n /\ s.off <= n
    BY <1>0
  <1> HIDE DEF t, u, r, g
  <1>7. CASE codec_ = "aac" /\ cells[h] = "m"
    <2>1. r.st = "again" /\ r.s = u
      BY <1>4, <1>7 DEF Reads
    <2>2. ~MustDeliver(codec_, cells, h)
      BY <1>7, MustFacts
    <2>3. Passes(codec_, cells, s, u)
      <3> HIDE DEF n, h
      <3> QED BY <1>1, <1>3, <1>5, <1>6, <2>2 DEF Passes, NoneMissed
    <2> QED BY <1>3, <2>1, <2>3 DEF r
  <1>8. CASE ~(codec_ = "aac" /\ cells[h] = "m")
    <2>1. r.st = "frame" /\ r.s = t
      BY <1>4, <1>8 DEF Reads
    <2>2. \A p \in (s.off + 1)..(n - FrameLen) : InTag(cells, p)
      BY <1>0, <1>6
    <2>3. Returns(codec_, cells, s, t)
      <3>1. HeaderAt(cells, t.off - FrameLen + 1)
        BY <1>1, <1>2, <1>6 DEF HeaderAt
      <3>2. codec_ = "aac" => cells[t.off - FrameLen + 1] # "m"
        BY <1>2, <1>6, <1>8
      <3> QED BY <1>2, <1>5, <1>6, <2>2, <3>1, <3>2 DEF Returns
    <2> QED BY <1>2, <2>1, <2>3 DEF r
  <1> QED BY <1>7, <1>8

\* The cells a framer sees are cells of the body.
LEMMA CellsSeen ==
    ASSUME NEW cells \in Seq(Cells), NEW lo \in Nat, NEW n \in Nat,
           lo <= n, n <= Len(cells)
    PROVE  LET rem == SubSeq(cells, lo + 1, n)
           IN  /\ rem \in Seq(Cells) /\ Len(rem) = n - lo
               /\ \A i \in 1..(n - lo) : rem[i] = cells[lo + i]
  <1>1. Len(cells) \in Nat /\ DOMAIN cells = 1..Len(cells)
    OBVIOUS
  <1> DEFINE a == lo + 1
             rem == SubSeq(cells, a, n)
  <1>2. a \in Nat /\ a >= 1 /\ n - a + 1 = n - lo /\ n - lo \in Nat
    BY <1>1
  <1>3. \A i \in a..n : i \in 1..Len(cells)
    BY <1>1, <1>2
  <1>4. Len(rem) = n - lo
    <2>1. CASE a <= n
      BY <1>1, <1>2, <2>1
    <2>2. CASE a > n
      BY <1>1, <1>2, <2>2
    <2> QED BY <1>2, <2>1, <2>2
  <1>5. rem \in Seq(Cells)
    BY <1>1, <1>2, <1>3
  <1>6. \A i \in 1..(n - lo) : rem[i] = cells[lo + i]
    BY <1>1, <1>2
  <1> QED BY <1>4, <1>5, <1>6

\* The frame of a candidate at s.off + 1 is among the first n cells.
LEMMA ConfirmFacts ==
    ASSUME NEW codec_ \in {"mp3", "aac"}, NEW cells \in Seq(Cells),
           NEW s \in FramerState, s.skip = 0, NEW n \in Nat, n <= Len(cells),
           s.off + FrameLen <= n, cells[s.off + 1] \in Headers
    PROVE  Iterates(codec_, cells, s, n, Confirm(codec_, s, SubSeq(cells, s.off + 1, n)))
  <1> DEFINE rem == SubSeq(cells, s.off + 1, n)
             r == Confirm(codec_, s, rem)
             yes == [s EXCEPT !.synced = TRUE]
             not == [s EXCEPT !.synced = FALSE]
             one == [Discard(s, 1) EXCEPT !.synced = FALSE]
             h == cells[s.off + 1]
  <1>0. /\ s.off \in Nat /\ s.gaps \in Nat /\ FrameLen \in Nat /\ FrameLen >= 1
        /\ HeaderLen \in Nat /\ HeaderLen >= 1 /\ s.off + 1 \in Nat
        /\ Len(cells) \in Nat /\ DOMAIN cells = 1..Len(cells)
    BY FramerFields, SizeFacts
  <1>1. Len(rem) = n - s.off /\ \A i \in 1..(n - s.off) : rem[i] = cells[s.off + i]
    <2>1. s.off <= n
      BY <1>0
    <2> QED BY <1>0, <2>1, CellsSeen
  <1>2. rem[1] = h
    BY <1>0, <1>1
  <1>3. /\ yes \in FramerState /\ yes.off = s.off /\ yes.gaps = s.gaps /\ yes.skip = s.skip
        /\ yes.ended = s.ended
        /\ not \in FramerState /\ not.off = s.off /\ not.gaps = s.gaps /\ not.skip = s.skip
        /\ not.ended = s.ended
    BY DEF FramerState
  <1>4. \/ \E t \in {s, yes, not} : r = Take(codec_, t, h)
        \/ /\ r = Reads("again", one) /\ Len(rem) >= FrameLen + HeaderLen
           /\ ~Consistent(rem, 1)
        \/ r = Reads("wait", s) /\ ~s.ended
    BY <1>2 DEF Confirm
  <1> HIDE DEF rem, r, yes, not, one
  <1>5. CASE \E t \in {s, yes, not} : r = Take(codec_, t, h)
    <2> PICK t \in {s, yes, not} : r = Take(codec_, t, h)
      BY <1>5
    <2>1. /\ t \in FramerState /\ t.off = s.off /\ t.gaps = s.gaps /\ t.skip = 0
          /\ t.ended = s.ended
      BY <1>3
    <2>2. /\ \/ r.st = "frame" /\ Returns(codec_, cells, t, r.s)
             \/ r.st = "again" /\ Passes(codec_, cells, t, r.s)
          /\ r.s.off = s.off + FrameLen /\ r.s.skip = 0
      <3>1. t.off + FrameLen <= Len(cells) /\ cells[t.off + 1] \in Headers
        BY <1>0, <2>1
      <3> QED BY <2>1, <3>1, TakeFacts
    <2>3. Returns(codec_, cells, t, r.s) => Returns(codec_, cells, s, r.s)
      BY <2>1 DEF Returns
    <2>4. Passes(codec_, cells, t, r.s) => Passes(codec_, cells, s, r.s)
      BY <2>1 DEF Passes
    <2>5. SkipsTag(codec_, cells, r.s)
      BY <2>2 DEF SkipsTag
    <2>6. r.s.off <= n
      BY <2>2
    <2> QED BY <2>2, <2>3, <2>4, <2>5, <2>6 DEF Iterates, r, rem
  <1>6. CASE /\ r = Reads("again", one) /\ Len(rem) >= FrameLen + HeaderLen
             /\ ~Consistent(rem, 1)
    <2>1. /\ one \in FramerState /\ one.off = s.off + 1 /\ one.gaps = s.gaps + 1
          /\ one.skip = 0 /\ one.ended = s.ended
      <3>1. 1 \in Nat
        OBVIOUS
      <3> DEFINE k == 1
      <3>2. k \in Nat
        OBVIOUS
      <3> HIDE DEF k
      <3>3. LET t == [Discard(s, k) EXCEPT !.synced = FALSE]
            IN  /\ t \in FramerState /\ t.off = s.off + k /\ t.gaps = s.gaps + 1
                /\ t.skip = s.skip /\ t.ended = s.ended
        BY <3>2, DiscardFacts
      <3> QED BY <3>3 DEF k, one
    <2>2. r.st = "again" /\ r.s = one
      BY <1>6 DEF Reads
    <2>3. ~Consistent(cells, s.off + 1)
      <3>1. 1 \in 1..(n - s.off) /\ 1 + FrameLen \in 1..(n - s.off)
        BY <1>0, <1>1, <1>6
      <3>2. rem[1] = cells[s.off + 1] /\ rem[1 + FrameLen] = cells[s.off + (1 + FrameLen)]
        BY <1>1, <3>1
      <3>3. s.off + (1 + FrameLen) = s.off + 1 + FrameLen
        BY <1>0
      <3> QED BY <1>6, <3>2, <3>3 DEF Consistent
    <2>4. NoneMissed(codec_, cells, s.off, s.off + 1)
      <3> SUFFICES ASSUME NEW p \in (s.off + 1)..(s.off + 1)
                   PROVE  ~MustDeliver(codec_, cells, p)
        BY DEF NoneMissed
      <3>1. p = s.off + 1
        BY <1>0
      <3> QED BY <2>3, <3>1, MustFacts
    <2>5. Passes(codec_, cells, s, one)
      <3>1. one.gaps # 0 /\ s.off <= one.off
        BY <1>0, <2>1
      <3> QED BY <2>1, <2>4, <3>1 DEF Passes
    <2>6. SkipsTag(codec_, cells, one) /\ one.off <= n
      BY <1>0, <2>1 DEF SkipsTag
    <2> QED BY <2>2, <2>5, <2>6 DEF Iterates, r, rem
  <1>7. CASE r = Reads("wait", s) /\ ~s.ended
    <2>1. r.st = "wait" /\ r.s = s
      BY <1>7 DEF Reads
    <2>2. Passes(codec_, cells, s, s)
      <3>1. \A p : p \notin (s.off + 1)..s.off
        BY <1>0
      <3> QED BY <1>0, <3>1 DEF Passes, NoneMissed
    <2>3. SkipsTag(codec_, cells, s) /\ s.off <= n
      BY <1>0 DEF SkipsTag
    <2> QED BY <1>7, <2>1, <2>2, <2>3 DEF Iterates, r, rem
  <1> QED BY <1>4, <1>5, <1>6, <1>7 DEF r, rem

\* A set of naturals that is not empty has a least element.
LEMMA LeastOf ==
    ASSUME NEW T \in SUBSET Nat, T # {}
    PROVE  First(T) \in T /\ \A j \in T : First(T) <= j
  <1> DEFINE R == {e \in Nat \X Nat : e[1] < e[2]}
  <1>1. IsWellFoundedOn(R, Nat)
    BY NatLessThanWellFounded DEF OpToRel
  <1>2. PICK x \in T : \A y \in T : <<y, x>> \notin R
    BY <1>1, WFMin
  <1>3. ASSUME NEW y \in T PROVE x <= y
    <2>1. x \in Nat /\ y \in Nat /\ <<y, x>> \in Nat \X Nat
      OBVIOUS
    <2>2. ~(y < x)
      BY <1>2, <2>1
    <2> QED BY <2>1, <2>2
  <1> QED BY <1>3 DEF First

\* A framer that passed some cells and then iterates has iterated over both.
LEMMA PassThenIterate ==
    ASSUME NEW codec_, NEW cells, NEW s \in FramerState, NEW t \in FramerState,
           NEW n \in Nat, NEW r,
           Passes(codec_, cells, s, t), Iterates(codec_, cells, t, n, r)
    PROVE  Iterates(codec_, cells, s, n, r)
  <1> PICK a \in Nat : a = s.off
    BY FramerFields
  <1> PICK b \in Nat : b = t.off
    BY FramerFields
  <1>0. FrameLen \in Nat /\ FrameLen >= 1
    BY SizeFacts
  <1>1. /\ a <= b /\ t.ended = s.ended
        /\ \A p \in (a + 1)..b : ~MustDeliver(codec_, cells, p)
        /\ t.gaps = 0 => s.gaps = 0 /\ \A p \in (a + 1)..b : InTag(cells, p)
    BY DEF Passes, NoneMissed
  <1>2. CASE r.st = "frame" /\ Returns(codec_, cells, t, r.s)
    <2> PICK c \in Nat : c = r.s.off
      BY <1>2, FramerFields DEF Returns
    <2>1. /\ b + FrameLen <= c
          /\ \A p \in (b + 1)..c : MustDeliver(codec_, cells, p) => p = c - FrameLen + 1
          /\ r.s.gaps = 0 =>
                t.gaps = 0 /\ \A p \in (b + 1)..(c - FrameLen) : InTag(cells, p)
      BY <1>2 DEF Returns
    <2>2. \A p \in (a + 1)..c : p \in (a + 1)..b \/ p \in (b + 1)..c
      BY <1>1
    <2>3. \A p \in (a + 1)..(c - FrameLen) :
             p \in (a + 1)..b \/ p \in (b + 1)..(c - FrameLen)
      BY <1>0, <1>1, <2>1
    <2>4. a + FrameLen <= c
      BY <1>0, <1>1, <2>1
    <2>5. \A p \in (a + 1)..c : MustDeliver(codec_, cells, p) => p = c - FrameLen + 1
      BY <1>1, <2>1, <2>2
    <2>6. r.s.gaps = 0 =>
             s.gaps = 0 /\ \A p \in (a + 1)..(c - FrameLen) : InTag(cells, p)
      BY <1>1, <2>1, <2>3
    <2>7. Returns(codec_, cells, s, r.s)
      BY <1>1, <1>2, <2>4, <2>5, <2>6 DEF Returns
    <2> QED BY <1>1, <1>2, <2>7 DEF Iterates
  <1>3. CASE r.st \in {"again", "wait"} /\ Passes(codec_, cells, t, r.s)
    <2> PICK c \in Nat : c = r.s.off
      BY <1>3, FramerFields DEF Passes
    <2>1. /\ b <= c
          /\ \A p \in (b + 1)..c : ~MustDeliver(codec_, cells, p)
          /\ r.s.gaps = 0 => t.gaps = 0 /\ \A p \in (b + 1)..c : InTag(cells, p)
      BY <1>3 DEF Passes, NoneMissed
    <2>2. \A p \in (a + 1)..c : p \in (a + 1)..b \/ p \in (b + 1)..c
      BY <1>1
    <2>3. a <= c
      BY <1>1, <2>1
    <2>4. Passes(codec_, cells, s, r.s)
      BY <1>1, <1>3, <2>1, <2>2, <2>3 DEF Passes, NoneMissed
    <2> QED BY <1>1, <1>3, <2>4 DEF Iterates
  <1> QED BY <1>2, <1>3 DEF Iterates

\* Fewer cells than a header and a frame hold no frame that is owed.
LEMMA ShortRest ==
    ASSUME NEW codec_, NEW cells \in Seq(Cells), NEW lo \in Nat, NEW n \in Nat,
           n = Len(cells), n < lo + FrameLen + HeaderLen
    PROVE  NoneMissed(codec_, cells, lo, n)
  <1> SUFFICES ASSUME NEW p \in (lo + 1)..n, MustDeliver(codec_, cells, p)
               PROVE  FALSE
    BY DEF NoneMissed
  <1>1. p + FrameLen + HeaderLen <= n + 1
    BY MustFacts
  <1> QED BY <1>1, SizeFacts

\* Cells that are no headers may be passed, and are a gap.
LEMMA DiscardPasses ==
    ASSUME NEW codec_, NEW cells \in Seq(Cells), NEW s \in FramerState, NEW k \in Nat,
           \A i \in 1..k : cells[s.off + i] \notin Headers
    PROVE  Passes(codec_, cells, s, [Discard(s, k) EXCEPT !.synced = FALSE])
  <1> DEFINE t == [Discard(s, k) EXCEPT !.synced = FALSE]
  <1>1. /\ t \in FramerState /\ t.off = s.off + k /\ t.gaps = s.gaps + 1
        /\ t.ended = s.ended
    BY DiscardFacts
  <1>2. s.off \in Nat /\ s.gaps \in Nat
    BY FramerFields
  <1> HIDE DEF t
  <1>3. NoneMissed(codec_, cells, s.off, t.off)
    <2> SUFFICES ASSUME NEW p \in (s.off + 1)..(s.off + k) PROVE ~MustDeliver(codec_, cells, p)
      BY <1>1 DEF NoneMissed
    <2>1. p - s.off \in 1..k /\ s.off + (p - s.off) = p
      BY <1>2
    <2>2. cells[p] \notin Headers
      BY <2>1
    <2> QED BY <2>2, MustFacts
  <1>4. t.gaps # 0 /\ s.off <= t.off
    BY <1>1, <1>2
  <1>5. Passes(codec_, cells, s, t)
    BY <1>1, <1>3, <1>4 DEF Passes
  <1> QED BY <1>5 DEF t

\* A framer that does not move passes nothing.
LEMMA StayPasses ==
    ASSUME NEW codec_, NEW cells, NEW s \in FramerState
    PROVE  Passes(codec_, cells, s, s)
  <1>1. s.off \in Nat /\ \A p : p \notin (s.off + 1)..s.off
    BY FramerFields
  <1> QED BY <1>1 DEF Passes, NoneMissed

\* A part of what a framer sees.
LEMMA CellsSeenLater ==
    ASSUME NEW cells \in Seq(Cells), NEW lo \in Nat, NEW n \in Nat, NEW k \in Nat,
           lo + k <= n, n <= Len(cells)
    PROVE  LET rem == SubSeq(cells, lo + 1, n)
           IN  /\ SubSeq(rem, k + 1, Len(rem)) = SubSeq(cells, lo + k + 1, n)
               /\ Len(SubSeq(rem, k + 1, Len(rem))) = n - (lo + k)
  <1> DEFINE rem == SubSeq(cells, lo + 1, n)
             late == SubSeq(rem, k + 1, Len(rem))
             all == SubSeq(cells, lo + k + 1, n)
  <1> PICK L \in Nat : L = n - lo
    OBVIOUS
  <1> PICK m \in Nat : m = lo + k
    OBVIOUS
  <1>1. lo <= n /\ m <= n /\ k <= L /\ L - k = n - m /\ L - k \in Nat
    OBVIOUS
  <1>2. rem \in Seq(Cells) /\ Len(rem) = L /\ \A i \in 1..L : rem[i] = cells[lo + i]
    BY <1>1, CellsSeen
  <1>3. all \in Seq(Cells) /\ Len(all) = n - m /\ \A i \in 1..(n - m) : all[i] = cells[m + i]
    BY <1>1, CellsSeen
  <1> HIDE DEF rem, all
  <1>4. late \in Seq(Cells) /\ Len(late) = L - k /\ \A i \in 1..(L - k) : late[i] = rem[k + i]
    BY <1>1, <1>2, CellsSeen
  <1> HIDE DEF late
  <1>5. \A i \in 1..(L - k) : k + i \in 1..L /\ lo + (k + i) = m + i
    BY <1>1
  <1>6. \A i \in 1..(L - k) : late[i] = all[i]
    BY <1>1, <1>2, <1>3, <1>4, <1>5
  <1>7. late = all
    BY <1>1, <1>3, <1>4, <1>6, SeqEqual
  <1> QED BY <1>1, <1>4, <1>7 DEF late, all, rem

\* The first place where a whole header starts, k cells on.
LEMMA FirstCandidate ==
    ASSUME NEW cells \in Seq(Cells), NEW lo \in Nat, NEW n \in Nat, lo <= n, n <= Len(cells),
           Candidates(SubSeq(cells, lo + 1, n)) # {}
    PROVE  \E k \in Nat :
              /\ First(Candidates(SubSeq(cells, lo + 1, n))) = k + 1
              /\ lo + k + HeaderLen <= n
              /\ cells[lo + k + 1] \in Headers
              /\ \A j \in 1..k : cells[lo + j] \notin Headers
  <1> DEFINE rem == SubSeq(cells, lo + 1, n)
  <1> PICK L \in Nat : L = n - lo
    OBVIOUS
  <1>1. Len(rem) = L /\ \A i \in 1..L : rem[i] = cells[lo + i]
    BY CellsSeen
  <1>2. Candidates(rem) = {i \in 1..L : rem[i] \in Headers /\ i + HeaderLen <= L + 1}
    BY <1>1 DEF Candidates
  <1>3. Candidates(rem) # {}
    OBVIOUS
  <1> HIDE DEF rem
  <1>4. /\ First(Candidates(rem)) \in Candidates(rem)
        /\ \A j \in Candidates(rem) : First(Candidates(rem)) <= j
    <2>1. Candidates(rem) \in SUBSET Nat
      BY <1>2
    <2> QED BY <1>3, <2>1, LeastOf
  <1> PICK i \in 1..L : i = First(Candidates(rem))
    BY <1>2, <1>4
  <1>5. rem[i] \in Headers /\ i + HeaderLen <= L + 1 /\ \A j \in Candidates(rem) : i <= j
    BY <1>2, <1>4
  <1> PICK k \in Nat : k + 1 = i
    <2>1. i - 1 \in Nat /\ i - 1 + 1 = i
      OBVIOUS
    <2> QED BY <2>1
  <1>6. lo + k + HeaderLen <= n /\ lo + k + 1 = lo + i
    BY <1>5, SizeFacts
  <1>7. \A j \in 1..k : cells[lo + j] \notin Headers
    <2> SUFFICES ASSUME NEW j \in 1..k, cells[lo + j] \in Headers PROVE FALSE
      OBVIOUS
    <2>1. j \in 1..L /\ ~(i <= j)
      OBVIOUS
    <2>2. j + HeaderLen <= L + 1
      BY <1>5, SizeFacts
    <2>3. j \in Candidates(rem)
      BY <1>1, <1>2, <2>1, <2>2
    <2> QED BY <1>5, <2>1, <2>3
  <1>8. cells[lo + k + 1] \in Headers
    BY <1>1, <1>5, <1>6
  <1> QED BY <1>6, <1>7, <1>8 DEF rem

\* Where no whole header starts.
LEMMA NoCandidate ==
    ASSUME NEW cells \in Seq(Cells), NEW lo \in Nat, NEW n \in Nat, lo <= n, n <= Len(cells),
           Candidates(SubSeq(cells, lo + 1, n)) = {},
           NEW k \in Nat, lo + k + HeaderLen <= n + 1
    PROVE  \A j \in 1..k : cells[lo + j] \notin Headers
  <1> DEFINE rem == SubSeq(cells, lo + 1, n)
  <1> PICK L \in Nat : L = n - lo
    OBVIOUS
  <1>1. Len(rem) = L /\ \A i \in 1..L : rem[i] = cells[lo + i]
    BY CellsSeen
  <1>2. {i \in 1..L : rem[i] \in Headers /\ i + HeaderLen <= L + 1} = {}
    BY <1>1 DEF Candidates
  <1> HIDE DEF rem
  <1> SUFFICES ASSUME NEW j \in 1..k PROVE cells[lo + j] \notin Headers
    OBVIOUS
  <1>3. j \in 1..L /\ j + HeaderLen <= L + 1
    BY SizeFacts
  <1> QED BY <1>1, <1>2, <1>3

\* What is left of n cells after lo when a header is kept, or a frame is cut.
LEMMA RestSizes ==
    ASSUME NEW lo \in Nat, NEW n \in Nat, NEW L, L = n - lo, lo <= n
    PROVE  /\ L \in Nat
           /\ L < HeaderLen => n < lo + FrameLen + HeaderLen
           /\ ~(L < HeaderLen) =>
                 LET k == L - (HeaderLen - 1)
                 IN  /\ k \in Nat /\ lo + k + HeaderLen <= n + 1 /\ lo + k <= n
                     /\ n < lo + k + FrameLen + HeaderLen
           /\ L < FrameLen => n < lo + FrameLen + HeaderLen
           /\ ~(L < FrameLen) => lo + FrameLen <= n
  BY SizeFacts

\* Resynchronisation: no owed frame is passed, however the header or the frame
\* is cut by the end of the buffer.
LEMMA ScanFacts ==
    ASSUME NEW codec_ \in {"mp3", "aac"}, NEW cells \in Seq(Cells),
           NEW s \in FramerState, s.skip = 0, NEW n \in Nat, s.off <= n, n <= Len(cells)
    PROVE  Iterates(codec_, cells, s, n, Scan(codec_, s, SubSeq(cells, s.off + 1, n)))
  <1> DEFINE lo == s.off
             rem == SubSeq(cells, lo + 1, n)
             r == Scan(codec_, s, rem)
  <1>0. lo \in Nat
    BY FramerFields
  <1>1. Len(rem) = n - lo
    BY <1>0, CellsSeen
  <1>2. CASE Candidates(rem) = {}
    <2> DEFINE t == DropUnsynced(s, Len(rem))
    <2>1. r.st = "wait" /\ r.s = t
      BY <1>2 DEF Scan, Reads
    <2> HIDE DEF r
    <2>2. CASE Len(rem) < HeaderLen
      <3>1. t = s
        BY <2>2 DEF DropUnsynced
      <3>2. n = Len(cells) => NoneMissed(codec_, cells, lo, n)
        <4>1. n < lo + FrameLen + HeaderLen
          BY <1>0, <1>1, <2>2, RestSizes
        <4> QED BY <1>0, <4>1, ShortRest
      <3>3. SkipsTag(codec_, cells, s)
        BY DEF SkipsTag
      <3>4. Passes(codec_, cells, s, s)
        BY StayPasses
      <3> HIDE DEF t, rem
      <3> QED BY <2>1, <3>1, <3>2, <3>3, <3>4 DEF Iterates, r, rem
    <2>3. CASE ~(Len(rem) < HeaderLen)
      <3> DEFINE k == Len(rem) - (HeaderLen - 1)
      <3>1. k \in Nat /\ lo + k + HeaderLen <= n + 1
        BY <1>0, <1>1, <2>3, RestSizes
      <3>2. t = [Discard(s, k) EXCEPT !.synced = FALSE]
        BY <2>3 DEF DropUnsynced
      <3>3. lo + k <= n /\ n < lo + k + FrameLen + HeaderLen /\ lo + k \in Nat
        <4>1. lo + k <= n /\ n < lo + k + FrameLen + HeaderLen
          BY <1>0, <1>1, <2>3, RestSizes
        <4> HIDE DEF k, lo
        <4> QED BY <1>0, <3>1, <4>1
      <3> HIDE DEF k, t
      <3>4. \A j \in 1..k : cells[lo + j] \notin Headers
        BY <1>0, <1>2, <3>1, NoCandidate
      <3>5. t.off = lo + k /\ t.skip = 0
        BY <3>1, <3>2, DiscardFacts
      <3>6. Passes(codec_, cells, s, t)
        BY <3>1, <3>2, <3>4, DiscardPasses
      <3>7. n = Len(cells) => NoneMissed(codec_, cells, t.off, n)
        BY <3>3, <3>5, ShortRest
      <3>8. t.off <= n
        BY <3>3, <3>5
      <3>9. SkipsTag(codec_, cells, t)
        BY <3>5 DEF SkipsTag
      <3> QED BY <2>1, <3>6, <3>7, <3>8, <3>9 DEF Iterates, r
    <2> QED BY <2>2, <2>3
  <1>3. CASE Candidates(rem) # {}
    <2> PICK k \in Nat :
              /\ First(Candidates(rem)) = k + 1
              /\ lo + k + HeaderLen <= n
              /\ cells[lo + k + 1] \in Headers
              /\ \A j \in 1..k : cells[lo + j] \notin Headers
      BY <1>0, <1>3, FirstCandidate
    <2> DEFINE t == IF k > 0 THEN [Discard(s, k) EXCEPT !.synced = FALSE] ELSE s
               late == SubSeq(rem, k + 1, Len(rem))
    <2>1. r = IF Len(late) < FrameLen THEN Reads("wait", t) ELSE Confirm(codec_, t, late)
      <3> DEFINE c == First(Candidates(rem))
                 u == IF c > 1 THEN [Discard(s, c - 1) EXCEPT !.synced = FALSE] ELSE s
                 part == SubSeq(rem, c, Len(rem))
      <3>1. r = IF Len(part) < FrameLen THEN Reads("wait", u) ELSE Confirm(codec_, u, part)
        BY <1>3 DEF Scan
      <3>2. c = k + 1
        OBVIOUS
      <3> HIDE DEF c, r, rem
      <3>3. (c > 1 <=> k > 0) /\ c - 1 = k
        BY <3>2
      <3>4. u = t /\ part = late
        BY <3>2, <3>3
      <3> QED BY <3>1, <3>4
    <2>2. /\ t \in FramerState /\ t.off = lo + k /\ t.skip = 0 /\ t.ended = s.ended
          /\ Passes(codec_, cells, s, t)
      <3>1. CASE k > 0
        <4>1. t = [Discard(s, k) EXCEPT !.synced = FALSE]
          BY <3>1
        <4> HIDE DEF t
        <4>2. t \in FramerState /\ t.off = lo + k /\ t.skip = 0 /\ t.ended = s.ended
          BY <4>1, DiscardFacts
        <4>3. Passes(codec_, cells, s, t)
          BY <4>1, DiscardPasses
        <4> QED BY <4>2, <4>3
      <3>2. CASE k = 0
        <4>1. t = s /\ lo + k = lo
          BY <1>0, <3>2
        <4> QED BY <4>1, StayPasses
      <3> QED BY <3>1, <3>2
    <2>3. lo + k <= n /\ lo + k \in Nat
      BY <1>0, SizeFacts
    <2>4. late = SubSeq(cells, lo + k + 1, n) /\ Len(late) = n - (lo + k)
      BY <1>0, <2>3, CellsSeenLater
    <2> HIDE DEF t, late, r
    <2>5. CASE Len(late) < FrameLen
      <3>1. r.st = "wait" /\ r.s = t
        BY <2>1, <2>5 DEF Reads
      <3>2. n < lo + k + FrameLen + HeaderLen
        BY <2>3, <2>4, <2>5, RestSizes
      <3>3. n = Len(cells) => NoneMissed(codec_, cells, t.off, n)
        BY <2>2, <2>3, <3>2, ShortRest
      <3>4. SkipsTag(codec_, cells, t)
        BY <2>2 DEF SkipsTag
      <3> QED BY <2>2, <2>3, <3>1, <3>3, <3>4 DEF Iterates, r
    <2>6. CASE ~(Len(late) < FrameLen)
      <3>1. r = Confirm(codec_, t, SubSeq(cells, t.off + 1, n))
        BY <2>1, <2>2, <2>4, <2>6
      <3>2. t.off + FrameLen <= n
        BY <2>2, <2>3, <2>4, <2>6, RestSizes
      <3>3. cells[t.off + 1] \in Headers
        BY <2>2
      <3>4. Iterates(codec_, cells, t, n, r)
        BY <2>2, <3>1, <3>2, <3>3, ConfirmFacts
      <3>5. Iterates(codec_, cells, s, n, r)
        BY <2>2, <3>4, PassThenIterate
      <3> QED BY <3>5 DEF r
    <2> QED BY <2>5, <2>6
  <1> QED BY <1>2, <1>3

\* ConsumeID3: the cells dropped are cells of the tag.
LEMMA DropSizes ==
    ASSUME NEW lo \in Nat, NEW n \in Nat, lo <= n, NEW skip \in Nat, NEW L, L = n - lo,
           NEW drop \in Nat, drop <= skip, drop <= L, drop = skip \/ drop = L
    PROVE  LET off == lo + drop
               left == skip - drop
           IN  /\ off \in Nat /\ left \in Nat /\ lo <= off /\ off <= n
               /\ off + left = lo + skip /\ (left = 0 \/ off = n) /\ off <= lo + skip
  OBVIOUS

\* One iteration of next / NextFrame, from any position a framer may be in and
\* however many cells it has been fed.
LEMMA NextFrameFacts ==
    ASSUME NEW codec_ \in {"mp3", "aac"}, NEW cells \in Seq(Cells),
           NEW s \in FramerState, SkipsTag(codec_, cells, s),
           NEW n \in Nat, s.off <= n, n <= Len(cells)
    PROVE  Iterates(codec_, cells, s, n, NextFrame(codec_, s, SubSeq(cells, s.off + 1, n)))
  <1> DEFINE lo == s.off
             rem == SubSeq(cells, lo + 1, n)
             r == NextFrame(codec_, s, rem)
  <1>0. lo \in Nat /\ s.skip \in Nat /\ DOMAIN cells = 1..Len(cells) /\ Len(cells) \in Nat
    BY FramerFields
  <1>1. Len(rem) = n - lo /\ Len(rem) \in Nat /\ \A i \in 1..(n - lo) : rem[i] = cells[lo + i]
    <2>1. rem \in Seq(Cells) /\ Len(rem) = n - lo /\ \A i \in 1..(n - lo) : rem[i] = cells[lo + i]
      BY <1>0, CellsSeen
    <2> HIDE DEF rem
    <2> QED BY <2>1
  <1>2. CASE s.skip > 0
    <2> DEFINE drop == IF s.skip < Len(rem) THEN s.skip ELSE Len(rem)
               off == lo + drop
               skip == s.skip - drop
               t == [s EXCEPT !.off = off, !.skip = skip]
    <2>1. codec_ = "mp3"
      BY <1>2 DEF SkipsTag
    <2>2. r = Reads(IF t.skip > 0 THEN "wait" ELSE "again", t)
      BY <1>2, <2>1 DEF NextFrame, ConsumeID3
    <2>3. PICK q \in DOMAIN cells :
              cells[q] \in {"t", "T"} /\ q <= lo + 1 /\ lo + s.skip < q + TagLen
      BY <1>2 DEF SkipsTag
    <2>4. drop \in Nat /\ drop <= s.skip /\ drop <= Len(rem) /\ (drop = s.skip \/ drop = Len(rem))
      <3> HIDE DEF lo, rem
      <3> QED BY <1>0, <1>1
    <2> HIDE DEF drop, rem, lo
    <2>5. /\ off \in Nat /\ skip \in Nat /\ lo <= off /\ off <= n
          /\ off + skip = lo + s.skip /\ (skip = 0 \/ off = n) /\ off <= lo + s.skip
      <3>1. lo <= n
        BY DEF lo
      <3> PICK m \in Nat : m = s.skip
        BY <1>0
      <3> PICK L \in Nat : L = Len(rem)
        BY <1>1
      <3>2. L = n - lo /\ drop \in Nat /\ drop <= m /\ drop <= L /\ (drop = m \/ drop = L)
        BY <1>1, <2>4
      <3>3. /\ off \in Nat /\ m - drop \in Nat /\ lo <= off /\ off <= n
            /\ off + (m - drop) = lo + m /\ (m - drop = 0 \/ off = n) /\ off <= lo + m
        BY <1>0, <3>1, <3>2, DropSizes
      <3> HIDE DEF off
      <3> QED BY <3>3
    <2> HIDE DEF off, skip
    <2>6. /\ t \in FramerState /\ t.off = off /\ t.skip = skip /\ t.gaps = s.gaps
          /\ t.ended = s.ended
      BY <2>5 DEF FramerState
    <2> HIDE DEF t
    <2>7. /\ r.s = t /\ r.st \in {"again", "wait"} /\ (r.st = "wait" => skip > 0)
      BY <2>2, <2>6 DEF Reads
    <2> HIDE DEF r
    <2>8. \A p \in (lo + 1)..off : InTag(cells, p) /\ p \in Nat
      <3> SUFFICES ASSUME NEW p \in (lo + 1)..off PROVE InTag(cells, p) /\ p \in Nat
        OBVIOUS
      <3>1. q <= p /\ p < q + TagLen /\ p \in Nat
        BY <1>0, <2>3, <2>5, SizeFacts
      <3> QED BY <2>3, <3>1 DEF InTag
    <2>9. NoneMissed(codec_, cells, lo, off)
      BY <2>8, TagHides DEF NoneMissed
    <2>10. Passes(codec_, cells, s, t)
      BY <2>5, <2>6, <2>8, <2>9 DEF Passes, lo
    <2>11. SkipsTag(codec_, cells, t)
      <3>1. q <= off + 1 /\ off + skip < q + TagLen
        BY <1>0, <2>3, <2>5, SizeFacts
      <3> QED BY <2>1, <2>3, <2>6, <3>1 DEF SkipsTag
    <2>12. r.st = "wait" => NoneMissed(codec_, cells, off, n)
      <3> SUFFICES ASSUME skip > 0 PROVE NoneMissed(codec_, cells, off, n)
        BY <2>7
      <3>1. off = n /\ \A p : p \notin (off + 1)..n
        BY <2>5
      <3> QED BY <3>1 DEF NoneMissed
    <2> QED BY <2>5, <2>6, <2>7, <2>10, <2>11, <2>12 DEF Iterates, r, rem, lo
  <1>3. CASE s.skip = 0 /\ codec_ = "mp3" /\ rem # <<>> /\ Head(rem) \in {"t", "T"}
    <2>1. r = IF Len(rem) < HeaderLen THEN Reads("wait", s)
              ELSE Reads("again", [s EXCEPT !.skip = TagLen])
      <3>1. ~(s.skip > 0)
        BY <1>3
      <3> HIDE DEF rem
      <3> QED BY <1>3, <3>1 DEF NextFrame
    <2>2. lo + 1 \in DOMAIN cells /\ cells[lo + 1] \in {"t", "T"}
      <3>1. Head(rem) = rem[1] /\ 1 \in 1..(n - lo)
        BY <1>0, <1>1, <1>3
      <3>2. lo + 1 \in 1..Len(cells)
        BY <1>0, <3>1
      <3> QED BY <1>0, <1>1, <1>3, <3>1, <3>2
    <2> HIDE DEF r, rem, lo
    <2>3. CASE Len(rem) < HeaderLen
      <3>1. r.st = "wait" /\ r.s = s
        BY <2>1, <2>3 DEF Reads
      <3>2. n = Len(cells) => NoneMissed(codec_, cells, lo, n)
        <4>1. lo <= n
          BY DEF lo
        <4>2. n < lo + FrameLen + HeaderLen
          BY <1>0, <1>1, <2>3, <4>1, RestSizes
        <4> QED BY <1>0, <4>2, ShortRest
      <3>3. Passes(codec_, cells, s, s)
        BY StayPasses
      <3> QED BY <3>1, <3>2, <3>3 DEF Iterates, r, rem, lo
    <2>4. CASE ~(Len(rem) < HeaderLen)
      <3> DEFINE t == [s EXCEPT !.skip = TagLen]
      <3>1. r.st = "again" /\ r.s = t
        BY <2>1, <2>4 DEF Reads
      <3>2. TagLen \in Nat
        BY SizeFacts
      <3>3. /\ t \in FramerState /\ t.off = s.off /\ t.skip = TagLen /\ t.gaps = s.gaps
            /\ t.ended = s.ended
        BY <3>2 DEF FramerState
      <3> HIDE DEF t
      <3>4. Passes(codec_, cells, s, t)
        <4>1. Passes(codec_, cells, s, s)
          BY StayPasses
        <4> QED BY <3>3, <4>1 DEF Passes
      <3>5. SkipsTag(codec_, cells, t)
        <4>1. lo + 1 <= lo + 1 /\ lo + TagLen < lo + 1 + TagLen
          BY <1>0, <3>2
        <4> QED BY <1>3, <2>2, <3>3, <4>1 DEF SkipsTag, lo
      <3> QED BY <3>1, <3>3, <3>4, <3>5 DEF Iterates, r, rem, lo
    <2> QED BY <2>3, <2>4
  <1>4. CASE s.skip = 0 /\ ~(codec_ = "mp3" /\ rem # <<>> /\ Head(rem) \in {"t", "T"})
    <2>1. ~(s.skip > 0)
      BY <1>4
    <2>2. r = Scan(codec_, s, rem)
      <3> HIDE DEF rem
      <3> QED BY <1>4, <2>1 DEF NextFrame
    <2> QED BY <1>4, <2>2, ScanFacts
  <1>5. s.skip > 0 \/ s.skip = 0
    BY <1>0
  <1> QED BY <1>2, <1>3, <1>4, <1>5

-----------------------------------------------------------------------------
(* What has been read of the body, and what has been made of it.           *)

\* The reader has called initiateShutdown for the end of the stream.
Settled == cause["reader"] = "streamEnded"

\* Only the reader ends the stream, once, and on its way out of its loop.
EndInv ==
    /\ \A a \in Actors : cause[a] = "streamEnded" => a = "reader"
    /\ Settled =>
          \/ pc["reader"] \in EndPCs
          \/ pc["reader"] \in FunnelPCs /\ ret["reader"] = "teardown"
    /\ termErr = "streamEnded" => Settled

\* Until there is a reader Open has taken nothing from the body but whole tags,
\* and a data chunk that bounds it is one of the chunks.
ProbeInv ==
    pc["open"] # "opened" =>
        /\ fs = NewStream /\ fill = 0 /\ rerr = NoErr
        /\ delivered = <<>> /\ malformed = 0
        /\ taken \in Nat /\ taken <= Len(scen.body)
        /\ \A p \in 1..taken : InTag(scen.body, p)
        /\ pc["open"] \notin {"aac", "publish", "spawn", "cleanup", "failed"} => taken = 0
        /\ codec \in {"none", "pcm", "mp3", "aac"}
        /\ pc["open"] \notin {"publish", "spawn"} => codec = "none" /\ bounded = FALSE
        /\ pc["open"] \in {"publish", "spawn"} => codec # "none"
        /\ codec = "pcm" => taken = 0
        /\ at \in Nat \ {0}
        /\ bounded \in BOOLEAN
        /\ bounded => at <= Len(scen.chunks) /\ remaining = scen.chunks[at].size

\* The reader: which steps belong to which codec, and how far it has read.
ReadInv ==
    pc["open"] = "opened" =>
        /\ codec \in {"pcm", "mp3", "aac"}
        /\ pc["reader"] = "absorb" => codec = "pcm"
        /\ pc["reader"] \in {"drain", "finish"} => codec # "pcm"
        /\ pc["reader"] \in FunnelPCs /\ ret["reader"] = "drain" => codec # "pcm"
        /\ taken \in Nat /\ taken <= Len(scen.body)
        /\ rerr = "eof" => taken = Len(scen.body)
        /\ delivered \in Seq([at : Nat, len : Nat])

\* The PCM path: what has been read is what has been delivered and what is
\* kept, less than a sample-frame whenever the reader is not about to deliver.
PcmInv ==
    pc["open"] = "opened" /\ codec = "pcm" =>
        /\ fill \in Nat /\ taken = Sum(Len(delivered)) + fill
        /\ pc["reader"] # "absorb" => fill < FrameBytes
        /\ \A i \in DOMAIN delivered :
              /\ delivered[i].len % FrameBytes = 0
              /\ delivered[i].at = Sum(i - 1) + 1
        /\ malformed = IF Settled /\ fill > 0 THEN 1 ELSE 0
        /\ bounded \in BOOLEAN
        /\ bounded => remaining \in Nat /\ taken + remaining = scen.chunks[at].size

\* The frames delivered so far, against a body of which the first n cells have
\* been consumed: in order, apart, each from a header the codec can deliver.
FramesOk(n) ==
    /\ \A i, j \in DOMAIN delivered :
          i < j => delivered[i].at + FrameLen <= delivered[j].at
    /\ \A i \in DOMAIN delivered :
          /\ HeaderAt(scen.body, delivered[i].at)
          /\ codec = "aac" => scen.body[delivered[i].at] # "m"
          /\ delivered[i].at + FrameLen <= n + 1

\* None of the first n cells that had to start a frame did not.
OwedPaid(n) ==
    \A p \in 1..n : MustDeliver(codec, scen.body, p) =>
                        \E i \in DOMAIN delivered : delivered[i].at = p

\* Each of the first n cells belongs to a frame or to a tag.
AllCovered(n) ==
    \A p \in 1..n :
        \/ \E i \in DOMAIN delivered :
              delivered[i].at <= p /\ p < delivered[i].at + FrameLen
        \/ InTag(scen.body, p)

\* The compressed path: the framer owes nothing of what it has consumed, and it
\* has counted a gap unless everything it consumed was a frame or a tag.
FramedInv ==
    pc["open"] = "opened" /\ codec # "pcm" =>
        /\ fs \in FramerState /\ fs.off <= taken
        /\ SkipsTag(codec, scen.body, fs)
        /\ fs.ended => taken = Len(scen.body)
        /\ FramesOk(fs.off) /\ OwedPaid(fs.off)
        /\ fs.gaps = 0 => AllCovered(fs.off)
        /\ pc["reader"] = "finish" \/ Settled =>
              taken = Len(scen.body) /\ NoneMissed(codec, scen.body, fs.off, taken)
        /\ Settled => malformed = fs.gaps /\ (fs.gaps = 0 => fs.off = taken)

\* The stream is ended by the reader only.
LEMMA EndStep ==
    ASSUME ControlInv, FunnelInv, EndInv, NextCase
    PROVE  EndInv'
  <1> USE ActorFacts
      DEF At, Go, Goto, Shutdown, funnelVars, callVars, lifecycleVars,
          openVars, authVars, verdictVars, probeVars, readVars, ownVars,
          ControlInv, FunnelPCs, ProbePCs, OpenPCs, TimerPCs, ReadPCs,
          EndPCs, ReaderPCs, WatchPCs, CallerPCs, EndInv, Settled
  <1>1. CASE CtxCancel
    BY <1>1 DEF CtxCancel, Opening
  <1>2. CASE TimerFire
    BY <1>2 DEF TimerFire, Opening
  <1>3. CASE BridgeFire
    BY <1>3 DEF BridgeFire, Opening
  <1>4. CASE \E a \in {"timer", "bridge"} : CancelOpen(a)
    BY <1>4 DEF CancelOpen
  <1>5. CASE OpenStart
    BY <1>5 DEF OpenStart, OpenStep
  <1>6. CASE Do
    BY <1>6 DEF Do, OpenStep, Fail
  <1>7. CASE Answered
    BY <1>7 DEF Answered, OpenStep, Fail
  <1>8. CASE Status
    <2>1. pc["open"] = "status" /\ UNCHANGED <<cancelled, result, ret, cause>>
      BY <1>8 DEF Status, OpenStep, Fail
    <2>2. \E p \in ProbePCs \cup {"cleanup"} : pc' = [pc EXCEPT !["open"] = p]
      <3>1. scen.type \in ProbePCs
        BY HttpAssumption DEF ScenarioType
      <3> QED BY <1>8, <3>1 DEF Status, Fail
    <2> QED BY <1>8, <2>1, <2>2 DEF Status, OpenStep
  <1>9. CASE ProbeEffect
    BY <1>9 DEF ProbeEffect, Honest, Blamed
  <1>10. CASE Publish
    BY <1>10 DEF Publish
  <1>11. CASE Spawn
    BY <1>11 DEF Spawn, OpenStep
  <1>12. CASE Cleanup
    BY <1>12 DEF Cleanup, OpenStep
  <1>13. CASE ReaderEffect
    <2>1. cause \in [Actors -> SourceCauses \cup {NoErr}] /\ pc["reader"] \in ReadPCs
      BY <1>13 DEF ReaderEffect, FunnelInv
    <2>2. ~Settled /\ termErr # "streamEnded" /\ termErr' = termErr
      BY <1>13, <2>1 DEF ReaderEffect
    <2>3. CASE \E p \in ReadPCs : Goto("reader", p)
      BY <2>2, <2>3
    <2>4. CASE Goto("reader", "teardown")
      BY <2>2, <2>4
    <2>5. CASE \E c \in SourceCauses, p \in {"teardown", "readErr", "drain"} :
                 (c = "streamEnded" => p = "teardown") /\ Shutdown("reader", c, p)
      <3> PICK c \in SourceCauses, p \in {"teardown", "readErr", "drain"} :
                 (c = "streamEnded" => p = "teardown") /\ Shutdown("reader", c, p)
        BY <2>5
      <3>1. /\ cause' = [cause EXCEPT !["reader"] = c] /\ ret' = [ret EXCEPT !["reader"] = p]
            /\ pc' = [pc EXCEPT !["reader"] = "once"]
        OBVIOUS
      <3> QED BY <2>1, <2>2, <3>1
    <2> QED BY <1>13, <2>3, <2>4, <2>5 DEF ReaderEffect
  <1>14. CASE Teardown
    BY <1>14 DEF Teardown, ReaderStep
  <1>15. CASE Join
    BY <1>15 DEF Join, ReaderStep
  <1>16. CASE Elapse
    BY <1>16 DEF Elapse
  <1>17. CASE Watchdog
    BY <1>17 DEF Watchdog, FunnelInv
  <1>18. CASE \E a \in Actors : OnceDo(a) /\ UNCHANGED ownVars
    BY <1>18 DEF OnceDo
  <1>19. CASE \E a \in Actors : SetTerm(a) /\ UNCHANGED ownVars
    BY <1>19 DEF SetTerm
  <1>20. CASE \E a \in Actors : CloseClosing(a) /\ UNCHANGED ownVars
    BY <1>20 DEF CloseClosing
  <1>21. CASE \E a \in Actors : CancelRequest(a) /\ UNCHANGED ownVars
    BY <1>21 DEF CancelRequest
  <1>22. CASE \E c \in Closers : At("open", "opened") /\ Close(c) /\ UNCHANGED ownVars
    BY <1>22 DEF Close
  <1>23. CASE \E w \in Waiters : At("open", "opened") /\ WaitCtx(w) /\ UNCHANGED ownVars
    BY <1>23 DEF WaitCtx
  <1>24. CASE \E w \in Waiters : At("open", "opened") /\ WaitDone(w) /\ UNCHANGED ownVars
    BY <1>24 DEF WaitDone
  <1>25. CASE UNCHANGED vars
    BY <1>25 DEF vars
  <1> QED
    BY <1>1, <1>2, <1>3, <1>4, <1>5, <1>6, <1>7, <1>8, <1>9, <1>10, <1>11,
       <1>12, <1>13, <1>14, <1>15, <1>16, <1>17, <1>18, <1>19, <1>20, <1>21,
       <1>22, <1>23, <1>24, <1>25 DEF NextCase


\* What the delivery of the body depends on, besides control.
bodyVars == <<scen, codec, at, bounded, remaining, taken, fill, rerr, fs, delivered,
              malformed>>

\* A step of Open that does not look at the body.
OpenMoves ==
    /\ pc["open"] # "opened" /\ pc'["open"] # "opened" /\ UNCHANGED bodyVars
    /\ \/ pc'["open"] = pc["open"]
       \/ /\ pc["open"] \in {"start", "do", "answered", "status"}
          /\ pc'["open"] \notin {"publish", "spawn"}
       \/ pc["open"] = "publish" /\ pc'["open"] = "spawn"
       \/ pc["open"] = "cleanup" /\ pc'["open"] = "failed"

Probes ==
    \/ SetupSniff \/ SetupL16 \/ SetupMP3 \/ Unsupported \/ RiffHeader \/ Chunk
    \/ SkipID3 \/ SetupAAC

\* A step beside the reader's handling of the body.
Quiet ==
    /\ pc["open"] = "opened" /\ pc'["open"] = "opened" /\ UNCHANGED bodyVars
    /\ cause'["reader"] = cause["reader"]
    /\ \/ pc'["reader"] = pc["reader"] /\ ret'["reader"] = ret["reader"]
       \/ /\ pc["reader"] \in FunnelPCs /\ ret'["reader"] = ret["reader"]
          /\ pc'["reader"] \in FunnelPCs \cup {ret["reader"]}
       \/ pc["reader"] \in {"loop", "teardown", "join"} /\ pc'["reader"] \in EndPCs

Handles ==
    /\ pc["open"] = "opened" /\ pc'["open"] = "opened"
    /\ DataEnd \/ Read \/ Absorb \/ Drain \/ ReadErr \/ FinishStream

DataCase == OpenMoves \/ Probes \/ Spawn \/ Quiet \/ Handles

\* Every step is one of DataCase.
LEMMA DataCases ==
    ASSUME ControlInv, FunnelInv, [Next]_vars
    PROVE  DataCase
  <1> USE ActorFacts
      DEF At, Go, Goto, Shutdown, funnelVars, callVars, lifecycleVars,
          openVars, authVars, verdictVars, probeVars, readVars, ownVars, bodyVars,
          FunnelPCs, ProbePCs, OpenPCs, TimerPCs, ReadPCs,
          EndPCs, ReaderPCs, WatchPCs, CallerPCs
  <1>0. /\ pc["open"] # "opened" =>
              /\ pc["reader"] = "unborn" /\ pc["watchdog"] = "unborn"
              /\ \A c \in Callers : pc[c] = "idle"
        /\ pc["open"] \in OpenPCs /\ pc["timer"] \in TimerPCs /\ pc["bridge"] \in TimerPCs
        /\ pc["reader"] \in ReaderPCs
        /\ pc \in [Actors -> OpenPCs \cup TimerPCs \cup ReaderPCs \cup WatchPCs \cup CallerPCs]
        /\ DOMAIN ret = Actors /\ DOMAIN cause = Actors
    BY DEF ControlInv, FunnelInv
  <1> DEFINE Still == /\ UNCHANGED <<bodyVars, cause>> /\ pc'["open"] = pc["open"]
                      /\ pc'["reader"] = pc["reader"] /\ ret'["reader"] = ret["reader"]
  <1>1. Still => OpenMoves \/ Quiet
    BY DEF OpenMoves, Quiet
  <1>2. UNCHANGED vars => Still
    BY DEF vars
  <1>3. CtxCancel \/ TimerFire \/ BridgeFire \/ (\E a \in {"timer", "bridge"} : CancelOpen(a))
           => Still
    BY <1>0 DEF CtxCancel, TimerFire, BridgeFire, CancelOpen
  <1>4. Elapse \/ Watchdog => OpenMoves \/ Quiet
    <2>1. Elapse => Still
      BY <1>0 DEF Elapse
    <2>2. CASE Watchdog
      <3>1. pc["open"] = "opened" /\ UNCHANGED bodyVars
        BY <1>0, <2>2 DEF Watchdog
      <3>2. /\ pc'["open"] = pc["open"] /\ pc'["reader"] = pc["reader"]
            /\ ret'["reader"] = ret["reader"] /\ cause'["reader"] = cause["reader"]
        <4>1. pc'["open"] = pc["open"] /\ pc'["reader"] = pc["reader"]
          BY <1>0, <2>2 DEF Watchdog
        <4>2. ret'["reader"] = ret["reader"] /\ cause'["reader"] = cause["reader"]
          BY <1>0, <2>2 DEF Watchdog
        <4> QED BY <4>1, <4>2
      <3> QED BY <3>1, <3>2 DEF Quiet
    <2> QED BY <1>1, <2>1, <2>2
  <1>5. ApiCalls => Quiet
    <2> SUFFICES ASSUME ApiCalls PROVE Quiet
      OBVIOUS
    <2>1. pc["open"] = "opened" /\ UNCHANGED bodyVars
      BY DEF ApiCalls
    <2>2. \E c \in Callers :
             /\ \E p : pc' = [pc EXCEPT ![c] = p]
             /\ UNCHANGED ret \/ \E p : ret' = [ret EXCEPT ![c] = p]
             /\ UNCHANGED cause \/ \E p : cause' = [cause EXCEPT ![c] = p]
      BY DEF ApiCalls, Calls, Close, WaitCtx, WaitDone
    <2>3. /\ pc'["open"] = pc["open"] /\ pc'["reader"] = pc["reader"]
          /\ ret'["reader"] = ret["reader"] /\ cause'["reader"] = cause["reader"]
      BY <1>0, <2>2
    <2> QED BY <2>1, <2>3 DEF Quiet
  <1>6. Shutdowns => Quiet
    <2> SUFFICES ASSUME Shutdowns PROVE Quiet
      OBVIOUS
    <2> PICK a \in Actors : Funnel(a)
      BY DEF Shutdowns
    <2>1. /\ pc[a] \in FunnelPCs /\ UNCHANGED <<bodyVars, ret, cause>>
          /\ \E p \in FunnelPCs \cup {ret[a]} : pc' = [pc EXCEPT ![a] = p]
      BY DEF Shutdowns, Funnel, OnceDo, SetTerm, CloseClosing, CancelRequest
    <2>2. pc["open"] = "opened" /\ a # "open"
      <3>1. a # "open" /\ a # "timer" /\ a # "bridge"
        BY <1>0, <2>1
      <3>2. pc["open"] # "opened" => pc[a] \in {"unborn", "idle"}
        BY <1>0, <3>1
      <3> QED BY <2>1, <3>1, <3>2
    <2>3. pc'["open"] = "opened"
      BY <1>0, <2>1, <2>2
    <2>4. CASE a = "reader"
      BY <1>0, <2>1, <2>2, <2>3, <2>4 DEF Quiet
    <2>5. CASE a # "reader"
      <3>1. pc'["reader"] = pc["reader"]
        BY <1>0, <2>1, <2>5
      <3> QED BY <2>1, <2>2, <2>3, <3>1 DEF Quiet
    <2> QED BY <2>4, <2>5
  <1>7. Reader => Quiet \/ Handles
    <2> SUFFICES ASSUME Reader PROVE Quiet \/ Handles
      OBVIOUS
    <2>1. pc["reader"] # "unborn" /\ \E p : pc' = [pc EXCEPT !["reader"] = p]
      BY DEF Reader, LoopClosing, DataEnd, Read, Absorb, Drain, ReadErr, FinishStream,
             Teardown, Join, ReaderStep, Emit
    <2>2. pc["open"] = "opened" /\ pc'["open"] = "opened"
      BY <1>0, <2>1
    <2>3. CASE DataEnd \/ Read \/ Absorb \/ Drain \/ ReadErr \/ FinishStream
      BY <2>2, <2>3 DEF Handles
    <2>4. CASE LoopClosing \/ Teardown \/ Join
      <3>1. /\ UNCHANGED <<bodyVars, cause>> /\ pc["reader"] \in {"loop", "teardown", "join"}
            /\ pc'["reader"] \in EndPCs
        BY <1>0, <2>4 DEF LoopClosing, Teardown, Join, ReaderStep
      <3> QED BY <2>2, <3>1 DEF Quiet
    <2> QED BY <2>3, <2>4 DEF Reader
  <1>8. OpenStart \/ Do \/ Answered \/ Status => OpenMoves
    <2>1. OpenStart => OpenMoves
      BY <1>0 DEF OpenStart, OpenStep, OpenMoves
    <2>2. Do => OpenMoves
      BY <1>0 DEF Do, OpenStep, Fail, OpenMoves
    <2>3. Answered => OpenMoves
      BY <1>0 DEF Answered, OpenStep, Fail, OpenMoves
    <2>4. ASSUME Status PROVE OpenMoves
      <3>1. scen.type \in ProbePCs
        BY HttpAssumption DEF ScenarioType, ControlInv
      <3>2. pc["open"] = "status" /\ UNCHANGED bodyVars
        BY <2>4 DEF Status, OpenStep
      <3>3. \E p \in ProbePCs \cup {"cleanup"} : pc' = [pc EXCEPT !["open"] = p]
        BY <2>4, <3>1 DEF Status, Fail
      <3>4. pc'["open"] \in ProbePCs \cup {"cleanup"}
        BY <1>0, <3>3
      <3> QED BY <3>2, <3>4 DEF OpenMoves
    <2> QED BY <2>1, <2>2, <2>3, <2>4
  <1>9. Publish \/ Cleanup => OpenMoves
    BY <1>0 DEF Publish, Cleanup, OpenStep, OpenMoves
  <1>10. Next => DataCase
    BY <1>1, <1>2, <1>3, <1>4, <1>5, <1>6, <1>7, <1>8, <1>9
       DEF Next, OpenPhase, Open, Terminated, DataCase, Probes
  <1> QED BY <1>1, <1>2, <1>10 DEF DataCase

\* What a scenario serves.
LEMMA ScenarioFacts ==
    ASSUME ControlInv
    PROVE  /\ scen.body \in Seq(Cells) /\ Len(scen.body) \in Nat
           /\ scen.chunks \in Seq([id : {"fmt", "data", "junk"}, size : Nat,
                                   form : {"pcm", "ext", "unsupported", "malformed"}])
  <1>1. ScenarioType(scen)
    BY HttpAssumption DEF ControlInv
  <1> QED BY <1>1 DEF ScenarioType

\* What a step of the format probe does to the probe's own state.
ProbeOutcome ==
    /\ pc["open"] \in ProbePCs
    /\ UNCHANGED <<scen, fill, rerr, fs, delivered, malformed>>
    /\ \/ /\ pc'["open"] = "cleanup" \/ (pc["open"] = "sniff" /\ pc'["open"] = "wav")
          /\ UNCHANGED <<codec, at, bounded, remaining, taken>>
       \/ /\ pc["open"] \in {"wav", "chunk"} /\ pc'["open"] = "chunk"
          /\ at' = 1 \/ at' = at + 1
          /\ UNCHANGED <<codec, bounded, remaining, taken>>
       \/ /\ pc["open"] = "aac" /\ pc'["open"] = "aac"
          /\ Rest # <<>> /\ Head(Rest) = "t" /\ Len(Rest) >= TagLen
          /\ taken' = taken + TagLen /\ UNCHANGED <<codec, at, bounded, remaining>>
       \/ /\ pc'["open"] = "publish" /\ UNCHANGED <<at, taken>>
          /\ codec' \in {"pcm", "mp3", "aac"} /\ (codec' = "pcm" => pc["open"] # "aac")
          /\ \/ bounded' = FALSE
             \/ /\ bounded' \in BOOLEAN /\ at <= Len(scen.chunks)
                /\ remaining' = scen.chunks[at].size

\* Every step of the probe is one of these.
LEMMA ProbeOutcomes ==
    ASSUME ControlInv, Probes
    PROVE  ProbeOutcome
  <1> USE DEF ProbeStep, OpenStep, At, Goto, Go, Adopt, Fail, KeepProbe, ProbePCs
  <1>0. pc \in [Actors -> OpenPCs \cup TimerPCs \cup ReaderPCs \cup WatchPCs \cup CallerPCs]
        /\ "open" \in Actors
    BY ActorFacts DEF ControlInv
  <1>1. CASE SetupSniff
    BY <1>0, <1>1 DEF SetupSniff, SetupRaw, HeaderFault, ProbeOutcome
  <1>2. CASE SetupL16
    BY <1>0, <1>2 DEF SetupL16, SetupRaw, ProbeOutcome
  <1>3. CASE SetupMP3
    BY <1>0, <1>3 DEF SetupMP3, ProbeOutcome
  <1>4. CASE Unsupported
    BY <1>0, <1>4 DEF Unsupported, ProbeOutcome
  <1>5. CASE RiffHeader
    BY <1>0, <1>5 DEF RiffHeader, HeaderFault, ProbeOutcome
  <1>6. CASE Chunk
    BY <1>0, <1>6 DEF Chunk, HeaderFault, ProbeOutcome
  <1>7. CASE SkipID3
    BY <1>0, <1>7 DEF SkipID3, HeaderFault, ProbeOutcome
  <1>8. CASE SetupAAC
    BY <1>0, <1>8 DEF SetupAAC, HeaderFault, ProbeOutcome
  <1> QED BY <1>1, <1>2, <1>3, <1>4, <1>5, <1>6, <1>7, <1>8 DEF Probes

\* skipLeadingID3: a tag at taken + 1 that is skipped as a whole.
LEMMA TagSkipped ==
    ASSUME NEW cells \in Seq(Cells), NEW n \in Nat, n <= Len(cells),
           \A p \in 1..n : InTag(cells, p),
           SubSeq(cells, n + 1, Len(cells)) # <<>>,
           Head(SubSeq(cells, n + 1, Len(cells))) = "t",
           Len(SubSeq(cells, n + 1, Len(cells))) >= TagLen
    PROVE  /\ n + TagLen \in Nat /\ n + TagLen <= Len(cells)
           /\ \A p \in 1..(n + TagLen) : InTag(cells, p)
  <1> DEFINE rem == SubSeq(cells, n + 1, Len(cells))
  <1> PICK z \in Nat : z = Len(cells)
    OBVIOUS
  <1>0. TagLen \in Nat /\ TagLen >= 1 /\ DOMAIN cells = 1..z
    BY SizeFacts
  <1>1. rem \in Seq(Cells) /\ Len(rem) = z - n /\ \A i \in 1..(z - n) : rem[i] = cells[n + i]
    BY CellsSeen
  <1>2. rem # <<>> /\ Head(rem) = "t" /\ Len(rem) >= TagLen
    OBVIOUS
  <1> HIDE DEF rem
  <1>3. n + TagLen <= z /\ 1 \in 1..(z - n) /\ n + 1 \in 1..z
    BY <1>0, <1>1, <1>2
  <1>4. cells[n + 1] = "t"
    BY <1>1, <1>2, <1>3
  <1>5. \A p \in 1..(n + TagLen) : InTag(cells, p)
    <2> SUFFICES ASSUME NEW p \in 1..(n + TagLen) PROVE InTag(cells, p)
      OBVIOUS
    <2>1. CASE p <= n
      BY <2>1
    <2>2. CASE ~(p <= n)
      <3>1. n + 1 <= p /\ p < n + 1 + TagLen
        BY <1>0, <2>2
      <3> QED BY <1>0, <1>3, <1>4, <3>1 DEF InTag
    <2> QED BY <2>1, <2>2
  <1> QED BY <1>0, <1>3, <1>5

\* Until there is a reader the probe keeps to its invariant.
LEMMA ProbeInvStep ==
    ASSUME ControlInv, ProbeInv, DataCase
    PROVE  ProbeInv'
  <1> SUFFICES ASSUME pc'["open"] # "opened" PROVE ProbeInv'
    BY DEF ProbeInv
  <1>1. CASE OpenMoves
    BY <1>1 DEF OpenMoves, ProbeInv, bodyVars
  <1>2. CASE Probes
    <2>0. ProbeOutcome
      BY <1>2, ProbeOutcomes
    <2>1. /\ pc["open"] \in ProbePCs
          /\ UNCHANGED <<scen, fill, rerr, fs, delivered, malformed>>
      BY <2>0 DEF ProbeOutcome
    <2>2. /\ fs = NewStream /\ fill = 0 /\ rerr = NoErr /\ delivered = <<>> /\ malformed = 0
          /\ taken \in Nat /\ taken <= Len(scen.body)
          /\ \A p \in 1..taken : InTag(scen.body, p)
          /\ pc["open"] # "aac" => taken = 0
          /\ codec = "none" /\ bounded = FALSE /\ at \in Nat \ {0}
      BY <2>1 DEF ProbeInv, ProbePCs
    <2>3. CASE /\ pc'["open"] = "cleanup" \/ (pc["open"] = "sniff" /\ pc'["open"] = "wav")
               /\ UNCHANGED <<codec, at, bounded, remaining, taken>>
      BY <2>1, <2>2, <2>3 DEF ProbeInv
    <2>4. CASE /\ pc["open"] \in {"wav", "chunk"} /\ pc'["open"] = "chunk"
               /\ at' = 1 \/ at' = at + 1
               /\ UNCHANGED <<codec, bounded, remaining, taken>>
      <3>1. at' \in Nat \ {0}
        BY <2>2, <2>4
      <3> QED BY <2>1, <2>2, <2>4, <3>1 DEF ProbeInv
    <2>5. CASE /\ pc["open"] = "aac" /\ pc'["open"] = "aac"
               /\ Rest # <<>> /\ Head(Rest) = "t" /\ Len(Rest) >= TagLen
               /\ taken' = taken + TagLen /\ UNCHANGED <<codec, at, bounded, remaining>>
      <3>1. /\ taken' \in Nat /\ taken' <= Len(scen.body)
            /\ \A p \in 1..taken' : InTag(scen.body, p)
        BY <2>2, <2>5, ScenarioFacts, TagSkipped DEF Rest
      <3> QED BY <2>1, <2>2, <2>5, <3>1 DEF ProbeInv
    <2>6. CASE /\ pc'["open"] = "publish" /\ UNCHANGED <<at, taken>>
               /\ codec' \in {"pcm", "mp3", "aac"} /\ (codec' = "pcm" => pc["open"] # "aac")
               /\ \/ bounded' = FALSE
                  \/ /\ bounded' \in BOOLEAN /\ at <= Len(scen.chunks)
                     /\ remaining' = scen.chunks[at].size
      BY <2>1, <2>2, <2>6 DEF ProbeInv
    <2> QED BY <2>0, <2>3, <2>4, <2>5, <2>6 DEF ProbeOutcome
  <1>3. ~Spawn /\ ~Quiet /\ ~Handles
    <2>1. ~Spawn
      BY ActorFacts DEF Spawn, ControlInv
    <2> QED BY <2>1 DEF Quiet, Handles
  <1> QED BY <1>1, <1>2, <1>3 DEF DataCase

LiveInv == ReadInv /\ PcmInv /\ FramedInv

\* A reader starts where Open left the body.
LEMMA SpawnLive ==
    ASSUME ControlInv, EndInv, ProbeInv, Spawn
    PROVE  LiveInv'
  <1>1. /\ pc["open"] = "spawn" /\ pc["reader"] = "unborn"
        /\ pc'["open"] = "opened" /\ pc'["reader"] = "loop"
        /\ UNCHANGED <<scen, ret, cause, codec, at, bounded, remaining, taken, fill, rerr,
                       delivered, malformed>>
        /\ fs' = [fs EXCEPT !.off = taken]
    BY ActorFacts DEF Spawn, OpenStep, At, ControlInv, probeVars
  <1>2. ~Settled' /\ ~Settled
    BY <1>1 DEF EndInv, Settled, EndPCs, FunnelPCs
  <1>3. /\ fs = NewStream /\ fill = 0 /\ rerr = NoErr /\ delivered = <<>> /\ malformed = 0
        /\ taken \in Nat /\ taken <= Len(scen.body)
        /\ \A p \in 1..taken : InTag(scen.body, p)
        /\ codec \in {"pcm", "mp3", "aac"} /\ (codec = "pcm" => taken = 0)
        /\ at \in Nat \ {0} /\ bounded \in BOOLEAN
        /\ bounded => at <= Len(scen.chunks) /\ remaining = scen.chunks[at].size
    BY <1>1 DEF ProbeInv
  <1>4. DOMAIN delivered = {} /\ Len(delivered) = 0 /\ delivered \in Seq([at : Nat, len : Nat])
    BY <1>3
  <1>5. ReadInv'
    BY <1>1, <1>3, <1>4 DEF ReadInv, FunnelPCs, NoErr
  <1>6. PcmInv'
    <2> SUFFICES ASSUME codec = "pcm" PROVE PcmInv'
      BY <1>1 DEF PcmInv
    <2>1. FrameBytes > 0 /\ 0 \in Nat /\ 0 < FrameBytes
      BY HttpAssumption
    <2>2. Sum(Len(delivered))' = 0
      BY <1>1, <1>4 DEF Sum
    <2>3. bounded => remaining \in Nat
      <3> SUFFICES ASSUME bounded PROVE remaining \in Nat
        OBVIOUS
      <3>1. at \in 1..Len(scen.chunks)
        BY <1>3, ScenarioFacts
      <3> DEFINE C == [id : {"fmt", "data", "junk"}, size : Nat,
                       form : {"pcm", "ext", "unsupported", "malformed"}]
      <3>2. scen.chunks \in Seq(C)
        BY ScenarioFacts
      <3>3. \A c \in C : c.size \in Nat
        OBVIOUS
      <3> HIDE DEF C
      <3>4. scen.chunks[at] \in C
        BY <3>1, <3>2, ElementOfSeq
      <3> QED BY <1>3, <3>3, <3>4
    <2>4. bounded => 0 + remaining = scen.chunks[at].size
      BY <1>3, <2>3
    <2> QED BY <1>1, <1>2, <1>3, <1>4, <2>1, <2>2, <2>3, <2>4 DEF PcmInv
  <1>7. FramedInv'
    <2> SUFFICES ASSUME codec # "pcm" PROVE FramedInv'
      BY <1>1 DEF FramedInv
    <2>1. /\ fs' \in FramerState /\ fs'.off = taken /\ fs'.skip = 0 /\ fs'.ended = FALSE
          /\ fs'.gaps = 0
      BY <1>1, <1>3 DEF NewStream, FramerState
    <2>2. SkipsTag(codec, scen.body, fs')
      BY <2>1 DEF SkipsTag
    <2>3. FramesOk(fs.off)'
      BY <1>1, <1>4 DEF FramesOk
    <2>4. OwedPaid(fs.off)'
      <3>1. \A p \in 1..taken : ~MustDeliver(codec, scen.body, p)
        BY <1>3, ScenarioFacts, TagHides
      <3> QED BY <1>1, <2>1, <3>1 DEF OwedPaid
    <2>5. AllCovered(fs.off)'
      BY <1>1, <1>3, <2>1 DEF AllCovered
    <2>6. fs'.off <= taken'
      BY <1>1, <1>3, <2>1
    <2> QED BY <1>1, <1>2, <2>1, <2>2, <2>3, <2>4, <2>5, <2>6 DEF FramedInv
  <1> QED BY <1>5, <1>6, <1>7 DEF LiveInv

\* Nothing beside the reader's own steps touches what it has read.
LEMMA QuietLive ==
    ASSUME ControlInv, LiveInv, Quiet
    PROVE  LiveInv'
  <1>1. /\ UNCHANGED <<scen, codec, at, bounded, remaining, taken, fill, rerr, fs,
                       delivered, malformed>>
        /\ pc["open"] = "opened" /\ pc'["open"] = "opened"
        /\ Settled' = Settled
    BY DEF Quiet, bodyVars, Settled
  <1>2. /\ pc'["reader"] = "absorb" => pc["reader"] = "absorb"
        /\ pc["reader"] = "absorb" => pc'["reader"] = "absorb"
        /\ pc'["reader"] = "finish" => pc["reader"] = "finish"
        /\ pc'["reader"] = "drain" =>
              \/ pc["reader"] = "drain"
              \/ pc["reader"] \in FunnelPCs /\ ret["reader"] = "drain"
        /\ pc'["reader"] \in FunnelPCs /\ ret'["reader"] = "drain" =>
              pc["reader"] \in FunnelPCs /\ ret["reader"] = "drain"
    BY DEF Quiet, ControlInv, FunnelPCs, EndPCs
  <1>3. ReadInv'
    BY <1>1, <1>2 DEF LiveInv, ReadInv
  <1>4. PcmInv'
    BY <1>1, <1>2 DEF LiveInv, PcmInv, Sum
  <1>5. FramedInv'
    BY <1>1, <1>2 DEF LiveInv, FramedInv, FramesOk, OwedPaid, AllCovered
  <1> QED BY <1>3, <1>4, <1>5 DEF LiveInv

\* Nothing has been settled while the reader is in its loop.
LEMMA Unsettled ==
    ASSUME EndInv, pc["reader"] \in ReadPCs
    PROVE  ~Settled /\ termErr # "streamEnded"
  BY DEF EndInv, ReadPCs, EndPCs, FunnelPCs

\* The whole sample-frames in a buffer, and what is left of it.
LEMMA WholeFrames ==
    ASSUME NEW n \in Nat
    PROVE  /\ n % FrameBytes \in Nat /\ n % FrameBytes < FrameBytes /\ n % FrameBytes <= n
           /\ n - (n % FrameBytes) \in Nat
           /\ (n - (n % FrameBytes)) % FrameBytes = 0
  <1> PICK f \in Nat : f = FrameBytes /\ f > 0
    BY HttpAssumption
  <1> PICK m \in Nat : m = n % f
    OBVIOUS
  <1>1. m < f /\ m <= n
    OBVIOUS
  <1> PICK q \in Nat : n = f * q + m
    OBVIOUS
  <1>2. (n - m) % f = 0
    OBVIOUS
  <1> QED BY <1>1, <1>2

\* A call of OnFrame: one more frame, and not the end of the stream.
LEMMA EmitFacts ==
    ASSUME ControlInv, FunnelInv, NEW p, NEW n, NEW next \in {"readErr", "drain"},
           Emit(p, n, next)
    PROVE  /\ delivered' = Append(delivered, [at |-> p, len |-> n])
           /\ pc'["reader"] \in {next, "once"}
           /\ pc'["reader"] = "once" => ret'["reader"] \in {next, "teardown"}
           /\ Settled' => Settled
  <1>1. /\ "reader" \in Actors /\ DOMAIN pc = Actors /\ DOMAIN ret = Actors
        /\ DOMAIN cause = Actors
    BY ActorFacts DEF ControlInv, FunnelInv
  <1> QED BY <1>1 DEF Emit, Goto, Go, Shutdown, Settled

\* Read: at most what is left of the body, and all of it when it reports its end.
LEMMA ReadFacts ==
    ASSUME ControlInv, FunnelInv, EndInv, LiveInv, pc["open"] = "opened", Read
    PROVE  /\ pc["reader"] = "loop" /\ ~Settled /\ ~Settled'
           /\ UNCHANGED <<scen, codec, at, bounded, fs, delivered, malformed>>
           /\ \E n \in Nat :
                /\ taken' = taken + n /\ taken + n <= Len(scen.body)
                /\ rerr' = "eof" => taken + n = Len(scen.body)
                /\ remaining' = IF bounded THEN remaining - n ELSE remaining
                /\ fill' = IF codec = "pcm" THEN fill + n ELSE fill
                /\ codec = "pcm" /\ bounded => n <= remaining
                /\ pc'["reader"] = IF n = 0 THEN "readErr"
                                   ELSE IF codec = "pcm" THEN "absorb" ELSE "drain"
  <1>1. /\ pc["reader"] = "loop" /\ UNCHANGED <<scen, cause, codec, at, bounded, fs, delivered, malformed>>
    BY DEF Read, ReaderStep, At, Goto, probeVars
  <1>2. ~Settled /\ ~Settled'
    BY <1>1, Unsettled DEF ReadPCs, Settled
  <1>3. PICK n \in 0..Limit, err \in {NoErr, "eof", "reset", "cancel"} :
              /\ ReadResult(n, err)
              /\ taken' = taken + n /\ rerr' = err
              /\ remaining' = IF bounded THEN remaining - n ELSE remaining
              /\ fill' = IF codec = "pcm" THEN fill + n ELSE fill
              /\ Goto("reader", IF n = 0 THEN "readErr"
                                ELSE IF codec = "pcm" THEN "absorb" ELSE "drain")
    BY DEF Read
  <1>4. taken \in Nat /\ taken <= Len(scen.body) /\ Len(scen.body) \in Nat
    BY ScenarioFacts DEF LiveInv, ReadInv
  <1>5. Len(Rest) = Len(scen.body) - taken
    <2> PICK z \in Nat : z = Len(scen.body)
      BY <1>4
    <2>1. Len(SubSeq(scen.body, taken + 1, z)) = z - taken
      BY <1>4, ScenarioFacts, CellsSeen
    <2> QED BY <2>1 DEF Rest
  <1>6. n \in Nat /\ n <= Len(Rest) /\ (codec = "pcm" /\ bounded => n <= remaining)
    <2>1. RBuf \in Nat
      BY HttpAssumption
    <2>2. Len(Rest) \in Nat
      BY <1>4, <1>5
    <2>3. CASE codec # "pcm"
      <3>1. n \in 0..Lesser(RBuf, Len(Rest))
        BY <1>3, <2>3 DEF Limit
      <3> QED BY <2>1, <2>2, <2>3, <3>1 DEF Lesser
    <2>4. CASE codec = "pcm"
      <3>1. fill \in Nat /\ (bounded => remaining \in Nat)
        BY <2>4 DEF LiveInv, PcmInv
      <3>2. CASE bounded
        <4>1. n \in 0..Lesser(Lesser(RBuf - fill, remaining), Len(Rest))
          BY <1>3, <2>4, <3>2 DEF Limit
        <4> QED BY <2>1, <2>2, <3>1, <3>2, <4>1 DEF Lesser
      <3>3. CASE ~bounded
        <4>1. n \in 0..Lesser(RBuf - fill, Len(Rest))
          BY <1>3, <2>4, <3>3 DEF Limit
        <4> QED BY <2>1, <2>2, <3>1, <3>3, <4>1 DEF Lesser
      <3> QED BY <3>2, <3>3
    <2> QED BY <2>3, <2>4
  <1>7. taken + n <= Len(scen.body) /\ (rerr' = "eof" => taken + n = Len(scen.body))
    <2>1. rerr' = "eof" => n = Len(Rest)
      BY <1>3 DEF ReadResult
    <2> QED BY <1>4, <1>5, <1>6, <2>1
  <1>8. pc'["reader"] = IF n = 0 THEN "readErr"
                        ELSE IF codec = "pcm" THEN "absorb" ELSE "drain"
    BY <1>3, ActorFacts DEF Goto, Go, ControlInv
  <1> QED BY <1>1, <1>2, <1>3, <1>6, <1>7, <1>8

\* Where the next PCM delivery starts.
LEMMA SumFacts ==
    ASSUME delivered \in Seq([at : Nat, len : Nat])
    PROVE  Sum(Len(delivered)) \in Int /\ Sum(Len(delivered)) + 1 \in Nat
  <1> DEFINE S == Sum(Len(delivered))
  <1>1. delivered = <<>> => S = 0
    BY DEF Sum
  <1>2. delivered # <<>> => S \in Int /\ S + 1 \in Nat
    <2> SUFFICES ASSUME delivered # <<>> PROVE S \in Int /\ S + 1 \in Nat
      OBVIOUS
    <2>1. Len(delivered) \in 1..Len(delivered) /\ Len(delivered) # 0
      OBVIOUS
    <2> DEFINE d == delivered[Len(delivered)]
    <2>2. d \in [at : Nat, len : Nat]
      BY <2>1, ElementOfSeq
    <2>3. d.at \in Nat /\ d.len \in Nat
      BY <2>2
    <2>4. S = d.at + d.len - 1
      BY <2>1 DEF Sum
    <2> HIDE DEF d
    <2> QED BY <2>3, <2>4
  <1> QED BY <1>1, <1>2

\* Read keeps what it has read within the body and the declared chunk.
LEMMA ReadLive ==
    ASSUME ControlInv, FunnelInv, EndInv, LiveInv,
           pc["open"] = "opened", pc'["open"] = "opened", Read
    PROVE  LiveInv'
  <1>1. /\ pc["reader"] = "loop" /\ ~Settled /\ ~Settled'
        /\ UNCHANGED <<scen, codec, at, bounded, fs, delivered, malformed>>
    BY ReadFacts
  <1>2. PICK n \in Nat :
                /\ taken' = taken + n /\ taken + n <= Len(scen.body)
                /\ rerr' = "eof" => taken + n = Len(scen.body)
                /\ remaining' = IF bounded THEN remaining - n ELSE remaining
                /\ fill' = IF codec = "pcm" THEN fill + n ELSE fill
                /\ codec = "pcm" /\ bounded => n <= remaining
                /\ pc'["reader"] = IF n = 0 THEN "readErr"
                                   ELSE IF codec = "pcm" THEN "absorb" ELSE "drain"
    BY ReadFacts
  <1>3. /\ taken \in Nat /\ taken <= Len(scen.body) /\ Len(scen.body) \in Nat
        /\ codec \in {"pcm", "mp3", "aac"} /\ delivered \in Seq([at : Nat, len : Nat])
    BY ScenarioFacts DEF LiveInv, ReadInv
  <1>4. ReadInv'
    <2>1. taken' \in Nat
      BY <1>2, <1>3
    <2> QED BY <1>1, <1>2, <1>3, <2>1 DEF ReadInv, FunnelPCs
  <1>5. PcmInv'
    <2> SUFFICES ASSUME codec = "pcm" PROVE PcmInv'
      BY <1>1 DEF PcmInv
    <2>1. /\ fill \in Nat /\ taken = Sum(Len(delivered)) + fill /\ fill < FrameBytes
          /\ malformed = 0 /\ bounded \in BOOLEAN
          /\ bounded => remaining \in Nat /\ taken + remaining = scen.chunks[at].size
          /\ \A i \in DOMAIN delivered :
                /\ delivered[i].len % FrameBytes = 0
                /\ delivered[i].at = Sum(i - 1) + 1
      BY <1>1 DEF LiveInv, PcmInv
    <2>2. Sum(Len(delivered)) \in Int
      BY <1>3, SumFacts
    <2>3. fill' \in Nat /\ taken' = Sum(Len(delivered)) + fill'
      <3> PICK S \in Int : S = Sum(Len(delivered))
        BY <2>2
      <3> QED BY <1>2, <1>3, <2>1
    <2>4. pc'["reader"] # "absorb" => fill' < FrameBytes
      BY <1>2, <2>1
    <2>5. bounded => remaining' \in Nat /\ taken' + remaining' = scen.chunks[at].size
      BY <1>2, <1>3, <2>1
    <2>6. \A k : Sum(k)' = Sum(k)
      BY <1>1 DEF Sum
    <2>7. Sum(Len(delivered))' = Sum(Len(delivered))
      BY <1>1 DEF Sum
    <2>8. \A i \in DOMAIN delivered' :
                /\ delivered'[i].len % FrameBytes = 0
                /\ delivered'[i].at = Sum(i - 1)' + 1
      BY <1>1, <2>1 DEF Sum
    <2> QED BY <1>1, <2>1, <2>3, <2>4, <2>5, <2>7, <2>8 DEF PcmInv
  <1>6. FramedInv'
    <2> SUFFICES ASSUME codec # "pcm" PROVE FramedInv'
      BY <1>1 DEF FramedInv
    <2>1. /\ fs \in FramerState /\ fs.off <= taken
          /\ SkipsTag(codec, scen.body, fs)
          /\ fs.ended => taken = Len(scen.body)
          /\ FramesOk(fs.off) /\ OwedPaid(fs.off)
          /\ fs.gaps = 0 => AllCovered(fs.off)
      BY DEF LiveInv, FramedInv
    <2>2. fs.off <= taken' /\ (fs.ended => taken' = Len(scen.body))
      BY <1>2, <1>3, <2>1, FramerFields
    <2>3. FramesOk(fs.off)' /\ OwedPaid(fs.off)' /\ (fs'.gaps = 0 => AllCovered(fs.off)')
      BY <1>1, <2>1 DEF FramesOk, OwedPaid, AllCovered
    <2>4. pc'["reader"] # "finish"
      BY <1>2
    <2> QED BY <1>1, <2>1, <2>2, <2>3, <2>4 DEF FramedInv
  <1> QED BY <1>4, <1>5, <1>6 DEF LiveInv

\* The end of the data chunk leaves what cannot be a sample-frame, counted.
LEMMA DataEndLive ==
    ASSUME ControlInv, FunnelInv, EndInv, LiveInv,
           pc["open"] = "opened", pc'["open"] = "opened", DataEnd
    PROVE  LiveInv'
  <1>1. /\ pc["reader"] = "loop" /\ codec = "pcm" /\ pc' = [pc EXCEPT !["reader"] = "once"]
        /\ ret' = [ret EXCEPT !["reader"] = "teardown"]
        /\ cause' = [cause EXCEPT !["reader"] = "streamEnded"]
        /\ malformed' = malformed + (IF fill > 0 THEN 1 ELSE 0)
        /\ UNCHANGED <<scen, codec, at, bounded, remaining, taken, fill, rerr, fs, delivered>>
    BY DEF DataEnd, ReaderStep, At, Shutdown, Goto, Go, probeVars, DropPartial
  <1>2. /\ "reader" \in Actors /\ DOMAIN pc = Actors /\ DOMAIN ret = Actors
        /\ DOMAIN cause = Actors
    BY ActorFacts DEF ControlInv, FunnelInv
  <1>3. pc'["reader"] = "once" /\ ret'["reader"] = "teardown" /\ Settled' /\ ~Settled
    BY <1>1, <1>2, Unsettled DEF Settled, ReadPCs
  <1>4. ReadInv'
    BY <1>1, <1>3 DEF LiveInv, ReadInv
  <1>5. PcmInv'
    <2>1. malformed = 0 /\ fill \in Nat /\ fill < FrameBytes
      BY <1>1, <1>3 DEF LiveInv, PcmInv
    <2>2. malformed' = IF fill > 0 THEN 1 ELSE 0
      BY <1>1, <2>1
    <2> QED BY <1>1, <1>3, <2>1, <2>2 DEF LiveInv, PcmInv, Sum
  <1>6. FramedInv'
    BY <1>1 DEF FramedInv
  <1> QED BY <1>4, <1>5, <1>6 DEF LiveInv

\* absorb: deliveries follow one another, and less than a sample-frame is kept.
LEMMA AbsorbLive ==
    ASSUME ControlInv, FunnelInv, EndInv, LiveInv,
           pc["open"] = "opened", pc'["open"] = "opened", Absorb
    PROVE  LiveInv'
  <1>1. /\ pc["reader"] = "absorb" 
        /\ UNCHANGED <<scen, codec, at, bounded, remaining, taken, rerr, fs, malformed>>
    BY DEF Absorb, ReaderStep, At, probeVars
  <1>2. /\ "reader" \in Actors /\ DOMAIN pc = Actors /\ DOMAIN ret = Actors
        /\ DOMAIN cause = Actors
    BY ActorFacts DEF ControlInv, FunnelInv
  <1>3. /\ codec = "pcm" /\ taken \in Nat /\ taken <= Len(scen.body)
        /\ rerr = "eof" => taken = Len(scen.body)
        /\ delivered \in Seq([at : Nat, len : Nat])
    BY <1>1 DEF LiveInv, ReadInv
  <1>4. ~Settled
    BY <1>1, Unsettled DEF ReadPCs
  <1>5. /\ fill \in Nat /\ taken = Sum(Len(delivered)) + fill /\ malformed = 0
        /\ bounded \in BOOLEAN
        /\ bounded => remaining \in Nat /\ taken + remaining = scen.chunks[at].size
        /\ \A i \in DOMAIN delivered :
              /\ delivered[i].len % FrameBytes = 0
              /\ delivered[i].at = Sum(i - 1) + 1
    BY <1>1, <1>3, <1>4 DEF LiveInv, PcmInv
  <1> DEFINE whole == fill - (fill % FrameBytes)
             p == taken - fill + 1
  <1>6. whole \in Nat /\ whole % FrameBytes = 0 /\ fill - whole \in Nat /\ fill - whole < FrameBytes
    <2> PICK m \in Nat : m = fill % FrameBytes /\ m < FrameBytes /\ m <= fill
      BY <1>5, WholeFrames
    <2>1. whole = fill - m /\ fill - whole = m
      BY <1>5
    <2>2. whole \in Nat /\ whole % FrameBytes = 0
      BY <1>5, WholeFrames
    <2> QED BY <2>1, <2>2
  <1>7. /\ fill' = fill - whole
        /\ \/ whole > 0 /\ Emit(p, whole, "readErr")
           \/ whole = 0 /\ Goto("reader", "readErr") /\ UNCHANGED delivered
    BY DEF Absorb
  <1>8. p = Sum(Len(delivered)) + 1 /\ p \in Nat
    <2> PICK S \in Int : S = Sum(Len(delivered)) /\ S + 1 \in Nat
      BY <1>3, SumFacts
    <2> QED BY <1>3, <1>5
  <1> HIDE DEF whole, p
  <1>9. fill' \in Nat /\ fill' < FrameBytes
    BY <1>6, <1>7
  <1>10. CASE whole = 0 /\ Goto("reader", "readErr") /\ UNCHANGED delivered
    <2>1. pc'["reader"] = "readErr" /\ ~Settled'
      BY <1>2, <1>4, <1>10 DEF Goto, Go, Settled
    <2>2. fill' = fill
      BY <1>5, <1>7, <1>10
    <2>3. ReadInv'
      BY <1>1, <1>3, <1>10, <2>1 DEF ReadInv, FunnelPCs
    <2>4. PcmInv'
      BY <1>1, <1>3, <1>5, <1>9, <1>10, <2>1, <2>2 DEF PcmInv, Sum
    <2> QED BY <1>1, <1>3, <2>3, <2>4 DEF LiveInv, FramedInv
  <1>11. CASE Emit(p, whole, "readErr")
    <2> DEFINE d == [at |-> p, len |-> whole]
    <2>1. /\ delivered' = Append(delivered, d)
          /\ pc'["reader"] \in {"readErr", "once"} /\ ~Settled'
          /\ pc'["reader"] = "once" => ret'["reader"] \in {"readErr", "teardown"}
      BY <1>4, <1>11, EmitFacts
    <2>2. d \in [at : Nat, len : Nat] /\ d.at = p /\ d.len = whole
      BY <1>6, <1>8
    <2> HIDE DEF d
    <2> PICK n \in Nat : n = Len(delivered)
      BY <1>3
    <2>3. /\ delivered' \in Seq([at : Nat, len : Nat]) /\ Len(delivered') = n + 1
          /\ delivered'[n + 1] = d /\ DOMAIN delivered = 1..n /\ DOMAIN delivered' = 1..(n + 1)
          /\ \A i \in 1..n : delivered'[i] = delivered[i]
      BY <1>3, <2>1, <2>2
    <2>4. ReadInv'
      BY <1>1, <1>3, <2>1, <2>3 DEF ReadInv, FunnelPCs
    <2>5. \A k \in 0..n : Sum(k)' = Sum(k)
      BY <2>3 DEF Sum
    <2>6. taken' = Sum(Len(delivered))' + fill'
      <3>1. Sum(Len(delivered))' = p + whole - 1
        BY <2>2, <2>3 DEF Sum
      <3>2. taken = p - 1 + fill
        BY <1>3, <1>5 DEF p
      <3>3. p + whole - 1 + (fill - whole) = p - 1 + fill
        BY <1>5, <1>6, <1>8
      <3> QED BY <1>1, <1>7, <3>1, <3>2, <3>3
    <2>7. \A i \in DOMAIN delivered' :
                /\ delivered'[i].len % FrameBytes = 0
                /\ delivered'[i].at = Sum(i - 1)' + 1
      <3> SUFFICES ASSUME NEW i \in 1..(n + 1)
                   PROVE  /\ delivered'[i].len % FrameBytes = 0
                          /\ delivered'[i].at = Sum(i - 1)' + 1
        BY <2>3
      <3>1. CASE i = n + 1
        <4>1. i - 1 = n /\ n \in 0..n
          BY <3>1
        <4> QED BY <1>6, <1>8, <2>2, <2>3, <2>5, <3>1, <4>1
      <3>2. CASE i \in 1..n
        <4>1. i - 1 \in 0..n
          BY <3>2
        <4> QED BY <1>5, <2>3, <2>5, <3>2, <4>1
      <3> QED BY <3>1, <3>2
    <2>8. malformed' = IF (Settled /\ fill > 0)' THEN 1 ELSE 0
      BY <1>1, <1>5, <2>1
    <2>9. PcmInv'
      BY <1>1, <1>3, <1>5, <1>9, <2>6, <2>7, <2>8 DEF PcmInv
    <2> QED BY <1>1, <1>3, <2>4, <2>9 DEF LiveInv, FramedInv
  <1> QED BY <1>7, <1>10, <1>11

\* A sequence of deliveries that has grown by one.
LEMMA OneMore ==
    ASSUME delivered \in Seq([at : Nat, len : Nat]), NEW p \in Nat,
           delivered' = Append(delivered, [at |-> p, len |-> FrameLen])
    PROVE  \E n \in Nat :
              /\ DOMAIN delivered = 1..n /\ DOMAIN delivered' = 1..(n + 1)
              /\ delivered' \in Seq([at : Nat, len : Nat])
              /\ delivered'[n + 1].at = p
              /\ \A i \in 1..n : delivered'[i] = delivered[i] /\ delivered[i].at \in Nat
  <1> DEFINE R == [at : Nat, len : Nat]
             d == [at |-> p, len |-> FrameLen]
  <1>1. d \in R /\ d.at = p /\ \A r \in R : r.at \in Nat
    BY SizeFacts
  <1> HIDE DEF R, d
  <1> PICK n \in Nat : n = Len(delivered)
    BY DEF R
  <1>2. /\ DOMAIN delivered = 1..n /\ DOMAIN delivered' = 1..(n + 1)
        /\ delivered' \in Seq(R) /\ delivered'[n + 1] = d
        /\ \A i \in 1..n : delivered'[i] = delivered[i]
    <2>1. delivered \in Seq(R) /\ delivered' = Append(delivered, d)
      BY DEF R, d
    <2> QED BY <1>1, <2>1
  <1>3. \A i \in 1..n : delivered[i] \in R
    <2>1. delivered \in Seq(R)
      BY DEF R
    <2> QED BY <2>1, ElementOfSeq
  <1>4. WITNESS n \in Nat
  <1> QED BY <1>1, <1>2, <1>3 DEF R

\* The arithmetic of two frames in a row.
LEMMA Apart ==
    ASSUME NEW a \in Nat, NEW f \in Nat, NEW s \in Nat, NEW t \in Nat,
           a + f <= s + 1, s + f <= t
    PROVE  a + f <= t - f + 1 /\ a + f <= t + 1
  OBVIOUS

\* A frame that ends before s ends before t.
LEMMA Farther ==
    ASSUME NEW a \in Nat, NEW f \in Nat, NEW s \in Nat, NEW t \in Nat,
           a + f <= s + 1, s <= t
    PROVE  a + f <= t + 1
  OBVIOUS

\* The last of n + 1 or one before it.
LEMMA LastOrNot ==
    ASSUME NEW n \in Nat, NEW j \in 1..(n + 1)
    PROVE  j = n + 1 \/ j \in 1..n
  OBVIOUS

\* The cells up to the frame that ends at t, and that frame.
LEMMA SplitAt ==
    ASSUME NEW f \in Nat, f >= 1, NEW s \in Nat, NEW t \in Nat, s + f <= t,
           NEW q \in 1..t
    PROVE  \/ q \in 1..s
           \/ q \in (s + 1)..(t - f)
           \/ t - f + 1 <= q /\ q < (t - f + 1) + f
  OBVIOUS

\* drainCompressed hands a frame to OnFrame.
LEMMA FrameKept ==
    ASSUME ControlInv, ReadInv, FramedInv, pc["open"] = "opened", codec # "pcm",
           UNCHANGED <<scen, codec>>,
           Returns(codec, scen.body, fs, fs'),
           delivered' = Append(delivered, [at |-> fs'.off - FrameLen + 1, len |-> FrameLen])
    PROVE  /\ delivered' \in Seq([at : Nat, len : Nat])
           /\ FramesOk(fs.off)' /\ OwedPaid(fs.off)'
           /\ fs'.gaps = 0 => AllCovered(fs.off)'
  <1> DEFINE p == fs'.off - FrameLen + 1
  <1>1. /\ fs \in FramerState /\ FramesOk(fs.off) /\ OwedPaid(fs.off)
        /\ fs.gaps = 0 => AllCovered(fs.off)
        /\ delivered \in Seq([at : Nat, len : Nat])
    BY DEF ReadInv, FramedInv
  <1>2. /\ fs' \in FramerState /\ fs.off + FrameLen <= fs'.off
        /\ HeaderAt(scen.body, p)
        /\ codec = "aac" => scen.body[p] # "m"
        /\ \A q \in (fs.off + 1)..fs'.off : MustDeliver(codec, scen.body, q) => q = p
        /\ fs'.gaps = 0 =>
              fs.gaps = 0 /\ \A q \in (fs.off + 1)..(fs'.off - FrameLen) : InTag(scen.body, q)
    BY DEF Returns
  <1> PICK f \in Nat : f = FrameLen /\ f >= 1
    BY SizeFacts
  <1> PICK s \in Nat : s = fs.off
    BY <1>1, FramerFields
  <1> PICK t \in Nat : t = fs'.off
    BY <1>2, FramerFields
  <1>3. s + f <= t /\ p = t - f + 1 /\ p \in Nat
    BY <1>2
  <1> HIDE DEF p
  <1>4. delivered' = Append(delivered, [at |-> p, len |-> FrameLen])
    BY DEF p
  <1> PICK n \in Nat :
              /\ DOMAIN delivered = 1..n /\ DOMAIN delivered' = 1..(n + 1)
              /\ delivered' \in Seq([at : Nat, len : Nat])
              /\ delivered'[n + 1].at = p
              /\ \A i \in 1..n : delivered'[i] = delivered[i] /\ delivered[i].at \in Nat
    BY <1>1, <1>3, <1>4, OneMore
  <1>5. \A i \in 1..n :
            delivered[i].at + f <= p /\ delivered[i].at + f <= t + 1
    <2> SUFFICES ASSUME NEW i \in 1..n
                 PROVE  delivered[i].at + f <= p /\ delivered[i].at + f <= t + 1
      OBVIOUS
    <2>1. delivered[i].at + f <= s + 1
      BY <1>1 DEF FramesOk
    <2> PICK a \in Nat : a = delivered[i].at
      OBVIOUS
    <2>2. a + f <= t - f + 1 /\ a + f <= t + 1
      BY <1>3, <2>1, Apart
    <2> QED BY <1>3, <2>2
  <1>6. FramesOk(t)'
    <2>1. \A i, j \in 1..(n + 1) :
              i < j => delivered'[i].at + FrameLen <= delivered'[j].at
      <3> SUFFICES ASSUME NEW i \in 1..(n + 1), NEW j \in 1..(n + 1), i < j
                   PROVE  delivered'[i].at + FrameLen <= delivered'[j].at
        OBVIOUS
      <3>1. i \in 1..n
        OBVIOUS
      <3>2. CASE j = n + 1
        BY <1>5, <3>1, <3>2
      <3>3. CASE j \in 1..n
        <4>1. delivered[i].at + FrameLen <= delivered[j].at
          BY <1>1, <3>1, <3>3 DEF FramesOk
        <4> QED BY <3>1, <3>3, <4>1
      <3>4. j = n + 1 \/ j \in 1..n
        BY LastOrNot
      <3> QED BY <3>2, <3>3, <3>4
    <2>2. \A i \in 1..(n + 1) :
              /\ HeaderAt(scen.body, delivered'[i].at)
              /\ codec = "aac" => scen.body[delivered'[i].at] # "m"
              /\ delivered'[i].at + FrameLen <= t + 1
      <3> SUFFICES ASSUME NEW i \in 1..(n + 1)
                   PROVE  /\ HeaderAt(scen.body, delivered'[i].at)
                          /\ codec = "aac" => scen.body[delivered'[i].at] # "m"
                          /\ delivered'[i].at + FrameLen <= t + 1
        OBVIOUS
      <3>1. CASE i = n + 1
        <4>1. p + FrameLen <= t + 1
          BY <1>3
        <4> QED BY <1>2, <3>1, <4>1
      <3>2. CASE i \in 1..n
        <4>1. /\ HeaderAt(scen.body, delivered[i].at)
              /\ codec = "aac" => scen.body[delivered[i].at] # "m"
          BY <1>1, <3>2 DEF FramesOk
        <4> QED BY <1>5, <3>2, <4>1
      <3> QED BY <3>1, <3>2
    <2> QED BY <2>1, <2>2 DEF FramesOk
  <1>7. OwedPaid(t)'
    <2> SUFFICES ASSUME NEW q \in 1..t, MustDeliver(codec, scen.body, q)
                 PROVE  \E i \in 1..(n + 1) : delivered'[i].at = q
      BY DEF OwedPaid
    <2>1. q \in 1..s \/ q \in (s + 1)..t
      OBVIOUS
    <2>2. CASE q \in 1..s
      <3> PICK i \in 1..n : delivered[i].at = q
        BY <1>1, <2>2 DEF OwedPaid
      <3>1. i \in 1..(n + 1) /\ delivered'[i].at = q
        OBVIOUS
      <3> QED BY <3>1
    <2>3. CASE q \in (s + 1)..t
      <3>1. q = p /\ n + 1 \in 1..(n + 1)
        BY <1>2, <2>3
      <3> QED BY <3>1
    <2> QED BY <2>1, <2>2, <2>3
  <1>8. fs'.gaps = 0 => AllCovered(t)'
    <2> SUFFICES ASSUME fs'.gaps = 0, NEW q \in 1..t
                 PROVE  \/ \E i \in 1..(n + 1) :
                              delivered'[i].at <= q /\ q < delivered'[i].at + FrameLen
                        \/ InTag(scen.body, q)
      BY DEF AllCovered
    <2>1. \/ q \in 1..s
          \/ q \in (s + 1)..(t - f)
          \/ t - f + 1 <= q /\ q < (t - f + 1) + f
      BY <1>3, SplitAt
    <2>2. CASE q \in 1..s
      <3>1. \/ \E i \in 1..n : delivered[i].at <= q /\ q < delivered[i].at + FrameLen
            \/ InTag(scen.body, q)
        BY <1>1, <1>2, <2>2 DEF AllCovered
      <3>2. CASE \E i \in 1..n : delivered[i].at <= q /\ q < delivered[i].at + FrameLen
        <4> PICK i \in 1..n : delivered[i].at <= q /\ q < delivered[i].at + FrameLen
          BY <3>2
        <4>1. i \in 1..(n + 1) /\ delivered'[i] = delivered[i]
          OBVIOUS
        <4> QED BY <4>1
      <3> QED BY <3>1, <3>2
    <2>3. CASE q \in (s + 1)..(t - f)
      BY <1>2, <2>3
    <2>4. CASE t - f + 1 <= q /\ q < (t - f + 1) + f
      <3>1. n + 1 \in 1..(n + 1) /\ p <= q /\ q < p + FrameLen
        BY <1>3, <2>4
      <3> QED BY <3>1
    <2> QED BY <2>1, <2>2, <2>3, <2>4
  <1> QED BY <1>6, <1>7, <1>8

\* The framer passes over cells without returning one.
LEMMA PassKept ==
    ASSUME ControlInv, FramedInv, pc["open"] = "opened", codec # "pcm",
           UNCHANGED <<scen, codec, delivered>>,
           Passes(codec, scen.body, fs, fs'),
           delivered \in Seq([at : Nat, len : Nat])
    PROVE  /\ FramesOk(fs.off)' /\ OwedPaid(fs.off)'
           /\ fs'.gaps = 0 => AllCovered(fs.off)'
  <1>1. /\ fs \in FramerState /\ FramesOk(fs.off) /\ OwedPaid(fs.off)
        /\ fs.gaps = 0 => AllCovered(fs.off)
    BY DEF FramedInv
  <1>2. /\ fs' \in FramerState /\ fs.off <= fs'.off
        /\ \A q \in (fs.off + 1)..fs'.off : ~MustDeliver(codec, scen.body, q)
        /\ fs'.gaps = 0 =>
              fs.gaps = 0 /\ \A q \in (fs.off + 1)..fs'.off : InTag(scen.body, q)
    BY DEF Passes, NoneMissed
  <1> PICK s \in Nat : s = fs.off
    BY <1>1, FramerFields
  <1> PICK t \in Nat : t = fs'.off
    BY <1>2, FramerFields
  <1>3. \A q \in 1..t : q \in 1..s \/ q \in (s + 1)..t
    BY <1>2
  <1>4. FramesOk(t)'
    <2>1. \A i \in DOMAIN delivered : delivered[i].at + FrameLen <= t + 1
      <3> SUFFICES ASSUME NEW i \in DOMAIN delivered
                   PROVE  delivered[i].at + FrameLen <= t + 1
        OBVIOUS
      <3>1. delivered[i].at + FrameLen <= s + 1
        BY <1>1 DEF FramesOk
      <3>2. i \in 1..Len(delivered)
        OBVIOUS
      <3>3. delivered[i] \in [at : Nat, len : Nat]
        BY <3>2, ElementOfSeq
      <3> PICK a \in Nat : a = delivered[i].at
        BY <3>3
      <3> PICK f \in Nat : f = FrameLen
        BY SizeFacts
      <3>4. s <= t /\ a + f <= s + 1
        BY <1>2, <3>1
      <3>5. a + f <= t + 1
        BY <3>4, Farther
      <3> QED BY <3>5
    <2> QED BY <1>1, <2>1 DEF FramesOk
  <1>5. OwedPaid(t)'
    BY <1>1, <1>2, <1>3 DEF OwedPaid
  <1>6. fs'.gaps = 0 => AllCovered(t)'
    BY <1>1, <1>2, <1>3 DEF AllCovered
  <1> QED BY <1>4, <1>5, <1>6

\* drainCompressed: one iteration of the framer on what has been read.
LEMMA DrainLive ==
    ASSUME ControlInv, FunnelInv, EndInv, LiveInv,
           pc["open"] = "opened", pc'["open"] = "opened", Drain
    PROVE  LiveInv'
  <1>1. pc["reader"] = "drain" /\ UNCHANGED <<scen, codec, at, bounded, remaining, taken, fill, rerr>>
    BY DEF Drain, ReaderStep, At, probeVars
  <1>2. /\ "reader" \in Actors /\ DOMAIN pc = Actors /\ DOMAIN ret = Actors
        /\ DOMAIN cause = Actors
    BY ActorFacts DEF ControlInv, FunnelInv
  <1>3. /\ codec \in {"mp3", "aac"} /\ codec # "pcm" /\ taken \in Nat /\ taken <= Len(scen.body)
        /\ rerr = "eof" => taken = Len(scen.body)
        /\ delivered \in Seq([at : Nat, len : Nat])
    BY <1>1 DEF LiveInv, ReadInv
  <1>4. ~Settled
    BY <1>1, Unsettled DEF ReadPCs
  <1>5. /\ fs \in FramerState /\ fs.off <= taken
        /\ SkipsTag(codec, scen.body, fs)
        /\ fs.ended => taken = Len(scen.body)
    BY <1>3 DEF LiveInv, FramedInv
  <1> DEFINE r == NextFrame(codec, fs, Buffered)
  <1>6. Iterates(codec, scen.body, fs, taken, r)
    BY <1>3, <1>5, ScenarioFacts, NextFrameFacts DEF Buffered
  <1>7. /\ fs' = r.s
        /\ \/ r.st = "frame" /\ Emit(r.s.off - FrameLen + 1, FrameLen, "drain")
           \/ r.st = "again" /\ Goto("reader", "drain") /\ UNCHANGED delivered
           \/ /\ r.st = "wait" /\ Goto("reader", IF fs.ended THEN "finish" ELSE "readErr")
              /\ UNCHANGED delivered
    BY DEF Drain
  <1> HIDE DEF r
  <1>8. /\ fs'.off <= taken /\ SkipsTag(codec, scen.body, fs')
        /\ r.st = "frame" => Returns(codec, scen.body, fs, fs')
        /\ r.st \in {"again", "wait"} => Passes(codec, scen.body, fs, fs')
        /\ r.st = "wait" /\ fs.ended /\ taken = Len(scen.body) =>
              NoneMissed(codec, scen.body, fs'.off, taken)
    BY <1>6, <1>7 DEF Iterates
  <1>9. fs' \in FramerState /\ fs'.ended = fs.ended
    BY <1>7, <1>8 DEF Returns, Passes
  <1>10. CASE r.st = "frame" /\ Emit(r.s.off - FrameLen + 1, FrameLen, "drain")
    <2>1. /\ delivered' = Append(delivered, [at |-> fs'.off - FrameLen + 1, len |-> FrameLen])
          /\ pc'["reader"] \in {"drain", "once"} /\ ~Settled'
          /\ pc'["reader"] = "once" => ret'["reader"] \in {"drain", "teardown"}
      BY <1>4, <1>7, <1>10, EmitFacts
    <2>2. /\ delivered' \in Seq([at : Nat, len : Nat])
          /\ FramesOk(fs.off)' /\ OwedPaid(fs.off)'
          /\ fs'.gaps = 0 => AllCovered(fs.off)'
      BY <1>1, <1>3, <1>8, <1>10, <2>1, FrameKept DEF LiveInv
    <2>3. ReadInv'
      BY <1>1, <1>3, <2>1, <2>2 DEF ReadInv
    <2>4. FramedInv'
      BY <1>1, <1>3, <1>5, <1>8, <1>9, <2>1, <2>2 DEF FramedInv
    <2> QED BY <1>1, <1>3, <2>3, <2>4 DEF LiveInv, PcmInv
  <1>11. CASE r.st \in {"again", "wait"} /\ UNCHANGED delivered
    <2>1. /\ pc'["reader"] \in {"drain", "finish", "readErr"} /\ ~Settled'
          /\ pc'["reader"] = "finish" => r.st = "wait" /\ fs.ended
      BY <1>2, <1>4, <1>7, <1>11 DEF Goto, Go, Settled
    <2>2. /\ FramesOk(fs.off)' /\ OwedPaid(fs.off)'
          /\ fs'.gaps = 0 => AllCovered(fs.off)'
      BY <1>1, <1>3, <1>8, <1>11, PassKept DEF LiveInv
    <2>3. ReadInv'
      BY <1>1, <1>3, <1>11, <2>1 DEF ReadInv, FunnelPCs
    <2>4. pc'["reader"] = "finish" =>
              taken = Len(scen.body) /\ NoneMissed(codec, scen.body, fs'.off, taken)
      BY <1>5, <1>8, <2>1
    <2>5. FramedInv'
      BY <1>1, <1>3, <1>5, <1>8, <1>9, <2>1, <2>2, <2>4 DEF FramedInv
    <2> QED BY <1>1, <1>3, <2>3, <2>5 DEF LiveInv, PcmInv
  <1> QED BY <1>7, <1>10, <1>11

\* The error of a Read: the end of the body is the end of the stream, after what
\* a compressed stream still holds has been drained.
LEMMA ReadErrLive ==
    ASSUME ControlInv, FunnelInv, EndInv, LiveInv,
           pc["open"] = "opened", pc'["open"] = "opened", ReadErr
    PROVE  LiveInv'
  <1> DEFINE c == ReadCause(IF rerr = "eof" THEN "streamEnded" ELSE "connClosed")
  <1>1. /\ pc["reader"] = "readErr"
        /\ UNCHANGED <<scen, codec, at, bounded, remaining, taken, fill, rerr, delivered>>
        /\ \/ rerr = NoErr /\ Goto("reader", "loop") /\ UNCHANGED <<fs, malformed>>
           \/ /\ codec # "pcm" /\ c = "streamEnded" /\ fs' = SetEOF(fs)
              /\ Goto("reader", "drain") /\ UNCHANGED malformed
           \/ /\ codec = "pcm" \/ c # "streamEnded"
              /\ DropPartial(IF c = "streamEnded" THEN fill ELSE 0)
              /\ Shutdown("reader", c, "teardown") /\ UNCHANGED fs
    BY DEF ReadErr, ReaderStep, At, probeVars
  <1>2. /\ "reader" \in Actors /\ DOMAIN pc = Actors /\ DOMAIN ret = Actors
        /\ DOMAIN cause = Actors
    BY ActorFacts DEF ControlInv, FunnelInv
  <1>3. ~Settled /\ termErr # "streamEnded"
    BY <1>1, Unsettled DEF ReadPCs
  <1>4. c = "streamEnded" => rerr = "eof"
    BY <1>3 DEF ReadCause
  <1> HIDE DEF c
  <1>5. /\ codec \in {"pcm", "mp3", "aac"} /\ taken \in Nat /\ taken <= Len(scen.body)
        /\ rerr = "eof" => taken = Len(scen.body)
        /\ delivered \in Seq([at : Nat, len : Nat])
    BY DEF LiveInv, ReadInv
  <1>6. /\ codec # "pcm" =>
              /\ fs \in FramerState /\ fs.off <= taken
              /\ SkipsTag(codec, scen.body, fs)
              /\ fs.ended => taken = Len(scen.body)
              /\ FramesOk(fs.off) /\ OwedPaid(fs.off)
              /\ fs.gaps = 0 => AllCovered(fs.off)
        /\ codec = "pcm" => fill \in Nat /\ malformed = 0 /\ fill < FrameBytes
    BY <1>1, <1>3 DEF LiveInv, FramedInv, PcmInv
  <1>7. CASE rerr = NoErr /\ Goto("reader", "loop") /\ UNCHANGED <<fs, malformed>>
    <2>1. pc'["reader"] = "loop" /\ ~Settled'
      BY <1>2, <1>3, <1>7 DEF Goto, Go, Settled
    <2>2. ReadInv'
      BY <1>1, <1>5, <2>1 DEF ReadInv, FunnelPCs
    <2>3. PcmInv'
      BY <1>1, <1>3, <1>6, <1>7, <2>1 DEF LiveInv, PcmInv, Sum
    <2>4. FramedInv'
      BY <1>1, <1>6, <1>7, <2>1 DEF FramedInv, FramesOk, OwedPaid, AllCovered
    <2> QED BY <2>2, <2>3, <2>4 DEF LiveInv
  <1>8. CASE codec # "pcm" /\ c = "streamEnded" /\ fs' = SetEOF(fs) /\ Goto("reader", "drain")
    <2>1. pc'["reader"] = "drain" /\ ~Settled' /\ taken = Len(scen.body)
      BY <1>2, <1>3, <1>4, <1>5, <1>8 DEF Goto, Go, Settled
    <2>2. fs' \in FramerState /\ fs'.off = fs.off /\ fs'.skip = fs.skip /\ fs'.gaps = fs.gaps
      BY <1>6, <1>8 DEF SetEOF, FramerState
    <2>3. ReadInv'
      BY <1>1, <1>5, <1>8, <2>1 DEF ReadInv, FunnelPCs
    <2>4. SkipsTag(codec, scen.body, fs')
      BY <1>6, <1>8, <2>2 DEF SkipsTag
    <2>5. FramesOk(fs.off)' /\ OwedPaid(fs.off)' /\ (fs'.gaps = 0 => AllCovered(fs.off)')
      BY <1>1, <1>6, <1>8, <2>2 DEF FramesOk, OwedPaid, AllCovered
    <2>6. FramedInv'
      BY <1>1, <1>6, <1>8, <2>1, <2>2, <2>4, <2>5 DEF FramedInv
    <2> QED BY <1>1, <1>8, <2>3, <2>6 DEF LiveInv, PcmInv
  <1>9. CASE /\ codec = "pcm" \/ c # "streamEnded"
             /\ DropPartial(IF c = "streamEnded" THEN fill ELSE 0)
             /\ Shutdown("reader", c, "teardown") /\ UNCHANGED fs
    <2>1. /\ pc'["reader"] = "once" /\ ret'["reader"] = "teardown"
          /\ Settled' <=> c = "streamEnded"
      BY <1>2, <1>9 DEF Shutdown, Goto, Go, Settled
    <2>2. malformed' = malformed + (IF (IF c = "streamEnded" THEN fill ELSE 0) > 0 THEN 1 ELSE 0)
      BY <1>9 DEF DropPartial
    <2>3. ReadInv'
      BY <1>1, <1>5, <2>1 DEF ReadInv
    <2>4. PcmInv'
      <3> SUFFICES ASSUME codec = "pcm" PROVE PcmInv'
        BY <1>1 DEF PcmInv
      <3>1. malformed' = IF c = "streamEnded" /\ fill > 0 THEN 1 ELSE 0
        BY <1>6, <2>2
      <3> QED BY <1>1, <1>6, <2>1, <3>1 DEF LiveInv, PcmInv, Sum
    <2>5. FramedInv'
      <3> SUFFICES ASSUME codec # "pcm" PROVE FramedInv'
        BY <1>1 DEF FramedInv
      <3> QED BY <1>1, <1>6, <1>9, <2>1 DEF FramedInv, FramesOk, OwedPaid, AllCovered
    <2> QED BY <2>3, <2>4, <2>5 DEF LiveInv
  <1> QED BY <1>1, <1>7, <1>8, <1>9

\* A truncated tail is counted as the gap it is.
LEMMA FinishLive ==
    ASSUME ControlInv, FunnelInv, EndInv, LiveInv,
           pc["open"] = "opened", pc'["open"] = "opened", FinishStream
    PROVE  LiveInv'
  <1>1. /\ pc["reader"] = "finish" /\ pc' = [pc EXCEPT !["reader"] = "once"]
        /\ ret' = [ret EXCEPT !["reader"] = "teardown"]
        /\ cause' = [cause EXCEPT !["reader"] = "streamEnded"]
        /\ fs' = Finish(fs, taken - fs.off) /\ malformed' = fs'.gaps
        /\ UNCHANGED <<scen, codec, at, bounded, remaining, taken, fill, rerr, delivered>>
    BY DEF FinishStream, ReaderStep, At, Shutdown, Goto, Go, probeVars
  <1>2. /\ "reader" \in Actors /\ DOMAIN pc = Actors /\ DOMAIN ret = Actors
        /\ DOMAIN cause = Actors
    BY ActorFacts DEF ControlInv, FunnelInv
  <1>3. pc'["reader"] = "once" /\ ret'["reader"] = "teardown" /\ Settled'
    BY <1>1, <1>2 DEF Settled
  <1>4. /\ codec \in {"mp3", "aac"} /\ codec # "pcm" /\ taken \in Nat
    BY <1>1 DEF LiveInv, ReadInv
  <1>5. /\ fs \in FramerState /\ fs.off <= taken
        /\ SkipsTag(codec, scen.body, fs)
        /\ fs.ended => taken = Len(scen.body)
        /\ FramesOk(fs.off) /\ OwedPaid(fs.off)
        /\ fs.gaps = 0 => AllCovered(fs.off)
        /\ taken = Len(scen.body) /\ NoneMissed(codec, scen.body, fs.off, taken)
    BY <1>1, <1>4 DEF LiveInv, FramedInv
  <1>6. /\ fs' \in FramerState /\ fs'.off = fs.off /\ fs'.skip = fs.skip /\ fs'.ended = fs.ended
        /\ fs'.gaps = 0 => fs.gaps = 0 /\ fs.off = taken
    <2> PICK o \in Nat : o = fs.off
      BY <1>5, FramerFields
    <2>1. CASE taken - o > 0
      <3> DEFINE g == fs.gaps + 1
      <3>1. g \in Nat /\ g # 0
        BY <1>5, FramerFields
      <3>2. fs' = [fs EXCEPT !.gaps = g]
        BY <1>1, <2>1 DEF Finish
      <3> HIDE DEF g
      <3> QED BY <1>5, <3>1, <3>2 DEF FramerState
    <2>2. CASE ~(taken - o > 0)
      <3>1. o = taken
        BY <1>4, <1>5, <2>2
      <3>2. fs' = fs
        BY <1>1, <2>2 DEF Finish
      <3> QED BY <1>5, <3>1, <3>2
    <2> QED BY <2>1, <2>2
  <1>7. ReadInv'
    BY <1>1, <1>3 DEF LiveInv, ReadInv
  <1>8. SkipsTag(codec, scen.body, fs')
    BY <1>5, <1>6 DEF SkipsTag
  <1>9. FramesOk(fs.off)' /\ OwedPaid(fs.off)' /\ (fs'.gaps = 0 => AllCovered(fs.off)')
    BY <1>1, <1>5, <1>6 DEF FramesOk, OwedPaid, AllCovered
  <1>10. FramedInv'
    BY <1>1, <1>3, <1>5, <1>6, <1>8, <1>9 DEF FramedInv
  <1> QED BY <1>1, <1>4, <1>7, <1>10 DEF LiveInv, PcmInv

\* No step of the source breaks the account of what was read and delivered.
LEMMA LiveStep ==
    ASSUME ControlInv, FunnelInv, EndInv, ProbeInv, LiveInv, DataCase
    PROVE  LiveInv'
  <1>1. CASE OpenMoves
    BY <1>1 DEF OpenMoves, LiveInv, ReadInv, PcmInv, FramedInv
  <1>2. CASE Probes
    <2>1. pc'["open"] # "opened"
      BY <1>2, ProbeOutcomes DEF ProbeOutcome, ProbePCs
    <2> QED BY <2>1 DEF LiveInv, ReadInv, PcmInv, FramedInv
  <1>3. CASE Spawn
    BY <1>3, SpawnLive
  <1>4. CASE Quiet
    BY <1>4, QuietLive
  <1>5. CASE Handles
    BY <1>5, DataEndLive, ReadLive, AbsorbLive, DrainLive, ReadErrLive, FinishLive DEF Handles
  <1> QED BY <1>1, <1>2, <1>3, <1>4, <1>5 DEF DataCase

\* A compressed stream: from the account of the framer to what was promised.
LEMMA FramesExactHolds ==
    ASSUME ControlInv, EndInv, ProbeInv, LiveInv
    PROVE  FramesExact
  <1> SUFFICES ASSUME Compressed PROVE FramesExact
    BY DEF FramesExact
  <1>1. CASE pc["open"] # "opened"
    <2>1. delivered = <<>> /\ ~Done
      BY <1>1 DEF ProbeInv, ControlInv, Done
    <2>2. DOMAIN delivered = {} /\ Spans = {}
      BY <2>1 DEF Spans
    <2> QED BY <2>1, <2>2 DEF FramesExact, Orderly
  <1>2. CASE pc["open"] = "opened"
    <2>1. /\ codec # "pcm" /\ FramesOk(fs.off) /\ OwedPaid(fs.off) /\ fs \in FramerState
          /\ fs.gaps = 0 => AllCovered(fs.off)
          /\ Settled =>
                /\ taken = Len(scen.body) /\ NoneMissed(codec, scen.body, fs.off, taken)
                /\ malformed = fs.gaps /\ (fs.gaps = 0 => fs.off = taken)
      BY <1>2 DEF LiveInv, FramedInv, Compressed
    <2>2. \A i, j \in DOMAIN delivered : i < j => delivered[i].at + FrameLen <= delivered[j].at
      BY <2>1 DEF FramesOk
    <2>3. \A d \in Spans : /\ HeaderAt(scen.body, d.at)
                           /\ codec = "aac" => scen.body[d.at] # "m"
      BY <2>1 DEF FramesOk, Spans
    <2>4. ASSUME Orderly
          PROVE  /\ \A p \in DOMAIN scen.body :
                       MustDeliver(codec, scen.body, p) => \E d \in Spans : d.at = p
                 /\ malformed = 0 =>
                       \A p \in DOMAIN scen.body :
                           \/ \E d \in Spans : d.at <= p /\ p < d.at + FrameLen
                           \/ InTag(scen.body, p)
      <3>1. Settled
        BY <2>4 DEF EndInv, Orderly
      <3> PICK z \in Nat : z = Len(scen.body)
        BY ScenarioFacts
      <3> PICK o \in Nat : o = fs.off
        BY <2>1, FramerFields
      <3>2. DOMAIN scen.body = 1..z
        BY ScenarioFacts
      <3>3. \A p \in 1..z : p \in 1..o \/ p \in (o + 1)..z
        OBVIOUS
      <3>4. \A p \in 1..z : MustDeliver(codec, scen.body, p) =>
                                \E i \in DOMAIN delivered : delivered[i].at = p
        BY <2>1, <3>1, <3>3 DEF OwedPaid, NoneMissed
      <3>5. malformed = 0 => o = z /\ AllCovered(o)
        BY <2>1, <3>1
      <3> QED BY <3>2, <3>4, <3>5 DEF AllCovered, Spans
    <2> QED BY <2>2, <2>3, <2>4 DEF FramesExact
  <1> QED BY <1>1, <1>2

\* A PCM stream, likewise.
LEMMA PcmExactHolds ==
    ASSUME ControlInv, EndInv, ProbeInv, LiveInv
    PROVE  PcmExact
  <1> SUFFICES ASSUME codec = "pcm" PROVE PcmExact
    BY DEF PcmExact
  <1>1. CASE pc["open"] # "opened"
    <2>1. delivered = <<>> /\ ~Done /\ pc["reader"] \notin {"loop", "readErr"}
      BY <1>1 DEF ProbeInv, ControlInv, Done
    <2>2. DOMAIN delivered = {}
      BY <2>1
    <2> QED BY <1>1, <2>1, <2>2 DEF PcmExact, Orderly, At
  <1>2. CASE pc["open"] = "opened"
    <2>1. taken \in Nat /\ delivered \in Seq([at : Nat, len : Nat])
      BY <1>2 DEF LiveInv, ReadInv
    <2>2. /\ fill \in Nat /\ taken = Sum(Len(delivered)) + fill
          /\ pc["reader"] # "absorb" => fill < FrameBytes
          /\ \A i \in DOMAIN delivered :
                /\ delivered[i].len % FrameBytes = 0
                /\ delivered[i].at = Sum(i - 1) + 1
          /\ malformed = IF Settled /\ fill > 0 THEN 1 ELSE 0
          /\ bounded => remaining \in Nat /\ taken + remaining = scen.chunks[at].size
      BY <1>2 DEF LiveInv, PcmInv
    <2>3. bounded => taken <= scen.chunks[at].size
      <3> SUFFICES ASSUME bounded PROVE taken <= scen.chunks[at].size
        OBVIOUS
      <3> PICK m \in Nat : m = remaining
        BY <2>2
      <3>1. scen.chunks[at].size = taken + m
        BY <2>2
      <3>2. taken <= taken + m
        BY <2>1
      <3> QED BY <3>1, <3>2
    <2>4. Orderly => /\ taken - Sum(Len(delivered)) < FrameBytes
                     /\ malformed = (IF taken > Sum(Len(delivered)) THEN 1 ELSE 0)
      <3> SUFFICES ASSUME Orderly
                   PROVE  /\ taken - Sum(Len(delivered)) < FrameBytes
                          /\ malformed = (IF taken > Sum(Len(delivered)) THEN 1 ELSE 0)
        OBVIOUS
      <3>1. Settled /\ pc["reader"] # "absorb"
        BY DEF EndInv, Orderly, Done
      <3> PICK S \in Int : S = Sum(Len(delivered))
        BY <2>1, SumFacts
      <3>2. taken - S = fill /\ (taken > S <=> fill > 0)
        BY <2>1, <2>2
      <3> QED BY <2>2, <3>1, <3>2
    <2> QED BY <2>2, <2>3, <2>4 DEF PcmExact
  <1> QED BY <1>1, <1>2

-----------------------------------------------------------------------------
\* The inductive invariant, and the theorems that follow from it.

IInv ==
    /\ ControlInv /\ FunnelInv /\ VerdictInv /\ BodyInv /\ SentInv /\ DeliveredInv
    /\ EndInv /\ ProbeInv /\ LiveInv

\* Open, just called, satisfies the invariant.
LEMMA InitIInv == Init => IInv
  <1> SUFFICES ASSUME Init PROVE IInv
    OBVIOUS
  <1> USE ActorFacts
  <1>1. /\ pc["open"] = "start" /\ pc["timer"] = "armed" /\ pc["bridge"] = "armed"
        /\ pc["reader"] = "unborn" /\ pc["watchdog"] = "unborn"
        /\ \A c \in Callers : pc[c] = "idle"
        /\ pc \in [Actors -> {"start", "armed", "unborn", "idle"}]
    <2>1. pc = [a \in Actors |-> IF a \in Workers THEN Start(a) ELSE "idle"]
      BY DEF Init, LifecycleInit
    <2>2. \A a \in Actors : pc[a] = IF a \in Workers THEN Start(a) ELSE "idle"
      BY <2>1
    <2>3. /\ Start("open") = "start" /\ Start("timer") = "armed" /\ Start("bridge") = "armed"
          /\ Start("reader") = "unborn" /\ Start("watchdog") = "unborn"
      BY DEF Start
    <2>4. Workers = {"open", "timer", "bridge", "reader", "watchdog"}
      BY HttpAssumption
    <2>5. /\ pc["open"] = "start" /\ pc["timer"] = "armed" /\ pc["bridge"] = "armed"
          /\ pc["reader"] = "unborn" /\ pc["watchdog"] = "unborn"
          /\ \A c \in Callers : pc[c] = "idle"
      BY <2>2, <2>3, <2>4
    <2>6. \A a \in Actors : pc[a] \in {"start", "armed", "unborn", "idle"}
      BY <2>5
    <2> QED BY <2>1, <2>5, <2>6
  <1>2. ControlInv
    BY <1>1 DEF Init, LifecycleInit, ControlInv, FunnelPCs, ProbePCs, OpenPCs, TimerPCs,
                ReadPCs, EndPCs, ReaderPCs, WatchPCs, CallerPCs
  <1>3. FunnelInv
    <2>1. \A a \in Actors : pc[a] \notin FunnelPCs
      BY <1>1 DEF FunnelPCs
    <2> QED BY <1>1, <2>1 DEF Init, LifecycleInit, FunnelInv, FunnelPCs, EndPCs
  <1>4. VerdictInv
    BY <1>1 DEF Init, LifecycleInit, VerdictInv, OpenVerdict
  <1>5. BodyInv
    BY <1>1 DEF Init, BodyInv, Done
  <1>6. SentInv
    BY <1>1 DEF Init, SentInv
  <1>7. DeliveredInv
    BY DEF Init, DeliveredInv
  <1>8. EndInv
    BY DEF Init, LifecycleInit, EndInv, Settled, NoErr
  <1>9. ProbeInv
    <2>1. 0 <= Len(scen.body)
      BY <1>2, ScenarioFacts
    <2>2. /\ pc["open"] = "start" /\ codec = "none" /\ at = 1 /\ bounded = FALSE /\ taken = 0
          /\ fs = NewStream /\ fill = 0 /\ rerr = NoErr /\ delivered = <<>> /\ malformed = 0
      BY <1>1 DEF Init
    <2>3. \A p \in 1..taken : InTag(scen.body, p)
      BY <2>2
    <2>4. at \in Nat \ {0} /\ taken \in Nat /\ taken <= Len(scen.body)
      BY <2>1, <2>2
    <2>5. bounded \in BOOLEAN /\ ~bounded
      BY <2>2
    <2> QED BY <2>2, <2>3, <2>4, <2>5 DEF ProbeInv
  <1>10. LiveInv
    BY <1>1 DEF LiveInv, ReadInv, PcmInv, FramedInv
  <1> QED BY <1>2, <1>3, <1>4, <1>5, <1>6, <1>7, <1>8, <1>9, <1>10 DEF IInv

\* Every step preserves it.
LEMMA StepIInv == IInv /\ [Next]_vars => IInv'
  <1> SUFFICES ASSUME IInv, [Next]_vars PROVE IInv'
    OBVIOUS
  <1>1. NextCase
    BY NextCases DEF IInv
  <1>2. ControlInv' /\ FunnelInv' /\ VerdictInv' /\ BodyInv' /\ SentInv'
    BY <1>1, ControlStep, FunnelStep, VerdictStep, BodyStep, SentStep DEF IInv
  <1>3. DeliveredInv'
    <2>1. Invisible \/ Visible
      BY <1>1, VisibleStep DEF IInv
    <2>2. CASE Delivers
      BY <2>2, AppendFrame DEF Delivers, IInv
    <2>3. CASE Invisible
      BY <2>3 DEF Invisible, IInv, DeliveredInv
    <2>4. CASE Visible /\ ~Delivers
      BY <2>4 DEF Visible, IInv, DeliveredInv
    <2> QED BY <2>1, <2>2, <2>3, <2>4
  <1>4. DataCase
    BY DataCases DEF IInv
  <1>5. EndInv' /\ ProbeInv' /\ LiveInv'
    BY <1>1, <1>4, EndStep, ProbeInvStep, LiveStep DEF IInv
  <1> QED BY <1>2, <1>3, <1>5 DEF IInv

\* Hence it holds throughout.
LEMMA Inductive == Spec => []IInv
  BY InitIInv, StepIInv, PTL DEF Spec

\* Open, classifyOpenErr, classifyHeaderReadErr: what Open's own timer or the
\* caller's context cut short is never blamed on the peer or on the format, and
\* no timeout or cancellation is reported that did not happen, at whichever
\* read or request of whichever format the fault strikes.
THEOREM OpenTellsTruth == Spec => []OpenVerdict
  <1>1. IInv => OpenVerdict
    BY DEF IInv, VerdictInv
  <1> QED BY <1>1, Inductive, PTL

\* digestRetry, the deferred cleanup of Open, the reader's teardown: whatever
\* answers come and wherever Open fails, at most one response body is open, and
\* none once Open has failed or the session has ended.
THEOREM BodiesClosed == Spec => []NothingLeaks
  <1>1. IInv => NothingLeaks
    <2> SUFFICES ASSUME IInv PROVE NothingLeaks
      OBVIOUS
    <2>1. Cardinality(bodies) <= 1
      <3>1. bodies = {} \/ bodies = {try}
        BY DEF IInv, BodyInv
      <3>2. Cardinality({}) = 0 /\ Cardinality({try}) = 1
        BY FS_EmptySet, FS_Singleton
      <3> QED BY <3>1, <3>2
    <2> QED BY <2>1 DEF IInv, BodyInv, NothingLeaks, At, Done
  <1> QED BY <1>1, Inductive, PTL

\* buildRequest, authorize, answerDigest: Basic credentials never leave over an
\* unsafe connection, and a second retry follows only a stale challenge, for any
\* sequence of answers.
THEOREM CredentialsGuarded == Spec => []AuthDiscipline
  <1>1. IInv => AuthDiscipline
    <2> SUFFICES ASSUME IInv PROVE AuthDiscipline
      OBVIOUS
    <2>1. "basic" \in {sent[i] : i \in DOMAIN sent} => scen.safe
      BY DEF IInv, SentInv
    <2>2. Len(sent) <= 3 /\ (Len(sent) = 3 /\ try = 2 => reply.status = "401" /\ reply.stale)
      BY DEF IInv, SentInv, BodyInv
    <2> QED BY <2>1, <2>2 DEF AuthDiscipline
  <1> QED BY <1>1, Inductive, PTL

\* absorb, drainCompressed with the MP3 and ADTS framers, dropPartial and Finish:
\* however the body is cut into reads and whatever races with its end, the PCM
\* path delivers whole sample-frames back to back and within the data chunk, a
\* framer delivers real frames in order and apart, and an orderly end has missed
\* no frame it owed and counted as malformed whatever it did not deliver.
THEOREM DeliveredExactly == Spec => []DeliveryExact
  <1>1. IInv => DeliveryExact
    BY FramesExactHolds, PcmExactHolds DEF IInv, DeliveryExact
  <1> QED BY <1>1, Inductive, PTL

\* The Source interface (source.go): the source ends once, for the first cause
\* recorded; Wait returns that cause and only after the reader is done; no frame
\* is delivered after that.
THEOREM HttpIsSource == Spec => ImplementsSource
  <1>1. Init => Contract!Init
    <2> SUFFICES ASSUME Init PROVE Contract!Init
      OBVIOUS
    <2>1. IInv /\ pc["open"] = "start"
      BY InitIInv, ActorFacts, HttpAssumption DEF Init, LifecycleInit, Start
    <2>2. ~Done
      BY <2>1 DEF IInv, ControlInv, Done
    <2> QED BY <2>2 DEF Init, LifecycleInit, Contract!Init, Done
  <1>2. IInv /\ [Next]_vars => [Contract!Next]_Contract!vars
    <2> SUFFICES ASSUME IInv, [Next]_vars PROVE [Contract!Next]_Contract!vars
      OBVIOUS
    <2>1. Invisible \/ Visible
      BY NextCases, VisibleStep DEF IInv
    <2>2. Invisible => UNCHANGED Contract!vars
      BY DEF Invisible, Contract!vars
    <2>3. Delivers => Contract!Deliver
      <3>1. Delivers => Len(delivered') \in Nat
        BY AppendFrame DEF Delivers, IInv
      <3> QED BY <3>1 DEF Delivers, Contract!Deliver, Done
    <2>4. Visible => Contract!Next
      BY <2>3 DEF Visible, Contract!Next, SourceCauses
    <2> QED BY <2>1, <2>2, <2>4
  <1> QED
    BY <1>1, <1>2, Inductive, PTL DEF Spec, ImplementsSource, Contract!Spec
=============================================================================
