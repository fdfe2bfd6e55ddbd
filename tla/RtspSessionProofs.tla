------------------------- MODULE RtspSessionProofs --------------------------
(***************************************************************************)
(* Proofs about RtspSession, for every number of tracks, closers and       *)
(* waiters, every transport preference, every set of server replies and    *)
(* every bound.  The inductive invariant is a conjunction of parts, one    *)
(* per concern, each preserved by every step given the parts before it.   *)
(***************************************************************************)
EXTENDS RtspSession, FiniteSetTheorems, TLAPS

FunnelPCs == {"once", "setTerm", "closeClosing", "interrupt", "mediaNow"}
WriterPCs == {"wlock", "attach", "warm", "write"}
VerbPCs == {"await", "fail", "commitDescribe", "recordSession", "publish",
            "register", "stamp", "commitPlay", "armRead", "spawn"}
EndPCs == {"unwind", "discardRead", "closeMedia", "joinUDP", "join", "done"}
LifePCs == {"idle", "dialFailed"} \cup VerbPCs \cup WriterPCs \cup FunnelPCs
ReadPCs == {"loop", "fill", "read"} \cup EndPCs \cup WriterPCs \cup FunnelPCs
KeepPCs == {"off", "loop"} \cup WriterPCs
TrackPCs == {"off", "arm", "recv", "exit"} \cup FunnelPCs
CallerPCs == {"idle", "waitDone", "returned"} \cup FunnelPCs

\* Where the actors are, and where initiateShutdown brings them back to.
ControlInv ==
    /\ pc \in [Actors -> LifePCs \cup ReadPCs \cup KeepPCs \cup TrackPCs
                         \cup CallerPCs]
    /\ pc[Life] \in LifePCs /\ pc[Read] \in ReadPCs /\ pc[Keep] \in KeepPCs
    /\ \A t \in Tracks : pc[t] \in TrackPCs
    /\ \A c \in Callers : pc[c] \in CallerPCs
    /\ ret \in [Actors -> {"none", "fail", "loop", "unwind", "arm", "exit",
                           "returned", "waitDone"}]
    /\ pc[Life] \in FunnelPCs => ret[Life] = "fail"
    /\ pc[Read] \in FunnelPCs => ret[Read] \in {"loop", "unwind"}
    /\ \A t \in Tracks : pc[t] \in FunnelPCs => ret[t] \in {"arm", "exit"}
    /\ \A c \in Callers : pc[c] \in FunnelPCs => ret[c] \in {"returned", "waitDone"}
    /\ job \in [Workers -> {"request", "keepalive", "report", "reply", "reject",
                            "teardown"}]
    /\ job[Life] \in {"request", "reject"}
    /\ pc[Keep] \in WriterPCs => job[Keep] \in {"keepalive", "report"}
    /\ pc[Read] \in WriterPCs => job[Read] \in {"reply", "teardown"}

\* initiateShutdown: the stages of the one caller that won the Once, and what
\* each stage has made true.
FunnelInv ==
    /\ once \in Actors \cup {"free", "fired"}
    /\ cause \in [Actors -> Causes \cup {NoErr}]
    /\ termErr \in Causes \cup {NoErr}
    /\ \A a \in Actors :
          /\ pc[a] \in FunnelPCs => cause[a] # NoErr
          /\ pc[a] \in FunnelPCs \ {"once"} => once = a
          /\ pc[a] \in {"closeClosing", "interrupt", "mediaNow"} => termErr # NoErr
          /\ pc[a] \in {"interrupt", "mediaNow"} => closing
          /\ pc[a] = "mediaNow" => shuttingDown
    /\ once = "fired" => shuttingDown
    /\ shuttingDown => closing
    /\ closing => termErr # NoErr
    /\ termErr # NoErr => state = "closed"
    /\ pc[Read] \in EndPCs => closing
    /\ pc[Read] \in WriterPCs /\ job[Read] = "teardown" => closing

\* The verb under way, and the state it started from.
VerbInv ==
    /\ call \in [verb : {"OPTIONS", "DESCRIBE", "SETUP", "PLAY"},
                 track : Tracks \cup {"none"}, udp : BOOLEAN,
                 fallback : BOOLEAN, try : Nat]
    /\ call.verb = "SETUP" => call.track \in Tracks
    /\ pc[Life] = "commitDescribe" => call.verb = "DESCRIBE"
    /\ pc[Life] \in {"recordSession", "publish", "register"} => call.verb = "SETUP"
    /\ pc[Life] \in {"stamp", "commitPlay", "armRead", "spawn"} => call.verb = "PLAY"
    /\ job[Life] = "reject" /\ pc[Life] \in WriterPCs => call.verb = "SETUP"
    /\ call.udp => call.verb = "SETUP"

\* No verb is under way once Play has committed, and nothing was spawned before.
PlayInv ==
    /\ playing \in BOOLEAN
    /\ playing => state \in {"playing", "closed"}
    /\ pc[Life] \notin {"idle", "armRead", "spawn"} => ~playing
    /\ pc[Life] \in {"armRead", "spawn"} => playing
    /\ ~playing => /\ pc[Keep] = "off"
                   /\ \A t \in Tracks : pc[t] = "off" /\ rtcpPc[t] = "off"

\* The transport of the session against the one of the SETUP under way.
PinInv ==
    /\ pin \in {"none", "UDP", "TCP"} /\ udpPinned \in BOOLEAN
    /\ published \subseteq Tracks /\ media \subseteq Tracks
    /\ sock \in [Tracks -> {"none", "open", "closed"}]
    /\ udpPinned <=> pin = "UDP"
    /\ pin = "none" => published = {} /\ media = {}
    /\ pin = "TCP" => media = {}
    /\ pin = "UDP" => \A t \in published : sock[t] # "none"
    /\ call.verb = "SETUP" /\ call.udp => sock[call.track] # "none"
    /\ pc[Life] = "register" => call.udp /\ pin = "UDP"
    /\ call.verb = "SETUP" /\ pc[Life] \notin {"idle", "register"} =>
          /\ pin = "UDP" => call.udp /\ ~call.fallback
          /\ pin = "TCP" => ~call.udp /\ ~call.fallback

\* Who owns an open socket pair: the session once it is registered, the SETUP
\* under way before.
SockInv ==
    /\ \A t \in Tracks : sock[t] = "open" =>
          \/ t \in media
          \/ /\ call.verb = "SETUP" /\ call.udp /\ call.track = t
             /\ job[Life] = "request" /\ pc[Life] \notin {"idle", "dialFailed"}
    /\ pc[Read] \in {"joinUDP", "join", "done"} => \A t \in media : sock[t] # "open"

Live == {t \in Tracks : pc[t] # "off"}
LiveRtcp == {t \in Tracks : rtcpPc[t] # "off"}
Starting == pc[Life] \in {"armRead", "spawn"}

\* The wait groups count the goroutines that run or are about to.
JoinInv ==
    /\ rtcpPc \in [Tracks -> {"off", "arm", "recv"}]
    /\ wg = IF Starting \/ pc[Keep] # "off" THEN 1 ELSE 0
    /\ Starting => pc[Keep] = "off" /\ Live = {} /\ LiveRtcp = {}
    /\ udpWG = Cardinality(Live) + Cardinality(LiveRtcp)
               + (IF Starting /\ udpPinned THEN 2 * Cardinality(published) ELSE 0)
    /\ pc[Read] \in {"join", "done"} => udpWG = 0
    /\ pc[Read] = "done" => wg = 0

\* Nobody waits past an interrupt.
DeadlineInv ==
    /\ rtpDl \in [Tracks -> {"none", "now", "watch"}]
    /\ rtcpDl \in [Tracks -> {"none", "now"}]
    /\ InterruptSticks
    /\ rdl = "now" => shuttingDown
    /\ \A t \in Tracks : rtpDl[t] = "now" => shuttingDown

\* An anchor some watchdog depends on is idle only after an interval.
AnchorInv ==
    /\ idle \in [Anchors -> BOOLEAN] /\ elapsed \in BOOLEAN
    /\ playing /\ idle["control"] => elapsed
    /\ pc[Life] = "commitPlay" => ~idle["control"]
    /\ \A t \in Tracks : pc[t] # "off" /\ idle[t] => elapsed
    /\ \A a \in Actors : cause[a] = "readTimeout" => elapsed
    /\ NoFalseTimeout

Less(x, y) == x.gen < y.gen \/ (x.gen = y.gen /\ x.nc < y.nc)
Creds == [gen : Nat, nc : Nat]
Holds(a) == pc[a] \in {"attach", "warm", "write"}

\* The credentials marshalled under writeMu and not yet written are newer than
\* the last ones on the wire.
NonceInv ==
    /\ auth \in Creds /\ lastAuth \in Creds /\ msg \in [Workers -> Creds]
    /\ writeMu \in Workers \cup {"free"}
    /\ \A a \in Workers : Holds(a) => writeMu = a
    /\ job[Life] = "request" /\ slot # "badTransport"
    /\ pc[Life] = "recordSession" => slot \in Replies
    /\ lastAuth = auth \/ Less(lastAuth, auth)
    /\ auth.gen = 0 => auth.nc = 0
    /\ \A a \in Workers :
          pc[a] \in {"warm", "write"} /\ job[a] \notin {"reply", "report"} =>
             /\ msg[a] = auth \/ Less(msg[a], auth)
             /\ msg[a].gen # 0 => Less(lastAuth, msg[a])

\* The actors are pairwise distinct, and none is named like a lock's owner.
LEMMA ActorFacts ==
    /\ {Life, Read, Keep} \subseteq Workers
    /\ Workers \subseteq Actors /\ Tracks \subseteq Actors /\ Callers \subseteq Actors
    /\ Closers \subseteq Callers /\ Waiters \subseteq Callers
    /\ Life \notin Tracks \cup Callers /\ Read \notin Tracks \cup Callers
    /\ Keep \notin Tracks \cup Callers /\ Tracks \cap Callers = {}
    /\ Actors = {Life, Read, Keep} \cup Tracks \cup Callers
    /\ "free" \notin Actors /\ "fired" \notin Actors /\ "control" \notin Tracks
  BY ActorsAssumption DEF Actors, Workers, Callers, Life, Read, Keep

\* The steps of the session, one by one.
NextCase ==
    \/ \E a \in Actors \ {Keep} : OnceDo(a)
    \/ \E a \in Actors \ {Keep} : SetTermErr(a)
    \/ \E a \in Actors \ {Keep} : CloseClosing(a)
    \/ \E a \in Actors \ {Keep} : Interrupt(a)
    \/ \E a \in Actors \ {Keep} : MediaNow(a)
    \/ \E a \in Workers : WriteLock(a)
    \/ \E a \in Workers : Attach(a)
    \/ \E a \in Workers : WriteArm(a)
    \/ \E a \in Workers : WriteOk(a)
    \/ \E a \in Workers : WriteFail(a)
    \/ CallDescribe
    \/ \E t \in Tracks : CallSetup(t)
    \/ CallPlay
    \/ GiveUp
    \/ Authenticate
    \/ Fallback
    \/ Answered
    \/ VerbFails
    \/ CommitDescribe
    \/ RecordSession
    \/ Publish
    \/ RegisterMedia
    \/ StampPlay
    \/ CommitPlay
    \/ ArmReadPlay
    \/ Spawn
    \/ ReaderLoop
    \/ Fill
    \/ ReadFails
    \/ Unwind
    \/ DiscardRead
    \/ CloseMedia
    \/ JoinUDP
    \/ Join
    \/ ReadMedia
    \/ ReadRequest
    \/ ReadGarbage
    \/ \E k \in Replies : ReadResponse(k)
    \/ KeepaliveLoop
    \/ \E t \in Tracks : RecvArm(t)
    \/ \E t \in Tracks : RecvFails(t)
    \/ \E t \in Tracks : RecvExit(t)
    \/ \E t \in Tracks : RecvDatagram(t)
    \/ \E t \in Tracks : RtcpRecv(t)
    \/ \E t \in Tracks : RtcpReport(t)
    \/ \E c \in Closers : CallClose(c)
    \/ \E w \in Waiters : WaitCtx(w)
    \/ \E w \in Waiters : WaitDone(w)
    \/ PeerCloses
    \/ \E x \in Anchors : IdleElapses(x)
    \/ UNCHANGED vars

\* Every step is a step of NextCase.
LEMMA NextCases == [Next]_vars => NextCase
  <1>1. ASSUME NEW a \in Actors \ {Keep}, Funnel(a) PROVE NextCase
    BY <1>1 DEF Funnel, NextCase
  <1>2. ASSUME NEW a \in Workers, Writer(a) PROVE NextCase
    BY <1>2 DEF Writer, NextCase
  <1>3. {Life, Read} \subseteq Actors \ {Keep} /\ {Life, Read, Keep} \subseteq Workers
        /\ Tracks \subseteq Actors \ {Keep} /\ Callers \subseteq Actors \ {Keep}
    BY ActorFacts DEF Life, Read, Keep
  <1>4. Lifecycle => NextCase
    BY <1>1, <1>2, <1>3 DEF Lifecycle, NextCase
  <1>5. ReaderStep => NextCase
    BY <1>1, <1>2, <1>3 DEF ReaderStep, NextCase
  <1>6. KeepaliveStep => NextCase
    BY <1>2, <1>3 DEF KeepaliveStep, NextCase
  <1>7. ASSUME NEW t \in Tracks, ReceiverStep(t) \/ RtcpRecv(t) PROVE NextCase
    BY <1>1, <1>3, <1>7 DEF ReceiverStep, NextCase
  <1>8. ASSUME NEW c \in Callers, Funnel(c) PROVE NextCase
    BY <1>1, <1>3, <1>8
  <1>9. Goroutines => NextCase
    BY <1>4, <1>5, <1>6, <1>7, <1>8 DEF Goroutines, NextCase
  <1>10. Environment => NextCase
    BY DEF Environment, NextCase
  <1>11. Terminated => NextCase
    BY DEF Terminated, NextCase
  <1>12. UNCHANGED vars => NextCase
    BY DEF NextCase
  <1> QED BY <1>9, <1>10, <1>11, <1>12 DEF Next

\* Where Spawn leaves the goroutines.
LEMMA SpawnPc ==
    ASSUME ControlInv, PinInv, Spawn
    PROVE  /\ pc' \in [Actors -> LifePCs \cup ReadPCs \cup KeepPCs \cup TrackPCs \cup CallerPCs]
           /\ pc'[Life] = "idle" /\ pc'[Keep] = "loop" /\ pc'[Read] = pc[Read]
           /\ \A c \in Callers : pc'[c] = pc[c]
           /\ \A t \in Tracks : pc'[t] = IF udpPinned /\ t \in published /\ t \in media
                                         THEN "arm" ELSE pc[t]
  <1> DEFINE run == IF udpPinned THEN published \cap media ELSE {}
  <1>1. pc' = [a \in Actors |-> CASE a = Life -> "idle"
                                  [] a = "keepalive" -> "loop"
                                  [] a \in run -> "arm"
                                  [] OTHER -> pc[a]]
    BY DEF Spawn
  <1>2. \A a \in Actors : pc'[a] = CASE a = Life -> "idle"
                                     [] a = "keepalive" -> "loop"
                                     [] a \in run -> "arm"
                                     [] OTHER -> pc[a]
    BY <1>1
  <1>3. run \subseteq Tracks
    BY DEF PinInv
  <1>4. \A a \in Actors : /\ a = Life => pc'[a] = "idle"
                          /\ a = Keep => pc'[a] = "loop"
                          /\ a \in run => pc'[a] = "arm"
                          /\ a \notin run \cup {Life, Keep} => pc'[a] = pc[a]
    BY <1>2, <1>3, ActorFacts DEF Life, Keep
  <1>5. /\ pc'[Life] = "idle" /\ pc'[Keep] = "loop" /\ pc'[Read] = pc[Read]
        /\ \A c \in Callers : pc'[c] = pc[c]
    BY <1>3, <1>4, ActorFacts DEF Life, Read, Keep
  <1>6. \A t \in Tracks : pc'[t] = IF t \in run THEN "arm" ELSE pc[t]
    BY <1>4, ActorFacts
  <1>7. \A a \in Actors :
           pc'[a] \in LifePCs \cup ReadPCs \cup KeepPCs \cup TrackPCs \cup CallerPCs
    <2>1. \A a \in Actors : pc'[a] \in {"idle", "loop", "arm", pc[a]}
      BY <1>4
    <2> QED BY <2>1 DEF ControlInv, LifePCs, KeepPCs, TrackPCs
  <1> QED BY <1>1, <1>5, <1>6, <1>7

\* Every actor stays in its own program.
LEMMA ControlStep ==
    ASSUME ControlInv, PinInv,
           [Next]_vars
    PROVE  ControlInv'
  <1> USE ActorFacts
      DEF At, Go, Shutdown, FunnelFrame, WriteFrame, VerbFrame, ReadFrame,
          RecvFrame, CallerFrame, shutVars, connVars, reqVars, authVars,
          trackVars, sockVars, recvVars, watchVars, joinVars, countVars,
          ControlInv, FunnelPCs, WriterPCs, VerbPCs, EndPCs, LifePCs, ReadPCs,
          KeepPCs, TrackPCs, CallerPCs, Life, Read, Keep, Workers
  <1>1. CASE \E a \in Actors \ {Keep} : OnceDo(a)
    BY <1>1 DEF OnceDo
  <1>2. CASE \E a \in Actors \ {Keep} : SetTermErr(a)
    BY <1>2 DEF SetTermErr
  <1>3. CASE \E a \in Actors \ {Keep} : CloseClosing(a)
    BY <1>3 DEF CloseClosing
  <1>4. CASE \E a \in Actors \ {Keep} : Interrupt(a)
    BY <1>4 DEF Interrupt
  <1>5. CASE \E a \in Actors \ {Keep} : MediaNow(a)
    BY <1>5 DEF MediaNow
  <1>6. CASE \E a \in Workers : WriteLock(a)
    BY <1>6 DEF WriteLock
  <1>7. CASE \E a \in Workers : Attach(a)
    BY <1>7 DEF Attach
  <1>8. CASE \E a \in Workers : WriteArm(a)
    BY <1>8 DEF WriteArm
  <1>9. CASE \E a \in Workers : WriteOk(a)
    BY <1>9 DEF WriteOk, AfterWrite
  <1>10. CASE \E a \in Workers : WriteFail(a)
    BY <1>10 DEF WriteFail, AfterWrite
  <1>11. CASE CallDescribe
    BY <1>11 DEF CallDescribe, MayCall, Send, Request
  <1>12. CASE \E t \in Tracks : CallSetup(t)
    BY <1>12 DEF CallSetup, MayCall, Send, Request
  <1>13. CASE CallPlay
    BY <1>13 DEF CallPlay, MayCall, Send, Request
  <1>14. CASE GiveUp
    BY <1>14 DEF GiveUp
  <1>15. CASE Authenticate
    BY <1>15 DEF Authenticate, Send
  <1>16. CASE Fallback
    BY <1>16 DEF Fallback, Send, Request
  <1>17. CASE Answered
    BY <1>17 DEF Answered
  <1>18. CASE VerbFails
    BY <1>18 DEF VerbFails
  <1>19. CASE CommitDescribe
    BY <1>19 DEF CommitDescribe
  <1>20. CASE RecordSession
    BY <1>20 DEF RecordSession
  <1>21. CASE Publish
    BY <1>21 DEF Publish
  <1>22. CASE RegisterMedia
    BY <1>22 DEF RegisterMedia, RegisterFrame
  <1>23. CASE StampPlay
    BY <1>23 DEF StampPlay
  <1>24. CASE CommitPlay
    BY <1>24 DEF CommitPlay
  <1>25. CASE ArmReadPlay
    BY <1>25 DEF ArmReadPlay
  <1>26. CASE Spawn
    BY <1>26, SpawnPc DEF Spawn
  <1>27. CASE ReaderLoop
    BY <1>27 DEF ReaderLoop
  <1>28. CASE Fill
    BY <1>28 DEF Fill
  <1>29. CASE ReadFails
    BY <1>29 DEF ReadFails
  <1>30. CASE Unwind
    BY <1>30 DEF Unwind
  <1>31. CASE DiscardRead
    BY <1>31 DEF DiscardRead
  <1>32. CASE CloseMedia
    BY <1>32 DEF CloseMedia
  <1>33. CASE JoinUDP
    BY <1>33 DEF JoinUDP
  <1>34. CASE Join
    BY <1>34 DEF Join
  <1>35. CASE ReadMedia
    BY <1>35 DEF ReadMedia, Callback, CanRead
  <1>36. CASE ReadRequest
    BY <1>36 DEF ReadRequest, CanRead
  <1>37. CASE ReadGarbage
    BY <1>37 DEF ReadGarbage, CanRead
  <1>38. CASE \E k \in Replies : ReadResponse(k)
    BY <1>38 DEF ReadResponse, CanRead
  <1>39. CASE KeepaliveLoop
    BY <1>39 DEF KeepaliveLoop
  <1>40. CASE \E t \in Tracks : RecvArm(t)
    BY <1>40 DEF RecvArm
  <1>41. CASE \E t \in Tracks : RecvFails(t)
    BY <1>41 DEF RecvFails
  <1>42. CASE \E t \in Tracks : RecvExit(t)
    BY <1>42 DEF RecvExit
  <1>43. CASE \E t \in Tracks : RecvDatagram(t)
    BY <1>43 DEF RecvDatagram, Callback
  <1>44. CASE \E t \in Tracks : RtcpRecv(t)
    BY <1>44 DEF RtcpRecv
  <1>45. CASE \E t \in Tracks : RtcpReport(t)
    BY <1>45 DEF RtcpReport
  <1>46. CASE \E c \in Closers : CallClose(c)
    BY <1>46 DEF CallClose
  <1>47. CASE \E w \in Waiters : WaitCtx(w)
    BY <1>47 DEF WaitCtx
  <1>48. CASE \E w \in Waiters : WaitDone(w)
    BY <1>48 DEF WaitDone
  <1>49. CASE PeerCloses
    BY <1>49 DEF PeerCloses
  <1>50. CASE \E x \in Anchors : IdleElapses(x)
    BY <1>50 DEF IdleElapses
  <1>51. CASE UNCHANGED vars
    BY <1>51 DEF vars
  <1> QED
    BY NextCases, <1>1, <1>2, <1>3, <1>4, <1>5, <1>6, <1>7, <1>8, <1>9,
       <1>10, <1>11, <1>12, <1>13, <1>14, <1>15, <1>16, <1>17, <1>18, <1>19,
       <1>20, <1>21, <1>22, <1>23, <1>24, <1>25, <1>26, <1>27, <1>28, <1>29,
       <1>30, <1>31, <1>32, <1>33, <1>34, <1>35, <1>36, <1>37, <1>38, <1>39,
       <1>40, <1>41, <1>42, <1>43, <1>44, <1>45, <1>46, <1>47, <1>48, <1>49,
       <1>50, <1>51 DEF NextCase

\* One caller at a time is inside the Once, and each stage it has passed
\* leaves its mark: cause, then closing, then the interrupt.
LEMMA FunnelStep ==
    ASSUME ControlInv, PinInv, FunnelInv,
           [Next]_vars
    PROVE  FunnelInv'
  <1> USE ActorFacts
      DEF At, Go, Shutdown, FunnelFrame, WriteFrame, VerbFrame, ReadFrame,
          RecvFrame, CallerFrame, shutVars, connVars, reqVars, authVars,
          trackVars, sockVars, recvVars, watchVars, joinVars, countVars,
          ControlInv, FunnelPCs, WriterPCs, VerbPCs, EndPCs, LifePCs, ReadPCs,
          KeepPCs, TrackPCs, CallerPCs, Life, Read, Keep, FunnelInv
  <1>1. CASE \E a \in Actors \ {Keep} : OnceDo(a)
    BY <1>1 DEF OnceDo
  <1>2. CASE \E a \in Actors \ {Keep} : SetTermErr(a)
    BY <1>2 DEF SetTermErr
  <1>3. CASE \E a \in Actors \ {Keep} : CloseClosing(a)
    BY <1>3 DEF CloseClosing
  <1>4. CASE \E a \in Actors \ {Keep} : Interrupt(a)
    BY <1>4 DEF Interrupt
  <1>5. CASE \E a \in Actors \ {Keep} : MediaNow(a)
    BY <1>5 DEF MediaNow
  <1>6. CASE \E a \in Workers : WriteLock(a)
    BY <1>6 DEF WriteLock
  <1>7. CASE \E a \in Workers : Attach(a)
    BY <1>7 DEF Attach
  <1>8. CASE \E a \in Workers : WriteArm(a)
    BY <1>8 DEF WriteArm
  <1>9. CASE \E a \in Workers : WriteOk(a)
    BY <1>9 DEF WriteOk, AfterWrite
  <1>10. CASE \E a \in Workers : WriteFail(a)
    BY <1>10 DEF WriteFail, AfterWrite, Causes, NoErr
  <1>11. CASE CallDescribe
    BY <1>11 DEF CallDescribe, MayCall, Send, Request
  <1>12. CASE \E t \in Tracks : CallSetup(t)
    BY <1>12 DEF CallSetup, MayCall, Send, Request
  <1>13. CASE CallPlay
    BY <1>13 DEF CallPlay, MayCall, Send, Request
  <1>14. CASE GiveUp
    BY <1>14 DEF GiveUp, Causes, NoErr
  <1>15. CASE Authenticate
    BY <1>15 DEF Authenticate, Send
  <1>16. CASE Fallback
    BY <1>16 DEF Fallback, Send, Request
  <1>17. CASE Answered
    BY <1>17 DEF Answered
  <1>18. CASE VerbFails
    BY <1>18 DEF VerbFails
  <1>19. CASE CommitDescribe
    BY <1>19 DEF CommitDescribe, MayCommit
  <1>20. CASE RecordSession
    BY <1>20 DEF RecordSession
  <1>21. CASE Publish
    BY <1>21 DEF Publish, MayCommit
  <1>22. CASE RegisterMedia
    BY <1>22 DEF RegisterMedia, RegisterFrame
  <1>23. CASE StampPlay
    BY <1>23 DEF StampPlay
  <1>24. CASE CommitPlay
    BY <1>24 DEF CommitPlay, MayCommit
  <1>25. CASE ArmReadPlay
    BY <1>25 DEF ArmReadPlay
  <1>26. CASE Spawn
    BY <1>26, SpawnPc DEF Spawn
  <1>27. CASE ReaderLoop
    BY <1>27 DEF ReaderLoop
  <1>28. CASE Fill
    BY <1>28 DEF Fill
  <1>29. CASE ReadFails
    BY <1>29 DEF ReadFails, ReadErr, Causes, NoErr
  <1>30. CASE Unwind
    BY <1>30 DEF Unwind
  <1>31. CASE DiscardRead
    BY <1>31 DEF DiscardRead
  <1>32. CASE CloseMedia
    BY <1>32 DEF CloseMedia
  <1>33. CASE JoinUDP
    BY <1>33 DEF JoinUDP
  <1>34. CASE Join
    BY <1>34 DEF Join
  <1>35. CASE ReadMedia
    BY <1>35 DEF ReadMedia, Callback, CanRead, Causes, NoErr
  <1>36. CASE ReadRequest
    BY <1>36 DEF ReadRequest, CanRead, Causes, NoErr
  <1>37. CASE ReadGarbage
    BY <1>37 DEF ReadGarbage, CanRead, Causes, NoErr
  <1>38. CASE \E k \in Replies : ReadResponse(k)
    BY <1>38 DEF ReadResponse, CanRead
  <1>39. CASE KeepaliveLoop
    BY <1>39 DEF KeepaliveLoop
  <1>40. CASE \E t \in Tracks : RecvArm(t)
    BY <1>40 DEF RecvArm
  <1>41. CASE \E t \in Tracks : RecvFails(t)
    BY <1>41 DEF RecvFails, ReadErr, Causes, NoErr
  <1>42. CASE \E t \in Tracks : RecvExit(t)
    BY <1>42 DEF RecvExit
  <1>43. CASE \E t \in Tracks : RecvDatagram(t)
    BY <1>43 DEF RecvDatagram, Callback, Causes, NoErr
  <1>44. CASE \E t \in Tracks : RtcpRecv(t)
    BY <1>44 DEF RtcpRecv
  <1>45. CASE \E t \in Tracks : RtcpReport(t)
    BY <1>45 DEF RtcpReport
  <1>46. CASE \E c \in Closers : CallClose(c)
    BY <1>46 DEF CallClose, Causes, NoErr
  <1>47. CASE \E w \in Waiters : WaitCtx(w)
    BY <1>47 DEF WaitCtx, Causes, NoErr
  <1>48. CASE \E w \in Waiters : WaitDone(w)
    BY <1>48 DEF WaitDone
  <1>49. CASE PeerCloses
    BY <1>49 DEF PeerCloses
  <1>50. CASE \E x \in Anchors : IdleElapses(x)
    BY <1>50 DEF IdleElapses
  <1>51. CASE UNCHANGED vars
    BY <1>51 DEF vars
  <1> QED
    BY NextCases, <1>1, <1>2, <1>3, <1>4, <1>5, <1>6, <1>7, <1>8, <1>9,
       <1>10, <1>11, <1>12, <1>13, <1>14, <1>15, <1>16, <1>17, <1>18, <1>19,
       <1>20, <1>21, <1>22, <1>23, <1>24, <1>25, <1>26, <1>27, <1>28, <1>29,
       <1>30, <1>31, <1>32, <1>33, <1>34, <1>35, <1>36, <1>37, <1>38, <1>39,
       <1>40, <1>41, <1>42, <1>43, <1>44, <1>45, <1>46, <1>47, <1>48, <1>49,
       <1>50, <1>51 DEF NextCase

\* A commit belongs to the verb that was sent.
LEMMA VerbStep ==
    ASSUME ControlInv, PinInv, VerbInv,
           [Next]_vars
    PROVE  VerbInv'
  <1> USE ActorFacts
      DEF At, Go, Shutdown, FunnelFrame, WriteFrame, VerbFrame, ReadFrame,
          RecvFrame, CallerFrame, shutVars, connVars, reqVars, authVars,
          trackVars, sockVars, recvVars, watchVars, joinVars, countVars,
          ControlInv, FunnelPCs, WriterPCs, VerbPCs, EndPCs, LifePCs, ReadPCs,
          KeepPCs, TrackPCs, CallerPCs, Life, Read, Keep, Workers,
          VerbInv
  <1>1. CASE \E a \in Actors \ {Keep} : OnceDo(a)
    BY <1>1 DEF OnceDo
  <1>2. CASE \E a \in Actors \ {Keep} : SetTermErr(a)
    BY <1>2 DEF SetTermErr
  <1>3. CASE \E a \in Actors \ {Keep} : CloseClosing(a)
    BY <1>3 DEF CloseClosing
  <1>4. CASE \E a \in Actors \ {Keep} : Interrupt(a)
    BY <1>4 DEF Interrupt
  <1>5. CASE \E a \in Actors \ {Keep} : MediaNow(a)
    BY <1>5 DEF MediaNow
  <1>6. CASE \E a \in Workers : WriteLock(a)
    BY <1>6 DEF WriteLock
  <1>7. CASE \E a \in Workers : Attach(a)
    BY <1>7 DEF Attach
  <1>8. CASE \E a \in Workers : WriteArm(a)
    BY <1>8 DEF WriteArm
  <1>9. CASE \E a \in Workers : WriteOk(a)
    BY <1>9 DEF WriteOk, AfterWrite
  <1>10. CASE \E a \in Workers : WriteFail(a)
    BY <1>10 DEF WriteFail, AfterWrite
  <1>11. CASE CallDescribe
    BY <1>11 DEF CallDescribe, MayCall, Send, Request
  <1>12. CASE \E t \in Tracks : CallSetup(t)
    BY <1>12 DEF CallSetup, MayCall, Send, Request, AttemptUDP,
       AllowFallback
  <1>13. CASE CallPlay
    BY <1>13 DEF CallPlay, MayCall, Send, Request
  <1>14. CASE GiveUp
    BY <1>14 DEF GiveUp
  <1>15. CASE Authenticate
    BY <1>15 DEF Authenticate, Send
  <1>16. CASE Fallback
    BY <1>16 DEF Fallback, Send, Request, FallsBack
  <1>17. CASE Answered
    BY <1>17 DEF Answered
  <1>18. CASE VerbFails
    BY <1>18 DEF VerbFails
  <1>19. CASE CommitDescribe
    BY <1>19 DEF CommitDescribe
  <1>20. CASE RecordSession
    BY <1>20 DEF RecordSession
  <1>21. CASE Publish
    BY <1>21 DEF Publish
  <1>22. CASE RegisterMedia
    BY <1>22 DEF RegisterMedia, RegisterFrame
  <1>23. CASE StampPlay
    BY <1>23 DEF StampPlay
  <1>24. CASE CommitPlay
    BY <1>24 DEF CommitPlay
  <1>25. CASE ArmReadPlay
    BY <1>25 DEF ArmReadPlay
  <1>26. CASE Spawn
    BY <1>26, SpawnPc DEF Spawn
  <1>27. CASE ReaderLoop
    BY <1>27 DEF ReaderLoop
  <1>28. CASE Fill
    BY <1>28 DEF Fill
  <1>29. CASE ReadFails
    BY <1>29 DEF ReadFails
  <1>30. CASE Unwind
    BY <1>30 DEF Unwind
  <1>31. CASE DiscardRead
    BY <1>31 DEF DiscardRead
  <1>32. CASE CloseMedia
    BY <1>32 DEF CloseMedia
  <1>33. CASE JoinUDP
    BY <1>33 DEF JoinUDP
  <1>34. CASE Join
    BY <1>34 DEF Join
  <1>35. CASE ReadMedia
    BY <1>35 DEF ReadMedia, Callback, CanRead
  <1>36. CASE ReadRequest
    BY <1>36 DEF ReadRequest, CanRead
  <1>37. CASE ReadGarbage
    BY <1>37 DEF ReadGarbage, CanRead
  <1>38. CASE \E k \in Replies : ReadResponse(k)
    BY <1>38 DEF ReadResponse, CanRead
  <1>39. CASE KeepaliveLoop
    BY <1>39 DEF KeepaliveLoop
  <1>40. CASE \E t \in Tracks : RecvArm(t)
    BY <1>40 DEF RecvArm
  <1>41. CASE \E t \in Tracks : RecvFails(t)
    BY <1>41 DEF RecvFails
  <1>42. CASE \E t \in Tracks : RecvExit(t)
    BY <1>42 DEF RecvExit
  <1>43. CASE \E t \in Tracks : RecvDatagram(t)
    BY <1>43 DEF RecvDatagram, Callback
  <1>44. CASE \E t \in Tracks : RtcpRecv(t)
    BY <1>44 DEF RtcpRecv
  <1>45. CASE \E t \in Tracks : RtcpReport(t)
    BY <1>45 DEF RtcpReport
  <1>46. CASE \E c \in Closers : CallClose(c)
    BY <1>46 DEF CallClose
  <1>47. CASE \E w \in Waiters : WaitCtx(w)
    BY <1>47 DEF WaitCtx
  <1>48. CASE \E w \in Waiters : WaitDone(w)
    BY <1>48 DEF WaitDone
  <1>49. CASE PeerCloses
    BY <1>49 DEF PeerCloses
  <1>50. CASE \E x \in Anchors : IdleElapses(x)
    BY <1>50 DEF IdleElapses
  <1>51. CASE UNCHANGED vars
    BY <1>51 DEF vars
  <1> QED
    BY NextCases, <1>1, <1>2, <1>3, <1>4, <1>5, <1>6, <1>7, <1>8, <1>9,
       <1>10, <1>11, <1>12, <1>13, <1>14, <1>15, <1>16, <1>17, <1>18, <1>19,
       <1>20, <1>21, <1>22, <1>23, <1>24, <1>25, <1>26, <1>27, <1>28, <1>29,
       <1>30, <1>31, <1>32, <1>33, <1>34, <1>35, <1>36, <1>37, <1>38, <1>39,
       <1>40, <1>41, <1>42, <1>43, <1>44, <1>45, <1>46, <1>47, <1>48, <1>49,
       <1>50, <1>51 DEF NextCase

\* Play commits once, and nothing runs before it does.
LEMMA PlayStep ==
    ASSUME ControlInv, PinInv, FunnelInv, VerbInv, PlayInv,
           [Next]_vars
    PROVE  PlayInv'
  <1> USE ActorFacts
      DEF At, Go, Shutdown, FunnelFrame, WriteFrame, VerbFrame, ReadFrame,
          RecvFrame, CallerFrame, shutVars, connVars, reqVars, authVars,
          trackVars, sockVars, recvVars, watchVars, joinVars, countVars,
          ControlInv, FunnelPCs, WriterPCs, VerbPCs, EndPCs, LifePCs, ReadPCs,
          KeepPCs, TrackPCs, CallerPCs, Life, Read, Keep, Workers,
          PlayInv
  <1>1. CASE \E a \in Actors \ {Keep} : OnceDo(a)
    BY <1>1 DEF OnceDo
  <1>2. CASE \E a \in Actors \ {Keep} : SetTermErr(a)
    BY <1>2 DEF SetTermErr
  <1>3. CASE \E a \in Actors \ {Keep} : CloseClosing(a)
    BY <1>3 DEF CloseClosing
  <1>4. CASE \E a \in Actors \ {Keep} : Interrupt(a)
    BY <1>4 DEF Interrupt
  <1>5. CASE \E a \in Actors \ {Keep} : MediaNow(a)
    BY <1>5 DEF MediaNow
  <1>6. CASE \E a \in Workers : WriteLock(a)
    BY <1>6 DEF WriteLock
  <1>7. CASE \E a \in Workers : Attach(a)
    BY <1>7 DEF Attach
  <1>8. CASE \E a \in Workers : WriteArm(a)
    BY <1>8 DEF WriteArm
  <1>9. CASE \E a \in Workers : WriteOk(a)
    BY <1>9 DEF WriteOk, AfterWrite
  <1>10. CASE \E a \in Workers : WriteFail(a)
    BY <1>10 DEF WriteFail, AfterWrite
  <1>11. CASE CallDescribe
    BY <1>11 DEF CallDescribe, MayCall, Send, Request
  <1>12. CASE \E t \in Tracks : CallSetup(t)
    BY <1>12 DEF CallSetup, MayCall, Send, Request
  <1>13. CASE CallPlay
    BY <1>13 DEF CallPlay, MayCall, Send, Request
  <1>14. CASE GiveUp
    BY <1>14 DEF GiveUp
  <1>15. CASE Authenticate
    BY <1>15 DEF Authenticate, Send
  <1>16. CASE Fallback
    BY <1>16 DEF Fallback, Send, Request
  <1>17. CASE Answered
    BY <1>17 DEF Answered
  <1>18. CASE VerbFails
    BY <1>18 DEF VerbFails
  <1>19. CASE CommitDescribe
    BY <1>19 DEF CommitDescribe
  <1>20. CASE RecordSession
    BY <1>20 DEF RecordSession
  <1>21. CASE Publish
    BY <1>21 DEF Publish
  <1>22. CASE RegisterMedia
    BY <1>22 DEF RegisterMedia, RegisterFrame
  <1>23. CASE StampPlay
    BY <1>23 DEF StampPlay
  <1>24. CASE CommitPlay
    <2>1. CASE ~MayCommit
      BY <1>24, <2>1 DEF CommitPlay
    <2>2. CASE MayCommit
      <3>1. pc' = [pc EXCEPT ![Life] = "armRead"] /\ state' = "playing" /\ playing' = TRUE
        BY <1>24, <2>2 DEF CommitPlay
      <3> QED BY <3>1
    <2> QED BY <2>1, <2>2
  <1>25. CASE ArmReadPlay
    BY <1>25 DEF ArmReadPlay
  <1>26. CASE Spawn
    BY <1>26, SpawnPc DEF Spawn
  <1>27. CASE ReaderLoop
    BY <1>27 DEF ReaderLoop
  <1>28. CASE Fill
    BY <1>28 DEF Fill
  <1>29. CASE ReadFails
    BY <1>29 DEF ReadFails
  <1>30. CASE Unwind
    BY <1>30 DEF Unwind
  <1>31. CASE DiscardRead
    BY <1>31 DEF DiscardRead
  <1>32. CASE CloseMedia
    BY <1>32 DEF CloseMedia
  <1>33. CASE JoinUDP
    BY <1>33 DEF JoinUDP
  <1>34. CASE Join
    BY <1>34 DEF Join
  <1>35. CASE ReadMedia
    BY <1>35 DEF ReadMedia, Callback, CanRead
  <1>36. CASE ReadRequest
    BY <1>36 DEF ReadRequest, CanRead
  <1>37. CASE ReadGarbage
    BY <1>37 DEF ReadGarbage, CanRead
  <1>38. CASE \E k \in Replies : ReadResponse(k)
    BY <1>38 DEF ReadResponse, CanRead
  <1>39. CASE KeepaliveLoop
    BY <1>39 DEF KeepaliveLoop
  <1>40. CASE \E t \in Tracks : RecvArm(t)
    BY <1>40 DEF RecvArm
  <1>41. CASE \E t \in Tracks : RecvFails(t)
    BY <1>41 DEF RecvFails
  <1>42. CASE \E t \in Tracks : RecvExit(t)
    BY <1>42 DEF RecvExit
  <1>43. CASE \E t \in Tracks : RecvDatagram(t)
    BY <1>43 DEF RecvDatagram, Callback
  <1>44. CASE \E t \in Tracks : RtcpRecv(t)
    BY <1>44 DEF RtcpRecv
  <1>45. CASE \E t \in Tracks : RtcpReport(t)
    BY <1>45 DEF RtcpReport
  <1>46. CASE \E c \in Closers : CallClose(c)
    BY <1>46 DEF CallClose
  <1>47. CASE \E w \in Waiters : WaitCtx(w)
    BY <1>47 DEF WaitCtx
  <1>48. CASE \E w \in Waiters : WaitDone(w)
    BY <1>48 DEF WaitDone
  <1>49. CASE PeerCloses
    BY <1>49 DEF PeerCloses
  <1>50. CASE \E x \in Anchors : IdleElapses(x)
    BY <1>50 DEF IdleElapses
  <1>51. CASE UNCHANGED vars
    BY <1>51 DEF vars
  <1> QED
    BY NextCases, <1>1, <1>2, <1>3, <1>4, <1>5, <1>6, <1>7, <1>8, <1>9,
       <1>10, <1>11, <1>12, <1>13, <1>14, <1>15, <1>16, <1>17, <1>18, <1>19,
       <1>20, <1>21, <1>22, <1>23, <1>24, <1>25, <1>26, <1>27, <1>28, <1>29,
       <1>30, <1>31, <1>32, <1>33, <1>34, <1>35, <1>36, <1>37, <1>38, <1>39,
       <1>40, <1>41, <1>42, <1>43, <1>44, <1>45, <1>46, <1>47, <1>48, <1>49,
       <1>50, <1>51 DEF NextCase

\* A transport that was chosen stays.
PinKept == pin # "none" => pin' = pin

\* A SETUP under way agrees with the pin of the session, which cannot change
\* under it: lifecycleMu serialises the verbs.  So its success does not move it.
LEMMA PinStep ==
    ASSUME ControlInv, VerbInv, PinInv,
           [Next]_vars
    PROVE  PinInv' /\ PinKept
  <1> USE ActorFacts
      DEF At, Go, Shutdown, FunnelFrame, WriteFrame, VerbFrame, ReadFrame,
          RecvFrame, CallerFrame, shutVars, connVars, reqVars, authVars,
          trackVars, sockVars, recvVars, watchVars, joinVars, countVars,
          ControlInv, FunnelPCs, WriterPCs, VerbPCs, EndPCs, LifePCs, ReadPCs,
          KeepPCs, TrackPCs, CallerPCs, Life, Read, Keep, Workers,
          VerbInv, PinInv, PinKept
  <1>1. CASE \E a \in Actors \ {Keep} : OnceDo(a)
    BY <1>1 DEF OnceDo
  <1>2. CASE \E a \in Actors \ {Keep} : SetTermErr(a)
    BY <1>2 DEF SetTermErr
  <1>3. CASE \E a \in Actors \ {Keep} : CloseClosing(a)
    BY <1>3 DEF CloseClosing
  <1>4. CASE \E a \in Actors \ {Keep} : Interrupt(a)
    BY <1>4 DEF Interrupt
  <1>5. CASE \E a \in Actors \ {Keep} : MediaNow(a)
    BY <1>5 DEF MediaNow
  <1>6. CASE \E a \in Workers : WriteLock(a)
    BY <1>6 DEF WriteLock
  <1>7. CASE \E a \in Workers : Attach(a)
    BY <1>7 DEF Attach
  <1>8. CASE \E a \in Workers : WriteArm(a)
    BY <1>8 DEF WriteArm
  <1>9. CASE \E a \in Workers : WriteOk(a)
    BY <1>9 DEF WriteOk, AfterWrite
  <1>10. CASE \E a \in Workers : WriteFail(a)
    BY <1>10 DEF WriteFail, AfterWrite
  <1>11. CASE CallDescribe
    BY <1>11 DEF CallDescribe, MayCall, Send, Request
  <1>12. CASE \E t \in Tracks : CallSetup(t)
    <2> PICK t \in Tracks : CallSetup(t)
      BY <1>12
    <2>1. /\ pc' = [pc EXCEPT ![Life] = "wlock"] /\ pc[Life] = "idle"
          /\ job' = [job EXCEPT ![Life] = "request"]
          /\ UNCHANGED <<pin, udpPinned, published, media>> /\ t \notin published
          /\ state \in {"described", "setup"}
          /\ pc'[Life] = "wlock" /\ pc'[Read] = pc[Read] /\ job'[Life] = "request"
      BY DEF CallSetup, MayCall, Send
    <2>2. /\ call'.verb = "SETUP" /\ call'.track = t
          /\ call'.udp = AttemptUDP /\ call'.fallback = AllowFallback
      BY DEF CallSetup, Send, Request
    <2> HIDE DEF ControlInv
    <2>3. CASE AttemptUDP
      <3>1. sock' = [sock EXCEPT ![t] = "open"]
        BY <2>3 DEF CallSetup
      <3> QED BY <2>1, <2>2, <2>3, <3>1 DEF AttemptUDP, AllowFallback
    <2>4. CASE ~AttemptUDP
      <3>1. sock' = sock
        BY <2>4 DEF CallSetup
      <3> QED BY <2>1, <2>2, <2>4, <3>1 DEF AttemptUDP, AllowFallback
    <2> QED BY <2>3, <2>4
  <1>13. CASE CallPlay
    BY <1>13 DEF CallPlay, MayCall, Send, Request
  <1>14. CASE GiveUp
    BY <1>14 DEF GiveUp
  <1>15. CASE Authenticate
    BY <1>15 DEF Authenticate, Send
  <1>16. CASE Fallback
    BY <1>16 DEF Fallback, Send, Request, FallsBack
  <1>17. CASE Answered
    BY <1>17 DEF Answered
  <1>18. CASE VerbFails
    BY <1>18 DEF VerbFails, CloseOwn
  <1>19. CASE CommitDescribe
    BY <1>19 DEF CommitDescribe
  <1>20. CASE RecordSession
    BY <1>20 DEF RecordSession, CloseOwn
  <1>21. CASE Publish
    <2>1. /\ pc[Life] = "publish" /\ call.verb = "SETUP" /\ call.track \in Tracks
          /\ UNCHANGED <<call, job, media>>
      BY <1>21 DEF Publish
    <2>2. CASE /\ pc' = [pc EXCEPT ![Life] = "idle"] /\ sock' = CloseOwn
               /\ UNCHANGED trackVars
      <3> pc'[Life] = "idle"
        BY <2>2
      <3> HIDE DEF ControlInv
      <3>1. CASE call.udp
        <4>1. sock' = [sock EXCEPT ![call.track] = "closed"]
          BY <2>2, <3>1 DEF CloseOwn
        <4> QED BY <2>1, <2>2, <4>1
      <3>2. CASE ~call.udp
        <4>1. sock' = sock
          BY <2>2, <3>2 DEF CloseOwn
        <4> QED BY <2>1, <2>2, <4>1
      <3> QED BY <3>1, <3>2
    <2>3. CASE /\ pc' = [pc EXCEPT ![Life] = IF call.udp THEN "register" ELSE "idle"]
               /\ published' = published \cup {call.track}
               /\ pin' = (IF call.udp THEN "UDP" ELSE "TCP")
               /\ udpPinned' = (udpPinned \/ call.udp) /\ sock' = sock
      <3> pc'[Life] = IF call.udp THEN "register" ELSE "idle"
        BY <2>3
      <3> HIDE DEF ControlInv
      <3>1. CASE call.udp
        <4>1. pin' = "UDP" /\ udpPinned' = TRUE /\ pc'[Life] = "register"
          BY <2>3, <3>1
        <4>2. pin # "TCP"
          BY <2>1, <3>1
        <4> QED BY <2>1, <2>3, <3>1, <4>1, <4>2
      <3>2. CASE ~call.udp
        <4>1. pin # "UDP" /\ pin' = "TCP" /\ pc'[Life] = "idle"
          BY <2>1, <2>3, <3>2
        <4>2. udpPinned' = FALSE /\ media = {}
          BY <2>3, <3>2, <4>1
        <4> QED BY <2>1, <2>3, <3>2, <4>1, <4>2
      <3> QED BY <3>1, <3>2
    <2> QED BY <1>21, <2>2, <2>3 DEF Publish
  <1>22. CASE RegisterMedia
    <2>1. /\ pc' = [pc EXCEPT ![Life] = "idle"] /\ pc[Life] = "register"
          /\ UNCHANGED <<call, job, pin, udpPinned, published>>
          /\ call.udp /\ pin = "UDP" /\ call.verb = "SETUP" /\ call.track \in Tracks
          /\ pc'[Life] = "idle" /\ pc'[Read] = pc[Read]
      BY <1>22 DEF RegisterMedia, RegisterFrame
    <2> HIDE DEF ControlInv
    <2>2. CASE closing /\ sock' = CloseOwn /\ media' = media
      <3>1. sock' = [sock EXCEPT ![call.track] = "closed"]
        BY <2>1, <2>2 DEF CloseOwn
      <3> QED BY <2>1, <2>2, <3>1
    <2>3. CASE ~closing /\ media' = media \cup {call.track} /\ sock' = sock
      BY <2>1, <2>3
    <2> QED BY <1>22, <2>2, <2>3 DEF RegisterMedia
  <1>23. CASE StampPlay
    BY <1>23 DEF StampPlay
  <1>24. CASE CommitPlay
    BY <1>24 DEF CommitPlay
  <1>25. CASE ArmReadPlay
    BY <1>25 DEF ArmReadPlay
  <1>26. CASE Spawn
    BY <1>26, SpawnPc DEF Spawn
  <1>27. CASE ReaderLoop
    BY <1>27 DEF ReaderLoop
  <1>28. CASE Fill
    BY <1>28 DEF Fill
  <1>29. CASE ReadFails
    BY <1>29 DEF ReadFails
  <1>30. CASE Unwind
    BY <1>30 DEF Unwind
  <1>31. CASE DiscardRead
    BY <1>31 DEF DiscardRead
  <1>32. CASE CloseMedia
    BY <1>32 DEF CloseMedia
  <1>33. CASE JoinUDP
    BY <1>33 DEF JoinUDP
  <1>34. CASE Join
    BY <1>34 DEF Join
  <1>35. CASE ReadMedia
    BY <1>35 DEF ReadMedia, Callback, CanRead
  <1>36. CASE ReadRequest
    BY <1>36 DEF ReadRequest, CanRead
  <1>37. CASE ReadGarbage
    BY <1>37 DEF ReadGarbage, CanRead
  <1>38. CASE \E k \in Replies : ReadResponse(k)
    BY <1>38 DEF ReadResponse, CanRead
  <1>39. CASE KeepaliveLoop
    BY <1>39 DEF KeepaliveLoop
  <1>40. CASE \E t \in Tracks : RecvArm(t)
    BY <1>40 DEF RecvArm
  <1>41. CASE \E t \in Tracks : RecvFails(t)
    BY <1>41 DEF RecvFails
  <1>42. CASE \E t \in Tracks : RecvExit(t)
    BY <1>42 DEF RecvExit
  <1>43. CASE \E t \in Tracks : RecvDatagram(t)
    BY <1>43 DEF RecvDatagram, Callback
  <1>44. CASE \E t \in Tracks : RtcpRecv(t)
    BY <1>44 DEF RtcpRecv
  <1>45. CASE \E t \in Tracks : RtcpReport(t)
    BY <1>45 DEF RtcpReport
  <1>46. CASE \E c \in Closers : CallClose(c)
    BY <1>46 DEF CallClose
  <1>47. CASE \E w \in Waiters : WaitCtx(w)
    BY <1>47 DEF WaitCtx
  <1>48. CASE \E w \in Waiters : WaitDone(w)
    BY <1>48 DEF WaitDone
  <1>49. CASE PeerCloses
    BY <1>49 DEF PeerCloses
  <1>50. CASE \E x \in Anchors : IdleElapses(x)
    BY <1>50 DEF IdleElapses
  <1>51. CASE UNCHANGED vars
    BY <1>51 DEF vars
  <1> QED
    BY NextCases, <1>1, <1>2, <1>3, <1>4, <1>5, <1>6, <1>7, <1>8, <1>9,
       <1>10, <1>11, <1>12, <1>13, <1>14, <1>15, <1>16, <1>17, <1>18, <1>19,
       <1>20, <1>21, <1>22, <1>23, <1>24, <1>25, <1>26, <1>27, <1>28, <1>29,
       <1>30, <1>31, <1>32, <1>33, <1>34, <1>35, <1>36, <1>37, <1>38, <1>39,
       <1>40, <1>41, <1>42, <1>43, <1>44, <1>45, <1>46, <1>47, <1>48, <1>49,
       <1>50, <1>51 DEF NextCase

\* An open socket pair always has an owner: registration hands it over, and
\* both the failing verb and a closed c.closing close it.
LEMMA SockStep ==
    ASSUME ControlInv, FunnelInv, VerbInv, PinInv, SockInv,
           [Next]_vars
    PROVE  SockInv'
  <1> USE ActorFacts
      DEF At, Go, Shutdown, FunnelFrame, WriteFrame, VerbFrame, ReadFrame,
          RecvFrame, CallerFrame, shutVars, connVars, reqVars, authVars,
          trackVars, sockVars, recvVars, watchVars, joinVars, countVars,
          ControlInv, FunnelPCs, WriterPCs, VerbPCs, EndPCs, LifePCs, ReadPCs,
          KeepPCs, TrackPCs, CallerPCs, Life, Read, Keep, Workers,
          VerbInv, PinInv, SockInv
  <1>1. CASE \E a \in Actors \ {Keep} : OnceDo(a)
    BY <1>1 DEF OnceDo
  <1>2. CASE \E a \in Actors \ {Keep} : SetTermErr(a)
    BY <1>2 DEF SetTermErr
  <1>3. CASE \E a \in Actors \ {Keep} : CloseClosing(a)
    BY <1>3 DEF CloseClosing
  <1>4. CASE \E a \in Actors \ {Keep} : Interrupt(a)
    BY <1>4 DEF Interrupt
  <1>5. CASE \E a \in Actors \ {Keep} : MediaNow(a)
    BY <1>5 DEF MediaNow
  <1>6. CASE \E a \in Workers : WriteLock(a)
    BY <1>6 DEF WriteLock
  <1>7. CASE \E a \in Workers : Attach(a)
    BY <1>7 DEF Attach
  <1>8. CASE \E a \in Workers : WriteArm(a)
    BY <1>8 DEF WriteArm
  <1>9. CASE \E a \in Workers : WriteOk(a)
    BY <1>9 DEF WriteOk, AfterWrite
  <1>10. CASE \E a \in Workers : WriteFail(a)
    BY <1>10 DEF WriteFail, AfterWrite
  <1>11. CASE CallDescribe
    BY <1>11 DEF CallDescribe, MayCall, Send, Request
  <1>12. CASE \E t \in Tracks : CallSetup(t)
    <2> PICK t \in Tracks : CallSetup(t)
      BY <1>12
    <2>1. /\ pc' = [pc EXCEPT ![Life] = "wlock"] /\ pc[Life] = "idle"
          /\ job' = [job EXCEPT ![Life] = "request"]
          /\ UNCHANGED <<pin, udpPinned, published, media>> /\ t \notin published
          /\ state \in {"described", "setup"}
          /\ pc'[Life] = "wlock" /\ pc'[Read] = pc[Read] /\ job'[Life] = "request"
      BY DEF CallSetup, MayCall, Send
    <2>2. /\ call'.verb = "SETUP" /\ call'.track = t
          /\ call'.udp = AttemptUDP /\ call'.fallback = AllowFallback
      BY DEF CallSetup, Send, Request
    <2> HIDE DEF ControlInv
    <2>3. CASE AttemptUDP
      <3>1. sock' = [sock EXCEPT ![t] = "open"]
        BY <2>3 DEF CallSetup
      <3> QED BY <2>1, <2>2, <2>3, <3>1 DEF AttemptUDP, AllowFallback, FunnelInv
    <2>4. CASE ~AttemptUDP
      <3>1. sock' = sock
        BY <2>4 DEF CallSetup
      <3> QED BY <2>1, <2>2, <2>4, <3>1 DEF AttemptUDP, AllowFallback, FunnelInv
    <2> QED BY <2>3, <2>4
  <1>13. CASE CallPlay
    BY <1>13 DEF CallPlay, MayCall, Send, Request
  <1>14. CASE GiveUp
    BY <1>14 DEF GiveUp
  <1>15. CASE Authenticate
    BY <1>15 DEF Authenticate, Send
  <1>16. CASE Fallback
    BY <1>16 DEF Fallback, Send, Request, FallsBack
  <1>17. CASE Answered
    BY <1>17 DEF Answered
  <1>18. CASE VerbFails
    BY <1>18 DEF VerbFails, CloseOwn
  <1>19. CASE CommitDescribe
    BY <1>19 DEF CommitDescribe
  <1>20. CASE RecordSession
    BY <1>20 DEF RecordSession, CloseOwn
  <1>21. CASE Publish
    BY <1>21 DEF Publish, CloseOwn
  <1>22. CASE RegisterMedia
    <2>1. /\ pc' = [pc EXCEPT ![Life] = "idle"] /\ pc[Life] = "register"
          /\ UNCHANGED <<call, job, pin, udpPinned, published>>
          /\ call.udp /\ pin = "UDP" /\ call.verb = "SETUP" /\ call.track \in Tracks
          /\ pc'[Life] = "idle" /\ pc'[Read] = pc[Read]
      BY <1>22 DEF RegisterMedia, RegisterFrame
    <2> HIDE DEF ControlInv
    <2>2. CASE closing /\ sock' = CloseOwn /\ media' = media
      <3>1. sock' = [sock EXCEPT ![call.track] = "closed"]
        BY <2>1, <2>2 DEF CloseOwn
      <3> QED BY <2>1, <2>2, <3>1
    <2>3. CASE ~closing /\ media' = media \cup {call.track} /\ sock' = sock
      BY <2>1, <2>3 DEF FunnelInv
    <2> QED BY <1>22, <2>2, <2>3 DEF RegisterMedia
  <1>23. CASE StampPlay
    BY <1>23 DEF StampPlay
  <1>24. CASE CommitPlay
    BY <1>24 DEF CommitPlay
  <1>25. CASE ArmReadPlay
    BY <1>25 DEF ArmReadPlay
  <1>26. CASE Spawn
    BY <1>26, SpawnPc DEF Spawn
  <1>27. CASE ReaderLoop
    BY <1>27 DEF ReaderLoop
  <1>28. CASE Fill
    BY <1>28 DEF Fill
  <1>29. CASE ReadFails
    BY <1>29 DEF ReadFails
  <1>30. CASE Unwind
    BY <1>30 DEF Unwind
  <1>31. CASE DiscardRead
    BY <1>31 DEF DiscardRead
  <1>32. CASE CloseMedia
    BY <1>32 DEF CloseMedia
  <1>33. CASE JoinUDP
    BY <1>33 DEF JoinUDP
  <1>34. CASE Join
    BY <1>34 DEF Join
  <1>35. CASE ReadMedia
    BY <1>35 DEF ReadMedia, Callback, CanRead
  <1>36. CASE ReadRequest
    BY <1>36 DEF ReadRequest, CanRead
  <1>37. CASE ReadGarbage
    BY <1>37 DEF ReadGarbage, CanRead
  <1>38. CASE \E k \in Replies : ReadResponse(k)
    BY <1>38 DEF ReadResponse, CanRead
  <1>39. CASE KeepaliveLoop
    BY <1>39 DEF KeepaliveLoop
  <1>40. CASE \E t \in Tracks : RecvArm(t)
    BY <1>40 DEF RecvArm
  <1>41. CASE \E t \in Tracks : RecvFails(t)
    BY <1>41 DEF RecvFails
  <1>42. CASE \E t \in Tracks : RecvExit(t)
    BY <1>42 DEF RecvExit
  <1>43. CASE \E t \in Tracks : RecvDatagram(t)
    BY <1>43 DEF RecvDatagram, Callback
  <1>44. CASE \E t \in Tracks : RtcpRecv(t)
    BY <1>44 DEF RtcpRecv
  <1>45. CASE \E t \in Tracks : RtcpReport(t)
    BY <1>45 DEF RtcpReport
  <1>46. CASE \E c \in Closers : CallClose(c)
    BY <1>46 DEF CallClose
  <1>47. CASE \E w \in Waiters : WaitCtx(w)
    BY <1>47 DEF WaitCtx
  <1>48. CASE \E w \in Waiters : WaitDone(w)
    BY <1>48 DEF WaitDone
  <1>49. CASE PeerCloses
    BY <1>49 DEF PeerCloses
  <1>50. CASE \E x \in Anchors : IdleElapses(x)
    BY <1>50 DEF IdleElapses
  <1>51. CASE UNCHANGED vars
    BY <1>51 DEF vars
  <1> QED
    BY NextCases, <1>1, <1>2, <1>3, <1>4, <1>5, <1>6, <1>7, <1>8, <1>9,
       <1>10, <1>11, <1>12, <1>13, <1>14, <1>15, <1>16, <1>17, <1>18, <1>19,
       <1>20, <1>21, <1>22, <1>23, <1>24, <1>25, <1>26, <1>27, <1>28, <1>29,
       <1>30, <1>31, <1>32, <1>33, <1>34, <1>35, <1>36, <1>37, <1>38, <1>39,
       <1>40, <1>41, <1>42, <1>43, <1>44, <1>45, <1>46, <1>47, <1>48, <1>49,
       <1>50, <1>51 DEF NextCase

\* The arms look at the shutdown flag, the interrupt sets it first.
LEMMA DeadlineStep ==
    ASSUME ControlInv, FunnelInv, PinInv, DeadlineInv,
           [Next]_vars
    PROVE  DeadlineInv'
  <1> USE ActorFacts
      DEF At, Go, Shutdown, FunnelFrame, WriteFrame, VerbFrame, ReadFrame,
          RecvFrame, CallerFrame, shutVars, connVars, reqVars, authVars,
          trackVars, sockVars, recvVars, watchVars, joinVars, countVars,
          ControlInv, FunnelPCs, WriterPCs, VerbPCs, EndPCs, LifePCs, ReadPCs,
          KeepPCs, TrackPCs, CallerPCs, Life, Read, Keep, Workers,
          DeadlineInv, InterruptSticks
  <1>1. CASE \E a \in Actors \ {Keep} : OnceDo(a)
    BY <1>1 DEF OnceDo, FunnelInv
  <1>2. CASE \E a \in Actors \ {Keep} : SetTermErr(a)
    BY <1>2 DEF SetTermErr
  <1>3. CASE \E a \in Actors \ {Keep} : CloseClosing(a)
    BY <1>3 DEF CloseClosing
  <1>4. CASE \E a \in Actors \ {Keep} : Interrupt(a)
    BY <1>4 DEF Interrupt, FunnelInv
  <1>5. CASE \E a \in Actors \ {Keep} : MediaNow(a)
    BY <1>5 DEF MediaNow, FunnelInv, PinInv
  <1>6. CASE \E a \in Workers : WriteLock(a)
    BY <1>6 DEF WriteLock
  <1>7. CASE \E a \in Workers : Attach(a)
    BY <1>7 DEF Attach
  <1>8. CASE \E a \in Workers : WriteArm(a)
    BY <1>8 DEF WriteArm
  <1>9. CASE \E a \in Workers : WriteOk(a)
    BY <1>9 DEF WriteOk, AfterWrite
  <1>10. CASE \E a \in Workers : WriteFail(a)
    BY <1>10 DEF WriteFail, AfterWrite
  <1>11. CASE CallDescribe
    BY <1>11 DEF CallDescribe, MayCall, Send, Request
  <1>12. CASE \E t \in Tracks : CallSetup(t)
    BY <1>12 DEF CallSetup, MayCall, Send, Request
  <1>13. CASE CallPlay
    BY <1>13 DEF CallPlay, MayCall, Send, Request
  <1>14. CASE GiveUp
    BY <1>14 DEF GiveUp
  <1>15. CASE Authenticate
    BY <1>15 DEF Authenticate, Send
  <1>16. CASE Fallback
    BY <1>16 DEF Fallback, Send, Request
  <1>17. CASE Answered
    BY <1>17 DEF Answered
  <1>18. CASE VerbFails
    BY <1>18 DEF VerbFails
  <1>19. CASE CommitDescribe
    BY <1>19 DEF CommitDescribe
  <1>20. CASE RecordSession
    BY <1>20 DEF RecordSession
  <1>21. CASE Publish
    BY <1>21 DEF Publish
  <1>22. CASE RegisterMedia
    BY <1>22 DEF RegisterMedia, RegisterFrame, FunnelInv
  <1>23. CASE StampPlay
    BY <1>23 DEF StampPlay
  <1>24. CASE CommitPlay
    BY <1>24 DEF CommitPlay
  <1>25. CASE ArmReadPlay
    BY <1>25 DEF ArmReadPlay, ReadDeadline
  <1>26. CASE Spawn
    BY <1>26, SpawnPc DEF Spawn
  <1>27. CASE ReaderLoop
    BY <1>27 DEF ReaderLoop
  <1>28. CASE Fill
    BY <1>28 DEF Fill, ReadDeadline
  <1>29. CASE ReadFails
    BY <1>29 DEF ReadFails
  <1>30. CASE Unwind
    BY <1>30 DEF Unwind
  <1>31. CASE DiscardRead
    BY <1>31 DEF DiscardRead
  <1>32. CASE CloseMedia
    BY <1>32 DEF CloseMedia
  <1>33. CASE JoinUDP
    BY <1>33 DEF JoinUDP
  <1>34. CASE Join
    BY <1>34 DEF Join
  <1>35. CASE ReadMedia
    BY <1>35 DEF ReadMedia, Callback, CanRead
  <1>36. CASE ReadRequest
    BY <1>36 DEF ReadRequest, CanRead
  <1>37. CASE ReadGarbage
    BY <1>37 DEF ReadGarbage, CanRead
  <1>38. CASE \E k \in Replies : ReadResponse(k)
    BY <1>38 DEF ReadResponse, CanRead
  <1>39. CASE KeepaliveLoop
    BY <1>39 DEF KeepaliveLoop
  <1>40. CASE \E t \in Tracks : RecvArm(t)
    BY <1>40 DEF RecvArm, FunnelInv
  <1>41. CASE \E t \in Tracks : RecvFails(t)
    BY <1>41 DEF RecvFails
  <1>42. CASE \E t \in Tracks : RecvExit(t)
    BY <1>42 DEF RecvExit
  <1>43. CASE \E t \in Tracks : RecvDatagram(t)
    BY <1>43 DEF RecvDatagram, Callback
  <1>44. CASE \E t \in Tracks : RtcpRecv(t)
    BY <1>44 DEF RtcpRecv, FunnelInv
  <1>45. CASE \E t \in Tracks : RtcpReport(t)
    BY <1>45 DEF RtcpReport
  <1>46. CASE \E c \in Closers : CallClose(c)
    BY <1>46 DEF CallClose
  <1>47. CASE \E w \in Waiters : WaitCtx(w)
    BY <1>47 DEF WaitCtx
  <1>48. CASE \E w \in Waiters : WaitDone(w)
    BY <1>48 DEF WaitDone
  <1>49. CASE PeerCloses
    BY <1>49 DEF PeerCloses
  <1>50. CASE \E x \in Anchors : IdleElapses(x)
    BY <1>50 DEF IdleElapses
  <1>51. CASE UNCHANGED vars
    BY <1>51 DEF vars
  <1> QED
    BY NextCases, <1>1, <1>2, <1>3, <1>4, <1>5, <1>6, <1>7, <1>8, <1>9,
       <1>10, <1>11, <1>12, <1>13, <1>14, <1>15, <1>16, <1>17, <1>18, <1>19,
       <1>20, <1>21, <1>22, <1>23, <1>24, <1>25, <1>26, <1>27, <1>28, <1>29,
       <1>30, <1>31, <1>32, <1>33, <1>34, <1>35, <1>36, <1>37, <1>38, <1>39,
       <1>40, <1>41, <1>42, <1>43, <1>44, <1>45, <1>46, <1>47, <1>48, <1>49,
       <1>50, <1>51 DEF NextCase

\* An anchor is stamped before the watchdog that depends on it is armed.
LEMMA AnchorStep ==
    ASSUME ControlInv, FunnelInv, PinInv, PlayInv, DeadlineInv, AnchorInv,
           [Next]_vars
    PROVE  AnchorInv'
  <1> USE ActorFacts
      DEF At, Go, Shutdown, FunnelFrame, WriteFrame, VerbFrame, ReadFrame,
          RecvFrame, CallerFrame, shutVars, connVars, reqVars, authVars,
          trackVars, sockVars, recvVars, watchVars, joinVars, countVars,
          ControlInv, FunnelPCs, WriterPCs, VerbPCs, EndPCs, LifePCs, ReadPCs,
          KeepPCs, TrackPCs, CallerPCs, Life, Read, Keep, Workers,
          AnchorInv, NoFalseTimeout, Anchors
  <1>1. CASE \E a \in Actors \ {Keep} : OnceDo(a)
    BY <1>1 DEF OnceDo
  <1>2. CASE \E a \in Actors \ {Keep} : SetTermErr(a)
    BY <1>2 DEF SetTermErr
  <1>3. CASE \E a \in Actors \ {Keep} : CloseClosing(a)
    BY <1>3 DEF CloseClosing
  <1>4. CASE \E a \in Actors \ {Keep} : Interrupt(a)
    BY <1>4 DEF Interrupt
  <1>5. CASE \E a \in Actors \ {Keep} : MediaNow(a)
    BY <1>5 DEF MediaNow
  <1>6. CASE \E a \in Workers : WriteLock(a)
    BY <1>6 DEF WriteLock
  <1>7. CASE \E a \in Workers : Attach(a)
    BY <1>7 DEF Attach
  <1>8. CASE \E a \in Workers : WriteArm(a)
    BY <1>8 DEF WriteArm
  <1>9. CASE \E a \in Workers : WriteOk(a)
    BY <1>9 DEF WriteOk, AfterWrite
  <1>10. CASE \E a \in Workers : WriteFail(a)
    <2>1. \A b \in Actors : cause'[b] = "readTimeout" => cause[b] = "readTimeout"
      BY <1>10 DEF WriteFail, AfterWrite, FunnelInv
    <2>2. UNCHANGED <<termErr, elapsed, playing>>
      BY <1>10 DEF WriteFail, AfterWrite
    <2>3. idle' \in [Anchors -> BOOLEAN] /\ \A x \in Anchors : idle'[x] => idle[x]
      BY <1>10, idle \in [Anchors -> BOOLEAN] DEF WriteFail, AfterWrite
    <2>4. /\ pc'[Life] = "commitPlay" => pc[Life] = "commitPlay"
          /\ \A t \in Tracks : pc'[t] # "off" => pc[t] # "off"
      BY <1>10 DEF WriteFail, AfterWrite
    <2> QED BY <2>1, <2>2, <2>3, <2>4
  <1>11. CASE CallDescribe
    BY <1>11 DEF CallDescribe, MayCall, Send, Request
  <1>12. CASE \E t \in Tracks : CallSetup(t)
    BY <1>12 DEF CallSetup, MayCall, Send, Request
  <1>13. CASE CallPlay
    BY <1>13 DEF CallPlay, MayCall, Send, Request
  <1>14. CASE GiveUp
    <2>1. \A b \in Actors : cause'[b] = "readTimeout" => cause[b] = "readTimeout"
      BY <1>14 DEF GiveUp, FunnelInv
    <2>2. UNCHANGED <<termErr, elapsed, playing>>
      BY <1>14 DEF GiveUp
    <2>3. idle' \in [Anchors -> BOOLEAN] /\ \A x \in Anchors : idle'[x] => idle[x]
      BY <1>14, idle \in [Anchors -> BOOLEAN] DEF GiveUp
    <2>4. /\ pc'[Life] = "commitPlay" => pc[Life] = "commitPlay"
          /\ \A t \in Tracks : pc'[t] # "off" => pc[t] # "off"
      BY <1>14 DEF GiveUp
    <2> QED BY <2>1, <2>2, <2>3, <2>4
  <1>15. CASE Authenticate
    BY <1>15 DEF Authenticate, Send
  <1>16. CASE Fallback
    BY <1>16 DEF Fallback, Send, Request
  <1>17. CASE Answered
    BY <1>17 DEF Answered
  <1>18. CASE VerbFails
    BY <1>18 DEF VerbFails
  <1>19. CASE CommitDescribe
    BY <1>19 DEF CommitDescribe
  <1>20. CASE RecordSession
    BY <1>20 DEF RecordSession
  <1>21. CASE Publish
    BY <1>21 DEF Publish
  <1>22. CASE RegisterMedia
    BY <1>22 DEF RegisterMedia, RegisterFrame
  <1>23. CASE StampPlay
    BY <1>23 DEF StampPlay, PlayInv
  <1>24. CASE CommitPlay
    BY <1>24 DEF CommitPlay, PlayInv
  <1>25. CASE ArmReadPlay
    BY <1>25 DEF ArmReadPlay
  <1>26. CASE Spawn
    BY <1>26, SpawnPc DEF Spawn
  <1>27. CASE ReaderLoop
    BY <1>27 DEF ReaderLoop
  <1>28. CASE Fill
    BY <1>28 DEF Fill
  <1>29. CASE ReadFails
    BY <1>29 DEF ReadFails, ReadErr, ReadExpired, DeadlineInv, FunnelInv,
       NoErr
  <1>30. CASE Unwind
    BY <1>30 DEF Unwind
  <1>31. CASE DiscardRead
    BY <1>31 DEF DiscardRead
  <1>32. CASE CloseMedia
    BY <1>32 DEF CloseMedia
  <1>33. CASE JoinUDP
    BY <1>33 DEF JoinUDP
  <1>34. CASE Join
    BY <1>34 DEF Join
  <1>35. CASE ReadMedia
    <2>1. \A b \in Actors : cause'[b] = "readTimeout" => cause[b] = "readTimeout"
      BY <1>35 DEF ReadMedia, Callback, CanRead, FunnelInv
    <2>2. UNCHANGED <<termErr, elapsed, playing>>
      BY <1>35 DEF ReadMedia, Callback, CanRead
    <2>3. idle' \in [Anchors -> BOOLEAN] /\ \A x \in Anchors : idle'[x] => idle[x]
      BY <1>35, idle \in [Anchors -> BOOLEAN] DEF ReadMedia, Callback, CanRead
    <2>4. /\ pc'[Life] = "commitPlay" => pc[Life] = "commitPlay"
          /\ \A t \in Tracks : pc'[t] # "off" => pc[t] # "off"
      BY <1>35 DEF ReadMedia, Callback, CanRead
    <2> QED BY <2>1, <2>2, <2>3, <2>4
  <1>36. CASE ReadRequest
    <2>1. \A b \in Actors : cause'[b] = "readTimeout" => cause[b] = "readTimeout"
      BY <1>36 DEF ReadRequest, CanRead, FunnelInv
    <2>2. UNCHANGED <<termErr, elapsed, playing>>
      BY <1>36 DEF ReadRequest, CanRead
    <2>3. idle' \in [Anchors -> BOOLEAN] /\ \A x \in Anchors : idle'[x] => idle[x]
      BY <1>36, idle \in [Anchors -> BOOLEAN] DEF ReadRequest, CanRead
    <2>4. /\ pc'[Life] = "commitPlay" => pc[Life] = "commitPlay"
          /\ \A t \in Tracks : pc'[t] # "off" => pc[t] # "off"
      BY <1>36 DEF ReadRequest, CanRead
    <2> QED BY <2>1, <2>2, <2>3, <2>4
  <1>37. CASE ReadGarbage
    BY <1>37 DEF ReadGarbage, CanRead
  <1>38. CASE \E k \in Replies : ReadResponse(k)
    BY <1>38 DEF ReadResponse, CanRead
  <1>39. CASE KeepaliveLoop
    BY <1>39 DEF KeepaliveLoop
  <1>40. CASE \E t \in Tracks : RecvArm(t)
    BY <1>40 DEF RecvArm
  <1>41. CASE \E t \in Tracks : RecvFails(t)
    BY <1>41 DEF RecvFails, ReadErr, RecvExpired, DeadlineInv, FunnelInv,
       NoErr
  <1>42. CASE \E t \in Tracks : RecvExit(t)
    BY <1>42 DEF RecvExit
  <1>43. CASE \E t \in Tracks : RecvDatagram(t)
    <2> PICK t \in Tracks : RecvDatagram(t)
      BY <1>43
    <2>1. \A b \in Actors : cause'[b] = "readTimeout" => cause[b] = "readTimeout"
      BY DEF RecvDatagram, Callback, FunnelInv
    <2>2. UNCHANGED <<termErr, elapsed, playing>>
      BY DEF RecvDatagram
    <2>3. idle' \in [Anchors -> BOOLEAN] /\ \A x \in Anchors : idle'[x] => idle[x]
      <3>1. idle' = idle \/ idle' = [idle EXCEPT ![t] = FALSE, !["control"] = FALSE]
        BY DEF RecvDatagram, Stamp
      <3>2. t \in Anchors /\ "control" \in Anchors /\ t # "control"
        OBVIOUS
      <3> HIDE DEF Anchors, ControlInv, AnchorInv
      <3>3. idle \in [Anchors -> BOOLEAN]
        BY DEF AnchorInv
      <3>4. CASE idle' = idle
        BY <3>3, <3>4
      <3>5. CASE idle' = [idle EXCEPT ![t] = FALSE, !["control"] = FALSE]
        <4>1. idle' \in [Anchors -> BOOLEAN]
          BY <3>2, <3>3, <3>5
        <4>2. \A x \in Anchors : idle'[x] = IF x \in {t, "control"} THEN FALSE ELSE idle[x]
          BY <3>2, <3>3, <3>5
        <4> QED BY <4>1, <4>2
      <3> QED BY <3>1, <3>4, <3>5
    <2>4. /\ pc'[Life] = "commitPlay" => pc[Life] = "commitPlay"
          /\ \A s \in Tracks : pc'[s] # "off" => pc[s] # "off"
      BY DEF RecvDatagram, Callback
    <2> QED BY <2>1, <2>2, <2>3, <2>4
  <1>44. CASE \E t \in Tracks : RtcpRecv(t)
    BY <1>44 DEF RtcpRecv
  <1>45. CASE \E t \in Tracks : RtcpReport(t)
    BY <1>45 DEF RtcpReport
  <1>46. CASE \E c \in Closers : CallClose(c)
    BY <1>46 DEF CallClose
  <1>47. CASE \E w \in Waiters : WaitCtx(w)
    BY <1>47 DEF WaitCtx
  <1>48. CASE \E w \in Waiters : WaitDone(w)
    BY <1>48 DEF WaitDone
  <1>49. CASE PeerCloses
    BY <1>49 DEF PeerCloses
  <1>50. CASE \E x \in Anchors : IdleElapses(x)
    BY <1>50 DEF IdleElapses, PlayInv
  <1>51. CASE UNCHANGED vars
    BY <1>51 DEF vars
  <1> QED
    BY NextCases, <1>1, <1>2, <1>3, <1>4, <1>5, <1>6, <1>7, <1>8, <1>9,
       <1>10, <1>11, <1>12, <1>13, <1>14, <1>15, <1>16, <1>17, <1>18, <1>19,
       <1>20, <1>21, <1>22, <1>23, <1>24, <1>25, <1>26, <1>27, <1>28, <1>29,
       <1>30, <1>31, <1>32, <1>33, <1>34, <1>35, <1>36, <1>37, <1>38, <1>39,
       <1>40, <1>41, <1>42, <1>43, <1>44, <1>45, <1>46, <1>47, <1>48, <1>49,
       <1>50, <1>51 DEF NextCase


\* A step after which the wait groups still count the same goroutines.
Quiet ==
    /\ UNCHANGED <<wg, udpWG>>
    /\ rtcpPc' \in [Tracks -> {"off", "arm", "recv"}]
    /\ \A t \in Tracks : /\ pc'[t] = "off" <=> pc[t] = "off"
                         /\ rtcpPc'[t] = "off" <=> rtcpPc[t] = "off"
    /\ pc'[Keep] = "off" <=> pc[Keep] = "off"
    /\ Starting' <=> Starting
    /\ Starting => UNCHANGED <<udpPinned, published>>
    /\ pc'[Read] \in {"join", "done"} => pc'[Read] = pc[Read]

\* The steps that add to a wait group, give a count back, or wait for it.
Counted ==
    \/ CommitPlay \/ Spawn \/ KeepaliveLoop \/ JoinUDP \/ Join
    \/ \E t \in Tracks : RecvExit(t) \/ RtcpRecv(t)

\* Every other step is quiet.
LEMMA QuietStep ==
    ASSUME ControlInv, JoinInv,
           [Next]_vars
    PROVE  Quiet \/ Counted
  <1> USE ActorFacts
      DEF At, Go, Shutdown, FunnelFrame, WriteFrame, VerbFrame, ReadFrame,
          RecvFrame, CallerFrame, shutVars, connVars, reqVars, authVars,
          trackVars, sockVars, recvVars, watchVars, joinVars, countVars,
          ControlInv, Quiet, Counted, Starting, JoinInv,
          FunnelPCs, WriterPCs, VerbPCs, EndPCs, LifePCs, ReadPCs,
          KeepPCs, TrackPCs, CallerPCs, Life, Read, Keep, Workers
  <1>1. CASE \E a \in Actors \ {Keep} : OnceDo(a)
    BY <1>1 DEF OnceDo
  <1>2. CASE \E a \in Actors \ {Keep} : SetTermErr(a)
    BY <1>2 DEF SetTermErr
  <1>3. CASE \E a \in Actors \ {Keep} : CloseClosing(a)
    BY <1>3 DEF CloseClosing
  <1>4. CASE \E a \in Actors \ {Keep} : Interrupt(a)
    BY <1>4 DEF Interrupt
  <1>5. CASE \E a \in Actors \ {Keep} : MediaNow(a)
    BY <1>5 DEF MediaNow
  <1>6. CASE \E a \in Workers : WriteLock(a)
    BY <1>6 DEF WriteLock
  <1>7. CASE \E a \in Workers : Attach(a)
    BY <1>7 DEF Attach
  <1>8. CASE \E a \in Workers : WriteArm(a)
    BY <1>8 DEF WriteArm
  <1>9. CASE \E a \in Workers : WriteOk(a)
    BY <1>9 DEF WriteOk, AfterWrite
  <1>10. CASE \E a \in Workers : WriteFail(a)
    BY <1>10 DEF WriteFail, AfterWrite
  <1>11. CASE CallDescribe
    BY <1>11 DEF CallDescribe, MayCall, Send, Request
  <1>12. CASE \E t \in Tracks : CallSetup(t)
    BY <1>12 DEF CallSetup, MayCall, Send, Request
  <1>13. CASE CallPlay
    BY <1>13 DEF CallPlay, MayCall, Send, Request
  <1>14. CASE GiveUp
    BY <1>14 DEF GiveUp
  <1>15. CASE Authenticate
    BY <1>15 DEF Authenticate, Send
  <1>16. CASE Fallback
    BY <1>16 DEF Fallback, Send, Request
  <1>17. CASE Answered
    BY <1>17 DEF Answered
  <1>18. CASE VerbFails
    BY <1>18 DEF VerbFails
  <1>19. CASE CommitDescribe
    BY <1>19 DEF CommitDescribe
  <1>20. CASE RecordSession
    BY <1>20 DEF RecordSession
  <1>21. CASE Publish
    BY <1>21 DEF Publish
  <1>22. CASE RegisterMedia
    BY <1>22 DEF RegisterMedia, RegisterFrame
  <1>23. CASE StampPlay
    BY <1>23 DEF StampPlay
  <1>24. CASE CommitPlay
    BY <1>24
  <1>25. CASE ArmReadPlay
    BY <1>25 DEF ArmReadPlay
  <1>26. CASE Spawn
    BY <1>26
  <1>27. CASE ReaderLoop
    BY <1>27 DEF ReaderLoop
  <1>28. CASE Fill
    BY <1>28 DEF Fill
  <1>29. CASE ReadFails
    BY <1>29 DEF ReadFails
  <1>30. CASE Unwind
    BY <1>30 DEF Unwind
  <1>31. CASE DiscardRead
    BY <1>31 DEF DiscardRead
  <1>32. CASE CloseMedia
    BY <1>32 DEF CloseMedia
  <1>33. CASE JoinUDP
    BY <1>33
  <1>34. CASE Join
    BY <1>34
  <1>35. CASE ReadMedia
    BY <1>35 DEF ReadMedia, Callback, CanRead
  <1>36. CASE ReadRequest
    BY <1>36 DEF ReadRequest, CanRead
  <1>37. CASE ReadGarbage
    BY <1>37 DEF ReadGarbage, CanRead
  <1>38. CASE \E k \in Replies : ReadResponse(k)
    BY <1>38 DEF ReadResponse, CanRead
  <1>39. CASE KeepaliveLoop
    BY <1>39
  <1>40. CASE \E t \in Tracks : RecvArm(t)
    BY <1>40 DEF RecvArm
  <1>41. CASE \E t \in Tracks : RecvFails(t)
    BY <1>41 DEF RecvFails
  <1>42. CASE \E t \in Tracks : RecvExit(t)
    BY <1>42
  <1>43. CASE \E t \in Tracks : RecvDatagram(t)
    BY <1>43 DEF RecvDatagram, Callback
  <1>44. CASE \E t \in Tracks : RtcpRecv(t)
    BY <1>44
  <1>45. CASE \E t \in Tracks : RtcpReport(t)
    BY <1>45 DEF RtcpReport
  <1>46. CASE \E c \in Closers : CallClose(c)
    BY <1>46 DEF CallClose
  <1>47. CASE \E w \in Waiters : WaitCtx(w)
    BY <1>47 DEF WaitCtx
  <1>48. CASE \E w \in Waiters : WaitDone(w)
    BY <1>48 DEF WaitDone
  <1>49. CASE PeerCloses
    BY <1>49 DEF PeerCloses
  <1>50. CASE \E x \in Anchors : IdleElapses(x)
    BY <1>50 DEF IdleElapses
  <1>51. CASE UNCHANGED vars
    BY <1>51 DEF vars
  <1> QED
    BY NextCases, <1>1, <1>2, <1>3, <1>4, <1>5, <1>6, <1>7, <1>8, <1>9,
       <1>10, <1>11, <1>12, <1>13, <1>14, <1>15, <1>16, <1>17, <1>18, <1>19,
       <1>20, <1>21, <1>22, <1>23, <1>24, <1>25, <1>26, <1>27, <1>28, <1>29,
       <1>30, <1>31, <1>32, <1>33, <1>34, <1>35, <1>36, <1>37, <1>38, <1>39,
       <1>40, <1>41, <1>42, <1>43, <1>44, <1>45, <1>46, <1>47, <1>48, <1>49,
       <1>50, <1>51 DEF NextCase

\* A quiet step changes none of the counts.
LEMMA QuietJoin ==
    ASSUME JoinInv, Quiet
    PROVE  JoinInv'
  <1>1. Live' = Live /\ LiveRtcp' = LiveRtcp
    BY DEF Quiet, Live, LiveRtcp
  <1>2. (Starting /\ udpPinned <=> Starting' /\ udpPinned') /\ (Starting => published' = published)
    BY DEF Quiet
  <1>3. udpWG' = Cardinality(Live') + Cardinality(LiveRtcp')
           + (IF Starting' /\ udpPinned' THEN 2 * Cardinality(published') ELSE 0)
    <2>1. CASE Starting /\ udpPinned
      BY <1>1, <1>2, <2>1 DEF Quiet, JoinInv
    <2>2. CASE ~(Starting /\ udpPinned)
      BY <1>1, <1>2, <2>2 DEF Quiet, JoinInv
    <2> QED BY <2>1, <2>2
  <1>4. Starting' => pc'[Keep] = "off" /\ Live' = {} /\ LiveRtcp' = {}
    BY <1>1 DEF Quiet, JoinInv
  <1>5. wg' = IF Starting' \/ pc'[Keep] # "off" THEN 1 ELSE 0
    BY DEF Quiet, JoinInv
  <1>6. /\ pc'[Read] \in {"join", "done"} => udpWG' = 0
        /\ pc'[Read] = "done" => wg' = 0
    BY DEF Quiet, JoinInv
  <1> QED BY <1>3, <1>4, <1>5, <1>6 DEF Quiet, JoinInv

\* There are finitely many goroutines to count.
LEMMA LiveFinite ==
    /\ IsFiniteSet(Live) /\ Cardinality(Live) \in Nat
    /\ IsFiniteSet(LiveRtcp) /\ Cardinality(LiveRtcp) \in Nat
  <1>1. Live \in SUBSET Tracks /\ LiveRtcp \in SUBSET Tracks /\ IsFiniteSet(Tracks)
    BY ActorsAssumption DEF Live, LiveRtcp
  <1>2. IsFiniteSet(Live) /\ IsFiniteSet(LiveRtcp)
    BY <1>1, FS_Subset
  <1> QED BY <1>2, FS_CardinalityType

\* Play's two counts for each published track: those of the tracks with
\* registered sockets, and those of the others.
LEMMA SplitPublished ==
    ASSUME published \subseteq Tracks
    PROVE  /\ Cardinality(published) \in Nat
           /\ Cardinality(published \cap media) \in Nat
           /\ Cardinality(published \ media) \in Nat
           /\ Cardinality(published) = Cardinality(published \cap media)
                                       + Cardinality(published \ media)
  <1>1. IsFiniteSet(published)
    BY ActorsAssumption, FS_Subset
  <1>2. published \cap media \in SUBSET published /\ published \ media \in SUBSET published
    OBVIOUS
  <1>3. IsFiniteSet(published \cap media) /\ IsFiniteSet(published \ media)
    BY <1>1, <1>2, FS_Subset
  <1>4. /\ (published \cap media) \cup (published \ media) = published
        /\ (published \cap media) \cap (published \ media) = {}
    OBVIOUS
  <1>5. Cardinality(published) = Cardinality(published \cap media)
           + Cardinality(published \ media) - Cardinality({})
    BY <1>3, <1>4, FS_Union
  <1>6. /\ Cardinality(published) \in Nat
        /\ Cardinality(published \cap media) \in Nat
        /\ Cardinality(published \ media) \in Nat
    BY <1>1, <1>3, FS_CardinalityType
  <1> QED BY <1>5, <1>6, FS_EmptySet

\* A goroutine is counted before it is spawned and gives its count back last.
LEMMA JoinStep ==
    ASSUME ControlInv, FunnelInv, PinInv, PlayInv, JoinInv,
           [Next]_vars
    PROVE  JoinInv'
  <1> USE ActorFacts
  <1>1. CASE Quiet
    BY <1>1, QuietJoin
  <1>2. CASE CommitPlay
    <2>1. /\ pc[Life] = "commitPlay" /\ ~Starting /\ ~playing /\ pc[Keep] = "off"
          /\ wg = 0
      BY <1>2 DEF CommitPlay, At, Starting, PlayInv, JoinInv
    <2>2. Live = {} /\ LiveRtcp = {} /\ udpWG = 0
      <3>1. Live = {} /\ LiveRtcp = {}
        BY <2>1 DEF PlayInv, Live, LiveRtcp
      <3> QED BY <2>1, <3>1, FS_EmptySet DEF JoinInv
    <2>3. UNCHANGED <<rtcpPc, published, udpPinned>>
      BY <1>2 DEF CommitPlay, recvVars, trackVars
    <2>4. CASE ~MayCommit
      <3>1. pc' = [pc EXCEPT ![Life] = "idle"] /\ UNCHANGED <<wg, udpWG>>
        BY <1>2, <2>4 DEF CommitPlay, Go, joinVars
      <3>2. Quiet
        BY <2>1, <2>3, <3>1 DEF Quiet, Starting, ControlInv, JoinInv, Life, Read, Keep
      <3> QED BY <3>2, QuietJoin
    <2>5. CASE MayCommit
      <3>1. /\ pc' = [pc EXCEPT ![Life] = "armRead"] /\ wg' = wg + 1
            /\ udpWG' = IF udpPinned THEN udpWG + 2 * Cardinality(published) ELSE udpWG
        BY <1>2, <2>5 DEF CommitPlay, Go
      <3>2. /\ pc'[Life] = "armRead" /\ pc'[Keep] = pc[Keep] /\ pc'[Read] = pc[Read]
            /\ \A t \in Tracks : pc'[t] = pc[t]
        BY <3>1 DEF ControlInv, Life, Read, Keep
      <3>3. pc'[Read] \notin {"join", "done"}
        BY <2>5, <3>2 DEF FunnelInv, MayCommit, EndPCs
      <3>4. Live' = {} /\ LiveRtcp' = {} /\ Starting'
        BY <2>2, <2>3, <3>2 DEF Live, LiveRtcp, Starting
      <3>5. wg' = 1
        BY <2>1, <3>1
      <3>6. udpWG' = Cardinality(Live') + Cardinality(LiveRtcp')
               + (IF Starting' /\ udpPinned' THEN 2 * Cardinality(published') ELSE 0)
        <4>1. Cardinality(published) \in Nat
          BY SplitPublished DEF PinInv
        <4>2. Cardinality(Live') = 0 /\ Cardinality(LiveRtcp') = 0
          BY <3>4, FS_EmptySet
        <4> QED BY <2>2, <2>3, <3>1, <3>4, <4>1, <4>2
      <3>7. rtcpPc' \in [Tracks -> {"off", "arm", "recv"}]
        BY <2>3 DEF JoinInv
      <3> QED BY <2>1, <3>2, <3>3, <3>4, <3>5, <3>6, <3>7 DEF JoinInv
    <2> QED BY <2>4, <2>5
  <1>3. CASE Spawn
    <2> DEFINE run == IF udpPinned THEN published \cap media ELSE {}
    <2> DEFINE missing == IF udpPinned THEN published \ media ELSE {}
    <2>1. /\ rtcpPc' = [t \in Tracks |-> IF t \in run THEN "arm" ELSE rtcpPc[t]]
          /\ udpWG' = udpWG - 2 * Cardinality(missing)
          /\ UNCHANGED <<wg, udpPinned, published, media>> /\ Starting
      BY <1>3 DEF Spawn, trackVars, sockVars, At, Starting
    <2>2. /\ pc'[Life] = "idle" /\ pc'[Keep] = "loop" /\ pc'[Read] = pc[Read]
          /\ \A t \in Tracks : pc'[t] = IF t \in run THEN "arm" ELSE pc[t]
      BY <1>3, SpawnPc
    <2>3. ~Starting' /\ wg' = 1
      BY <2>1, <2>2 DEF Starting, JoinInv
    <2>4. Live' = run /\ LiveRtcp' = run
      <3>1. run \subseteq Tracks /\ Live = {} /\ LiveRtcp = {}
        BY <2>1 DEF PinInv, JoinInv
      <3>2. \A t \in Tracks : pc[t] = "off" /\ rtcpPc[t] = "off"
        BY <3>1 DEF Live, LiveRtcp
      <3> QED BY <2>1, <2>2, <3>1, <3>2 DEF Live, LiveRtcp
    <2>5. /\ udpWG = Cardinality(run) + Cardinality(run) + 2 * Cardinality(missing)
          /\ Cardinality(run) \in Nat /\ Cardinality(missing) \in Nat
      <3>1. Cardinality(Live) = 0 /\ Cardinality(LiveRtcp) = 0
        BY <2>1, FS_EmptySet DEF JoinInv
      <3>2. udpWG = IF udpPinned THEN 2 * Cardinality(published) ELSE 0
        <4>1. udpWG = 0 + 0 + (IF udpPinned THEN 2 * Cardinality(published) ELSE 0)
          BY <2>1, <3>1 DEF JoinInv
        <4>2. Cardinality(published) \in Nat
          BY SplitPublished DEF PinInv
        <4> QED BY <4>1, <4>2
      <3>3. CASE udpPinned
        BY <3>2, <3>3, SplitPublished DEF PinInv
      <3>4. CASE ~udpPinned
        BY <3>2, <3>4, FS_EmptySet
      <3> QED BY <3>3, <3>4
    <2> HIDE DEF run, missing
    <2>6. udpWG' = Cardinality(run) + Cardinality(run)
      BY <2>1, <2>5
    <2>7. udpWG' = Cardinality(Live') + Cardinality(LiveRtcp')
             + (IF Starting' /\ udpPinned' THEN 2 * Cardinality(published') ELSE 0)
      BY <2>3, <2>4, <2>5, <2>6
    <2>8. pc'[Read] \in {"join", "done"} => udpWG' = 0
      BY <2>2, <2>5, <2>6 DEF JoinInv
    <2>9. pc'[Read] # "done"
      BY <2>1, <2>2 DEF JoinInv
    <2>10. rtcpPc' \in [Tracks -> {"off", "arm", "recv"}]
      BY <2>1 DEF JoinInv
    <2> QED BY <2>2, <2>3, <2>7, <2>8, <2>9, <2>10 DEF JoinInv
  <1>4. CASE KeepaliveLoop
    <2>1. pc[Keep] = "loop" /\ wg = 1 /\ ~Starting
      BY <1>4 DEF KeepaliveLoop, At, JoinInv
    <2>2. UNCHANGED <<rtcpPc, udpWG, udpPinned, published>>
      BY <1>4 DEF KeepaliveLoop, recvVars, trackVars
    <2>3. CASE pc' = [pc EXCEPT ![Keep] = "off"] /\ wg' = wg - 1
      <3>1. /\ pc'[Life] = pc[Life] /\ pc'[Keep] = "off" /\ pc'[Read] = pc[Read]
            /\ \A t \in Tracks : pc'[t] = pc[t]
        BY <2>3 DEF ControlInv, Life, Read, Keep
      <3>2. ~Starting' /\ Live' = Live /\ LiveRtcp' = LiveRtcp /\ wg' = 0
        BY <2>1, <2>2, <2>3, <3>1 DEF Starting, Live, LiveRtcp
      <3> QED BY <2>1, <2>2, <3>1, <3>2 DEF JoinInv
    <2>4. CASE pc' = [pc EXCEPT ![Keep] = "wlock"] /\ wg' = wg
      <3>1. Quiet
        BY <2>1, <2>2, <2>4 DEF Quiet, Starting, ControlInv, JoinInv, Life, Read, Keep
      <3> QED BY <3>1, QuietJoin
    <2> QED BY <1>4, <2>3, <2>4 DEF KeepaliveLoop, Go
  <1>5. CASE JoinUDP \/ Join
    <2>1. /\ UNCHANGED <<rtcpPc, wg, udpWG, udpPinned, published>> /\ udpWG = 0
          /\ pc'[Life] = pc[Life] /\ pc'[Keep] = pc[Keep]
          /\ \A t \in Tracks : pc'[t] = pc[t]
          /\ pc'[Read] = "done" => wg = 0
      BY <1>5 DEF JoinUDP, Join, At, Go, ReadFrame, recvVars, joinVars, trackVars,
                  JoinInv, ControlInv, Life, Read, Keep
    <2>2. (Starting' <=> Starting) /\ Live' = Live /\ LiveRtcp' = LiveRtcp
      BY <2>1 DEF Starting, Live, LiveRtcp
    <2>3. Starting' /\ udpPinned' <=> Starting /\ udpPinned
      BY <2>1, <2>2
    <2>4. udpWG' = Cardinality(Live') + Cardinality(LiveRtcp')
             + (IF Starting' /\ udpPinned' THEN 2 * Cardinality(published') ELSE 0)
      BY <2>1, <2>2, <2>3 DEF JoinInv
    <2> QED BY <2>1, <2>2, <2>4 DEF JoinInv
  <1>6. ASSUME NEW t \in Tracks, RecvExit(t) PROVE JoinInv'
    <2>1. /\ UNCHANGED <<rtcpPc, wg, udpPinned, published>> /\ udpWG' = udpWG - 1
          /\ pc[t] = "exit" /\ pc'[t] = "off"
          /\ pc'[Life] = pc[Life] /\ pc'[Keep] = pc[Keep] /\ pc'[Read] = pc[Read]
          /\ \A s \in Tracks \ {t} : pc'[s] = pc[s]
      BY <1>6 DEF RecvExit, At, Go, RecvFrame, recvVars, trackVars, ControlInv
    <2>2. t \in Live /\ ~Starting /\ ~Starting' /\ Live' = Live \ {t} /\ LiveRtcp' = LiveRtcp
      BY <2>1 DEF Starting, Live, LiveRtcp, JoinInv
    <2>3. Cardinality(Live') = Cardinality(Live) - 1
      BY <2>2, LiveFinite, FS_RemoveElement
    <2>4. /\ udpWG = Cardinality(Live) + Cardinality(LiveRtcp)
          /\ udpWG' = Cardinality(Live') + Cardinality(LiveRtcp')
      BY <2>1, <2>2, <2>3, LiveFinite DEF JoinInv
    <2>5. pc[Read] \notin {"join", "done"}
      <3>1. Cardinality(Live) # 0
        BY <2>2, LiveFinite, FS_EmptySet
      <3> QED BY <2>4, <3>1, LiveFinite DEF JoinInv
    <2>6. udpWG' = Cardinality(Live') + Cardinality(LiveRtcp')
             + (IF Starting' /\ udpPinned' THEN 2 * Cardinality(published') ELSE 0)
      BY <2>2, <2>3, <2>4, LiveFinite
    <2> QED BY <2>1, <2>2, <2>5, <2>6 DEF JoinInv
  <1>7. ASSUME NEW t \in Tracks, RtcpRecv(t) PROVE JoinInv'
    <2>1. UNCHANGED <<pc, wg, udpPinned, published>> /\ rtcpPc[t] # "off"
      BY <1>7 DEF RtcpRecv, RecvFrame, trackVars
    <2>2. CASE rtcpPc' = [rtcpPc EXCEPT ![t] = "recv"] /\ udpWG' = udpWG
      <3>1. Quiet
        BY <2>1, <2>2 DEF Quiet, Starting, JoinInv
      <3> QED BY <3>1, QuietJoin
    <2>3. CASE rtcpPc' = [rtcpPc EXCEPT ![t] = "off"] /\ udpWG' = udpWG - 1
      <3>1. /\ rtcpPc' \in [Tracks -> {"off", "arm", "recv"}]
            /\ t \in LiveRtcp /\ ~Starting /\ ~Starting'
            /\ Live' = Live /\ LiveRtcp' = LiveRtcp \ {t}
        BY <2>1, <2>3 DEF Starting, Live, LiveRtcp, JoinInv
      <3>2. Cardinality(LiveRtcp') = Cardinality(LiveRtcp) - 1
        BY <3>1, LiveFinite, FS_RemoveElement
      <3>3. /\ udpWG = Cardinality(Live) + Cardinality(LiveRtcp)
            /\ udpWG' = Cardinality(Live') + Cardinality(LiveRtcp')
        BY <2>3, <3>1, <3>2, LiveFinite DEF JoinInv
      <3>4. pc[Read] \notin {"join", "done"}
        <4>1. Cardinality(LiveRtcp) # 0
          BY <3>1, LiveFinite, FS_EmptySet
        <4> QED BY <3>3, <4>1, LiveFinite DEF JoinInv
      <3>5. udpWG' = Cardinality(Live') + Cardinality(LiveRtcp')
               + (IF Starting' /\ udpPinned' THEN 2 * Cardinality(published') ELSE 0)
        BY <3>1, <3>2, <3>3, LiveFinite
      <3> QED BY <2>1, <3>1, <3>4, <3>5 DEF JoinInv
    <2> QED BY <1>7, <2>2, <2>3 DEF RtcpRecv
  <1> QED
    BY QuietStep, <1>1, <1>2, <1>3, <1>4, <1>5, <1>6, <1>7 DEF Counted

\* Credentials that reach the wire are newer than the ones before.
WireOrder == lastAuth' = lastAuth \/ Less(lastAuth, lastAuth')

\* A server that confirms the transport it was asked for: no stream is ever
\* rejected, and every credential is attached under writeMu.
LEMMA NonceStep ==
    ASSUME "badTransport" \notin Replies, FreshNonces, ControlInv, PinInv,
           NonceInv, [Next]_vars
    PROVE  NonceInv' /\ WireOrder
  <1> USE ActorFacts, ConfigAssumption
      DEF At, Go, Shutdown, FunnelFrame, WriteFrame, VerbFrame, ReadFrame,
          RecvFrame, CallerFrame, shutVars, connVars, reqVars, authVars,
          trackVars, sockVars, recvVars, watchVars, joinVars, countVars,
          ControlInv, FunnelPCs, WriterPCs, VerbPCs, EndPCs, LifePCs, ReadPCs,
          KeepPCs, TrackPCs, CallerPCs, Life, Read, Keep, Workers,
          NonceInv, Creds, Holds, Less, WireOrder
  <1>1. CASE \E a \in Actors \ {Keep} : OnceDo(a)
    BY <1>1 DEF OnceDo
  <1>2. CASE \E a \in Actors \ {Keep} : SetTermErr(a)
    BY <1>2 DEF SetTermErr
  <1>3. CASE \E a \in Actors \ {Keep} : CloseClosing(a)
    BY <1>3 DEF CloseClosing
  <1>4. CASE \E a \in Actors \ {Keep} : Interrupt(a)
    BY <1>4 DEF Interrupt
  <1>5. CASE \E a \in Actors \ {Keep} : MediaNow(a)
    BY <1>5 DEF MediaNow
  <1>6. CASE \E a \in Workers : WriteLock(a)
    BY <1>6 DEF WriteLock
  <1>7. CASE \E a \in Workers : Attach(a)
    BY <1>7 DEF Attach
  <1>8. CASE \E a \in Workers : WriteArm(a)
    BY <1>8 DEF WriteArm
  <1>9. CASE \E a \in Workers : WriteOk(a)
    BY <1>9 DEF WriteOk, AfterWrite
  <1>10. CASE \E a \in Workers : WriteFail(a)
    BY <1>10 DEF WriteFail, AfterWrite
  <1>11. CASE CallDescribe
    BY <1>11 DEF CallDescribe, MayCall, Send, Request
  <1>12. CASE \E t \in Tracks : CallSetup(t)
    BY <1>12 DEF CallSetup, MayCall, Send, Request
  <1>13. CASE CallPlay
    BY <1>13 DEF CallPlay, MayCall, Send, Request
  <1>14. CASE GiveUp
    BY <1>14 DEF GiveUp
  <1>15. CASE Authenticate
    BY <1>15 DEF Authenticate, Send, NewNonce, Issued, Unauthorized
  <1>16. CASE Fallback
    BY <1>16 DEF Fallback, Send, Request
  <1>17. CASE Answered
    BY <1>17 DEF Answered
  <1>18. CASE VerbFails
    BY <1>18 DEF VerbFails
  <1>19. CASE CommitDescribe
    BY <1>19 DEF CommitDescribe
  <1>20. CASE RecordSession
    BY <1>20 DEF RecordSession
  <1>21. CASE Publish
    BY <1>21 DEF Publish
  <1>22. CASE RegisterMedia
    BY <1>22 DEF RegisterMedia, RegisterFrame
  <1>23. CASE StampPlay
    BY <1>23 DEF StampPlay
  <1>24. CASE CommitPlay
    BY <1>24 DEF CommitPlay
  <1>25. CASE ArmReadPlay
    BY <1>25 DEF ArmReadPlay
  <1>26. CASE Spawn
    BY <1>26, SpawnPc DEF Spawn
  <1>27. CASE ReaderLoop
    BY <1>27 DEF ReaderLoop
  <1>28. CASE Fill
    BY <1>28 DEF Fill
  <1>29. CASE ReadFails
    BY <1>29 DEF ReadFails
  <1>30. CASE Unwind
    BY <1>30 DEF Unwind
  <1>31. CASE DiscardRead
    BY <1>31 DEF DiscardRead
  <1>32. CASE CloseMedia
    BY <1>32 DEF CloseMedia
  <1>33. CASE JoinUDP
    BY <1>33 DEF JoinUDP
  <1>34. CASE Join
    BY <1>34 DEF Join
  <1>35. CASE ReadMedia
    BY <1>35 DEF ReadMedia, Callback, CanRead
  <1>36. CASE ReadRequest
    BY <1>36 DEF ReadRequest, CanRead
  <1>37. CASE ReadGarbage
    BY <1>37 DEF ReadGarbage, CanRead
  <1>38. CASE \E k \in Replies : ReadResponse(k)
    BY <1>38 DEF ReadResponse, CanRead
  <1>39. CASE KeepaliveLoop
    BY <1>39 DEF KeepaliveLoop
  <1>40. CASE \E t \in Tracks : RecvArm(t)
    BY <1>40 DEF RecvArm
  <1>41. CASE \E t \in Tracks : RecvFails(t)
    BY <1>41 DEF RecvFails
  <1>42. CASE \E t \in Tracks : RecvExit(t)
    BY <1>42 DEF RecvExit
  <1>43. CASE \E t \in Tracks : RecvDatagram(t)
    BY <1>43 DEF RecvDatagram, Callback
  <1>44. CASE \E t \in Tracks : RtcpRecv(t)
    BY <1>44 DEF RtcpRecv
  <1>45. CASE \E t \in Tracks : RtcpReport(t)
    BY <1>45 DEF RtcpReport
  <1>46. CASE \E c \in Closers : CallClose(c)
    BY <1>46 DEF CallClose
  <1>47. CASE \E w \in Waiters : WaitCtx(w)
    BY <1>47 DEF WaitCtx
  <1>48. CASE \E w \in Waiters : WaitDone(w)
    BY <1>48 DEF WaitDone
  <1>49. CASE PeerCloses
    BY <1>49 DEF PeerCloses
  <1>50. CASE \E x \in Anchors : IdleElapses(x)
    BY <1>50 DEF IdleElapses
  <1>51. CASE UNCHANGED vars
    BY <1>51 DEF vars
  <1> QED
    BY NextCases, <1>1, <1>2, <1>3, <1>4, <1>5, <1>6, <1>7, <1>8, <1>9,
       <1>10, <1>11, <1>12, <1>13, <1>14, <1>15, <1>16, <1>17, <1>18, <1>19,
       <1>20, <1>21, <1>22, <1>23, <1>24, <1>25, <1>26, <1>27, <1>28, <1>29,
       <1>30, <1>31, <1>32, <1>33, <1>34, <1>35, <1>36, <1>37, <1>38, <1>39,
       <1>40, <1>41, <1>42, <1>43, <1>44, <1>45, <1>46, <1>47, <1>48, <1>49,
       <1>50, <1>51 DEF NextCase

\* What the Source interface shows of the session, and the delivery of a frame.
Invisible == UNCHANGED <<termErr, Done, frames, result>>
Delivers ==
    /\ frames < MaxFrames /\ frames' = frames + 1
    /\ ~Done /\ ~Done' /\ UNCHANGED <<termErr, result>>
Visible ==
    \/ \E c \in Causes : Contract!EndWith(c)
    \/ Contract!Finish
    \/ Delivers
    \/ \E w \in Waiters : Contract!Wait(w)

\* Once c.done is closed nothing runs that could deliver a frame.
LEMMA DoneJoined == JoinInv => Joined
  <1> SUFFICES ASSUME JoinInv, Done PROVE Joined
    BY DEF Joined
  <1>1. pc[Read] = "done"
    BY DEF Done, Read
  <1>2. wg = 0 /\ udpWG = 0
    BY <1>1 DEF JoinInv
  <1>3. ~Starting /\ pc[Keep] = "off"
    BY <1>2 DEF JoinInv
  <1>4. Cardinality(Live) = 0 /\ Cardinality(LiveRtcp) = 0
    BY <1>2, <1>3, LiveFinite DEF JoinInv
  <1>5. Live = {} /\ LiveRtcp = {}
    BY <1>4, LiveFinite, FS_EmptySet
  <1>6. \A t \in Tracks : pc[t] = "off" /\ rtcpPc[t] = "off"
    BY <1>5 DEF Live, LiveRtcp
  <1> QED BY <1>2, <1>3, <1>6 DEF Joined, Starting

\* The steps a user of the Source interface can see.
LEMMA VisibleStep ==
    ASSUME ControlInv, FunnelInv, PinInv, JoinInv,
           [Next]_vars
    PROVE  Invisible \/ Visible
  <1> USE ActorFacts
      DEF At, Go, Shutdown, FunnelFrame, WriteFrame, VerbFrame, ReadFrame,
          RecvFrame, CallerFrame, shutVars, connVars, reqVars, authVars,
          trackVars, sockVars, recvVars, watchVars, joinVars, countVars,
          ControlInv, FunnelPCs, WriterPCs, VerbPCs, EndPCs, LifePCs, ReadPCs,
          KeepPCs, TrackPCs, CallerPCs, Life, Read, Keep, Workers,
          Invisible, Done, Delivers
  <1>1. CASE \E a \in Actors \ {Keep} : OnceDo(a)
    BY <1>1 DEF OnceDo
  <1>2. CASE \E a \in Actors \ {Keep} : SetTermErr(a)
    <2> PICK a \in Actors \ {Keep} : SetTermErr(a)
      BY <1>2
    <2>1. UNCHANGED <<Done, frames, result>> /\ cause[a] \in Causes
      BY DEF SetTermErr, FunnelInv
    <2>2. CASE termErr = NoErr
      <3>1. Contract!EndWith(cause[a])
        BY <2>1, <2>2 DEF SetTermErr, Contract!EndWith
      <3> QED BY <2>1, <3>1 DEF Visible
    <2>3. CASE termErr # NoErr
      BY <2>1, <2>3 DEF SetTermErr
    <2> QED BY <2>2, <2>3
  <1>3. CASE \E a \in Actors \ {Keep} : CloseClosing(a)
    BY <1>3 DEF CloseClosing
  <1>4. CASE \E a \in Actors \ {Keep} : Interrupt(a)
    BY <1>4 DEF Interrupt
  <1>5. CASE \E a \in Actors \ {Keep} : MediaNow(a)
    BY <1>5 DEF MediaNow
  <1>6. CASE \E a \in Workers : WriteLock(a)
    BY <1>6 DEF WriteLock
  <1>7. CASE \E a \in Workers : Attach(a)
    BY <1>7 DEF Attach
  <1>8. CASE \E a \in Workers : WriteArm(a)
    BY <1>8 DEF WriteArm
  <1>9. CASE \E a \in Workers : WriteOk(a)
    BY <1>9 DEF WriteOk, AfterWrite
  <1>10. CASE \E a \in Workers : WriteFail(a)
    BY <1>10 DEF WriteFail, AfterWrite
  <1>11. CASE CallDescribe
    BY <1>11 DEF CallDescribe, MayCall, Send, Request
  <1>12. CASE \E t \in Tracks : CallSetup(t)
    BY <1>12 DEF CallSetup, MayCall, Send, Request
  <1>13. CASE CallPlay
    BY <1>13 DEF CallPlay, MayCall, Send, Request
  <1>14. CASE GiveUp
    BY <1>14 DEF GiveUp
  <1>15. CASE Authenticate
    BY <1>15 DEF Authenticate, Send
  <1>16. CASE Fallback
    BY <1>16 DEF Fallback, Send, Request
  <1>17. CASE Answered
    BY <1>17 DEF Answered
  <1>18. CASE VerbFails
    BY <1>18 DEF VerbFails
  <1>19. CASE CommitDescribe
    BY <1>19 DEF CommitDescribe
  <1>20. CASE RecordSession
    BY <1>20 DEF RecordSession
  <1>21. CASE Publish
    BY <1>21 DEF Publish
  <1>22. CASE RegisterMedia
    BY <1>22 DEF RegisterMedia, RegisterFrame
  <1>23. CASE StampPlay
    BY <1>23 DEF StampPlay
  <1>24. CASE CommitPlay
    BY <1>24 DEF CommitPlay
  <1>25. CASE ArmReadPlay
    BY <1>25 DEF ArmReadPlay
  <1>26. CASE Spawn
    BY <1>26, SpawnPc DEF Spawn
  <1>27. CASE ReaderLoop
    BY <1>27 DEF ReaderLoop
  <1>28. CASE Fill
    BY <1>28 DEF Fill
  <1>29. CASE ReadFails
    BY <1>29 DEF ReadFails
  <1>30. CASE Unwind
    BY <1>30 DEF Unwind
  <1>31. CASE DiscardRead
    BY <1>31 DEF DiscardRead
  <1>32. CASE CloseMedia
    BY <1>32 DEF CloseMedia
  <1>33. CASE JoinUDP
    BY <1>33 DEF JoinUDP
  <1>34. CASE Join
    <2>1. Contract!Finish
      BY <1>34 DEF Join, Contract!Finish, FunnelInv
    <2> QED BY <2>1 DEF Visible
  <1>35. CASE ReadMedia
    <2>1. Invisible \/ Delivers
      BY <1>35 DEF ReadMedia, Callback, CanRead
    <2> QED BY <2>1 DEF Visible
  <1>36. CASE ReadRequest
    BY <1>36 DEF ReadRequest, CanRead
  <1>37. CASE ReadGarbage
    BY <1>37 DEF ReadGarbage, CanRead
  <1>38. CASE \E k \in Replies : ReadResponse(k)
    BY <1>38 DEF ReadResponse, CanRead
  <1>39. CASE KeepaliveLoop
    BY <1>39 DEF KeepaliveLoop
  <1>40. CASE \E t \in Tracks : RecvArm(t)
    BY <1>40 DEF RecvArm
  <1>41. CASE \E t \in Tracks : RecvFails(t)
    BY <1>41 DEF RecvFails
  <1>42. CASE \E t \in Tracks : RecvExit(t)
    BY <1>42 DEF RecvExit
  <1>43. CASE \E t \in Tracks : RecvDatagram(t)
    <2> PICK t \in Tracks : RecvDatagram(t)
      BY <1>43
    <2>1. ~Done
      BY DoneJoined DEF RecvDatagram, Joined
    <2>2. Invisible \/ Delivers
      BY <2>1 DEF RecvDatagram, Callback
    <2> QED BY <2>2 DEF Visible
  <1>44. CASE \E t \in Tracks : RtcpRecv(t)
    BY <1>44 DEF RtcpRecv
  <1>45. CASE \E t \in Tracks : RtcpReport(t)
    BY <1>45 DEF RtcpReport
  <1>46. CASE \E c \in Closers : CallClose(c)
    BY <1>46 DEF CallClose
  <1>47. CASE \E w \in Waiters : WaitCtx(w)
    BY <1>47 DEF WaitCtx
  <1>48. CASE \E w \in Waiters : WaitDone(w)
    <2> PICK w \in Waiters : WaitDone(w)
      BY <1>48
    <2>1. Contract!Wait(w)
      BY DEF WaitDone, Contract!Wait
    <2> QED BY <2>1 DEF Visible
  <1>49. CASE PeerCloses
    BY <1>49 DEF PeerCloses
  <1>50. CASE \E x \in Anchors : IdleElapses(x)
    BY <1>50 DEF IdleElapses
  <1>51. CASE UNCHANGED vars
    BY <1>51 DEF vars
  <1> QED
    BY NextCases, <1>1, <1>2, <1>3, <1>4, <1>5, <1>6, <1>7, <1>8, <1>9,
       <1>10, <1>11, <1>12, <1>13, <1>14, <1>15, <1>16, <1>17, <1>18, <1>19,
       <1>20, <1>21, <1>22, <1>23, <1>24, <1>25, <1>26, <1>27, <1>28, <1>29,
       <1>30, <1>31, <1>32, <1>33, <1>34, <1>35, <1>36, <1>37, <1>38, <1>39,
       <1>40, <1>41, <1>42, <1>43, <1>44, <1>45, <1>46, <1>47, <1>48, <1>49,
       <1>50, <1>51 DEF NextCase

-----------------------------------------------------------------------------
\* The inductive invariant, and the theorems that follow from it.

IInv ==
    /\ ControlInv /\ FunnelInv /\ VerbInv /\ PlayInv /\ PinInv /\ SockInv
    /\ JoinInv /\ DeadlineInv /\ AnchorInv /\ frames \in 0 .. MaxFrames

\* The session that Dial has just opened satisfies the invariant.
LEMMA InitIInv == Init => IInv
  <1> SUFFICES ASSUME Init PROVE IInv
    OBVIOUS
  <1> USE ActorFacts, ActorsAssumption, ConfigAssumption
  <1>1. /\ pc[Read] = "loop" /\ pc[Life] = "wlock" /\ pc[Keep] = "off"
        /\ \A t \in Tracks : pc[t] = "off"
        /\ \A c \in Callers : pc[c] = "idle"
        /\ pc \in [Actors -> {"loop", "wlock", "off", "idle"}]
    <2>1. pc = [a \in Actors |->
                  CASE a = "reader"    -> "loop"
                    [] a = "lifecycle" -> "wlock"
                    [] a \in Callers   -> "idle"
                    [] OTHER           -> "off"]
      BY DEF Init
    <2>2. \A a \in Actors : /\ a = Read => pc[a] = "loop"
                            /\ a = Life => pc[a] = "wlock"
                            /\ a \in Callers => pc[a] = "idle"
                            /\ a \notin Callers \cup {Read, Life} => pc[a] = "off"
      BY <2>1 DEF Read, Life
    <2>3. \A a \in Actors : pc[a] \in {"loop", "wlock", "off", "idle"}
      BY <2>2
    <2>4. /\ pc[Read] = "loop" /\ pc[Life] = "wlock" /\ pc[Keep] = "off"
          /\ \A t \in Tracks : pc[t] = "off"
          /\ \A c \in Callers : pc[c] = "idle"
      BY <2>2 DEF Keep, Read, Life
    <2> QED BY <2>1, <2>3, <2>4
  <1>2. ControlInv
    BY <1>1 DEF Init, ControlInv, FunnelPCs, WriterPCs, VerbPCs, EndPCs, LifePCs,
                ReadPCs, KeepPCs, TrackPCs, CallerPCs, Workers, Life, Read, Keep
  <1>3. FunnelInv
    <2>1. \A a \in Actors : pc[a] \notin FunnelPCs
      BY <1>1 DEF FunnelPCs
    <2>2. pc[Read] \notin EndPCs \cup WriterPCs
      BY <1>1 DEF EndPCs, WriterPCs
    <2> QED BY <2>1, <2>2 DEF Init, FunnelInv, FunnelPCs, Causes, NoErr
  <1>4. VerbInv
    BY <1>1 DEF Init, VerbInv, Workers, Life
  <1>5. PlayInv
    BY <1>1 DEF Init, PlayInv
  <1>6. PinInv
    BY <1>1 DEF Init, PinInv
  <1>7. SockInv
    BY <1>1 DEF Init, SockInv
  <1>8. JoinInv
    <2>1. Live = {} /\ LiveRtcp = {} /\ ~Starting
      BY <1>1 DEF Init, Live, LiveRtcp, Starting
    <2> QED BY <1>1, <2>1, FS_EmptySet DEF Init, JoinInv
  <1>9. DeadlineInv
    BY <1>1 DEF Init, DeadlineInv, InterruptSticks
  <1>10. AnchorInv
    BY <1>1 DEF Init, AnchorInv, NoFalseTimeout, Anchors, NoErr
  <1>11. frames \in 0 .. MaxFrames
    BY DEF Init
  <1> QED
    BY <1>2, <1>3, <1>4, <1>5, <1>6, <1>7, <1>8, <1>9, <1>10, <1>11 DEF IInv

\* Every step preserves it.
LEMMA StepIInv == IInv /\ [Next]_vars => IInv'
  <1> SUFFICES ASSUME IInv, [Next]_vars PROVE IInv'
    OBVIOUS
  <1>1. ControlInv' /\ FunnelInv' /\ VerbInv' /\ PlayInv' /\ PinInv'
    BY ControlStep, FunnelStep, VerbStep, PlayStep, PinStep DEF IInv
  <1>2. SockInv' /\ JoinInv' /\ DeadlineInv' /\ AnchorInv'
    BY SockStep, JoinStep, DeadlineStep, AnchorStep DEF IInv
  <1>3. frames' \in 0 .. MaxFrames
    <2>1. Invisible \/ Visible
      BY VisibleStep DEF IInv
    <2>2. frames' = frames \/ (frames < MaxFrames /\ frames' = frames + 1)
      BY <2>1 DEF Invisible, Visible, Delivers, Contract!EndWith, Contract!Finish,
                  Contract!Wait
    <2> QED BY <2>2, ConfigAssumption DEF IInv
  <1> QED BY <1>1, <1>2, <1>3 DEF IInv

\* Hence it holds throughout.
LEMMA Inductive == Spec => []IInv
  BY InitIInv, StepIInv, PTL DEF Spec

\* teardownAndJoin: when c.done is closed no keepalive or receiver goroutine
\* runs and Play is not about to start one, however many tracks were set up
\* and whichever of them lost their sockets to a shutdown before the spawn.
THEOREM SessionJoined == Spec => []Joined
  <1>1. IInv => Joined
    BY DoneJoined DEF IInv
  <1> QED BY <1>1, Inductive, PTL

\* setupUDP, registerMediaSockets, closeMediaSockets: a socket pair is owned by
\* the SETUP under way or by the session's register, so when the reader is done
\* and no verb runs none is open.
THEOREM SocketsClosed == Spec => []NoSocketLeak
  <1>1. IInv => NoSocketLeak
    BY DEF IInv, SockInv, NoSocketLeak, Done, Read
  <1> QED BY <1>1, Inductive, PTL

\* resolveTransport: the first SETUP that succeeds fixes the transport, and
\* sessionTransport and udpPinned agree on it, also when a fallback to TCP is
\* tried and when a later SETUP fails half way.
THEOREM TransportFixed == Spec => TransportPinned
  <1>1. IInv /\ IInv' /\ [Next]_vars =>
           [/\ pin # "none" => pin' = pin
            /\ udpPinned' <=> pin' = "UDP"]_<<pin, udpPinned>>
    <2> SUFFICES ASSUME IInv, IInv', [Next]_vars
                 PROVE  /\ pin # "none" => pin' = pin
                        /\ udpPinned' <=> pin' = "UDP"
      OBVIOUS
    <2>1. PinKept
      BY PinStep DEF IInv
    <2>2. PinInv'
      BY DEF IInv
    <2> QED BY <2>1, <2>2 DEF PinKept, PinInv
  <1> QED BY <1>1, Inductive, PTL DEF Spec, TransportPinned

\* armReadDeadline, armWriteDeadline, armMediaReadDeadline: nobody pushes a
\* deadline forward past the interrupt of a shutdown, whoever arms and whoever
\* shuts down.
THEOREM DeadlinesStick == Spec => []InterruptSticks
  <1>1. IInv => InterruptSticks
    BY DEF IInv, DeadlineInv
  <1> QED BY <1>1, Inductive, PTL

\* lastFrameAt and the per-track anchors: a session ends with ErrReadTimeout
\* only after an interval without media while it was playing.
THEOREM TimeoutEarned == Spec => []NoFalseTimeout
  <1>1. IInv => NoFalseTimeout
    BY DEF IInv, AnchorInv
  <1> QED BY <1>1, Inductive, PTL

\* attachAuthorization under writeMu: against a server that never answers a
\* SETUP with a transport it was not asked for, and never issues a nonce twice,
\* the nonce counts reach the wire in order.  Both hypotheses are needed:
\* teardownRejectedStream attaches its credentials before it takes writeMu, and
\* activateAuth and refreshNonce restart the count whatever the nonce.
THEOREM CredentialsOrdered ==
    ASSUME "badTransport" \notin Replies, FreshNonces
    PROVE  Spec => NonceOrder
  <1>1. Init => NonceInv
    <2> SUFFICES ASSUME Init PROVE NonceInv
      OBVIOUS
    <2>1. auth = NoAuth /\ lastAuth = NoAuth /\ msg = [a \in Workers |-> NoAuth]
      BY DEF Init
    <2>2. /\ pc[Read] = "loop" /\ pc[Life] = "wlock" /\ pc[Keep] = "off"
          /\ job[Life] = "request"
      BY ActorFacts, ActorsAssumption DEF Init, Life, Read, Keep, Workers, Callers
    <2>3. \A a \in Workers : pc[a] \notin {"attach", "warm", "write"}
      BY <2>2 DEF Workers, Life, Read, Keep
    <2> QED BY <2>1, <2>2, <2>3 DEF Init, NonceInv, NoAuth, Creds, Holds, Less
  <1>2. IInv /\ NonceInv /\ [Next]_vars => NonceInv' /\ WireOrder
    BY NonceStep DEF IInv
  <1>3. NonceInv /\ NonceInv' /\ WireOrder =>
           [\/ lastAuth'.gen > lastAuth.gen
            \/ lastAuth'.gen = lastAuth.gen /\ lastAuth'.nc > lastAuth.nc]_lastAuth
    BY DEF NonceInv, WireOrder, Less, Creds
  <1> QED BY <1>1, <1>2, <1>3, Inductive, PTL DEF Spec, NonceOrder

\* The Source interface (source.go): the session ends once, for the first cause
\* initiateShutdown recorded; Wait returns that cause and only after c.done is
\* closed; no frame is delivered after that.
THEOREM SessionIsSource == Spec => ImplementsSource
  <1>1. Init => Contract!Init
    BY ConfigAssumption, ActorFacts DEF Init, Contract!Init, Done, Workers
  <1>2. IInv /\ [Next]_vars => [Contract!Next]_Contract!vars
    <2> SUFFICES ASSUME IInv, [Next]_vars PROVE [Contract!Next]_Contract!vars
      OBVIOUS
    <2>1. Invisible => UNCHANGED Contract!vars
      BY DEF Invisible, Contract!vars
    <2>2. Delivers => Contract!Deliver
      <3>1. Delivers => frames' \in 0 .. MaxFrames
        BY ConfigAssumption DEF Delivers, IInv
      <3> QED BY <3>1 DEF Delivers, Contract!Deliver, Done
    <2>3. Visible => Contract!Next
      BY <2>2 DEF Visible, Contract!Next
    <2> QED BY <2>1, <2>3, VisibleStep DEF IInv
  <1> QED
    BY <1>1, <1>2, Inductive, PTL DEF Spec, ImplementsSource, Contract!Spec

=============================================================================
