--------------------------- MODULE UdpSourceProofs --------------------------
(***************************************************************************)
(* Proofs about UdpSource, for every configuration, every number of        *)
(* senders, callers and datagrams, every reorder window and every cutting  *)
(* of the senders' streams into units.                                     *)
(***************************************************************************)
EXTENDS UdpSource, RtpPacketsProofs

FunnelPCs == {"once", "setTerm", "closing", "closeConns"}
ReadPCs == {"loop", "recv", "drain", "exit"}
ReaderPCs == ReadPCs \cup {"done"} \cup FunnelPCs
CallerPCs == {"idle", "waitDone", "returned"} \cup FunnelPCs

\* Where the goroutines are, and where initiateShutdown brings them back to.
ControlInv ==
    /\ cfg \in Setups
    /\ pc \in [Actors -> ReaderPCs \cup CallerPCs]
    /\ pc["reader"] \in ReaderPCs
    /\ \A c \in Callers : pc[c] \in CallerPCs
    /\ ret \in [Actors -> {"none", "loop", "drain", "exit", "returned", "waitDone"}]
    /\ pc["reader"] \in FunnelPCs => ret["reader"] \in {"loop", "drain", "exit"}
    /\ \A c \in Callers : pc[c] \in FunnelPCs => ret[c] \in {"returned", "waitDone"}

\* initiateShutdown: the stages of the caller that won the Once.
FunnelInv ==
    /\ once \in Actors \cup {"free", "fired"}
    /\ cause \in [Actors -> Causes \cup {NoErr}]
    /\ termErr \in Causes \cup {NoErr}
    /\ \A a \in Actors :
          /\ pc[a] \in FunnelPCs => cause[a] # NoErr
          /\ pc[a] \in FunnelPCs \ {"once"} => once = a
          /\ pc[a] \in {"closing", "closeConns"} => termErr # NoErr
          /\ pc[a] = "closeConns" => closing
    /\ once = "fired" => closing
    /\ closing => termErr # NoErr
    /\ pc["reader"] \in {"exit", "done"} => closing

\* Every packet in the queue, in the resequencer or in a delivered frame has
\* been read from the socket, once.
QueueInv ==
    /\ queue \in Seq(Packets)
    /\ rbuf \subseteq Packets /\ Slots(rbuf)
    /\ arrived \in 0 .. MaxDatagrams /\ frames \in Nat
    /\ frames + Len(queue) + Cardinality(rbuf) <= arrived

\* What the frames and the counters say of the current source.
StreamInv ==
    /\ stream \in [ssrc : Sources \cup {"none"}, high : Positions]
    /\ pendingGap \in Nat /\ reported \in Nat /\ seen \in Nat /\ origin \in Nat
    /\ stream.ssrc = "none" => reported = 0 /\ pendingGap = 0
    /\ LossAccounted

\* The fragments under reassembly are a run that the next packet continues.
FragInv ==
    /\ frag \in Seq(Packets)
    /\ Run(frag, stream.ssrc, stream.high)
    /\ NoSplice

IInv ==
    /\ ControlInv
    /\ FunnelInv
    /\ QueueInv
    /\ StreamInv
    /\ FragInv
    /\ ClockOfSource

-----------------------------------------------------------------------------
(* The steps, by what they change.                                         *)

mediaVars == <<cfg, queue, rbuf, trackVars, arrived>>

\* The reader goes on, or calls initiateShutdown; it leaves its loop only when
\* the session is closing.
ReaderEffect ==
    /\ pc["reader"] \in ReadPCs
    /\ \/ /\ \E p \in ReadPCs \cup {"done"} :
                /\ Go("reader", p)
                /\ p = "exit" => closing
                /\ p = "done" => pc["reader"] = "exit" /\ UNCHANGED frames
          /\ UNCHANGED <<ret, cause>>
       \/ \E c \in Causes, p \in {"loop", "drain", "exit"} : Shutdown("reader", c, p)
    /\ UNCHANGED <<cfg, lifeVars, rtcpPc, result>>

RtcpEffect ==
    /\ rtcpPc # "off"
    /\ UNCHANGED <<cfg, pc, ret, cause, lifeVars, frames, result>>

ControlCase ==
    \/ ReaderEffect
    \/ RtcpEffect
    \/ \E c \in Closers : CallClose(c)
    \/ \E w \in Waiters : WaitCtx(w)
    \/ \E w \in Waiters : WaitDone(w)
    \/ \E a \in Actors : OnceDo(a)
    \/ \E a \in Actors : SetTerm(a)
    \/ \E a \in Actors : CloseClosing(a)
    \/ \E a \in Actors : CloseConns(a)
    \/ UNCHANGED vars

MediaCase ==
    \/ RecvDropped
    \/ \E pkt \in Packets : RecvPacket(pkt)
    \/ \E kind \in Kinds \ {"foreign"} : RecvPCM(kind)
    \/ ProcessForeign
    \/ ProcessDuplicate
    \/ ProcessPacket
    \/ UNCHANGED mediaVars

ClockCase ==
    \/ \E pkt \in Packets : AdoptSource(pkt, Observe(stream, pkt))
    \/ \E s : Publish(s)
    \/ UNCHANGED clockVars

\* The reader is not a caller.
LEMMA ActorFacts ==
    /\ "reader" \in Actors /\ "reader" \notin Callers
    /\ Callers \subseteq Actors /\ Closers \subseteq Callers /\ Waiters \subseteq Callers
    /\ Actors = Callers \cup {"reader"}
    /\ "free" \notin Actors /\ "fired" \notin Actors
  BY UdpActorsAssumption DEF Actors, Callers

\* Every step is one of these for the life cycle.
LEMMA ControlCases == FunnelInv /\ [Next]_vars => ControlCase
  <1> SUFFICES ASSUME FunnelInv, [Next]_vars PROVE ControlCase
    OBVIOUS
  <1> USE DEF Read, At, ReadFrame, ProcessFrame, RtcpFrame, lifeVars, rtcpVars, ReadPCs,
              ReaderEffect, RtcpEffect, ControlCase, Go, trackVars
  <1>1. CASE ReaderLoop
    <2>1. Go("reader", IF closing THEN "exit" ELSE "recv") /\ UNCHANGED <<ret, cause>>
      BY <1>1 DEF ReaderLoop
    <2>2. (IF closing THEN "exit" ELSE "recv") \in ReadPCs
      OBVIOUS
    <2>3. pc["reader"] = "loop" /\ UNCHANGED <<cfg, lifeVars, rtcpPc, result>>
      BY <1>1 DEF ReaderLoop
    <2> QED BY <2>1, <2>2, <2>3
  <1>2. CASE RecvDropped
    BY <1>2 DEF RecvDropped
  <1>3. CASE RecvFails
    <2>1. PICK c \in Causes : Shutdown("reader", c, "exit")
      BY <1>3 DEF RecvFails, FunnelInv, Causes
    <2> QED BY <1>3, <2>1 DEF RecvFails
  <1>4. CASE ReaderExit
    BY <1>4 DEF ReaderExit
  <1>5. CASE ProcessForeign
    BY <1>5 DEF ProcessForeign
  <1>6. CASE ProcessDuplicate
    BY <1>6 DEF ProcessDuplicate
  <1>7. CASE ProcessPacket
    <2>1. \/ Go("reader", "drain") /\ UNCHANGED <<ret, cause>>
          \/ Shutdown("reader", "errClosed", "drain")
          \/ Shutdown("reader", "panic", "exit")
      BY <1>7 DEF ProcessPacket
    <2>2. pc["reader"] = "drain" /\ UNCHANGED <<cfg, lifeVars, rtcpPc, result>>
      BY <1>7 DEF ProcessPacket
    <2> QED BY <2>1, <2>2 DEF Causes
  <1>8. CASE DrainEnd
    BY <1>8 DEF DrainEnd
  <1>9. CASE \E pkt \in Packets : RecvPacket(pkt)
    BY <1>9 DEF RecvPacket
  <1>10. CASE \E kind \in Kinds \ {"foreign"} : RecvPCM(kind)
    <2>1. \/ Go("reader", "loop") /\ UNCHANGED <<ret, cause>>
          \/ Shutdown("reader", "errClosed", "loop")
          \/ Shutdown("reader", "panic", "exit")
      BY <1>10 DEF RecvPCM
    <2>2. pc["reader"] = "recv" /\ UNCHANGED <<cfg, lifeVars, rtcpPc, result>>
      BY <1>10 DEF RecvPCM
    <2> QED BY <2>1, <2>2 DEF Causes
  <1>11. CASE \E s \in Sources : RecvReport(s)
    BY <1>11 DEF RecvReport
  <1>12. CASE RtcpStep
    BY <1>12 DEF RtcpStep, RtcpLoop, RtcpFiltered, RtcpRecv, RtcpPublish, RtcpFails
  <1>13. CASE CallerStep \/ (\E a \in Actors : Funnel(a)) \/ Terminated \/ UNCHANGED vars
    BY <1>13 DEF CallerStep, Funnel, Terminated
  <1> QED
    BY <1>1, <1>2, <1>3, <1>4, <1>5, <1>6, <1>7, <1>8, <1>9, <1>10, <1>11, <1>12,
       <1>13 DEF Next, ReaderStep

\* Every step is one of these for the packets.
LEMMA MediaCases == [Next]_vars => MediaCase /\ UNCHANGED cfg
  <1> SUFFICES ASSUME [Next]_vars PROVE MediaCase /\ UNCHANGED cfg
    OBVIOUS
  <1> USE DEF MediaCase, mediaVars, ReadFrame, ProcessFrame, RtcpFrame, CallerFrame,
              FunnelFrame, trackVars, ringVars
  <1>1. CASE ReaderStep
    BY <1>1 DEF ReaderStep, ReaderLoop, RecvDropped, RecvFails, ReaderExit, ProcessForeign,
                ProcessDuplicate, ProcessPacket, DrainEnd, RecvPacket, RecvPCM, RecvReport
  <1>2. CASE RtcpStep
    BY <1>2 DEF RtcpStep, RtcpLoop, RtcpFiltered, RtcpRecv, RtcpPublish, RtcpFails
  <1>3. CASE CallerStep
    BY <1>3 DEF CallerStep, CallClose, WaitCtx, WaitDone
  <1>4. CASE \E a \in Actors : Funnel(a)
    BY <1>4 DEF Funnel, OnceDo, SetTerm, CloseClosing, CloseConns
  <1>5. CASE Terminated \/ UNCHANGED vars
    BY <1>5 DEF Terminated, vars
  <1> QED BY <1>1, <1>2, <1>3, <1>4, <1>5 DEF Next

\* Every step is one of these for the clock.
LEMMA ClockCases == QueueInv /\ [Next]_vars => ClockCase
  <1> SUFFICES ASSUME QueueInv, [Next]_vars PROVE ClockCase
    OBVIOUS
  <1> USE DEF ClockCase, clockVars, ReadFrame, ProcessFrame, RtcpFrame, CallerFrame,
              FunnelFrame
  <1>1. CASE ProcessPacket
    <2>1. Head(queue) \in Packets
      BY <1>1, HeadTailProperties DEF ProcessPacket, QueueInv
    <2> QED BY <1>1, <2>1 DEF ProcessPacket
  <1>2. CASE ReaderStep /\ ~ProcessPacket
    BY <1>2 DEF ReaderStep, ReaderLoop, RecvDropped, RecvFails, ReaderExit, ProcessForeign,
                ProcessDuplicate, DrainEnd, RecvPacket, RecvPCM, RecvReport
  <1>3. CASE RtcpStep
    BY <1>3 DEF RtcpStep, RtcpLoop, RtcpFiltered, RtcpRecv, RtcpPublish, RtcpFails
  <1>4. CASE CallerStep
    BY <1>4 DEF CallerStep, CallClose, WaitCtx, WaitDone
  <1>5. CASE \E a \in Actors : Funnel(a)
    BY <1>5 DEF Funnel, OnceDo, SetTerm, CloseClosing, CloseConns
  <1>6. CASE Terminated \/ UNCHANGED vars
    BY <1>6 DEF Terminated, vars
  <1> QED BY <1>1, <1>2, <1>3, <1>4, <1>5, <1>6 DEF Next

-----------------------------------------------------------------------------
(* Control and the shutdown funnel.                                        *)

\* Every goroutine stays in its own program.
LEMMA ControlStep ==
    ASSUME ControlInv, ControlCase
    PROVE  ControlInv'
  <1> USE ActorFacts
      DEF At, Go, Shutdown, lifeVars, ControlInv, FunnelPCs, ReadPCs, ReaderPCs, CallerPCs
  <1>1. CASE ReaderEffect
    <2>1. CASE \E p \in ReadPCs \cup {"done"} : Go("reader", p) /\ UNCHANGED <<ret, cause>>
      BY <1>1, <2>1 DEF ReaderEffect
    <2>2. CASE \E c \in Causes, p \in {"loop", "drain", "exit"} : Shutdown("reader", c, p)
      BY <1>1, <2>2 DEF ReaderEffect
    <2> QED BY <1>1, <2>1, <2>2 DEF ReaderEffect
  <1>2. CASE RtcpEffect
    BY <1>2 DEF RtcpEffect
  <1>3. CASE \E c \in Closers : CallClose(c)
    BY <1>3 DEF CallClose, CallerFrame
  <1>4. CASE \E w \in Waiters : WaitCtx(w)
    BY <1>4 DEF WaitCtx, CallerFrame
  <1>5. CASE \E w \in Waiters : WaitDone(w)
    BY <1>5 DEF WaitDone, CallerFrame
  <1>6. CASE \E a \in Actors : OnceDo(a)
    BY <1>6 DEF OnceDo, FunnelFrame
  <1>7. CASE \E a \in Actors : SetTerm(a)
    BY <1>7 DEF SetTerm, FunnelFrame
  <1>8. CASE \E a \in Actors : CloseClosing(a)
    BY <1>8 DEF CloseClosing, FunnelFrame
  <1>9. CASE \E a \in Actors : CloseConns(a)
    BY <1>9 DEF CloseConns, FunnelFrame
  <1>10. CASE UNCHANGED vars
    BY <1>10 DEF vars
  <1> QED
    BY <1>1, <1>2, <1>3, <1>4, <1>5, <1>6, <1>7, <1>8, <1>9, <1>10 DEF ControlCase

\* One caller at a time is between the Once and its end, and the cause is
\* recorded before the session is seen to be closing.
LEMMA FunnelStep ==
    ASSUME ControlInv, FunnelInv, ControlCase
    PROVE  FunnelInv'
  <1> USE ActorFacts
      DEF At, Go, Shutdown, lifeVars, ControlInv, FunnelPCs, ReadPCs, ReaderPCs, CallerPCs,
          Causes, NoErr, FunnelInv
  <1>1. CASE ReaderEffect
    <2>1. CASE \E p \in ReadPCs \cup {"done"} :
                 /\ Go("reader", p) /\ UNCHANGED <<ret, cause>>
                 /\ p = "exit" => closing
                 /\ p = "done" => pc["reader"] = "exit"
      BY <1>1, <2>1 DEF ReaderEffect
    <2>2. CASE \E c \in Causes, p \in {"loop", "drain", "exit"} : Shutdown("reader", c, p)
      BY <1>1, <2>2 DEF ReaderEffect
    <2> QED BY <1>1, <2>1, <2>2 DEF ReaderEffect
  <1>2. CASE RtcpEffect
    BY <1>2 DEF RtcpEffect
  <1>3. CASE \E c \in Closers : CallClose(c)
    BY <1>3 DEF CallClose, CallerFrame
  <1>4. CASE \E w \in Waiters : WaitCtx(w)
    BY <1>4 DEF WaitCtx, CallerFrame
  <1>5. CASE \E w \in Waiters : WaitDone(w)
    BY <1>5 DEF WaitDone, CallerFrame
  <1>6. CASE \E a \in Actors : OnceDo(a)
    BY <1>6 DEF OnceDo, FunnelFrame
  <1>7. CASE \E a \in Actors : SetTerm(a)
    BY <1>7 DEF SetTerm, FunnelFrame
  <1>8. CASE \E a \in Actors : CloseClosing(a)
    BY <1>8 DEF CloseClosing, FunnelFrame
  <1>9. CASE \E a \in Actors : CloseConns(a)
    BY <1>9 DEF CloseConns, FunnelFrame
  <1>10. CASE UNCHANGED vars
    BY <1>10 DEF vars
  <1> QED
    BY <1>1, <1>2, <1>3, <1>4, <1>5, <1>6, <1>7, <1>8, <1>9, <1>10 DEF ControlCase

-----------------------------------------------------------------------------
(* The sender's clock.                                                     *)

\* The critical sections of rtcpMu: a new source takes the clock of the one
\* before it away in the step in which it becomes the media source.
LEMMA ClockStep ==
    ASSUME StreamInv, ClockOfSource, ClockCase
    PROVE  ClockOfSource'
  <1>1. ASSUME NEW pkt \in Packets, AdoptSource(pkt, Observe(stream, pkt))
        PROVE  ClockOfSource'
    BY <1>1 DEF AdoptSource, ClockOfSource
  <1>2. ASSUME NEW s, Publish(s)
        PROVE  ClockOfSource'
    BY <1>2 DEF Publish, ClockOfSource
  <1> QED BY <1>1, <1>2 DEF ClockCase, clockVars, ClockOfSource

-----------------------------------------------------------------------------
(* Packets.                                                                *)

\* What a packet carries.
LEMMA PacketFacts ==
    ASSUME NEW pkt \in Packets
    PROVE  /\ pkt.src \in Sources /\ pkt.src # "none"
           /\ pkt.pos \in Positions /\ pkt.pos \in Nat
  BY UdpActorsAssumption, UnitType DEF Packets

\* What a datagram brings into the queue and the resequencer.
LEMMA ResequenceSound ==
    ASSUME QueueInv, NEW pkt \in Packets
    PROVE  LET r == Resequence(pkt)
           IN  /\ r.out \in Seq(Packets)
               /\ r.buf \subseteq Packets /\ Slots(r.buf)
               /\ Len(r.out) + Cardinality(r.buf) <= Cardinality(rbuf) + 1
  <1> DEFINE fresh == lastSSRC # pkt.src
             kept == IF fresh THEN {} ELSE rbuf
             old == IF fresh THEN InOrder(rbuf) ELSE <<>>
             nxt == IF fresh THEN pkt.pos ELSE nextPos
             r == Push(kept, nxt, pkt)
  <1>1. Slots(rbuf) /\ Slots({}) /\ Cardinality({}) = 0 /\ rbuf \subseteq Packets
    BY FS_EmptySet DEF QueueInv, Slots
  <1>2. Slots(kept) /\ kept \subseteq Packets
    BY <1>1
  <1>3. /\ old \in Seq(Packets) /\ Len(old) \in Nat /\ Cardinality(kept) \in Nat
        /\ Len(old) + Cardinality(kept) = Cardinality(rbuf)
    <2>1. CASE fresh
      <3>1. InOrder(rbuf) \in Seq(rbuf) /\ Len(InOrder(rbuf)) = Cardinality(rbuf)
        BY <1>1, InOrderEnumerates
      <3>2. InOrder(rbuf) \in Seq(Packets)
        BY <1>1, <3>1, SeqMonotonic
      <3> QED BY <1>1, <2>1, <3>1, <3>2, LenProperties
    <2>2. CASE ~fresh
      <3>1. Cardinality(rbuf) \in Nat
        BY <1>1, FS_CardinalityType DEF Slots
      <3> QED BY <2>2, <3>1, EmptySeq
    <2> QED BY <2>1, <2>2
  <1> HIDE DEF kept, old, nxt, fresh
  <1>4. /\ r.buf \subseteq kept \cup {pkt} /\ Slots(r.buf)
        /\ r.out \in Seq(kept \cup {pkt})
        /\ Len(r.out) + Cardinality(r.buf) <= Cardinality(kept) + 1
    BY <1>2, PacketFacts, PushSound
  <1>5. kept \cup {pkt} \subseteq Packets
    BY <1>2
  <1>6. r.out \in Seq(Packets) /\ r.buf \subseteq Packets /\ Len(r.out) \in Nat
        /\ Cardinality(r.buf) \in Nat
    BY <1>4, <1>5, SeqMonotonic, LenProperties, FS_CardinalityType DEF Slots
  <1>7. /\ old \o r.out \in Seq(Packets)
        /\ Len(old \o r.out) = Len(old) + Len(r.out)
    BY <1>3, <1>6, ConcatProperties
  <1>8. /\ Resequence(pkt).out = old \o r.out
        /\ Resequence(pkt).buf = r.buf
    BY DEF Resequence, old, kept, nxt, fresh
  <1>9. Len(old \o r.out) + Cardinality(r.buf) <= Cardinality(rbuf) + 1
    BY <1>3, <1>4, <1>6, <1>7
  <1> QED BY <1>4, <1>6, <1>7, <1>8, <1>9

\* The queue without its head.
LEMMA QueueTail ==
    ASSUME QueueInv, queue # <<>>, queue' = Tail(queue), UNCHANGED <<rbuf, arrived>>,
           frames' \in {frames, frames + 1}
    PROVE  QueueInv'
  <1>1. Tail(queue) \in Seq(Packets) /\ Len(Tail(queue)) = Len(queue) - 1
        /\ Len(queue) \in Nat /\ Cardinality(rbuf) \in Nat
    BY HeadTailProperties, LenProperties, FS_CardinalityType DEF QueueInv, Slots
  <1> QED BY <1>1 DEF QueueInv

\* No step puts anything but packets into the queue and the ring.
LEMMA QueueStep ==
    ASSUME QueueInv, MediaCase
    PROVE  QueueInv'
  <1>0. Len(queue) \in Nat /\ Cardinality(rbuf) \in Nat /\ MaxDatagrams \in Nat
    BY LenProperties, FS_CardinalityType, UdpBoundsAssumption DEF QueueInv, Slots
  <1>1. CASE RecvDropped
    <2>1. UNCHANGED <<queue, rbuf, frames>>
      BY <1>1 DEF RecvDropped, ringVars, trackVars
    <2>2. arrived' \in 0 .. MaxDatagrams /\ arrived <= arrived'
      BY <1>0, <1>1 DEF RecvDropped, QueueInv
    <2> QED BY <1>0, <2>1, <2>2 DEF QueueInv
  <1>2. CASE \E pkt \in Packets : RecvPacket(pkt)
    <2> PICK pkt \in Packets : RecvPacket(pkt)
      BY <1>2
    <2>1. arrived' = arrived + 1 /\ arrived' \in 0 .. MaxDatagrams /\ UNCHANGED frames
      BY <1>0 DEF RecvPacket, QueueInv, trackVars
    <2>2. CASE queue' = <<pkt>> /\ UNCHANGED rbuf
      <3>1. <<pkt>> \in Seq(Packets) /\ Len(<<pkt>>) = 1
        OBVIOUS
      <3> QED BY <1>0, <2>1, <2>2, <3>1 DEF QueueInv
    <2>3. CASE UNCHANGED <<queue, rbuf>>
      BY <1>0, <2>1, <2>3 DEF QueueInv
    <2>4. CASE queue' = Resequence(pkt).out /\ rbuf' = Resequence(pkt).buf
      <3>1. /\ queue' \in Seq(Packets) /\ rbuf' \subseteq Packets /\ Slots(rbuf')
            /\ Len(queue') + Cardinality(rbuf') <= Cardinality(rbuf) + 1
        BY <2>4, ResequenceSound
      <3>2. Len(queue') \in Nat /\ Cardinality(rbuf') \in Nat
        BY <3>1, LenProperties, FS_CardinalityType DEF Slots
      <3>3. Len(queue) >= 0
        BY <1>0
      <3>4. frames' + Len(queue') + Cardinality(rbuf') <= arrived'
        BY <1>0, <2>1, <3>1, <3>2 DEF QueueInv
      <3> QED BY <2>1, <3>1, <3>4 DEF QueueInv, Slots
    <2> QED BY <2>2, <2>3, <2>4 DEF RecvPacket, ringVars
  <1>3. CASE \E kind \in Kinds \ {"foreign"} : RecvPCM(kind)
    <2>1. /\ UNCHANGED <<queue, rbuf>> /\ frames' \in {frames, frames + 1}
          /\ arrived' = arrived + 1 /\ arrived < MaxDatagrams
      BY <1>3 DEF RecvPCM, ringVars
    <2> QED BY <1>0, <2>1 DEF QueueInv
  <1>4. CASE ProcessForeign
    BY <1>4, QueueTail DEF ProcessForeign, ProcessFrame, ringVars, trackVars
  <1>5. CASE ProcessDuplicate
    BY <1>5, QueueTail DEF ProcessDuplicate, ProcessFrame, ringVars, trackVars
  <1>6. CASE ProcessPacket
    <2>1. frames' \in {frames, frames + 1}
      BY <1>6 DEF ProcessPacket
    <2> QED BY <1>6, <2>1, QueueTail DEF ProcessPacket, ProcessFrame, ringVars
  <1>7. CASE UNCHANGED mediaVars
    BY <1>7 DEF mediaVars, trackVars, QueueInv
  <1> QED BY <1>1, <1>2, <1>3, <1>4, <1>5, <1>6, <1>7 DEF MediaCase

\* A packet that is not dropped as a duplicate: what Observe says of it.
LEMMA ObserveFacts ==
    ASSUME StreamInv, NEW pkt \in Packets, ~Observe(stream, pkt).dup
    PROVE  LET up == Observe(stream, pkt)
           IN  /\ up.reset <=> (stream.ssrc # pkt.src /\ stream.ssrc # "none")
               /\ up.gap \in Nat
               /\ stream.ssrc = pkt.src => pkt.pos = stream.high + 1 + up.gap
               /\ stream.ssrc # pkt.src => up.gap = 0
  <1>1. stream.high \in Nat /\ pkt.pos \in Nat
    BY PacketFacts, UnitType DEF StreamInv
  <1>2. CASE stream.ssrc = pkt.src
    <2>1. pkt.pos > stream.high
      BY <1>2 DEF Observe
    <2> QED BY <1>1, <1>2, <2>1 DEF Observe
  <1>3. CASE stream.ssrc # pkt.src
    BY <1>3 DEF Observe
  <1> QED BY <1>2, <1>3

\* Every loss is counted once, through resets, duplicates and packets that
\* complete no frame.
LEMMA StreamStep ==
    ASSUME ControlInv, QueueInv, StreamInv, MediaCase
    PROVE  StreamInv'
  <1>1. CASE ProcessPacket
    <2> DEFINE pkt == Head(queue)
               up == Observe(stream, pkt)
               d == Depacketize(Surviving(up), pkt)
               pending == (IF up.reset THEN 0 ELSE pendingGap) + up.gap
               old == IF up.reset THEN 0 ELSE reported
    <2>1. pkt \in Packets /\ ~up.dup
      BY <1>1, HeadTailProperties DEF ProcessPacket, QueueInv
    <2>2. /\ up.reset <=> (stream.ssrc # pkt.src /\ stream.ssrc # "none")
          /\ up.gap \in Nat
          /\ stream.ssrc = pkt.src => pkt.pos = stream.high + 1 + up.gap
          /\ stream.ssrc # pkt.src => up.gap = 0
      BY <2>1, ObserveFacts
    <2>3. /\ pkt.src \in Sources /\ pkt.src # "none" /\ pkt.pos \in Positions
          /\ pkt.pos \in Nat /\ stream.high \in Nat
      BY <2>1, PacketFacts, UnitType DEF StreamInv
    <2>4. /\ stream' = [ssrc |-> pkt.src, high |-> pkt.pos]
          /\ origin' = IF stream.ssrc = pkt.src THEN origin ELSE pkt.pos
          /\ seen' = IF stream.ssrc = pkt.src THEN seen + 1 ELSE 1
      BY <1>1 DEF ProcessPacket
    <2>5. \/ pendingGap' = 0 /\ reported' = old + pending
          \/ pendingGap' = pending /\ reported' = old
      BY <1>1 DEF ProcessPacket, Deliver
    <2> HIDE DEF pkt, up
    <2>6. old \in Nat /\ pending \in Nat
      BY <2>2 DEF StreamInv
    <2>7. /\ stream' \in [ssrc : Sources \cup {"none"}, high : Positions]
          /\ pendingGap' \in Nat /\ reported' \in Nat /\ seen' \in Nat /\ origin' \in Nat
      BY <2>3, <2>4, <2>5, <2>6 DEF StreamInv
    <2>8. reported' + pendingGap' = old + pending
      BY <2>5, <2>6
    <2>9. reported' + pendingGap' + seen' = stream'.high - origin' + 1
      <3>1. CASE stream.ssrc = pkt.src
        <4>1. reported + pendingGap + seen = stream.high - origin + 1
          BY <2>3, <3>1 DEF StreamInv, LossAccounted
        <4>2. old + pending = reported + pendingGap + up.gap
          BY <2>2, <3>1 DEF StreamInv
        <4>3. /\ stream'.high = stream.high + 1 + up.gap /\ origin' = origin
              /\ seen' = seen + 1
          BY <2>2, <2>4, <3>1
        <4> HIDE DEF old, pending
        <4> QED BY <2>2, <2>3, <2>7, <2>8, <4>1, <4>2, <4>3 DEF StreamInv
      <3>2. CASE stream.ssrc # pkt.src
        <4>1. old + pending = 0
          <5>1. CASE stream.ssrc = "none"
            <6>1. reported = 0 /\ pendingGap = 0
              BY <5>1 DEF StreamInv
            <6> QED BY <2>2, <3>2, <6>1
          <5>2. CASE stream.ssrc # "none"
            BY <2>2, <3>2, <5>2
          <5> QED BY <5>1, <5>2
        <4>2. stream'.high = origin' /\ seen' = 1 /\ origin' \in Nat
          BY <2>3, <2>4, <3>2
        <4> HIDE DEF old, pending
        <4> QED BY <2>7, <2>8, <4>1, <4>2
      <3> QED BY <3>1, <3>2
    <2>10. stream'.ssrc # "none"
      BY <2>3, <2>4
    <2> QED BY <2>7, <2>9, <2>10 DEF StreamInv, LossAccounted
  <1>2. CASE UNCHANGED <<stream, pendingGap, reported, seen, origin>>
    BY <1>2 DEF StreamInv, LossAccounted
  <1> QED
    BY <1>1, <1>2 DEF MediaCase, RecvDropped, RecvPacket, RecvPCM, ProcessForeign,
                      ProcessDuplicate, mediaVars, trackVars

\* What survives resetReassembly is continued by the packet under way.
LEMMA SurvivorContinued ==
    ASSUME StreamInv, FragInv, NEW pkt \in Packets, ~Observe(stream, pkt).dup
    PROVE  LET f == Surviving(Observe(stream, pkt))
           IN  /\ f \in Seq(Packets) /\ Run(f, pkt.src, stream.high)
               /\ f # <<>> => pkt.pos = stream.high + 1
  <1> DEFINE up == Observe(stream, pkt)
             f == Surviving(up)
  <1>1. /\ up.reset <=> (stream.ssrc # pkt.src /\ stream.ssrc # "none")
        /\ up.gap \in Nat
        /\ stream.ssrc = pkt.src => pkt.pos = stream.high + 1 + up.gap
        /\ stream.ssrc # pkt.src => up.gap = 0
    BY ObserveFacts
  <1> HIDE DEF up
  <1>2. stream.ssrc = "none" => frag = <<>>
    <2> SUFFICES ASSUME frag # <<>> PROVE stream.ssrc # "none"
      OBVIOUS
    <2>1. 1 \in 1 .. Len(frag) /\ frag[1] \in Packets
      BY EmptySeq, LenProperties, ElementOfSeq DEF FragInv
    <2> QED BY <2>1, PacketFacts DEF FragInv, Run
  <1>3. Run(<<>>, pkt.src, stream.high) /\ <<>> \in Seq(Packets)
    BY EmptySeq DEF Run
  <1>4. CASE f = <<>>
    BY <1>3, <1>4 DEF up
  <1>5. CASE f # <<>>
    <2>1. f = frag /\ ~up.reset /\ up.gap = 0
      BY <1>1, <1>5 DEF Surviving
    <2>2. stream.ssrc = pkt.src
      BY <1>1, <1>2, <1>5, <2>1
    <2>3. stream.high \in Nat
      BY UnitType DEF StreamInv
    <2> QED BY <1>1, <2>1, <2>2, <2>3 DEF FragInv, up
  <1> QED BY <1>4, <1>5

\* Every step keeps the fragments held a run of one source.
LEMMA FragStep ==
    ASSUME ControlInv, QueueInv, StreamInv, FragInv, MediaCase, UNCHANGED cfg
    PROVE  FragInv'
  <1>1. CASE ProcessPacket
    <2> DEFINE pkt == Head(queue)
               up == Observe(stream, pkt)
               f == Surviving(up)
               d == Depacketize(f, pkt)
    <2>1. pkt \in Packets /\ ~up.dup
      BY <1>1, HeadTailProperties DEF ProcessPacket, QueueInv
    <2>2. /\ f \in Seq(Packets) /\ Run(f, pkt.src, stream.high)
          /\ f # <<>> => pkt.pos = stream.high + 1
      BY <2>1, SurvivorContinued
    <2>3. pkt.pos \in Positions /\ stream.high \in Positions
      BY <2>1, PacketFacts DEF StreamInv
    <2>4. /\ stream' = [ssrc |-> pkt.src, high |-> pkt.pos]
          /\ frag' = d.frag /\ unit' = d.unit
      BY <1>1 DEF ProcessPacket
    <2> HIDE DEF pkt, up, f
    <2>5. Sound(d, pkt, Packets, cfg.codec)
      <3>1. CASE pkt.kind = "bad"
        BY <3>1, BadSound DEF Depacketize
      <3>2. CASE pkt.kind # "bad" /\ cfg.codec = "flac"
        <4>1. d = DepacketizeFlac(f, pkt)
          BY <3>2 DEF Depacketize
        <4> QED BY <2>1, <2>2, <2>3, <3>2, <4>1, FlacSound
      <3>3. CASE pkt.kind # "bad" /\ cfg.codec = "aac"
        <4>1. d = DepacketizeAac(f, pkt)
          BY <3>3 DEF Depacketize
        <4> QED BY <2>1, <2>2, <2>3, <3>3, <4>1, AacSound
      <3>4. CASE pkt.kind # "bad" /\ cfg.codec \notin {"flac", "aac"}
        <4>1. d = [Complete(<<pkt>>) EXCEPT !.bad = pkt.kind = "odd"]
          BY <3>4 DEF Depacketize
        <4>2. d.frag = <<>> /\ d.unit = <<pkt>>
          BY <4>1 DEF Complete
        <4>3. cfg.codec \notin {"aac", "flac", "mp3"}
          BY <3>4, UdpSetupsAssumption DEF ControlInv, Configs
        <4> HIDE DEF d
        <4> QED BY <2>1, <4>2, <4>3, SingleSound
      <3> QED BY <3>1, <3>2, <3>3, <3>4
    <2> HIDE DEF d
    <2> QED BY <2>4, <2>5 DEF Sound, FragInv, NoSplice
  <1>2. CASE UNCHANGED <<frag, unit, stream>>
    BY <1>2 DEF FragInv, NoSplice
  <1> QED
    BY <1>1, <1>2 DEF MediaCase, RecvDropped, RecvPacket, RecvPCM, ProcessForeign,
                      ProcessDuplicate, mediaVars, trackVars

-----------------------------------------------------------------------------
(* The theorems.                                                           *)

\* The source starts in the invariant,
LEMMA InitIInv == Init => IInv
  <1> SUFFICES ASSUME Init PROVE IInv
    OBVIOUS
  <1> USE ActorFacts
  <1>1. \A a \in Actors : pc[a] = IF a = "reader" THEN "loop" ELSE "idle"
    BY DEF Init
  <1>2. ControlInv
    BY <1>1 DEF Init, ControlInv, FunnelPCs, ReadPCs, ReaderPCs, CallerPCs
  <1>3. FunnelInv
    BY <1>1 DEF Init, FunnelInv, FunnelPCs
  <1>4. QueueInv
    <2>1. Slots({}) /\ Cardinality({}) = 0
      BY FS_EmptySet DEF Slots
    <2>2. <<>> \in Seq(Packets) /\ Len(<<>>) = 0
      BY EmptySeq
    <2> QED BY <2>1, <2>2, UdpBoundsAssumption DEF Init, QueueInv
  <1>5. StreamInv
    BY MaxPosType DEF Init, StreamInv, LossAccounted, NoStream, Positions
  <1>6. FragInv
    BY EmptySeq DEF Init, FragInv, NoSplice, Run, Unspliced
  <1>7. ClockOfSource
    BY DEF Init, ClockOfSource
  <1> QED BY <1>2, <1>3, <1>4, <1>5, <1>6, <1>7 DEF IInv

\* and every step keeps it:
LEMMA StepIInv == IInv /\ [Next]_vars => IInv'
  <1> SUFFICES ASSUME IInv, [Next]_vars PROVE IInv'
    OBVIOUS
  <1>1. ControlCase /\ MediaCase /\ ClockCase /\ UNCHANGED cfg
    BY ControlCases, MediaCases, ClockCases DEF IInv
  <1>2. ControlInv' /\ FunnelInv' /\ QueueInv' /\ ClockOfSource'
    BY <1>1, ControlStep, FunnelStep, QueueStep, ClockStep DEF IInv
  <1>3. StreamInv' /\ FragInv'
    BY <1>1, StreamStep, FragStep DEF IInv
  <1> QED BY <1>2, <1>3 DEF IInv

\* it holds throughout.
LEMMA Inductive == Spec => []IInv
  BY InitIInv, StepIInv, PTL DEF Spec

\* processRTP, handleRTCP: whatever the order in which reports and packets of
\* however many senders come, a published clock is of the media source.
THEOREM ClockMatchesMedia == Spec => []ClockOfSource
  <1>1. IInv => ClockOfSource
    BY DEF IInv
  <1> QED BY <1>1, Inductive, PTL

\* resetReassembly, the depacketizers: no delivered unit has packets of two
\* sources or a hole in it, for every loss, duplication and order of the
\* datagrams, every window and every cutting of the stream into units.
THEOREM UnitsUnspliced == Spec => []NoSplice
  <1>1. IInv => NoSplice
    BY DEF IInv, FragInv
  <1> QED BY <1>1, Inductive, PTL

\* deliverRTP, pendingGap: the SeqGaps reported, the one still waiting and the
\* packets observed add up to the span of the source's sequence numbers.
THEOREM LossesCounted == Spec => []LossAccounted
  <1>1. IInv => LossAccounted
    BY DEF IInv, StreamInv
  <1> QED BY <1>1, Inductive, PTL

\* The Source interface (source.go): the source ends once, for the first cause
\* recorded; Wait returns that cause and only after the reader and the RTCP
\* goroutine have both ended; no frame is delivered after that.
THEOREM UdpIsSource == Spec => ImplementsSource
  <1>1. Init => Contract!Init
    <2> SUFFICES ASSUME Init PROVE Contract!Init
      OBVIOUS
    <2>1. ~Done
      BY ActorFacts DEF Init, Done
    <2> QED BY <2>1, UdpBoundsAssumption DEF Init, Contract!Init
  <1>2. IInv /\ [Next]_vars => [Contract!Next]_Contract!vars
    <2> SUFFICES ASSUME IInv, [Next]_vars PROVE [Contract!Next]_Contract!vars
      OBVIOUS
    <2> DEFINE over == Done /\ rtcpPc = "off"
    <2>1. ControlCase /\ frames' \in 0 .. MaxDatagrams
      <3>1. QueueInv'
        BY StepIInv DEF IInv
      <3>2. Len(queue') \in Nat /\ Cardinality(rbuf') \in Nat /\ frames' \in Nat
            /\ arrived' \in 0 .. MaxDatagrams
        BY <3>1, LenProperties, FS_CardinalityType DEF QueueInv, Slots
      <3>3. frames' <= arrived'
        BY <3>1, <3>2 DEF QueueInv
      <3> QED BY <3>2, <3>3, ControlCases, UdpBoundsAssumption DEF IInv
    <2>2. IInv' /\ (over => termErr # NoErr)
      BY StepIInv DEF IInv, FunnelInv, Done
    <2>3. CASE ReaderEffect
      <3>1. ~Done /\ UNCHANGED <<termErr, rtcpPc, result>>
        BY <2>3 DEF ReaderEffect, ReadPCs, Done, lifeVars
      <3>2. CASE ~Done'
        BY <2>1, <3>1, <3>2 DEF Contract!Next, Contract!Deliver
      <3>3. CASE Done'
        <4>1. closing /\ UNCHANGED frames
          <5>1. pc["reader"] = "exit" /\ UNCHANGED frames
            BY <2>3, <3>3, ActorFacts DEF ReaderEffect, ReadPCs, Done, Go, Shutdown, IInv,
                                          ControlInv
          <5> QED BY <5>1 DEF IInv, FunnelInv
        <4>2. termErr # NoErr
          BY <4>1 DEF IInv, FunnelInv
        <4>3. CASE rtcpPc = "off"
          <5>1. Contract!Finish
            BY <3>1, <3>3, <4>1, <4>2, <4>3 DEF Contract!Finish
          <5> QED BY <5>1 DEF Contract!Next
        <4>4. CASE rtcpPc # "off"
          BY <3>1, <4>1, <4>4 DEF Contract!vars
        <4> QED BY <4>3, <4>4
      <3> QED BY <3>2, <3>3
    <2>4. CASE RtcpEffect
      <3>1. rtcpPc # "off" /\ UNCHANGED <<termErr, frames, result>> /\ Done' = Done
        BY <2>4 DEF RtcpEffect, Done, lifeVars
      <3>2. Done => termErr # NoErr
        BY DEF IInv, FunnelInv, Done
      <3>3. CASE Done /\ rtcpPc' = "off"
        <4>1. Contract!Finish
          BY <3>1, <3>2, <3>3 DEF Contract!Finish
        <4> QED BY <4>1 DEF Contract!Next
      <3>4. CASE ~(Done /\ rtcpPc' = "off")
        BY <3>1, <3>4 DEF Contract!vars
      <3> QED BY <3>3, <3>4
    <2>5. CASE \E c \in Closers : CallClose(c)
      <3>1. UNCHANGED <<termErr, frames, result, rtcpPc>>
        BY <2>5 DEF CallClose, CallerFrame, lifeVars, rtcpVars, trackVars
      <3>2. Done' = Done
        BY <2>5, ActorFacts DEF CallClose, Done, At, Go, Shutdown, IInv, ControlInv,
                               FunnelPCs, ReaderPCs, CallerPCs
      <3> QED BY <3>1, <3>2 DEF Contract!vars
    <2>6. CASE \E w \in Waiters : WaitCtx(w)
      <3>1. UNCHANGED <<termErr, frames, result, rtcpPc>>
        BY <2>6 DEF WaitCtx, CallerFrame, lifeVars, rtcpVars, trackVars
      <3>2. Done' = Done
        BY <2>6, ActorFacts DEF WaitCtx, Done, At, Go, Shutdown, IInv, ControlInv,
                               FunnelPCs, ReaderPCs, CallerPCs
      <3> QED BY <3>1, <3>2 DEF Contract!vars
    <2>7. CASE \E w \in Waiters : WaitDone(w)
      <3> PICK w \in Waiters : WaitDone(w)
        BY <2>7
      <3>1. over /\ over' /\ UNCHANGED <<termErr, frames>>
            /\ result' = [result EXCEPT ![w] = termErr]
        BY ActorFacts DEF WaitDone, Join, Done, CallerFrame, lifeVars, rtcpVars, trackVars,
                          Go, IInv, ControlInv
      <3>2. Contract!Wait(w)
        BY <3>1 DEF Contract!Wait
      <3> QED BY <3>2 DEF Contract!Next
    <2>8. CASE \E a \in Actors : OnceDo(a)
      <3>1. UNCHANGED <<termErr, frames, result, rtcpPc>>
        BY <2>8 DEF OnceDo, FunnelFrame, lifeVars, rtcpVars, trackVars
      <3>2. Done' = Done
        BY <2>8, ActorFacts DEF OnceDo, Done, At, Go, Shutdown, IInv, ControlInv,
                               FunnelPCs, ReaderPCs, CallerPCs
      <3> QED BY <3>1, <3>2 DEF Contract!vars
    <2>9. CASE \E a \in Actors : SetTerm(a)
      <3> PICK a \in Actors : SetTerm(a)
        BY <2>9
      <3>1. UNCHANGED <<frames, result, rtcpPc>>
        BY DEF SetTerm, FunnelFrame, rtcpVars, trackVars
      <3>2. Done' = Done
        BY ActorFacts DEF SetTerm, Done, At, Go, IInv, ControlInv
      <3>3. cause[a] \in Causes
        BY DEF SetTerm, At, IInv, FunnelInv, FunnelPCs
      <3>4. CASE termErr = NoErr
        <4>1. Contract!EndWith(cause[a])
          BY <3>1, <3>2, <3>4 DEF SetTerm, Contract!EndWith
        <4> QED BY <3>3, <4>1 DEF Contract!Next
      <3>5. CASE termErr # NoErr
        BY <3>1, <3>2, <3>5 DEF SetTerm, Contract!vars
      <3> QED BY <3>4, <3>5
    <2>10. CASE \E a \in Actors : CloseClosing(a)
      <3>1. UNCHANGED <<termErr, frames, result, rtcpPc>>
        BY <2>10 DEF CloseClosing, FunnelFrame, lifeVars, rtcpVars, trackVars
      <3>2. Done' = Done
        BY <2>10, ActorFacts DEF CloseClosing, Done, At, Go, Shutdown, IInv, ControlInv,
                               FunnelPCs, ReaderPCs, CallerPCs
      <3> QED BY <3>1, <3>2 DEF Contract!vars
    <2>11. CASE \E a \in Actors : CloseConns(a)
      <3>1. UNCHANGED <<termErr, frames, result, rtcpPc>>
        BY <2>11 DEF CloseConns, FunnelFrame, lifeVars, rtcpVars, trackVars
      <3>2. Done' = Done
        BY <2>11, ActorFacts DEF CloseConns, Done, At, Go, Shutdown, IInv, ControlInv,
                               FunnelPCs, ReaderPCs, CallerPCs
      <3> QED BY <3>1, <3>2 DEF Contract!vars
    <2>12. CASE UNCHANGED vars
      BY <2>12 DEF vars, lifeVars, rtcpVars, trackVars, Done, Contract!vars
    <2> QED
      BY <2>1, <2>3, <2>4, <2>5, <2>6, <2>7, <2>8, <2>9, <2>10, <2>11, <2>12
         DEF ControlCase
  <1> QED
    BY <1>1, <1>2, Inductive, PTL DEF Spec, ImplementsSource, Contract!Spec
=============================================================================
