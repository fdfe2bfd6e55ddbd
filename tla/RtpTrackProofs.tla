--------------------------- MODULE RtpTrackProofs ---------------------------
(***************************************************************************)
(* Proofs about RtpTrack, for every set of tracks, senders, payload types  *)
(* and configs, every window, threshold and budget, and every cutting of   *)
(* the senders' streams into units.                                        *)
(***************************************************************************)
EXTENDS RtpTrack, RtpPacketsProofs

Counts == [packets : Nat, malformed : Nat, drops : Nat, resets : Nat]
Between == {"sender", "baseline", "deliver"}   \* Observe has seen the head

\* The packets on their way.
QueueInv ==
    /\ cfg \in Setups
    /\ pc \in {"recv", "process"} \cup Between
    /\ queue \in Seq(Packets) /\ (pc = "recv" <=> queue = <<>>)
    /\ rbuf \subseteq Packets /\ Slots(rbuf)

\* The track's view of the stream and its counters.
ViewInv ==
    /\ stream \in [ssrc : Sources \cup {"none"}, high : Positions]
    /\ up \in [reset : BOOLEAN, dup : BOOLEAN, gap : Nat]
    /\ stats \in Counts
    /\ frag \in Seq(Packets) /\ unit \in Seq(Packets)
    /\ pc \in Between => unit = <<>> /\ stream.ssrc = Head(queue).src

\* One episode of garbage is what the budget counts.
WireInv ==
    /\ resync \in Nat /\ episode = resync
    /\ ResyncBounded

\* acceptPayloadType against the packets that came: while no type is settled
\* the candidate's run is the current run of packets of one type.
TypeInv ==
    /\ pt \in [type : PayloadTypes \cup {"none"}, candidate : PayloadTypes \cup {"none"},
               run : Nat]
    /\ streak.n \in Nat
    /\ pc \in Between => pt.type = Head(queue).pt
    /\ cfg.sdpPT = Declared =>
          /\ settled => pt.type = Declared
          /\ pt.type \notin {"none", Declared} => pt.type \in runs
          /\ pt.type = "none" =>
                /\ streak.n = pt.run
                /\ streak.type = IF pt.run = 0 THEN "none" ELSE pt.candidate
    /\ NotCaptured

\* The baseline is set before anything is delivered, and after a change of
\* source it is the first packet of the new one.
BaseInv ==
    /\ baseTS \in Nat /\ seed \in Nat /\ origin \in Positions
    /\ stream.ssrc = "none" => stats.resets = 0 /\ ~baseSet
    /\ stream.ssrc # "none" /\ pc \notin {"sender", "baseline"} => baseSet /\ baselineFixed
    /\ pc \in {"sender", "baseline"} =>
          /\ origin = Head(queue).pos
          /\ stats.resets > 0 => baselineFixed
    /\ pc \notin {"sender", "baseline"} /\ stats.resets > 0 => baseTS = UnitOf(origin)
    /\ PtsRestarts

\* The gap of the packet under way is in up until it is delivered.
LossInv ==
    /\ pendingGap \in Nat /\ reported \in Nat /\ seen \in Nat
    /\ stream.ssrc = "none" => reported = 0 /\ pendingGap = 0
    /\ cfg.onFrame /\ stream.ssrc # "none" =>
          reported + pendingGap + seen + (IF pc \in Between THEN up.gap ELSE 0)
              = stream.high - origin + 1

\* A config the depacketizer resolved has been told before its frames; that of
\* the SDP needs no telling and never changes.  A track that starts from the
\* SDP's config and follows the stream is not covered: there it fails.
CodecInv ==
    cfg.codec = "latm" /\ cfg.latm # "seeded" =>
        /\ latmASC # "none" => told = latmASC
        /\ cfg.latm = "known" => <<latm, latmASC, told>> = <<SdpConfig, SdpConfig, SdpConfig>>
        /\ CodecTold

-----------------------------------------------------------------------------
(* The steps, by what they change.                                         *)

mediaVars == <<pc, queue, ringVars, typeVars, codecVars, baseVars, viewVars>>

\* A step of the framing, of Play or of RTCP.
Elsewhere ==
    /\ UNCHANGED mediaVars
    /\ \/ UNCHANGED stats
       \/ stats' = Bump("malformed")
       \/ stats' = Bump("packets")
    /\ \/ UNCHANGED seedVars
       \/ seed' \in Nat

NextCase ==
    \/ Elsewhere
    \/ \E pkt \in Packets : RecvTcp(pkt)
    \/ \E pkt \in Packets : RecvUdp(pkt)
    \/ ProcessForeign
    \/ ProcessObserve
    \/ ProcessSender
    \/ ProcessBaseline
    \/ ProcessDeliver

WireCase ==
    \/ ResyncOne
    \/ Relocked
    \/ alive' = FALSE /\ UNCHANGED <<resync, episode>>
    \/ UNCHANGED wireVars

\* Every step is one of these for the media.
LEMMA NextCases == [Next]_vars => NextCase /\ UNCHANGED cfg
  <1> SUFFICES ASSUME [Next]_vars PROVE NextCase /\ UNCHANGED cfg
    OBVIOUS
  <1> USE DEF NextCase, Elsewhere, mediaVars, ReaderFrame, RtcpFrame
  <1>1. CASE ReadGarbage
    BY <1>1 DEF ReadGarbage
  <1>2. CASE ReadUnbound
    BY <1>2 DEF ReadUnbound
  <1>3. CASE ReadMalformed
    BY <1>3 DEF ReadMalformed
  <1>4. CASE ReadMessage
    BY <1>4 DEF ReadMessage
  <1>5. CASE ReadDiscard
    BY <1>5 DEF ReadDiscard
  <1>6. CASE \E pkt \in Packets : RecvTcp(pkt) \/ RecvUdp(pkt)
    BY <1>6 DEF RecvTcp, RecvUdp
  <1>7. CASE ProcessForeign \/ ProcessObserve \/ ProcessSender \/ ProcessBaseline
             \/ ProcessDeliver
    BY <1>7 DEF ProcessForeign, ProcessObserve, ProcessSender, ProcessBaseline, ProcessDeliver
  <1>8. CASE \E t \in Seeds : StoreSeed(t)
    BY <1>8, TrackAssumption DEF StoreSeed
  <1>9. CASE \E c \in Compounds : ReadReport(c) \/ RtcpRecv(c)
    BY <1>9 DEF ReadReport, RtcpRecv
  <1>10. CASE RtcpLoad \/ RtcpStore \/ RtcpPublish
    BY <1>10 DEF RtcpLoad, RtcpStore, RtcpPublish
  <1>11. CASE UNCHANGED vars
    BY <1>11 DEF vars
  <1> QED
    BY <1>1, <1>2, <1>3, <1>4, <1>5, <1>6, <1>7, <1>8, <1>9, <1>10, <1>11 DEF Next

\* Every step is one of these for the framing.
LEMMA WireCases == [Next]_vars => WireCase
  <1> SUFFICES ASSUME [Next]_vars PROVE WireCase
    OBVIOUS
  <1> USE DEF WireCase, wireVars
  <1>1. CASE ReadGarbage \/ ReadUnbound \/ ReadMalformed \/ ReadMessage \/ ReadDiscard
    BY <1>1 DEF ReadGarbage, ReadUnbound, ReadMalformed, ReadMessage, ReadDiscard
  <1>2. CASE \E pkt \in Packets : RecvTcp(pkt) \/ RecvUdp(pkt)
    BY <1>2 DEF RecvTcp, RecvUdp
  <1>3. CASE ProcessForeign \/ ProcessObserve \/ ProcessSender \/ ProcessBaseline
    BY <1>3 DEF ProcessForeign, ProcessObserve, ProcessSender, ProcessBaseline
  <1>4. CASE ProcessDeliver
    BY <1>4 DEF ProcessDeliver
  <1>5. CASE \E t \in Seeds : StoreSeed(t)
    BY <1>5 DEF StoreSeed
  <1>6. CASE \E c \in Compounds : ReadReport(c) \/ RtcpRecv(c)
    BY <1>6 DEF ReadReport, RtcpRecv
  <1>7. CASE RtcpLoad \/ RtcpStore \/ RtcpPublish
    BY <1>7 DEF RtcpLoad, RtcpStore, RtcpPublish
  <1>8. CASE UNCHANGED vars
    BY <1>8 DEF vars
  <1> QED BY <1>1, <1>2, <1>3, <1>4, <1>5, <1>6, <1>7, <1>8 DEF Next

\* No more is discarded than the budget counts.
LEMMA WireStep ==
    ASSUME WireInv, WireCase
    PROVE  WireInv'
  <1>1. MaxResyncBytes \in Nat
    BY TrackAssumption
  <1>2. CASE ResyncOne
    <2>1. resync' = resync + 1 /\ episode' = episode + 1
      BY <1>2 DEF ResyncOne
    <2>2. alive' => resync' <= MaxResyncBytes
      BY <1>2, Zenon DEF ResyncOne
    <2> QED BY <2>1, <2>2 DEF WireInv, ResyncBounded
  <1>3. CASE Relocked
    BY <1>1, <1>3 DEF Relocked, WireInv, ResyncBounded
  <1>4. CASE alive' = FALSE /\ UNCHANGED <<resync, episode>>
    BY <1>4 DEF WireInv, ResyncBounded
  <1>5. CASE UNCHANGED wireVars
    BY <1>5 DEF wireVars, WireInv, ResyncBounded
  <1> QED BY <1>2, <1>3, <1>4, <1>5 DEF WireCase

-----------------------------------------------------------------------------
(* Packets.                                                                *)

\* What a packet carries.
LEMMA PacketFacts ==
    ASSUME NEW pkt \in Packets
    PROVE  /\ pkt.src \in Sources /\ pkt.src # "none"
           /\ pkt.pos \in Positions /\ pkt.pos \in Nat
           /\ pkt.pt \in cfg.types
  BY TrackAssumption, UnitType DEF Packets

\* The packet process has to take next.
LEMMA HeadFacts ==
    ASSUME QueueInv, pc # "recv"
    PROVE  /\ queue # <<>> /\ Head(queue) \in Packets
           /\ Tail(queue) \in Seq(Packets)
           /\ Head(queue).pt \in PayloadTypes
  <1>1. queue # <<>> /\ queue \in Seq(Packets)
    BY DEF QueueInv
  <1>2. Head(queue) \in Packets /\ Tail(queue) \in Seq(Packets)
    BY <1>1, HeadTailProperties
  <1>3. cfg \in Tracks
    BY TrackAssumption DEF QueueInv
  <1> QED BY <1>1, <1>2, <1>3, PacketFacts DEF Tracks

\* No step puts anything but packets into the queue and the ring.
LEMMA QueueStep ==
    ASSUME QueueInv, NextCase, UNCHANGED cfg
    PROVE  QueueInv'
  <1>0. Packets' = Packets
    BY DEF Packets
  <1> USE DEF QueueInv, Between
  <1>1. CASE Elsewhere
    BY <1>0, <1>1 DEF Elsewhere, mediaVars, ringVars
  <1>2. CASE \E pkt \in Packets : RecvTcp(pkt)
    <2> PICK pkt \in Packets : RecvTcp(pkt)
      BY <1>2
    <2>1. <<pkt>> \in Seq(Packets) /\ <<pkt>> # <<>>
      OBVIOUS
    <2> QED BY <1>0, <2>1 DEF RecvTcp, ringVars
  <1>3. CASE \E pkt \in Packets : RecvUdp(pkt)
    <2> PICK pkt \in Packets : RecvUdp(pkt)
      BY <1>3
    <2> DEFINE fresh == lastSSRC # pkt.src
               kept == IF fresh THEN {} ELSE rbuf
               old == IF fresh THEN InOrder(rbuf) ELSE <<>>
               nxt == IF fresh THEN pkt.pos ELSE nextPos
               r == Push(kept, nxt, pkt)
    <2>1. Slots(kept) /\ kept \cup {pkt} \subseteq Packets /\ old \in Seq(Packets)
      <3>1. Slots({})
        BY FS_EmptySet DEF Slots
      <3>2. InOrder(rbuf) \in Seq(rbuf)
        BY InOrderEnumerates
      <3>3. InOrder(rbuf) \in Seq(Packets) /\ <<>> \in Seq(Packets)
        BY <3>2, SeqMonotonic
      <3> QED BY <3>1, <3>3
    <2>2. queue' = old \o r.out /\ rbuf' = r.buf
          /\ pc' = IF queue' = <<>> THEN "recv" ELSE "process"
      BY DEF RecvUdp
    <2> HIDE DEF kept, old, nxt, fresh
    <2>3. r.buf \subseteq kept \cup {pkt} /\ Slots(r.buf) /\ r.out \in Seq(kept \cup {pkt})
      BY <2>1, PacketFacts, PushSound
    <2> HIDE DEF r
    <2>4. r.out \in Seq(Packets)
      BY <2>1, <2>3, SeqMonotonic
    <2>5. old \o r.out \in Seq(Packets)
      BY <2>1, <2>4, ConcatProperties
    <2> QED BY <1>0, <2>1, <2>2, <2>3, <2>5
  <1>4. CASE ProcessForeign
    BY <1>0, <1>4, HeadFacts DEF ProcessForeign, ringVars
  <1>5. CASE ProcessObserve
    BY <1>0, <1>5 DEF ProcessObserve, ringVars
  <1>6. CASE ProcessSender
    BY <1>0, <1>6 DEF ProcessSender, ringVars
  <1>7. CASE ProcessBaseline
    BY <1>0, <1>7 DEF ProcessBaseline, ringVars
  <1>8. CASE ProcessDeliver
    BY <1>0, <1>8, HeadFacts DEF ProcessDeliver, ringVars
  <1> QED BY <1>1, <1>2, <1>3, <1>4, <1>5, <1>6, <1>7, <1>8 DEF NextCase

\* What Observe says of the packet under way.
LEMMA ObserveFacts ==
    ASSUME ViewInv, NEW pkt \in Packets
    PROVE  LET u == Observe(stream, pkt)
           IN  /\ u \in [reset : BOOLEAN, dup : BOOLEAN, gap : Nat]
               /\ u.reset <=> (stream.ssrc # pkt.src /\ stream.ssrc # "none")
               /\ u.dup <=> (stream.ssrc = pkt.src /\ pkt.pos <= stream.high)
               /\ stream.ssrc = pkt.src /\ ~u.dup => pkt.pos = stream.high + 1 + u.gap
               /\ stream.ssrc # pkt.src => u.gap = 0
               /\ u.dup => u.gap = 0
  <1>1. stream.high \in Nat /\ pkt.pos \in Nat
    BY PacketFacts, UnitType DEF ViewInv
  <1>2. CASE stream.ssrc = pkt.src /\ pkt.pos > stream.high
    <2>1. Observe(stream, pkt) =
            [reset |-> FALSE, dup |-> FALSE, gap |-> pkt.pos - stream.high - 1]
      BY <1>1, <1>2 DEF Observe
    <2> QED BY <1>1, <1>2, <2>1
  <1>3. CASE stream.ssrc = pkt.src /\ ~(pkt.pos > stream.high)
    <2>1. Observe(stream, pkt) = [reset |-> FALSE, dup |-> TRUE, gap |-> 0]
      BY <1>1, <1>3 DEF Observe
    <2> QED BY <1>1, <1>3, <2>1
  <1>4. CASE stream.ssrc # pkt.src
    <2>1. CASE stream.ssrc = "none"
      <3>1. Observe(stream, pkt) = [reset |-> FALSE, dup |-> FALSE, gap |-> 0]
        BY <1>1, <1>4, <2>1 DEF Observe
      <3> QED BY <1>1, <1>4, <2>1, <3>1
    <2>2. CASE stream.ssrc # "none"
      <3>1. Observe(stream, pkt) = [reset |-> TRUE, dup |-> FALSE, gap |-> 0]
        BY <1>1, <1>4, <2>2 DEF Observe
      <3> QED BY <1>1, <1>4, <2>2, <3>1
    <2> QED BY <2>1, <2>2
  <1> QED BY <1>2, <1>3, <1>4

\* The result of a depacketizer has fragments and a unit of packets it was given.
LEMMA DepacketizeOf ==
    ASSUME NEW S, frag \in Seq(S), NEW pkt \in S
    PROVE  Depacketize(pkt).frag \in Seq(S) /\ Depacketize(pkt).unit \in Seq(S)
  <1> DEFINE d == Depacketize(pkt)
  <1>1. d \in {Bad, Complete(<<pkt>>), DepacketizeFlac(frag, pkt),
               DepacketizeAac(frag, pkt), DepacketizeMp3(frag, pkt)}
    BY DEF Depacketize
  <1> HIDE DEF d
  <1>2. {<<>>, <<pkt>>, Append(frag, pkt), Append(<<>>, pkt)} \subseteq Seq(S)
    <2>1. <<>> \in Seq(S) /\ <<pkt>> \in Seq(S)
      OBVIOUS
    <2> QED BY <2>1, AppendProperties
  <1>3. /\ d.frag \in {<<>>, <<pkt>>, Append(frag, pkt), Append(<<>>, pkt)}
        /\ d.unit \in {<<>>, <<pkt>>, Append(frag, pkt), Append(<<>>, pkt)}
    <2>1. CASE d = Bad \/ d = Complete(<<pkt>>)
      BY <2>1 DEF Bad, Complete
    <2>2. CASE d = DepacketizeFlac(frag, pkt)
      BY <2>2 DEF DepacketizeFlac, Complete, Buffer
    <2>3. CASE d = DepacketizeAac(frag, pkt)
      BY <2>3 DEF DepacketizeAac, Complete, Buffer, Bad
    <2>4. CASE d = DepacketizeMp3(frag, pkt)
      BY <2>4 DEF DepacketizeMp3, Complete, Buffer, Bad
    <2> QED BY <1>1, <2>1, <2>2, <2>3, <2>4
  <1> QED BY <1>2, <1>3 DEF d

\* The unit a packet completes ends with it.
LEMMA DepacketizeType ==
    ASSUME QueueInv, ViewInv, NEW pkt \in Packets
    PROVE  LET d == Depacketize(pkt)
           IN  /\ d.frag \in Seq(Packets) /\ d.unit \in Seq(Packets)
               /\ d.unit # <<>> => Last(d.unit) = pkt
  <1> DEFINE d == Depacketize(pkt)
  <1>1. d \in {Bad, Complete(<<pkt>>), DepacketizeFlac(frag, pkt),
               DepacketizeAac(frag, pkt), DepacketizeMp3(frag, pkt)}
    BY DEF Depacketize
  <1>2. frag \in Seq(Packets)
    BY DEF ViewInv
  <1> HIDE DEF d
  <1>3. d.unit # <<>> => Last(d.unit) = pkt
    BY <1>1, <1>2, CompletedByPacket
  <1>4. d.frag \in Seq(Packets) /\ d.unit \in Seq(Packets)
    BY <1>2, DepacketizeOf DEF d
  <1> QED BY <1>3, <1>4 DEF d

\* Counting does not touch the other counters.
LEMMA BumpFacts ==
    ASSUME ViewInv
    PROVE  /\ Bump("malformed") \in Counts /\ Bump("malformed").resets = stats.resets
           /\ Bump("packets") \in Counts /\ Bump("packets").resets = stats.resets
           /\ Bump("resets") \in Counts /\ Bump("resets").resets = stats.resets + 1
  <1>0. stats \in Counts
    BY DEF ViewInv
  <1>1. Bump("malformed") \in Counts /\ Bump("malformed").resets = stats.resets
    BY <1>0 DEF Bump, Counts
  <1>2. Bump("packets") \in Counts /\ Bump("packets").resets = stats.resets
    BY <1>0 DEF Bump, Counts
  <1>3. Bump("resets") \in Counts /\ Bump("resets").resets = stats.resets + 1
    BY <1>0 DEF Bump, Counts
  <1> QED BY <1>1, <1>2, <1>3

\* Two counters change and the count of resets does not.
LEMMA TwoCounts ==
    ASSUME NEW c \in Counts, NEW a \in Nat, NEW b \in Nat
    PROVE  LET e == [c EXCEPT !.packets = a, !.malformed = b]
           IN  e \in Counts /\ e.resets = c.resets
  BY DEF Counts

\* Late and delivered packets leave the count of resets alone.
LEMMA CountFacts ==
    ASSUME ViewInv, NEW late \in {0, 1}, NEW bad
    PROVE  LET dropped == [stats EXCEPT !.drops = @ + late]
               taken == [stats EXCEPT !.packets = @ + 1,
                                      !.malformed = IF bad THEN @ + 1 ELSE @]
           IN  /\ dropped \in Counts /\ dropped.resets = stats.resets
               /\ taken \in Counts /\ taken.resets = stats.resets
  <1> DEFINE a == stats.packets + 1
             b == IF bad THEN stats.malformed + 1 ELSE stats.malformed
  <1>1. stats \in Counts
    BY DEF ViewInv
  <1>2. a \in Nat /\ b \in Nat
    BY <1>1 DEF Counts
  <1>3. [stats EXCEPT !.drops = @ + late] \in Counts
        /\ [stats EXCEPT !.drops = @ + late].resets = stats.resets
    BY <1>1 DEF Counts
  <1> HIDE DEF a, b
  <1>4. LET e == [stats EXCEPT !.packets = a, !.malformed = b]
        IN  e \in Counts /\ e.resets = stats.resets
    BY <1>1, <1>2, TwoCounts
  <1> QED BY <1>3, <1>4 DEF a, b

\* Every step keeps the types of the view and of the fragments.
LEMMA ViewStep ==
    ASSUME QueueInv, ViewInv, NextCase, UNCHANGED cfg
    PROVE  ViewInv'
  <1>0. Packets' = Packets
    BY DEF Packets
  <1> USE DEF Between
  <1>1. CASE Elsewhere
    <2>1. stats' \in Counts
      BY <1>1, BumpFacts DEF Elsewhere, ViewInv
    <2> QED BY <1>0, <1>1, <2>1 DEF Elsewhere, mediaVars, codecVars, viewVars, ViewInv
  <1>2. CASE \E pkt \in Packets : RecvTcp(pkt)
    BY <1>0, <1>2 DEF RecvTcp, codecVars, viewVars, ViewInv
  <1>3. CASE \E pkt \in Packets : RecvUdp(pkt)
    <2> PICK pkt \in Packets : RecvUdp(pkt)
      BY <1>3
    <2>1. PICK late : late \in {0, 1} /\ stats' = [stats EXCEPT !.drops = @ + late]
      <3>1. \A b, n : Push(b, n, pkt).late \in {0, 1}
        BY DEF Push
      <3> QED BY <3>1 DEF RecvUdp
    <2>2. pc' \in {"recv", "process"} /\ UNCHANGED <<codecVars, viewVars>>
      BY DEF RecvUdp
    <2>3. stats' \in Counts
      BY <2>1, CountFacts
    <2> QED BY <1>0, <2>2, <2>3 DEF codecVars, viewVars, ViewInv
  <1>4. CASE ProcessForeign
    <2>1. stats' \in Counts
      BY <1>4, BumpFacts DEF ProcessForeign
    <2> QED BY <1>0, <1>4, <2>1 DEF ProcessForeign, codecVars, viewVars, ViewInv
  <1>5. CASE ProcessObserve
    <2> DEFINE pkt == Head(queue)
    <2>1. pkt \in Packets
      BY <1>5, HeadFacts DEF ProcessObserve
    <2> HIDE DEF pkt
    <2>2. /\ up' = Observe(stream, pkt) /\ queue' = queue
          /\ stats' \in {stats, Bump("resets")}
          /\ stream' = IF up'.dup THEN stream ELSE [ssrc |-> pkt.src, high |-> pkt.pos]
          /\ frag' \in {<<>>, frag} /\ unit' = <<>>
      BY <1>5 DEF ProcessObserve, Forget, pkt
    <2>3. /\ up' \in [reset : BOOLEAN, dup : BOOLEAN, gap : Nat]
          /\ up'.dup => stream.ssrc = pkt.src
      BY <2>1, <2>2, ObserveFacts
    <2>4. stats' \in Counts
      BY <2>2, BumpFacts DEF ViewInv
    <2>5. /\ stream' \in [ssrc : Sources \cup {"none"}, high : Positions]
          /\ stream'.ssrc = pkt.src
      BY <2>1, <2>2, <2>3, PacketFacts DEF ViewInv
    <2>6. frag' \in Seq(Packets) /\ unit' \in Seq(Packets)
      BY <2>2, EmptySeq DEF ViewInv
    <2> QED BY <1>0, <2>2, <2>3, <2>4, <2>5, <2>6 DEF ViewInv, pkt
  <1>6. CASE ProcessSender
    BY <1>0, <1>6 DEF ProcessSender, codecVars, viewVars, ViewInv
  <1>7. CASE ProcessBaseline
    BY <1>0, <1>7 DEF ProcessBaseline, codecVars, viewVars, ViewInv
  <1>8. CASE ProcessDeliver
    <2> DEFINE pkt == Head(queue)
    <2>1. pkt \in Packets
      BY <1>8, HeadFacts DEF ProcessDeliver
    <2>2. PICK d : /\ d = Depacketize(pkt)
                   /\ frag' = d.frag /\ unit' \in {<<>>, unit, d.unit}
                   /\ stats' = [stats EXCEPT !.packets = @ + 1,
                                    !.malformed = IF d.bad THEN @ + 1 ELSE @]
      BY <1>8 DEF ProcessDeliver, Deliver
    <2>3. d.frag \in Seq(Packets) /\ d.unit \in Seq(Packets)
      BY <2>1, <2>2, DepacketizeType
    <2>4. pc' \in {"recv", "process"} /\ UNCHANGED viewVars
      BY <1>8 DEF ProcessDeliver
    <2>5. stats' \in Counts
      BY <2>2, CountFacts
    <2>6. frag' \in Seq(Packets) /\ unit' \in Seq(Packets)
      BY <2>2, <2>3, EmptySeq DEF ViewInv
    <2> QED BY <1>0, <2>4, <2>5, <2>6 DEF viewVars, ViewInv
  <1> QED BY <1>1, <1>2, <1>3, <1>4, <1>5, <1>6, <1>7, <1>8 DEF NextCase

\* What process hands to OnFrame.
LEMMA DeliveredUnit ==
    ASSUME QueueInv, ViewInv, ProcessDeliver
    PROVE  unit' # <<>> => Last(unit') = Head(queue)
  <1> DEFINE pkt == Head(queue)
  <1>1. pkt \in Packets /\ unit = <<>>
    BY HeadFacts DEF ProcessDeliver, ViewInv, Between
  <1>2. PICK d : d = Depacketize(pkt) /\ unit' \in {<<>>, unit, d.unit}
    BY DEF ProcessDeliver, Deliver
  <1>3. d.unit # <<>> => Last(d.unit) = pkt
    BY <1>1, <1>2, DepacketizeType
  <1> QED BY <1>1, <1>2, <1>3

-----------------------------------------------------------------------------
(* The payload type.                                                       *)

SettledInv ==
    cfg.sdpPT = Declared =>
        /\ settled => pt.type = Declared
        /\ pt.type \notin {"none", Declared} => pt.type \in runs
        /\ pt.type = "none" =>
              /\ streak.n = pt.run
              /\ streak.type = IF pt.run = 0 THEN "none" ELSE pt.candidate

PtTypes == [type : PayloadTypes \cup {"none"}, candidate : PayloadTypes \cup {"none"},
            run : Nat]

\* acceptPayloadType keeps what it knows of the types that came.
LEMMA ClassifyStep ==
    ASSUME QueueInv, TypeInv, pc = "process", Classify, UNCHANGED cfg
    PROVE  /\ pt' \in PtTypes /\ streak'.n \in Nat /\ SettledInv'
           /\ cfg.sdpPT = Declared /\ Head(queue).pt = Declared => pt'.type = Declared
           /\ runs \subseteq runs'
           /\ settled' => settled \/ Head(queue).pt = Declared
  <1> DEFINE t == Head(queue).pt
  <1>1. /\ t \in PayloadTypes /\ t # "none" /\ t # "unknown"
        /\ Declared \in PayloadTypes /\ Declared # "none" /\ Declared # "unknown"
        /\ AdoptThreshold \in Nat \ {0}
    BY HeadFacts, TrackAssumption
  <1>2. cfg.sdpPT \in {Declared, "unknown"}
    BY TrackAssumption DEF QueueInv, Tracks
  <1>3. pt \in PtTypes /\ streak.n \in Nat /\ SettledInv
    BY DEF TypeInv, PtTypes, SettledInv
  <1>4. /\ pt' = AcceptPayloadType(t)
        /\ settled' = (settled \/ t = Declared)
        /\ streak' = [type |-> t, n |-> IF streak.type = t THEN streak.n + 1 ELSE 1]
        /\ runs' = IF streak'.n >= AdoptThreshold THEN runs \cup {streak'.type} ELSE runs
    BY DEF Classify
  <1>5. settled' <=> (settled \/ t = Declared)
    BY <1>4
  <1> HIDE DEF t
  <1>6. streak'.n \in Nat /\ streak'.type = t /\ runs \subseteq runs'
    BY <1>3, <1>4
  <1>7. CASE cfg.sdpPT = "unknown"
    <2>1. pt' = [pt EXCEPT !.type = IF @ = "none" THEN t ELSE @]
      BY <1>1, <1>4, <1>7 DEF AcceptPayloadType
    <2>2. pt' \in PtTypes
      BY <1>1, <1>3, <2>1 DEF PtTypes
    <2> QED BY <1>1, <1>5, <1>6, <1>7, <2>2 DEF SettledInv, t
  <1>8. CASE cfg.sdpPT = Declared /\ t = Declared
    <2>1. pt' = [pt EXCEPT !.type = t, !.run = 0]
      BY <1>1, <1>4, <1>8 DEF AcceptPayloadType
    <2>2. pt' \in PtTypes /\ pt'.type = Declared
      BY <1>1, <1>3, <1>8, <2>1 DEF PtTypes
    <2> QED BY <1>1, <1>5, <1>6, <2>2 DEF SettledInv, t
  <1>9. CASE cfg.sdpPT = Declared /\ t # Declared /\ pt.type # "none"
    <2>1. pt' = pt
      BY <1>1, <1>4, <1>9 DEF AcceptPayloadType
    <2> QED BY <1>1, <1>3, <1>5, <1>6, <1>9, <2>1 DEF SettledInv, t
  <1>10. CASE cfg.sdpPT = Declared /\ t # Declared /\ pt.type = "none"
    <2>1. pt' = [type |-> IF RunOf(t) < AdoptThreshold THEN "none" ELSE t,
                 candidate |-> t, run |-> RunOf(t)]
      BY <1>1, <1>4, <1>10 DEF AcceptPayloadType
    <2>2. RunOf(t) = streak'.n /\ RunOf(t) \in Nat \ {0}
      <3>1. /\ pt.run \in Nat /\ streak.n = pt.run
            /\ streak.type = IF pt.run = 0 THEN "none" ELSE pt.candidate
        BY <1>3, <1>10 DEF SettledInv, PtTypes
      <3> QED BY <1>1, <1>4, <3>1 DEF RunOf
    <2>3. ~settled
      BY <1>1, <1>3, <1>10 DEF SettledInv
    <2>4. /\ pt'.type = IF RunOf(t) < AdoptThreshold THEN "none" ELSE t
          /\ pt'.candidate = t /\ pt'.run = streak'.n
      BY <2>1, <2>2
    <2>5. pt' \in PtTypes
      BY <1>1, <2>1, <2>2 DEF PtTypes
    <2>6. pt'.type # "none" => pt'.type \in runs'
      BY <1>1, <1>4, <1>6, <2>2, <2>4
    <2>7. SettledInv'
      BY <1>1, <1>5, <1>6, <1>10, <2>2, <2>3, <2>4, <2>6 DEF SettledInv
    <2> QED BY <1>5, <1>6, <1>10, <2>5, <2>7 DEF t
  <1> QED BY <1>2, <1>7, <1>8, <1>9, <1>10

\* Every step keeps that, and a frame is of the type settled on.
LEMMA TypeStep ==
    ASSUME QueueInv, ViewInv, TypeInv, NextCase, UNCHANGED cfg
    PROVE  TypeInv'
  <1>1. CASE Elsewhere
    BY <1>1 DEF Elsewhere, mediaVars, typeVars, codecVars, TypeInv, NotCaptured
  <1>2. CASE \E pkt \in Packets : RecvTcp(pkt)
    BY <1>2 DEF RecvTcp, typeVars, codecVars, TypeInv, NotCaptured, Between
  <1>3. CASE \E pkt \in Packets : RecvUdp(pkt)
    <2>1. pc' \in {"recv", "process"} /\ UNCHANGED <<typeVars, codecVars>>
      BY <1>3 DEF RecvUdp
    <2> QED BY <2>1 DEF typeVars, codecVars, TypeInv, NotCaptured, Between
  <1>4. CASE ProcessForeign
    <2>1. /\ pt' \in PtTypes /\ streak'.n \in Nat /\ SettledInv'
          /\ cfg.sdpPT = Declared /\ Head(queue).pt = Declared => pt'.type = Declared
          /\ runs \subseteq runs'
          /\ settled' => settled \/ Head(queue).pt = Declared
      BY <1>4, ClassifyStep DEF ProcessForeign
    <2>2. pc' \in {"recv", "process"} /\ unit' = unit /\ pt'.type # Head(queue).pt
      BY <1>4 DEF ProcessForeign, codecVars
    <2>3. NotCaptured'
      BY <2>1, <2>2 DEF TypeInv, NotCaptured
    <2> QED BY <2>1, <2>2, <2>3 DEF TypeInv, SettledInv, PtTypes, Between
  <1>5. CASE ProcessObserve
    <2>1. pt' \in PtTypes /\ streak'.n \in Nat /\ SettledInv'
      BY <1>5, ClassifyStep DEF ProcessObserve
    <2>2. unit' = <<>> /\ pt'.type = Head(queue').pt
      BY <1>5 DEF ProcessObserve
    <2> QED BY <2>1, <2>2 DEF TypeInv, SettledInv, PtTypes, NotCaptured
  <1>6. CASE ProcessSender
    BY <1>6 DEF ProcessSender, typeVars, codecVars, TypeInv, NotCaptured, Between
  <1>7. CASE ProcessBaseline
    BY <1>7 DEF ProcessBaseline, typeVars, codecVars, TypeInv, NotCaptured, Between
  <1>8. CASE ProcessDeliver
    <2>1. pc' \in {"recv", "process"} /\ UNCHANGED typeVars /\ pc = "deliver"
      BY <1>8 DEF ProcessDeliver
    <2>2. unit' # <<>> => Last(unit') = Head(queue)
      BY <1>8, DeliveredUnit
    <2>3. pt.type = Head(queue).pt /\ Head(queue).pt # "none"
      BY <2>1, HeadFacts, TrackAssumption DEF TypeInv, Between
    <2>4. NotCaptured'
      BY <2>1, <2>2, <2>3 DEF typeVars, TypeInv, NotCaptured
    <2> QED BY <2>1, <2>4 DEF typeVars, TypeInv, Between
  <1> QED BY <1>1, <1>2, <1>3, <1>4, <1>5, <1>6, <1>7, <1>8 DEF NextCase

-----------------------------------------------------------------------------
(* Presentation times.                                                     *)

\* The resets counted by a step other than Observe's.
LEMMA ResetsKept ==
    ASSUME ViewInv, NextCase, ~ProcessObserve
    PROVE  stats'.resets = stats.resets
  <1>1. CASE Elsewhere
    BY <1>1, BumpFacts DEF Elsewhere
  <1>2. CASE \E pkt \in Packets : RecvTcp(pkt)
    BY <1>2 DEF RecvTcp
  <1>3. CASE \E pkt \in Packets : RecvUdp(pkt)
    <2> PICK pkt \in Packets : RecvUdp(pkt)
      BY <1>3
    <2>1. PICK late : late \in {0, 1} /\ stats' = [stats EXCEPT !.drops = @ + late]
      <3>1. \A b, n : Push(b, n, pkt).late \in {0, 1}
        BY DEF Push
      <3> QED BY <3>1 DEF RecvUdp
    <2> QED BY <2>1, CountFacts
  <1>4. CASE ProcessForeign
    BY <1>4, BumpFacts DEF ProcessForeign
  <1>5. CASE ProcessSender \/ ProcessBaseline
    BY <1>5 DEF ProcessSender, ProcessBaseline
  <1>6. CASE ProcessDeliver
    <2>1. PICK bad : stats' = [stats EXCEPT !.packets = @ + 1,
                                    !.malformed = IF bad THEN @ + 1 ELSE @]
      BY <1>6 DEF ProcessDeliver
    <2> QED BY <2>1, CountFacts
  <1> QED BY <1>1, <1>2, <1>3, <1>4, <1>5, <1>6 DEF NextCase

\* Every step keeps the baseline that of the current source.
LEMMA BaseStep ==
    ASSUME QueueInv, ViewInv, BaseInv, NextCase, UNCHANGED cfg
    PROVE  BaseInv'
  <1>0. stats.resets \in Nat /\ pc \in {"recv", "process"} \cup Between
    BY DEF ViewInv, Counts, QueueInv
  <1>1. CASE Elsewhere
    <2>1. stats'.resets = stats.resets
      BY <1>1, BumpFacts DEF Elsewhere
    <2>2. seed' \in Nat
      BY <1>1 DEF Elsewhere, seedVars, BaseInv
    <2> QED BY <1>1, <2>1, <2>2 DEF Elsewhere, mediaVars, codecVars, baseVars, viewVars,
                                    BaseInv, PtsRestarts
  <1>2. CASE \E pkt \in Packets : RecvTcp(pkt)
    <2>1. /\ pc = "recv" /\ pc' = "process"
          /\ UNCHANGED <<codecVars, baseVars, viewVars, seedVars, stats>>
      BY <1>2 DEF RecvTcp, ReadUnit
    <2> QED BY <2>1 DEF codecVars, baseVars, viewVars, seedVars, BaseInv, PtsRestarts
  <1>3. CASE \E pkt \in Packets : RecvUdp(pkt)
    <2>1. /\ pc = "recv" /\ pc' \in {"recv", "process"}
          /\ UNCHANGED <<codecVars, baseVars, viewVars, seedVars>>
      BY <1>3 DEF RecvUdp, ReadUnit
    <2>2. stats'.resets = stats.resets
      BY <1>3, <2>1, ResetsKept DEF NextCase, ProcessObserve
    <2> QED BY <2>1, <2>2 DEF codecVars, baseVars, viewVars, seedVars, BaseInv, PtsRestarts
  <1>4. CASE ProcessForeign
    <2>1. /\ pc = "process" /\ pc' \in {"recv", "process"}
          /\ UNCHANGED <<codecVars, baseVars, viewVars, seedVars>>
      BY <1>4 DEF ProcessForeign
    <2>2. stats'.resets = stats.resets
      BY <1>4, BumpFacts DEF ProcessForeign
    <2> QED BY <2>1, <2>2 DEF codecVars, baseVars, viewVars, seedVars, BaseInv, PtsRestarts
  <1>5. CASE ProcessObserve
    <2> DEFINE pkt == Head(queue)
               u == Observe(stream, pkt)
    <2>1. pkt \in Packets /\ pc = "process"
      BY <1>5, HeadFacts DEF ProcessObserve
    <2>2. /\ u.reset <=> (stream.ssrc # pkt.src /\ stream.ssrc # "none")
          /\ u.dup => stream.ssrc = pkt.src
      BY <2>1, ObserveFacts
    <2>3. /\ baseSet' = (baseSet /\ ~u.reset)
          /\ stats' = IF u.reset THEN Bump("resets") ELSE stats
          /\ stream' = IF u.dup THEN stream ELSE [ssrc |-> pkt.src, high |-> pkt.pos]
          /\ origin' = IF stream.ssrc # pkt.src THEN pkt.pos ELSE origin
          /\ pc' = IF baseSet' THEN "deliver" ELSE "sender"
          /\ unit' = <<>> /\ UNCHANGED <<baseTS, baselineFixed, seed, queue>>
      BY <1>5 DEF ProcessObserve, seedVars
    <2>4. pkt.src # "none" /\ pkt.pos \in Positions
      BY <2>1, PacketFacts
    <2> HIDE DEF u
    <2>5. stats'.resets = IF u.reset THEN stats.resets + 1 ELSE stats.resets
      BY <2>3, BumpFacts
    <2>6. stream'.ssrc = pkt.src
      BY <2>2, <2>3
    <2>7. PtsRestarts' /\ baseTS' \in Nat /\ seed' \in Nat /\ origin' \in Positions
      BY <2>3, <2>4 DEF PtsRestarts, BaseInv
    <2>8. CASE stream.ssrc = pkt.src
      <3>1. ~u.reset /\ origin' = origin /\ stream.ssrc # "none" /\ baseSet
        BY <2>1, <2>2, <2>3, <2>4, <2>8 DEF BaseInv
      <3>2. baseSet' /\ pc' = "deliver"
        BY <2>3, <3>1
      <3> QED BY <2>1, <2>3, <2>4, <2>5, <2>6, <2>7, <3>1, <3>2 DEF BaseInv
    <2>9. CASE stream.ssrc # pkt.src /\ stream.ssrc # "none"
      <3>1. u.reset /\ origin' = pkt.pos /\ baselineFixed
        BY <2>1, <2>2, <2>3, <2>9 DEF BaseInv
      <3>2. ~baseSet' /\ pc' = "sender"
        BY <2>3, <3>1
      <3> QED BY <2>3, <2>4, <2>6, <2>7, <3>1, <3>2 DEF BaseInv
    <2>10. CASE stream.ssrc = "none"
      <3>1. ~u.reset /\ origin' = pkt.pos /\ stats'.resets = 0 /\ pc' = "sender"
        BY <2>2, <2>3, <2>4, <2>5, <2>10 DEF BaseInv
      <3> QED BY <2>3, <2>4, <2>6, <2>7, <3>1 DEF BaseInv
    <2> QED BY <2>8, <2>9, <2>10
  <1>6. CASE ProcessSender
    <2>1. /\ pc = "sender" /\ pc' = "baseline"
          /\ UNCHANGED <<codecVars, baseVars, viewVars, seedVars, stats, queue>>
      BY <1>6 DEF ProcessSender
    <2> QED BY <2>1 DEF codecVars, baseVars, viewVars, seedVars, BaseInv, PtsRestarts
  <1>7. CASE ProcessBaseline
    <2> DEFINE pkt == Head(queue)
    <2>1. /\ pc = "baseline" /\ pc' = "deliver" /\ baseSet' /\ baselineFixed'
          /\ baseTS' = SeededOrigin(UnitOf(pkt.pos))
          /\ UNCHANGED <<codecVars, viewVars, seedVars, stats, queue>>
      BY <1>7 DEF ProcessBaseline
    <2>2. UnitOf(pkt.pos) \in Nat
      BY <2>1, HeadFacts, PacketFacts, UnitType
    <2>3. baseTS' \in Nat /\ (baselineFixed => baseTS' = UnitOf(pkt.pos))
      BY <2>1, <2>2 DEF SeededOrigin, BaseInv
    <2>4. origin = pkt.pos /\ (stats.resets > 0 => baselineFixed)
      BY <2>1 DEF BaseInv
    <2>5. stream.ssrc # "none"
      BY <2>1, HeadFacts, PacketFacts DEF ViewInv, Between
    <2> QED BY <2>1, <2>3, <2>4, <2>5 DEF codecVars, viewVars, seedVars, BaseInv, PtsRestarts
  <1>8. CASE ProcessDeliver
    <2> DEFINE pkt == Head(queue)
    <2>1. /\ pc = "deliver" /\ pc' \in {"recv", "process"} /\ pts' = PtsOf(UnitOf(pkt.pos))
          /\ UNCHANGED <<baseVars, viewVars, seedVars>>
      BY <1>8 DEF ProcessDeliver
    <2>2. stats'.resets = stats.resets
      BY <1>8, <2>1, ResetsKept DEF NextCase, ProcessObserve
    <2>3. unit' # <<>> => Last(unit') = pkt
      BY <1>8, DeliveredUnit
    <2>4. stats.resets > 0 => baseTS = UnitOf(origin)
      BY <2>1 DEF BaseInv
    <2>5. PtsRestarts'
      BY <2>1, <2>2, <2>3, <2>4 DEF viewVars, PtsRestarts, PtsOf
    <2> QED BY <2>1, <2>2, <2>5 DEF baseVars, viewVars, seedVars, BaseInv
  <1> QED BY <1>1, <1>2, <1>3, <1>4, <1>5, <1>6, <1>7, <1>8 DEF NextCase

-----------------------------------------------------------------------------
(* Losses.                                                                 *)

\* Every step keeps the losses counted.
LEMMA LossStep ==
    ASSUME QueueInv, ViewInv, BaseInv, LossInv, NextCase, UNCHANGED cfg
    PROVE  LossInv'
  <1> USE DEF Between
  <1>0. pc \in {"recv", "process"} \cup Between
    BY DEF QueueInv
  <1>1. CASE /\ UNCHANGED <<pendingGap, reported, viewVars>>
             /\ pc \in Between <=> pc' \in Between
    BY <1>1 DEF viewVars, LossInv
  <1>2. CASE ProcessObserve
    <2> DEFINE pkt == Head(queue)
               u == Observe(stream, pkt)
    <2>1. pkt \in Packets /\ pc = "process"
      BY <1>2, HeadFacts DEF ProcessObserve
    <2>2. /\ u.reset <=> (stream.ssrc # pkt.src /\ stream.ssrc # "none")
          /\ u.dup <=> (stream.ssrc = pkt.src /\ pkt.pos <= stream.high)
          /\ stream.ssrc = pkt.src /\ ~u.dup => pkt.pos = stream.high + 1 + u.gap
          /\ stream.ssrc # pkt.src => u.gap = 0
          /\ u.dup => u.gap = 0
          /\ u.gap \in Nat
      BY <2>1, ObserveFacts
    <2>3. /\ up' = u
          /\ pendingGap' = IF u.reset THEN 0 ELSE pendingGap
          /\ reported' = IF u.reset THEN 0 ELSE reported
          /\ stream' = IF u.dup THEN stream ELSE [ssrc |-> pkt.src, high |-> pkt.pos]
          /\ seen' = IF stream.ssrc # pkt.src THEN 1 ELSE IF u.dup THEN seen ELSE seen + 1
          /\ origin' = IF stream.ssrc # pkt.src THEN pkt.pos ELSE origin
          /\ pc' \in Between
      BY <1>2 DEF ProcessObserve, Forget
    <2>4. /\ pkt.src # "none" /\ pkt.pos \in Nat /\ stream.high \in Nat /\ origin \in Nat
          /\ pendingGap \in Nat /\ reported \in Nat /\ seen \in Nat
      BY <2>1, PacketFacts, UnitType DEF ViewInv, BaseInv, LossInv
    <2> HIDE DEF u, pkt
    <2>5. pendingGap' \in Nat /\ reported' \in Nat /\ seen' \in Nat
          /\ stream'.ssrc = pkt.src
      BY <2>2, <2>3, <2>4
    <2>6. ASSUME cfg.onFrame
          PROVE  reported' + pendingGap' + seen' + up'.gap = stream'.high - origin' + 1
      <3>1. CASE stream.ssrc = pkt.src
        <4>1. reported + pendingGap + seen = stream.high - origin + 1
          BY <2>1, <2>4, <2>6, <3>1 DEF LossInv
        <4>2. ~u.reset /\ reported' = reported /\ pendingGap' = pendingGap
              /\ origin' = origin
          BY <2>2, <2>3, <3>1
        <4>3. CASE u.dup
          <5>1. seen' = seen /\ stream' = stream /\ up'.gap = 0
            BY <2>2, <2>3, <3>1, <4>3
          <5> QED BY <2>4, <4>1, <4>2, <5>1
        <4>4. CASE ~u.dup
          <5>1. seen' = seen + 1 /\ stream'.high = stream.high + 1 + up'.gap
                /\ up'.gap \in Nat
            BY <2>2, <2>3, <3>1, <4>4
          <5> QED BY <2>4, <4>1, <4>2, <5>1
        <4> QED BY <4>3, <4>4
      <3>2. CASE stream.ssrc # pkt.src
        <4>1. reported' = 0 /\ pendingGap' = 0
          BY <2>2, <2>3, <3>2 DEF LossInv
        <4>2. ~u.dup /\ seen' = 1 /\ stream'.high = pkt.pos /\ origin' = pkt.pos /\ up'.gap = 0
          BY <2>2, <2>3, <3>2
        <4> QED BY <2>4, <4>1, <4>2
      <3> QED BY <3>1, <3>2
    <2> QED BY <2>3, <2>4, <2>5, <2>6 DEF LossInv
  <1>3. CASE ProcessDeliver
    <2> DEFINE pkt == Head(queue)
               pending == pendingGap + up.gap
    <2>1. pc = "deliver" /\ pc' \in {"recv", "process"} /\ UNCHANGED viewVars
      BY <1>3 DEF ProcessDeliver
    <2>2. /\ pendingGap \in Nat /\ reported \in Nat /\ up.gap \in Nat /\ seen \in Nat
          /\ stream.ssrc # "none"
      BY <2>1, HeadFacts, PacketFacts DEF ViewInv, LossInv
    <2>3. \/ UNCHANGED <<pendingGap, reported>> /\ ~cfg.onFrame
          \/ pendingGap' = pending /\ reported' = reported + 0 + 0
          \/ pendingGap' = 0 /\ reported' = reported + pending + 0
      BY <1>3 DEF ProcessDeliver, Deliver, Frames, Gap
    <2>4. CASE UNCHANGED <<pendingGap, reported>> /\ ~cfg.onFrame
      BY <2>1, <2>2, <2>4 DEF viewVars, LossInv
    <2>5. CASE \/ pendingGap' = pending /\ reported' = reported + 0 + 0
               \/ pendingGap' = 0 /\ reported' = reported + pending + 0
      <3>1. reported' + pendingGap' = reported + pendingGap + up.gap
            /\ pendingGap' \in Nat /\ reported' \in Nat
        BY <2>2, <2>5
      <3>2. ASSUME cfg.onFrame
            PROVE  reported' + pendingGap' + seen = stream.high - origin + 1
        <4>1. reported + pendingGap + seen + up.gap = stream.high - origin + 1
          BY <2>1, <2>2, <3>2 DEF LossInv
        <4> QED BY <2>2, <3>1, <4>1
      <3>3. stream.high \in Int /\ origin \in Int
        <4>1. stream.high \in Positions /\ origin \in Positions
          BY DEF ViewInv, BaseInv
        <4> QED BY <4>1, MaxPosType DEF Positions
      <3> QED BY <2>1, <2>2, <3>1, <3>2, <3>3 DEF viewVars, LossInv
    <2> QED BY <2>3, <2>4, <2>5
  <1>4. CASE Elsewhere
    BY <1>1, <1>4 DEF Elsewhere, mediaVars, codecVars
  <1>5. CASE \E pkt \in Packets : RecvTcp(pkt)
    BY <1>1, <1>5 DEF RecvTcp, ReadUnit, codecVars
  <1>6. CASE \E pkt \in Packets : RecvUdp(pkt)
    BY <1>1, <1>6 DEF RecvUdp, ReadUnit, codecVars
  <1>7. CASE ProcessForeign
    BY <1>1, <1>7 DEF ProcessForeign, codecVars
  <1>8. CASE ProcessSender \/ ProcessBaseline
    BY <1>1, <1>8 DEF ProcessSender, ProcessBaseline, codecVars
  <1> QED BY <1>2, <1>3, <1>4, <1>5, <1>6, <1>7, <1>8 DEF NextCase

-----------------------------------------------------------------------------
(* Configs.                                                                *)

\* Every step keeps the consumer informed.
LEMMA CodecStep ==
    ASSUME QueueInv, ViewInv, CodecInv, NextCase, UNCHANGED cfg
    PROVE  CodecInv'
  <1> SUFFICES ASSUME cfg.codec = "latm", cfg.latm # "seeded"
               PROVE  CodecInv'
    BY DEF CodecInv
  <1>0. /\ latmASC # "none" => told = latmASC
        /\ cfg.latm = "known" => latm = SdpConfig /\ latmASC = SdpConfig /\ told = SdpConfig
        /\ CodecTold
    BY DEF CodecInv
  <1>1. CASE UNCHANGED codecVars
    BY <1>0, <1>1 DEF codecVars, CodecInv, CodecTold
  <1>2. CASE ProcessObserve
    <2>1. PICK u : Forget(u) /\ unit' = <<>> /\ told' = told
      BY <1>2 DEF ProcessObserve
    <2>2. CASE u.reset /\ cfg.latm # "known"
      <3>1. latm' = "none" /\ latmASC' = "none"
        BY <2>1, <2>2 DEF Forget, KnownConfig
      <3> QED BY <2>1, <2>2, <3>1 DEF CodecInv, CodecTold
    <2>3. CASE u.reset /\ cfg.latm = "known"
      <3>1. latm' = latm /\ latmASC' = latm
        BY <2>1, <2>3 DEF Forget
      <3> QED BY <1>0, <2>1, <2>3, <3>1 DEF CodecInv, CodecTold
    <2>4. CASE ~u.reset
      <3>1. latm' = latm /\ latmASC' = latmASC
        BY <2>1, <2>4 DEF Forget
      <3> QED BY <1>0, <2>1, <3>1 DEF CodecInv, CodecTold
    <2> QED BY <2>2, <2>3, <2>4
  <1>3. CASE ProcessDeliver
    <2> DEFINE pkt == Head(queue)
    <2>1. PICK d : /\ d = Depacketize(pkt) /\ Announce(d)
                   /\ latm' = LatmConfig(pkt)
                   /\ unit' \in {<<>>, unit, d.unit}
      BY <1>3 DEF ProcessDeliver, Deliver
    <2>2. pkt \in Packets /\ unit = <<>>
      BY <1>3, HeadFacts DEF ProcessDeliver, ViewInv, Between
    <2>3. \/ d.bad /\ d.unit = <<>>
          \/ ~d.bad /\ LatmConfig(pkt) # "none"
      BY <2>1 DEF Depacketize, Bad, Complete
    <2>4. cfg.latm = "known" => latm' = SdpConfig
      <3>1. cfg.latm = "known" => pkt.conf = "same"
        BY <2>2 DEF Packets
      <3> QED BY <1>0, <2>1, <3>1 DEF LatmConfig
    <2>5. CASE d.bad /\ d.unit = <<>>
      <3>1. unit' = <<>> /\ latmASC' = latmASC /\ told' = told
        BY <2>1, <2>2, <2>5 DEF Announce
      <3> QED BY <1>0, <2>4, <3>1 DEF CodecInv, CodecTold
    <2>6. CASE ~d.bad /\ LatmConfig(pkt) # "none"
      <3>1. latmASC' = latm' /\ latm' # "none"
            /\ told' = IF latmASC' # latmASC THEN latmASC' ELSE told
        BY <2>1, <2>6 DEF Announce
      <3>2. told' = latm'
        BY <1>0, <3>1
      <3> QED BY <2>4, <3>1, <3>2 DEF CodecInv, CodecTold
    <2> QED BY <2>3, <2>5, <2>6
  <1>4. CASE Elsewhere
    BY <1>1, <1>4 DEF Elsewhere, mediaVars
  <1>5. CASE \E pkt \in Packets : RecvTcp(pkt)
    BY <1>1, <1>5 DEF RecvTcp
  <1>6. CASE \E pkt \in Packets : RecvUdp(pkt)
    BY <1>1, <1>6 DEF RecvUdp
  <1>7. CASE ProcessForeign
    BY <1>1, <1>7 DEF ProcessForeign
  <1>8. CASE ProcessSender \/ ProcessBaseline
    BY <1>1, <1>8 DEF ProcessSender, ProcessBaseline
  <1> QED BY <1>2, <1>3, <1>4, <1>5, <1>6, <1>7, <1>8 DEF NextCase

-----------------------------------------------------------------------------
(* Order.  The resequencer hands process the packets of a source in order, *)
(* and process observes the first packet of every source, unless packets   *)
(* of undeclared types come under SSRCs of their own: those flush and      *)
(* reset the resequencer and are then dropped unobserved.  A TCP peer that *)
(* does not resend keeps the order itself (InSequence).                    *)

\* The packets Observe has not seen.
Pending == {i \in 1 .. Len(queue) : pc = "process" \/ i > 1}

RingInv ==
    /\ nextPos \in 0 .. MaxPos + 1
    /\ \A b \in rbuf : b.src = lastSSRC /\ nextPos <= b.pos
    /\ lastSSRC = "none" => queue = <<>> /\ stream.ssrc = "none"
    /\ stream.ssrc = lastSSRC /\ lastSSRC # "none" => stream.high < nextPos
    /\ lastSSRC # "none" =>
          \/ stream.ssrc = lastSSRC /\ \A i \in Pending : queue[i].src = lastSSRC
          \/ \E j \in Pending : queue[j].src = lastSSRC /\ queue[j].pt = Declared
    /\ \A i \in 1 .. Len(queue) : queue[i].src = lastSSRC =>
          /\ queue[i].pos < nextPos
          /\ \A j \in i .. Len(queue) : queue[j].src = lastSSRC
    /\ cfg.sdpPT = "unknown" =>
          /\ pt.type \in {"none", Declared}
          /\ pt.type = "none" /\ lastSSRC # "none" =>
                pc = "process" /\ Head(queue).pt = Declared

OrderInv ==
    InSequence =>
        /\ \A i, j \in 1 .. Len(queue) :
              i < j /\ queue[i].src = queue[j].src => queue[i].pos < queue[j].pos
        /\ \A i \in Pending : queue[i].src = stream.ssrc => queue[i].pos > stream.high
        /\ cfg.udp => RingInv

Fragmenting == cfg.codec \in {"aac", "flac", "mp3"}

\* What waits for its marker is of the source observed last and, in MP3, in its
\* place.  In sequence it is a run of fragments up to the packet observed last,
\* or up to the one before it while that one is under way.
FragInv ==
    /\ NoSplice
    /\ \A i \in 1 .. Len(frag) : frag[i].src = stream.ssrc
    /\ cfg.codec = "mp3" => Placed(frag, stream.ssrc)
    /\ InSequence =>
          /\ pc \notin Between => Run(frag, stream.ssrc, stream.high)
          /\ pc \in Between =>
                /\ stream.high = Head(queue).pos
                /\ frag # <<>> => stream.high >= 1 /\ Run(frag, stream.ssrc, stream.high - 1)

\* The queue without its head.
LEMMA TailFacts ==
    ASSUME QueueInv, queue # <<>>
    PROVE  /\ Len(queue) \in Nat \ {0} /\ Len(Tail(queue)) = Len(queue) - 1
           /\ Head(queue) = queue[1]
           /\ \A i \in 1 .. Len(queue) - 1 : Tail(queue)[i] = queue[i + 1]
           /\ \A i \in 1 .. Len(queue) : queue[i] \in Packets
  <1>1. queue \in Seq(Packets)
    BY DEF QueueInv
  <1>2. Len(queue) \in Nat /\ Len(queue) # 0
    BY <1>1, LenProperties, EmptySeq
  <1> QED BY <1>1, <1>2, HeadTailProperties, ElementOfSeq

\* While the ring keeps order a packet of the declared type is never dropped.
LEMMA DeclaredAccepted ==
    ASSUME QueueInv, TypeInv, RingInv, pc = "process", Classify, UNCHANGED cfg,
           lastSSRC # "none"
    PROVE  /\ Head(queue).pt = Declared => pt'.type = Declared
           /\ cfg.sdpPT = "unknown" => pt'.type = Declared
  <1>1. Head(queue).pt \in PayloadTypes /\ Declared # "none" /\ Declared # "unknown"
    BY HeadFacts, TrackAssumption
  <1>2. CASE cfg.sdpPT = Declared
    BY <1>1, <1>2, ClassifyStep
  <1>3. CASE cfg.sdpPT = "unknown"
    <2>1. /\ pt.type \in {"none", Declared}
          /\ pt.type = "none" => Head(queue).pt = Declared
      BY <1>3 DEF RingInv
    <2>2. pt' = [pt EXCEPT !.type = IF @ = "none" THEN Head(queue).pt ELSE @]
      BY <1>1, <1>3 DEF Classify, AcceptPayloadType
    <2>3. pt'.type = IF pt.type = "none" THEN Head(queue).pt ELSE pt.type
      BY <2>2 DEF TypeInv
    <2> QED BY <2>1, <2>3
  <1> QED BY <1>2, <1>3, TrackAssumption DEF QueueInv, Tracks

\* The packets after the head, once the head is done with.
LEMMA TailOrder ==
    ASSUME QueueInv, OrderInv, pc # "recv", queue' = Tail(queue), UNCHANGED <<cfg, stream>>,
           pc' = IF queue' = <<>> THEN "recv" ELSE "process"
    PROVE  InSequence =>
              /\ \A i, j \in 1 .. Len(queue') :
                    i < j /\ queue'[i].src = queue'[j].src => queue'[i].pos < queue'[j].pos
              /\ \A i \in Pending' : queue'[i].src = stream.ssrc => queue'[i].pos > stream.high
  <1> SUFFICES ASSUME InSequence
               PROVE  /\ \A i, j \in 1 .. Len(queue') :
                            i < j /\ queue'[i].src = queue'[j].src
                            => queue'[i].pos < queue'[j].pos
                      /\ \A i \in Pending' : queue'[i].src = stream.ssrc
                                             => queue'[i].pos > stream.high
    OBVIOUS
  <1>1. /\ Len(queue) \in Nat \ {0} /\ Len(queue') = Len(queue) - 1
        /\ \A i \in 1 .. Len(queue') : queue'[i] = queue[i + 1] /\ i + 1 \in 1 .. Len(queue)
                                       /\ i + 1 \in Pending
    BY HeadFacts, TailFacts DEF Pending
  <1>2. ASSUME NEW i \in 1 .. Len(queue'), NEW j \in 1 .. Len(queue'), i < j,
               queue'[i].src = queue'[j].src
        PROVE  queue'[i].pos < queue'[j].pos
    <2>1. i + 1 < j + 1
      BY <1>1, <1>2
    <2> QED BY <1>1, <1>2, <2>1 DEF OrderInv
  <1>3. \A i \in Pending' : i \in 1 .. Len(queue')
    BY DEF Pending
  <1> QED BY <1>1, <1>2, <1>3 DEF OrderInv

\* A packet done with, observed or of a foreign type, leaves the ring in order.
LEMMA TailRing ==
    ASSUME QueueInv, RingInv, pc # "recv", queue' = Tail(queue),
           UNCHANGED <<cfg, stream, ringVars>>,
           pc' = IF queue' = <<>> THEN "recv" ELSE "process",
           pc = "process" => Head(queue).pt # Declared,
           cfg.sdpPT = "unknown" => pt'.type = Declared
    PROVE  RingInv'
  <1>1. /\ Len(queue) \in Nat \ {0} /\ Len(queue') = Len(queue) - 1
        /\ \A i \in 1 .. Len(queue') : queue'[i] = queue[i + 1] /\ i + 1 \in 1 .. Len(queue)
                                       /\ i + 1 \in Pending
        /\ queue[1] = Head(queue) /\ queue # <<>>
    BY HeadFacts, TailFacts DEF Pending
  <1>2. lastSSRC # "none" /\ UNCHANGED <<nextPos, rbuf, lastSSRC>>
    BY <1>1 DEF RingInv, ringVars
  <1>3. \/ stream.ssrc = lastSSRC /\ \A i \in Pending' : queue'[i].src = lastSSRC
        \/ \E j \in Pending' : queue'[j].src = lastSSRC /\ queue'[j].pt = Declared
    <2>1. CASE stream.ssrc = lastSSRC /\ \A i \in Pending : queue[i].src = lastSSRC
      BY <1>1, <2>1 DEF Pending
    <2>2. CASE \E j \in Pending : queue[j].src = lastSSRC /\ queue[j].pt = Declared
      <3> PICK j \in Pending : queue[j].src = lastSSRC /\ queue[j].pt = Declared
        BY <2>2
      <3>1. j \in 2 .. Len(queue)
        <4>1. j \in 1 .. Len(queue) /\ (j = 1 => pc = "process")
          BY DEF Pending
        <4>2. j # 1
          BY <1>1, <4>1
        <4> QED BY <1>1, <4>1, <4>2
      <3>2. j - 1 \in 1 .. Len(queue') /\ queue'[j - 1] = queue[j]
        BY <1>1, <3>1
      <3>3. queue' # <<>>
        <4>1. queue' \in Seq(Packets) /\ Len(queue') # 0
          BY <1>1, <3>1, HeadFacts
        <4> QED BY <4>1, EmptySeq
      <3>4. j - 1 \in Pending'
        BY <3>2, <3>3 DEF Pending
      <3> QED BY <3>2, <3>4
    <2> QED BY <1>2, <2>1, <2>2 DEF RingInv
  <1>4. ASSUME NEW i \in 1 .. Len(queue'), queue'[i].src = lastSSRC
        PROVE  /\ queue'[i].pos < nextPos
               /\ \A j \in i .. Len(queue') : queue'[j].src = lastSSRC
    <2>1. queue[i + 1].pos < nextPos /\ \A j \in (i + 1) .. Len(queue) : queue[j].src = lastSSRC
      BY <1>1, <1>4 DEF RingInv
    <2>2. \A j \in i .. Len(queue') : j + 1 \in (i + 1) .. Len(queue) /\ j \in 1 .. Len(queue')
      BY <1>1
    <2> QED BY <1>1, <2>1, <2>2
  <1> QED BY <1>2, <1>3, <1>4, TrackAssumption DEF RingInv

\* A datagram: the packets the resequencer hands over, the old source's first.
LEMMA UdpOrder ==
    ASSUME QueueInv, ViewInv, OrderInv, InSequence, NEW pkt \in Packets, RecvUdp(pkt)
    PROVE  /\ \A i, j \in 1 .. Len(queue') :
                 i < j /\ queue'[i].src = queue'[j].src => queue'[i].pos < queue'[j].pos
           /\ \A i \in Pending' : queue'[i].src = stream'.ssrc => queue'[i].pos > stream'.high
           /\ RingInv'
  <1>1. /\ cfg.udp /\ ~cfg.strays /\ RingInv /\ UNCHANGED <<cfg, stream, pt>>
        /\ pc = "recv" /\ queue = <<>> /\ Sent(pkt) /\ lastSSRC' = pkt.src
        /\ pc' = IF queue' = <<>> THEN "recv" ELSE "process"
    BY DEF RecvUdp, ReadUnit, InSequence, OrderInv, QueueInv, viewVars, typeVars
  <1>2. pkt.src # "none" /\ pkt.pos \in Positions /\ pkt.pos \in 0 .. MaxPos + 1
    BY PacketFacts, MaxPosType DEF Positions
  <1>3. Pending = {}
    <2>1. Len(queue) = 0
      BY <1>1
    <2> QED BY <2>1 DEF Pending
  <1>4. /\ nextPos \in 0 .. MaxPos + 1 /\ nextPos \in Nat
        /\ \A b \in rbuf : b.src = lastSSRC /\ nextPos <= b.pos
        /\ stream.ssrc = lastSSRC
        /\ lastSSRC # "none" => stream.high < nextPos
        /\ cfg.sdpPT = "unknown" => pt.type \in {"none", Declared}
        /\ cfg.sdpPT = "unknown" /\ pt.type = "none" => lastSSRC = "none"
    BY <1>1, <1>3, MaxPosType DEF RingInv
  <1>5. rbuf \subseteq Packets /\ Slots(rbuf) /\ (lastSSRC = "none" => rbuf = {})
    <2>1. \A b \in Packets : b.src # "none"
      BY PacketFacts
    <2> QED BY <1>4, <2>1 DEF QueueInv
  <1>6. stream.high \in Nat /\ \A p \in Packets : p.pos \in Nat
    BY PacketFacts, UnitType DEF ViewInv
  <1>7. \A i \in Pending' : i \in 1 .. Len(queue')
    BY DEF Pending
  <1>8. CASE lastSSRC # pkt.src
    <2> DEFINE r == Push({}, pkt.pos, pkt)
               old == InOrder(rbuf)
    <2>1. queue' = old \o r.out /\ rbuf' = r.buf /\ nextPos' = r.next
      BY <1>8 DEF RecvUdp
    <2>2. Slots({})
      BY FS_EmptySet DEF Slots
    <2>3. r.buf \subseteq {pkt} /\ r.out \in Seq({pkt})
      <3>1. r.buf \subseteq {} \cup {pkt} /\ r.out \in Seq({} \cup {pkt})
        BY <1>2, <2>2, PushSound
      <3>2. {} \cup {pkt} = {pkt}
        OBVIOUS
      <3> HIDE DEF r
      <3> QED BY <3>1, <3>2
    <2>4. /\ r.next \in pkt.pos .. MaxPos + 1
          /\ \A b \in r.buf : r.next <= b.pos
          /\ \A i \in 1 .. Len(r.out) : pkt.pos <= r.out[i].pos /\ r.out[i].pos < r.next
          /\ Len(r.out) = 1 /\ r.out[1] = pkt
      <3>1. \A b \in {} : pkt.pos <= b.pos
        OBVIOUS
      <3> HIDE DEF r
      <3>2. LET s == Push({}, pkt.pos, pkt)
            IN /\ s.next \in pkt.pos .. MaxPos + 1
               /\ \A b \in s.buf : s.next <= b.pos
               /\ \A i \in 1 .. Len(s.out) : pkt.pos <= s.out[i].pos /\ s.out[i].pos < s.next
               /\ ({} = {} /\ pkt.pos = pkt.pos => Len(s.out) = 1 /\ s.out[1] = pkt)
        BY <1>2, <2>2, <3>1, PushOrdered
      <3> QED BY <3>2 DEF r
    <2>5. /\ old \in Seq(rbuf)
          /\ \A i, j \in 1 .. Len(old) : i < j => old[i].pos < old[j].pos
      BY <1>5, InOrderEnumerates
    <2>6. Sent(pkt) => pkt.pt = Declared
      BY <1>1, <1>8 DEF Sent
    <2> HIDE DEF r, old
    <2>7. /\ Len(old) \in Nat /\ Len(queue') = Len(old) + 1
          /\ queue'[Len(old) + 1] = pkt
          /\ \A i \in 1 .. Len(old) : queue'[i] = old[i] /\ old[i] \in rbuf
      <3>1. old \in Seq(Packets) /\ r.out \in Seq(Packets)
        BY <1>5, <2>3, <2>5, SeqMonotonic
      <3>2. Len(old) \in Nat /\ \A i \in 1 .. Len(old) : old[i] \in rbuf
        BY <2>5, LenProperties, ElementOfSeq
      <3>3. /\ Len(old \o r.out) = Len(old) + Len(r.out)
            /\ \A i \in 1 .. (Len(old) + Len(r.out)) :
                  (old \o r.out)[i] = IF i <= Len(old) THEN old[i] ELSE r.out[i - Len(old)]
        BY <3>1, ConcatProperties
      <3> QED BY <2>1, <2>4, <3>2, <3>3
    <2>8. \A i \in 1 .. Len(queue') :
             \/ i = Len(old) + 1 /\ queue'[i] = pkt
             \/ i \in 1 .. Len(old) /\ queue'[i] = old[i] /\ queue'[i] \in rbuf
      BY <2>7
    <2>9. queue' # <<>>
      <3>1. Len(queue') # 0
        BY <2>7
      <3> QED BY <3>1
    <2>10. pc' = "process" /\ Pending' = 1 .. Len(queue')
      BY <1>1, <2>9 DEF Pending
    <2>11. ASSUME NEW i \in 1 .. Len(queue'), NEW j \in 1 .. Len(queue'), i < j,
                  queue'[i].src = queue'[j].src
           PROVE  queue'[i].pos < queue'[j].pos
      <3>1. i \in 1 .. Len(old) /\ queue'[i] = old[i] /\ queue'[i] \in rbuf
        BY <2>7, <2>8, <2>11
      <3>2. j # Len(old) + 1
        BY <1>4, <1>8, <2>7, <2>11, <3>1
      <3>3. j \in 1 .. Len(old) /\ queue'[j] = old[j]
        BY <2>8, <3>2
      <3> QED BY <2>5, <2>11, <3>1, <3>3
    <2>12. ASSUME NEW i \in Pending', queue'[i].src = stream'.ssrc
           PROVE  queue'[i].pos > stream'.high
      <3>1. queue'[i] \in rbuf
        BY <1>1, <1>4, <1>7, <1>8, <2>8, <2>12
      <3>2. lastSSRC # "none" /\ nextPos <= queue'[i].pos /\ queue'[i].pos \in Nat
        BY <1>4, <1>5, <1>6, <3>1
      <3> QED BY <1>1, <1>4, <1>6, <3>2
    <2>13. RingInv'
      <3>1. nextPos' \in 0 .. MaxPos + 1 /\ pkt.pos < nextPos'
        BY <1>2, <1>6, <2>1, <2>4, MaxPosType
      <3>2. \A b \in rbuf' : b.src = lastSSRC' /\ nextPos' <= b.pos
        BY <1>1, <2>1, <2>3, <2>4
      <3>3. \E j \in Pending' : queue'[j].src = lastSSRC' /\ queue'[j].pt = Declared
        <4>1. Len(old) + 1 \in Pending'
          BY <2>7, <2>10
        <4> QED BY <1>1, <2>6, <2>7, <4>1
      <3>4. ASSUME NEW i \in 1 .. Len(queue'), queue'[i].src = lastSSRC'
            PROVE  /\ queue'[i].pos < nextPos'
                   /\ \A j \in i .. Len(queue') : queue'[j].src = lastSSRC'
        <4>1. i = Len(queue') /\ queue'[i] = pkt
          BY <1>1, <1>4, <1>8, <2>7, <2>8, <3>4
        <4>2. \A j \in i .. Len(queue') : j = i
          BY <2>7, <4>1
        <4> QED BY <3>1, <3>4, <4>1, <4>2
      <3>5. cfg.sdpPT = "unknown" /\ pt.type = "none" => Head(queue') = pkt
        <4> SUFFICES ASSUME rbuf = {} PROVE Head(queue') = pkt
          BY <1>4, <1>5
        <4>1. Len(old) = 0
          <5>1. \A i \in 1 .. Len(old) : FALSE
            BY <2>7
          <5>2. Len(old) >= 1 => 1 \in 1 .. Len(old)
            BY <2>7
          <5> QED BY <2>7, <5>1, <5>2
        <4>2. queue'[1] = pkt
          BY <2>7, <4>1
        <4> QED BY <2>9, <4>2
      <3> QED BY <1>1, <1>2, <1>4, <1>8, <2>6, <2>10, <3>1, <3>2, <3>3, <3>4, <3>5 DEF RingInv
    <2> QED BY <2>11, <2>12, <2>13
  <1>9. CASE lastSSRC = pkt.src
    <2> DEFINE r == Push(rbuf, nextPos, pkt)
    <2>1. queue' = <<>> \o r.out /\ rbuf' = r.buf /\ nextPos' = r.next
      BY <1>9 DEF RecvUdp
    <2>2. r.buf \subseteq rbuf \cup {pkt} /\ r.out \in Seq(rbuf \cup {pkt})
      BY <1>2, <1>5, PushSound
    <2>3. /\ r.next \in nextPos .. MaxPos + 1
          /\ \A b \in r.buf : r.next <= b.pos
          /\ \A i \in 1 .. Len(r.out) : nextPos <= r.out[i].pos /\ r.out[i].pos < r.next
          /\ \A i, j \in 1 .. Len(r.out) : i < j => r.out[i].pos < r.out[j].pos
      BY <1>2, <1>4, <1>5, PushOrdered
    <2> HIDE DEF r
    <2>4. queue' = r.out /\ \A i \in 1 .. Len(queue') : queue'[i] \in rbuf \cup {pkt}
      <3>1. queue' = r.out
        BY <2>1, <2>2, ConcatEmptySeq
      <3> QED BY <2>2, <3>1, ElementOfSeq
    <2>5. \A i \in 1 .. Len(queue') : queue'[i].src = pkt.src /\ queue'[i].pos \in Nat
      BY <1>4, <1>5, <1>6, <1>9, <2>4
    <2>6. \A i, j \in 1 .. Len(queue') :
             i < j /\ queue'[i].src = queue'[j].src => queue'[i].pos < queue'[j].pos
      BY <2>3, <2>4
    <2>7. \A i \in Pending' : queue'[i].src = stream'.ssrc => queue'[i].pos > stream'.high
      BY <1>1, <1>2, <1>4, <1>6, <1>7, <1>9, <2>3, <2>4, <2>5
    <2>8. nextPos' \in 0 .. MaxPos + 1 /\ nextPos <= nextPos' /\ nextPos' \in Nat
      BY <1>4, <2>1, <2>3, MaxPosType
    <2>9. \A b \in rbuf' : b.src = lastSSRC' /\ nextPos' <= b.pos
      BY <1>1, <1>4, <1>9, <2>1, <2>2, <2>3
    <2>10. /\ stream'.ssrc = lastSSRC' /\ stream'.high < nextPos'
           /\ \A i \in Pending' : queue'[i].src = lastSSRC'
      BY <1>1, <1>2, <1>4, <1>6, <1>7, <1>9, <2>5, <2>8
    <2>11. ASSUME NEW i \in 1 .. Len(queue')
           PROVE  /\ queue'[i].pos < nextPos'
                  /\ \A j \in i .. Len(queue') : queue'[j].src = lastSSRC'
      <3>1. Len(queue') \in Nat
        BY <2>2, <2>4, LenProperties
      <3>2. \A j \in i .. Len(queue') : j \in 1 .. Len(queue')
        BY <3>1
      <3> QED BY <1>1, <2>1, <2>3, <2>4, <2>5, <3>2
    <2>12. cfg.sdpPT = "unknown" => pt.type = Declared
      BY <1>2, <1>4, <1>9
    <2>13. Declared # "none"
      BY TrackAssumption
    <2>14. RingInv'
      BY <1>1, <1>2, <2>8, <2>9, <2>10, <2>11, <2>12, <2>13 DEF RingInv
    <2> QED BY <2>6, <2>7, <2>14
  <1> QED BY <1>8, <1>9

\* Observe takes the next packet of the source it follows, or of a new one.
LEMMA ObserveOrder ==
    ASSUME QueueInv, ViewInv, TypeInv, OrderInv, InSequence, ProcessObserve, UNCHANGED cfg
    PROVE  /\ stream' = [ssrc |-> Head(queue).src, high |-> Head(queue).pos]
           /\ up' = Observe(stream, Head(queue))
           /\ OrderInv'
  <1>1. /\ pc = "process" /\ Classify /\ queue' = queue /\ pc' \in Between
        /\ up' = Observe(stream, Head(queue))
        /\ stream' = IF up'.dup THEN stream
                     ELSE [ssrc |-> Head(queue).src, high |-> Head(queue).pos]
        /\ UNCHANGED ringVars
    BY DEF ProcessObserve, Between
  <1>2. queue # <<>> /\ Head(queue) \in Packets
    BY <1>1, HeadFacts
  <1>3. /\ Len(queue) \in Nat \ {0} /\ Head(queue) = queue[1]
        /\ \A i \in 1 .. Len(queue) : queue[i] \in Packets
    BY <1>2, TailFacts
  <1>4. Pending = 1 .. Len(queue) /\ 1 \in Pending /\ Pending' = 2 .. Len(queue)
    <2>1. Pending = 1 .. Len(queue)
      BY <1>1 DEF Pending
    <2>2. Pending' = {i \in 1 .. Len(queue) : i > 1}
      BY <1>1 DEF Pending, Between
    <2> QED BY <1>3, <2>1, <2>2
  <1>5. stream.high \in Nat /\ Head(queue).pos \in Nat
    BY <1>2, PacketFacts, UnitType DEF ViewInv
  <1>6. stream' = [ssrc |-> Head(queue).src, high |-> Head(queue).pos]
    <2>1. Head(queue).src = stream.ssrc => Head(queue).pos > stream.high
      BY <1>3, <1>4 DEF OrderInv
    <2>2. ~up'.dup
      BY <1>1, <1>2, <1>5, <2>1, ObserveFacts
    <2> QED BY <1>1, <2>2
  <1>7. \A i, j \in 1 .. Len(queue') :
           i < j /\ queue'[i].src = queue'[j].src => queue'[i].pos < queue'[j].pos
    BY <1>1 DEF OrderInv
  <1>8. ASSUME NEW i \in Pending', queue'[i].src = stream'.ssrc
        PROVE  queue'[i].pos > stream'.high
    <2>1. i \in 1 .. Len(queue) /\ 1 \in 1 .. Len(queue) /\ 1 < i
      BY <1>3, <1>4
    <2>2. queue[1].pos < queue[i].pos /\ queue[i].pos \in Nat
      BY <1>1, <1>3, <1>6, <1>8, <2>1, PacketFacts DEF OrderInv
    <2> QED BY <1>1, <1>3, <1>5, <1>6, <2>2
  <1>9. ASSUME cfg.udp
        PROVE  RingInv'
    <2>1. RingInv
      BY <1>9 DEF OrderInv
    <2>2. UNCHANGED <<rbuf, nextPos, lastSSRC>> /\ lastSSRC # "none"
      BY <1>1, <1>2, <2>1 DEF RingInv, ringVars
    <2>3. cfg.sdpPT = "unknown" => pt'.type = Declared
      BY <1>1, <2>1, <2>2, DeclaredAccepted
    <2>4. \A i \in 1 .. Len(queue) : queue[i].src = lastSSRC =>
             /\ queue[i].pos < nextPos
             /\ \A j \in i .. Len(queue) : queue[j].src = lastSSRC
      BY <2>1 DEF RingInv
    <2>5. stream'.ssrc = lastSSRC => stream'.high < nextPos
      BY <1>3, <1>6, <2>4
    <2>6. \/ stream'.ssrc = lastSSRC /\ \A i \in Pending' : queue'[i].src = lastSSRC
          \/ \E j \in Pending' : queue'[j].src = lastSSRC /\ queue'[j].pt = Declared
      <3>1. CASE Head(queue).src = lastSSRC
        <4>1. \A j \in 1 .. Len(queue) : queue[j].src = lastSSRC
          BY <1>3, <2>4, <3>1
        <4>2. \A i \in Pending' : i \in 1 .. Len(queue)
          BY <1>3, <1>4
        <4> QED BY <1>1, <1>6, <3>1, <4>1, <4>2
      <3>2. CASE Head(queue).src # lastSSRC
        <4>1. PICK j \in Pending : queue[j].src = lastSSRC /\ queue[j].pt = Declared
          BY <1>3, <1>4, <2>1, <2>2, <3>2 DEF RingInv
        <4>2. j # 1
          BY <1>3, <3>2, <4>1
        <4>3. j \in Pending'
          BY <1>3, <1>4, <4>2
        <4> QED BY <1>1, <4>1, <4>3
      <3> QED BY <3>1, <3>2
    <2>7. Declared # "none"
      BY TrackAssumption
    <2>8. /\ nextPos \in 0 .. MaxPos + 1
          /\ \A b \in rbuf : b.src = lastSSRC /\ nextPos <= b.pos
      BY <2>1 DEF RingInv
    <2> QED BY <1>1, <2>2, <2>3, <2>4, <2>5, <2>6, <2>7, <2>8 DEF RingInv
  <1> QED BY <1>1, <1>6, <1>7, <1>8, <1>9 DEF OrderInv

\* Every step keeps the packets of a source in order.
LEMMA OrderStep ==
    ASSUME QueueInv, ViewInv, TypeInv, OrderInv, NextCase, UNCHANGED cfg
    PROVE  OrderInv'
  <1> SUFFICES ASSUME InSequence PROVE OrderInv'
    BY DEF OrderInv, InSequence
  <1>0. Declared # "none"
    BY TrackAssumption
  <1>1. CASE UNCHANGED <<queue, ringVars, stream, pt>>
             /\ \/ pc' = pc
                \/ pc \in Between /\ pc' \in Between
    <2>1. Pending' = Pending
      BY <1>1 DEF Pending, Between
    <2>2. RingInv => RingInv'
      BY <1>1, <2>1 DEF RingInv, ringVars, Between
    <2> QED BY <1>1, <2>1, <2>2 DEF OrderInv
  <1>2. CASE Elsewhere
    BY <1>1, <1>2 DEF Elsewhere, mediaVars, typeVars, viewVars
  <1>3. CASE ProcessSender \/ ProcessBaseline
    BY <1>1, <1>3 DEF ProcessSender, ProcessBaseline, Between, typeVars, viewVars
  <1>4. CASE \E pkt \in Packets : RecvTcp(pkt)
    <2> PICK pkt \in Packets : RecvTcp(pkt)
      BY <1>4
    <2>1. queue' = <<pkt>> /\ stream' = stream /\ Sent(pkt) /\ ~cfg.udp
      BY DEF RecvTcp, viewVars
    <2>2. Len(queue') = 1 /\ queue'[1] = pkt
      BY <2>1
    <2>3. stream.ssrc = pkt.src => pkt.pos > stream.high
      BY <2>1 DEF Sent, InSequence
    <2>4. \A i \in Pending' : i = 1
      BY <2>2 DEF Pending
    <2>5. \A i, j \in 1 .. Len(queue') : ~(i < j)
      BY <2>2
    <2> QED BY <2>1, <2>2, <2>3, <2>4, <2>5 DEF OrderInv
  <1>5. CASE \E pkt \in Packets : RecvUdp(pkt)
    BY <1>5, UdpOrder DEF OrderInv
  <1>6. CASE ProcessForeign
    <2>1. /\ pc = "process" /\ Classify /\ pt'.type # Head(queue).pt /\ queue' = Tail(queue)
          /\ pc' = IF queue' = <<>> THEN "recv" ELSE "process"
          /\ UNCHANGED <<cfg, stream, ringVars>>
      BY <1>6 DEF ProcessForeign, viewVars
    <2>2. ASSUME cfg.udp
          PROVE  RingInv'
      <3>1. RingInv /\ lastSSRC # "none"
        BY <2>1, <2>2, HeadFacts DEF OrderInv, RingInv
      <3>2. /\ Head(queue).pt # Declared
            /\ cfg.sdpPT = "unknown" => pt'.type = Declared
        BY <2>1, <3>1, DeclaredAccepted
      <3> QED BY <2>1, <3>1, <3>2, TailRing
    <2> QED BY <2>1, <2>2, TailOrder DEF OrderInv
  <1>7. CASE ProcessObserve
    BY <1>7, ObserveOrder
  <1>8. CASE ProcessDeliver
    <2>1. /\ pc = "deliver" /\ queue' = Tail(queue)
          /\ pc' = IF queue' = <<>> THEN "recv" ELSE "process"
          /\ UNCHANGED <<cfg, stream, ringVars, pt>>
      BY <1>8 DEF ProcessDeliver, viewVars, typeVars
    <2>2. ASSUME cfg.udp
          PROVE  RingInv'
      <3>1. RingInv /\ lastSSRC # "none"
        BY <2>1, <2>2, HeadFacts DEF OrderInv, RingInv
      <3>2. cfg.sdpPT = "unknown" => pt'.type = Declared
        BY <2>1, <3>1 DEF RingInv
      <3> QED BY <2>1, <3>1, <3>2, TailRing
    <2> QED BY <2>1, <2>2, TailOrder DEF OrderInv
  <1> QED BY <1>2, <1>3, <1>4, <1>5, <1>6, <1>7, <1>8 DEF NextCase

-----------------------------------------------------------------------------
(* Fragments.                                                              *)

\* The packet under way continues the fragments held, if any are.
LEMMA DepacketizeSound ==
    ASSUME QueueInv, ViewInv, FragInv, pc = "deliver", InSequence \/ ~Fragmenting
    PROVE  Sound(Depacketize(Head(queue)), Head(queue), Packets, cfg.codec)
  <1> DEFINE pkt == Head(queue)
             d == Depacketize(pkt)
             high == IF frag = <<>> THEN 0 ELSE stream.high - 1
  <1>1. /\ pkt \in Packets /\ pkt.pos \in Positions /\ pkt.pos \in Nat
        /\ frag \in Seq(Packets) /\ stream.ssrc = pkt.src
    BY HeadFacts, PacketFacts DEF ViewInv, Between
  <1> HIDE DEF pkt
  <1>2. CASE ~Fragmenting
    <2>1. d = Bad \/ d = Complete(<<pkt>>)
      BY <1>2 DEF Depacketize, Fragmenting
    <2>2. Complete(<<pkt>>).frag = <<>> /\ Complete(<<pkt>>).unit = <<pkt>>
      BY DEF Complete
    <2>3. Sound(Complete(<<pkt>>), pkt, Packets, cfg.codec)
      BY <1>1, <1>2, <2>2, SingleSound DEF Fragmenting
    <2> QED BY <2>1, <2>3, BadSound DEF pkt
  <1>3. CASE Fragmenting
    <2>1. /\ stream.high = pkt.pos
          /\ frag # <<>> => stream.high >= 1 /\ Run(frag, pkt.src, stream.high - 1)
      BY <1>1, <1>3 DEF FragInv, Between, pkt
    <2>2. high \in Positions /\ Run(frag, pkt.src, high) /\ (frag # <<>> => pkt.pos = high + 1)
      <3>1. CASE frag = <<>>
        BY <3>1, MaxPosType DEF Positions, Run
      <3>2. CASE frag # <<>>
        BY <1>1, <2>1, <3>2, MaxPosType DEF Positions
      <3> QED BY <3>1, <3>2
    <2> HIDE DEF high
    <2>3. /\ Sound(DepacketizeFlac(frag, pkt), pkt, Packets, "flac")
          /\ Sound(DepacketizeAac(frag, pkt), pkt, Packets, "aac")
          /\ Sound(DepacketizeMp3(frag, pkt), pkt, Packets, "mp3")
      BY <1>1, <2>2, FlacSound, AacSound, Mp3Sound
    <2>4. \/ d = Bad
          \/ cfg.codec = "flac" /\ d = DepacketizeFlac(frag, pkt)
          \/ cfg.codec = "aac" /\ d = DepacketizeAac(frag, pkt)
          \/ cfg.codec = "mp3" /\ d = DepacketizeMp3(frag, pkt)
      BY <1>3 DEF Depacketize, Fragmenting
    <2> QED BY <2>3, <2>4, BadSound DEF pkt
  <1> QED BY <1>2, <1>3

\* Whatever the order, what is kept and completed is of one source, and MP3
\* fragments are in their places.
LEMMA DepacketizePlaced ==
    ASSUME QueueInv, ViewInv, FragInv, pc = "deliver"
    PROVE  LET d == Depacketize(Head(queue))
           IN  /\ \A i \in 1 .. Len(d.frag) : d.frag[i].src = stream.ssrc
               /\ \A i \in 1 .. Len(d.unit) : d.unit[i].src = stream.ssrc
               /\ cfg.codec = "mp3" =>
                     Placed(d.frag, stream.ssrc) /\ Unspliced(d.unit, "mp3")
  <1> DEFINE pkt == Head(queue)
             d == Depacketize(pkt)
             S == {p \in Packets : p.src = stream.ssrc}
  <1>1. /\ pkt \in S /\ pkt.pos \in Positions /\ pkt \in Packets
        /\ frag \in Seq(Packets) /\ stream.ssrc = pkt.src
    BY HeadFacts, PacketFacts DEF ViewInv, Between
  <1> HIDE DEF pkt
  <1>2. frag \in Seq(S)
    <2>1. \A i \in 1 .. Len(frag) : frag[i] \in S
      BY <1>1, ElementOfSeq DEF FragInv
    <2>2. Len(frag) \in Nat /\ frag \in [1 .. Len(frag) -> Packets]
      BY <1>1, LenProperties
    <2> QED BY <2>1, <2>2
  <1>3. d.frag \in Seq(S) /\ d.unit \in Seq(S)
    BY <1>1, <1>2, DepacketizeOf
  <1>4. \A s \in Seq(S) : \A i \in 1 .. Len(s) : s[i].src = stream.ssrc
    BY ElementOfSeq
  <1>5. ASSUME cfg.codec = "mp3"
        PROVE  Placed(d.frag, stream.ssrc) /\ Unspliced(d.unit, "mp3")
    <2>1. d = Bad \/ d = DepacketizeMp3(frag, pkt)
      BY <1>5 DEF Depacketize
    <2>2. Placed(Bad.frag, stream.ssrc) /\ Unspliced(Bad.unit, "mp3")
      BY DEF Bad, Placed, Unspliced
    <2>3. Placed(frag, pkt.src)
      BY <1>1, <1>5 DEF FragInv
    <2>4. /\ Placed(DepacketizeMp3(frag, pkt).frag, pkt.src)
          /\ Unspliced(DepacketizeMp3(frag, pkt).unit, "mp3")
      BY <1>1, <2>3, Mp3Placed
    <2> HIDE DEF d
    <2> QED BY <1>1, <2>1, <2>2, <2>4
  <1> HIDE DEF S
  <1> QED BY <1>3, <1>4, <1>5 DEF pkt

\* Every step keeps the fragments held a run of one source.
LEMMA FragStep ==
    ASSUME QueueInv, ViewInv, TypeInv, OrderInv, FragInv, NextCase, UNCHANGED cfg
    PROVE  FragInv'
  <1>1. CASE /\ UNCHANGED <<codecVars, stream>>
             /\ \/ pc \notin Between /\ pc' \notin Between
                \/ pc \in Between /\ pc' \in Between /\ queue' = queue
    <2>1. NoSplice'
      BY <1>1 DEF codecVars, FragInv, NoSplice, InSequence
    <2>2. Placed(frag, stream.ssrc) => Placed(frag, stream.ssrc)'
      BY <1>1 DEF codecVars, Placed
    <2> QED BY <1>1, <2>1, <2>2 DEF codecVars, FragInv, InSequence
  <1>2. CASE Elsewhere
    BY <1>1, <1>2 DEF Elsewhere, mediaVars, viewVars
  <1>3. CASE ProcessSender \/ ProcessBaseline
    BY <1>1, <1>3 DEF ProcessSender, ProcessBaseline, Between, viewVars
  <1>4. CASE \E pkt \in Packets : RecvTcp(pkt)
    BY <1>1, <1>4 DEF RecvTcp, ReadUnit, Between, viewVars
  <1>5. CASE \E pkt \in Packets : RecvUdp(pkt)
    <2>1. pc = "recv" /\ pc' \in {"recv", "process"} /\ UNCHANGED <<codecVars, stream>>
      BY <1>5 DEF RecvUdp, ReadUnit, viewVars
    <2> QED BY <1>1, <2>1 DEF Between
  <1>6. CASE ProcessForeign
    <2>1. pc = "process" /\ pc' \in {"recv", "process"} /\ UNCHANGED <<codecVars, stream>>
      BY <1>6 DEF ProcessForeign, viewVars
    <2> QED BY <1>1, <2>1 DEF Between
  <1>7. CASE ProcessObserve
    <2>1. /\ pc = "process" /\ unit' = <<>> /\ pc' \in Between /\ queue' = queue
          /\ frag' = IF up'.reset \/ up'.gap > 0 THEN <<>> ELSE frag
      BY <1>7 DEF ProcessObserve, Forget, Between
    <2>2. NoSplice'
      <3>1. Len(unit') = 0
        BY <2>1
      <3> QED BY <2>1, <3>1 DEF NoSplice, Unspliced
    <2>4. /\ \A i \in 1 .. Len(frag') : frag'[i].src = stream'.ssrc
          /\ cfg.codec = "mp3" => Placed(frag', stream'.ssrc)
      <3> DEFINE pkt == Head(queue)
      <3>1. pkt \in Packets /\ up' = Observe(stream, pkt)
        BY <1>7, <2>1, HeadFacts DEF ProcessObserve
      <3>2. stream'.ssrc = pkt.src
        <4>1. up'.dup => stream.ssrc = pkt.src
          BY <3>1 DEF Observe
        <4> QED BY <1>7, <3>1, <4>1 DEF ProcessObserve
      <3> HIDE DEF pkt
      <3>3. CASE frag' = <<>>
        <4>1. Len(frag') = 0
          BY <3>3
        <4> QED BY <4>1 DEF Placed
      <3>4. CASE frag' # <<>>
        <4>1. frag' = frag /\ ~up'.reset /\ frag # <<>>
          BY <2>1, <3>4
        <4>2. stream.ssrc # "none"
          <5>1. frag \in Seq(Packets) /\ Len(frag) \in Nat /\ Len(frag) # 0
            BY <4>1, EmptySeq, LenProperties DEF ViewInv
          <5>2. frag[1] \in Packets /\ 1 \in 1 .. Len(frag)
            BY <5>1, ElementOfSeq
          <5> QED BY <5>2, PacketFacts DEF FragInv
        <4>3. stream.ssrc = pkt.src
          BY <3>1, <4>1, <4>2 DEF Observe
        <4> QED BY <3>2, <4>1, <4>3 DEF FragInv
      <3> QED BY <3>3, <3>4
    <2>3. ASSUME InSequence
          PROVE  /\ stream'.high = Head(queue').pos
                 /\ frag' # <<>> => stream'.high >= 1
                                    /\ Run(frag', stream'.ssrc, stream'.high - 1)
      <3> DEFINE pkt == Head(queue)
      <3>1. pkt \in Packets /\ pkt.pos \in Nat /\ stream.high \in Nat
        BY <2>1, HeadFacts, PacketFacts, UnitType DEF ViewInv
      <3>2. stream' = [ssrc |-> pkt.src, high |-> pkt.pos] /\ up' = Observe(stream, pkt)
        BY <1>7, <2>3, ObserveOrder
      <3>3. Run(frag, stream.ssrc, stream.high)
        BY <2>1, <2>3 DEF FragInv, Between
      <3> HIDE DEF pkt
      <3>4. ASSUME frag' # <<>>
            PROVE  pkt.pos = stream.high + 1 /\ stream.ssrc = pkt.src /\ frag' = frag
        <4>1. frag' = frag /\ ~up'.reset /\ ~(up'.gap > 0) /\ frag # <<>>
          BY <2>1, <3>4
        <4>2. stream.ssrc # "none"
          <5>1. frag \in Seq(Packets) /\ Len(frag) \in Nat /\ Len(frag) # 0
            BY <4>1, EmptySeq, LenProperties DEF ViewInv
          <5>2. frag[1] \in Packets /\ 1 \in 1 .. Len(frag)
            BY <5>1, ElementOfSeq
          <5> QED BY <3>3, <5>2, PacketFacts DEF Run
        <4>3. stream.ssrc = pkt.src
          BY <3>1, <3>2, <4>1, <4>2, ObserveFacts
        <4>4. pkt.pos > stream.high
          <5>1. ~up'.dup
            <6>1. 1 \in Pending /\ queue[1] = pkt
              BY <2>1, HeadFacts, TailFacts DEF Pending, pkt
            <6>2. pkt.pos > stream.high
              BY <2>3, <4>3, <6>1 DEF OrderInv
            <6> QED BY <3>1, <3>2, <6>2, ObserveFacts
          <5> QED BY <3>1, <3>2, <4>3, <5>1, ObserveFacts
        <4>5. up'.gap = pkt.pos - stream.high - 1
          BY <3>2, <4>3, <4>4 DEF Observe
        <4> QED BY <3>1, <4>1, <4>3, <4>4, <4>5
      <3>5. frag' # <<>> => stream'.high - 1 = stream.high /\ stream'.high >= 1
                            /\ stream'.ssrc = stream.ssrc /\ frag' = frag
        BY <3>1, <3>2, <3>4
      <3> QED BY <2>1, <3>2, <3>3, <3>5 DEF pkt
    <2>5. Placed(frag', stream'.ssrc) <=> Placed(frag, stream.ssrc)'
      BY DEF Placed
    <2> QED BY <2>1, <2>2, <2>3, <2>4, <2>5 DEF FragInv, InSequence
  <1>8. CASE ProcessDeliver
    <2> DEFINE pkt == Head(queue)
    <2>1. PICK d : /\ d = Depacketize(pkt) /\ frag' = d.frag
                   /\ unit' \in {<<>>, unit, d.unit}
      BY <1>8 DEF ProcessDeliver, Deliver
    <2>2. pc = "deliver" /\ pc' \in {"recv", "process"} /\ stream' = stream
      BY <1>8 DEF ProcessDeliver, viewVars
    <2>3. unit = <<>> /\ stream.ssrc = pkt.src
      BY <2>2 DEF ViewInv, Between
    <2>4. InSequence => stream.high = pkt.pos
      BY <2>2 DEF FragInv, Between
    <2>5. InSequence \/ ~Fragmenting => Run(d.frag, pkt.src, pkt.pos) /\ Unspliced(d.unit, cfg.codec)
      BY <2>1, <2>2, DepacketizeSound DEF Sound
    <2>6. Unspliced(<<>>, cfg.codec)
      BY DEF Unspliced
    <2>7. /\ \A i \in 1 .. Len(d.frag) : d.frag[i].src = stream.ssrc
          /\ \A i \in 1 .. Len(d.unit) : d.unit[i].src = stream.ssrc
          /\ cfg.codec = "mp3" => Placed(d.frag, stream.ssrc) /\ Unspliced(d.unit, "mp3")
      BY <2>1, <2>2, DepacketizePlaced
    <2> HIDE DEF pkt
    <2>8. NoSplice'
      <3>1. unit' = <<>> \/ unit' = d.unit
        BY <2>1, <2>3
      <3>2. (cfg.codec \in {"aac", "flac"} => InSequence) => Unspliced(d.unit, cfg.codec)
        BY <2>5, <2>7 DEF Fragmenting
      <3>3. Len(<<>>) = 0
        OBVIOUS
      <3>4. NoSplice' <=> /\ \A i \in 1 .. Len(unit') : unit'[i].src = stream.ssrc
                          /\ (cfg.codec \in {"aac", "flac"} => InSequence)
                                => Unspliced(unit', cfg.codec)
        BY <2>2 DEF NoSplice, InSequence, Unspliced
      <3> QED BY <2>6, <2>7, <3>1, <3>2, <3>3, <3>4
    <2>9. InSequence => Run(frag', stream'.ssrc, stream'.high)
      BY <2>1, <2>2, <2>3, <2>4, <2>5
    <2>10. cfg.codec = "mp3" => Placed(frag, stream.ssrc)'
      BY <2>1, <2>2, <2>7 DEF Placed
    <2>11. \A i \in 1 .. Len(frag') : frag'[i].src = stream'.ssrc
      BY <2>1, <2>2, <2>7
    <2> QED BY <2>2, <2>8, <2>9, <2>10, <2>11 DEF FragInv, Between, InSequence
  <1> QED BY <1>2, <1>3, <1>4, <1>5, <1>6, <1>7, <1>8 DEF NextCase

-----------------------------------------------------------------------------
(* The theorems.                                                           *)

IInv ==
    /\ QueueInv
    /\ ViewInv
    /\ WireInv
    /\ TypeInv
    /\ BaseInv
    /\ LossInv
    /\ CodecInv
    /\ OrderInv
    /\ FragInv

\* The track starts in the invariant,
LEMMA InitIInv == Init => IInv
  <1> SUFFICES ASSUME Init PROVE IInv
    OBVIOUS
  <1>1. 0 \in Positions /\ 0 \in Nat
    BY MaxPosType DEF Positions
  <1>2. QueueInv
    BY EmptySeq, FS_EmptySet DEF Init, QueueInv, Slots
  <1>3. ViewInv
    BY <1>1, EmptySeq DEF Init, ViewInv, NoStream, NoStats, Counts, Between
  <1>4. WireInv
    BY TrackAssumption DEF Init, WireInv, ResyncBounded
  <1>5. TypeInv
    BY TrackAssumption DEF Init, TypeInv, NotCaptured, Between
  <1>6. BaseInv
    BY <1>1 DEF Init, BaseInv, PtsRestarts, NoStream, NoStats
  <1>7. LossInv
    BY DEF Init, LossInv, NoStream
  <1>8. CodecInv
    BY DEF Init, CodecInv, CodecTold, KnownConfig
  <1>9. OrderInv
    <2>1. Len(queue) = 0 /\ Pending = {}
      BY DEF Init, Pending
    <2>2. RingInv
      BY <2>1, MaxPosType DEF Init, RingInv, NoStream
    <2> QED BY <2>1, <2>2 DEF OrderInv
  <1>10. FragInv
    <2>1. Len(frag) = 0 /\ frag = <<>> /\ unit = <<>> /\ pc \notin Between
      BY DEF Init, Between
    <2>2. Len(unit) = 0
      BY <2>1
    <2> QED BY <2>1, <2>2 DEF FragInv, NoSplice, Unspliced, Run, Placed
  <1> QED BY <1>2, <1>3, <1>4, <1>5, <1>6, <1>7, <1>8, <1>9, <1>10 DEF IInv

\* and every step keeps it:
LEMMA StepIInv == IInv /\ [Next]_vars => IInv'
  <1> SUFFICES ASSUME IInv, [Next]_vars PROVE IInv'
    OBVIOUS
  <1>1. NextCase /\ UNCHANGED cfg /\ WireCase
    BY NextCases, WireCases
  <1> QED
    BY <1>1, QueueStep, ViewStep, WireStep, TypeStep, BaseStep, LossStep, CodecStep,
       OrderStep, FragStep DEF IInv

\* it holds throughout.
LEMMA Inductive == Spec => []IInv
  BY InitIInv, StepIInv, PTL DEF Spec

\* Whatever the peer mixes into the byte stream, a session never outlives more
\* discarded bytes than the budget between two usable units (resyncOne).
THEOREM GarbageBounded == Spec => []ResyncBounded
  <1>1. IInv => ResyncBounded
    BY DEF IInv, WireInv
  <1> QED BY <1>1, Inductive, PTL

\* No interleaving of payload types lets a stray one capture the track
\* (acceptPayloadType).
THEOREM StraysRejected == Spec => []NotCaptured
  <1>1. IInv => NotCaptured
    BY DEF IInv, TypeInv
  <1> QED BY <1>1, Inductive, PTL

\* After a change of source time counts from its first packet, whenever Play
\* stored the RTP-Info seed and whatever the RTCP goroutine does.
THEOREM TimeRestarts == Spec => []PtsRestarts
  <1>1. IInv => PtsRestarts
    BY DEF IInv, BaseInv
  <1> QED BY <1>1, Inductive, PTL

\* Each lost packet of the current source is reported once or still pending.
THEOREM LossesCounted == Spec => []LossAccounted
  <1>1. IInv => LossAccounted
    <2> SUFFICES ASSUME LossInv, cfg.onFrame, stream.ssrc # "none",
                        pc \in {"recv", "process"}
                 PROVE  reported + pendingGap + seen = stream.high - origin + 1
      BY DEF IInv, LossAccounted
    <2>1. reported \in Nat /\ pendingGap \in Nat /\ seen \in Nat
      BY DEF LossInv
    <2>2. reported + pendingGap + seen + 0 = stream.high - origin + 1
      BY DEF LossInv, Between
    <2> QED BY <2>1, <2>2
  <1> QED BY <1>1, Inductive, PTL

\* The consumer decodes with the config the frame was parsed with, on every
\* track but the ones that start from the SDP's config and follow the stream:
\* there the code fails to say so (the run rtp_reseed).
THEOREM ConfigTold == Spec => [](cfg.latm # "seeded" => CodecTold)
  <1>1. IInv => (cfg.latm # "seeded" => CodecTold)
    BY DEF IInv, CodecInv, CodecTold
  <1> QED BY <1>1, Inductive, PTL

\* Reassembly never mixes sources and never splices, MP3 in whatever order the
\* packets come, AAC and FLAC when they come in sequence: over UDP without
\* strays the resequencer sees to it, over TCP a peer that does not resend.
THEOREM UnitsUnspliced == Spec => []NoSplice
  <1>1. IInv => NoSplice
    BY DEF IInv, FragInv
  <1> QED BY <1>1, Inductive, PTL
=============================================================================
