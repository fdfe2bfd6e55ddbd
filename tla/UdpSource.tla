----------------------------- MODULE UdpSource ------------------------------
(***************************************************************************)
(* Package udpsource: a raw UDP source.  The reader goroutine receives,    *)
(* resequences when asked to, accounts for and delivers datagrams; on a    *)
(* separate RTCP socket a second goroutine publishes the sender's clock;   *)
(* Close and Wait are called from anywhere, Close from OnFrame too.        *)
(*                                                                         *)
(* Reorderer, rtp.Stream and the depacketizers are those of RtpPackets.    *)
(***************************************************************************)
EXTENDS RtpPackets

CONSTANTS
    Sources,       \* SSRCs
    Closers, Waiters,
    MaxDatagrams,  \* bound: datagrams read from the media socket
    MaxReports,    \* bound: sender reports received
    MaxFiltered,   \* bound: datagrams from an address outside SourceIP
    Setups         \* the configurations to open the source with

Callers == Closers \cup Waiters
Actors == Callers \cup {"reader"}

ASSUME UdpActorsAssumption ==
    /\ Closers \cap Waiters = {}
    /\ "reader" \notin Callers
    /\ {"free", "fired"} \cap Actors = {}
    /\ "none" \notin Sources
ASSUME UdpBoundsAssumption ==
    {MaxDatagrams, MaxReports, MaxFiltered} \subseteq Nat

NoErr == "nil"
Causes == {"errClosed", "ctxErr", "readTimeout", "connClosed", "panic"}

\* What Config selects: the codecs that deliver one frame per packet are
\* "single"; ModePCM has neither sequence numbers nor RTCP.
Configs ==
    [codec : {"single", "aac", "flac"}, reorder : BOOLEAN,
     rtcp : {"off", "port", "mux"}]
    \cup [codec : {"pcm"}, reorder : {FALSE}, rtcp : {"off"}]

ASSUME UdpSetupsAssumption == Setups \subseteq Configs

VARIABLES
    cfg,
    pc, ret, cause,       \* control points, and initiateShutdown's argument
    once, termErr, closing, conn, rtcpConn,
    queue,                \* packets the reader has to process, in order
    rbuf, nextPos,        \* Reorderer: buffered packets, release point
    lastSSRC,             \* "none" while haveSSRC is false
    stream,               \* rtp.Stream: source and highest position
    frag,                 \* fragments of the unit under reassembly
    pendingGap,
    mediaSSRC,            \* "none" while baseSet is false
    srClock,              \* the source whose report was published
    rtcpPc, report,       \* the RTCP goroutine and the report it holds
    stats,                \* the counters of Stats
    unit,                 \* the unit delivered last: its fragments
    arrived, reports, frames,
    reported,             \* ghost: the sum of SeqGap over this source's frames
    origin, seen,         \* ghosts: its first position, its packets observed
    result

lifeVars == <<once, termErr, closing, conn, rtcpConn>>
ringVars == <<rbuf, nextPos, lastSSRC>>
trackVars == <<stream, frag, pendingGap, unit, frames, origin, seen,
               reported>>
clockVars == <<mediaSSRC, srClock>>
rtcpVars == <<rtcpPc, report, reports>>
vars == <<cfg, pc, ret, cause, lifeVars, queue, ringVars, trackVars, clockVars,
          rtcpVars, stats, arrived, result>>

NoStats == [packets |-> 0, duplicates |-> 0, drops |-> 0, malformed |-> 0,
            filtered |-> 0, resets |-> 0]

\* Open has bound its sockets and started the goroutines.
Init ==
    /\ cfg \in Setups
    /\ pc = [a \in Actors |-> IF a = "reader" THEN "loop" ELSE "idle"]
    /\ ret = [a \in Actors |-> "none"] /\ cause = [a \in Actors |-> NoErr]
    /\ once = "free" /\ termErr = NoErr /\ closing = FALSE
    /\ conn = "open"
    /\ rtcpConn = (IF cfg.rtcp = "port" THEN "open" ELSE "none")
    /\ queue = <<>> /\ rbuf = {} /\ nextPos = 0 /\ lastSSRC = "none"
    /\ stream = NoStream /\ frag = <<>> /\ pendingGap = 0 /\ unit = <<>>
    /\ frames = 0 /\ origin = 0 /\ seen = 0 /\ reported = 0
    /\ mediaSSRC = "none" /\ srClock = "none"
    /\ rtcpPc = (IF cfg.rtcp = "port" THEN "loop" ELSE "off")
    /\ report = "none" /\ reports = 0
    /\ stats = NoStats
    /\ arrived = 0
    /\ result = [w \in Waiters |-> NoErr]

Done == pc["reader"] = "done"                  \* close(c.done) has run

At(a, p) == pc[a] = p
Go(a, p) == pc' = [pc EXCEPT ![a] = p]

-----------------------------------------------------------------------------
(* initiateShutdown: a calls it with cause c and continues at next.        *)

Shutdown(a, c, next) ==
    /\ Go(a, "once")
    /\ ret' = [ret EXCEPT ![a] = next]
    /\ cause' = [cause EXCEPT ![a] = c]

FunnelFrame == UNCHANGED <<cfg, ret, cause, queue, ringVars, trackVars,
                           clockVars, rtcpVars, stats, arrived,
                           result>>

OnceDo(a) ==
    /\ At(a, "once")
    /\ \/ once = "free" /\ once' = a /\ Go(a, "setTerm")
       \/ once = "fired" /\ Go(a, ret[a]) /\ UNCHANGED once
    /\ FunnelFrame
    /\ UNCHANGED <<termErr, closing, conn, rtcpConn>>

SetTerm(a) ==
    /\ At(a, "setTerm") /\ Go(a, "closing")
    /\ termErr' = IF termErr = NoErr THEN cause[a] ELSE termErr
    /\ FunnelFrame
    /\ UNCHANGED <<once, closing, conn, rtcpConn>>

CloseClosing(a) ==
    /\ At(a, "closing") /\ Go(a, "closeConns")
    /\ closing' = TRUE
    /\ FunnelFrame
    /\ UNCHANGED <<once, termErr, conn, rtcpConn>>

CloseConns(a) ==
    /\ At(a, "closeConns") /\ Go(a, ret[a])
    /\ conn' = "closed"
    /\ rtcpConn' = IF rtcpConn = "none" THEN "none" ELSE "closed"
    /\ once' = "fired"
    /\ FunnelFrame
    /\ UNCHANGED <<termErr, closing>>

Funnel(a) == OnceDo(a) \/ SetTerm(a) \/ CloseClosing(a) \/ CloseConns(a)

-----------------------------------------------------------------------------
(* A packet on its way: source, position, and whether its payload is whole *)
(* ("own"), unusable ("bad"), usable up to a partial sample frame ("odd",  *)
(* PCM only) or of another payload type.                                   *)

Kinds == {"own", "bad", "odd", "foreign"}
Packets == [src : Sources, pos : Positions, kind : Kinds]

Resequence(pkt) ==
    LET fresh == lastSSRC # pkt.src
        r == Push(IF fresh THEN {} ELSE rbuf,
                  IF fresh THEN pkt.pos ELSE nextPos, pkt)
    IN  [out |-> (IF fresh THEN InOrder(rbuf) ELSE <<>>) \o r.out,
         late |-> r.late, buf |-> r.buf, next |-> r.next]

Depacketize(f, pkt) ==
    IF pkt.kind = "bad" THEN Bad
    ELSE CASE cfg.codec = "flac" -> DepacketizeFlac(f, pkt)
           [] cfg.codec = "aac" -> DepacketizeAac(f, pkt)
           [] OTHER -> [Complete(<<pkt>>) EXCEPT !.bad = pkt.kind = "odd"]

-----------------------------------------------------------------------------
(* The reader goroutine.                                                   *)

Read == "reader"
Count(field) == [stats EXCEPT ![field] = @ + 1]
ReadFrame == UNCHANGED <<cfg, lifeVars, rtcpVars, result>>

ReaderLoop ==
    /\ At(Read, "loop")
    /\ Go(Read, IF closing THEN "exit" ELSE "recv")
    /\ ReadFrame
    /\ UNCHANGED <<ret, cause, queue, ringVars, trackVars, clockVars, stats,
                   arrived>>

\* A datagram of the media socket: from an unexpected address, not RTP, or
\* a packet, which goes through the resequencer if there is one.
RecvDropped ==
    /\ At(Read, "recv") /\ Go(Read, "loop")
    /\ conn = "open" /\ arrived < MaxDatagrams
    /\ \/ /\ stats.filtered < MaxFiltered
          /\ stats' = Count("filtered") /\ UNCHANGED arrived
       \/ /\ cfg.codec # "pcm"
          /\ stats' = Count("malformed") /\ arrived' = arrived + 1
    /\ ReadFrame
    /\ UNCHANGED <<ret, cause, queue, ringVars, trackVars, clockVars>>

\* A foreign payload type of another source is not resequenced.
Unrelated(pkt) == pkt.kind = "foreign" /\ pkt.src # lastSSRC

RecvPacket(pkt) ==
    /\ At(Read, "recv") /\ Go(Read, "drain")
    /\ cfg.codec # "pcm" /\ (pkt.kind = "odd" => cfg.codec = "single")
    /\ conn = "open" /\ arrived < MaxDatagrams
    /\ arrived' = arrived + 1
    /\ \/ /\ ~cfg.reorder
          /\ queue' = <<pkt>>
          /\ UNCHANGED <<ringVars, stats>>
       \/ /\ cfg.reorder /\ Unrelated(pkt)
          /\ stats' = Count("malformed")
          /\ UNCHANGED <<queue, ringVars>>
       \/ /\ cfg.reorder /\ ~Unrelated(pkt)
          /\ LET r == Resequence(pkt)
             IN  /\ queue' = r.out /\ rbuf' = r.buf /\ nextPos' = r.next
                 /\ stats' = [stats EXCEPT !.drops = @ + r.late]
          /\ lastSSRC' = pkt.src
    /\ ReadFrame
    /\ UNCHANGED <<ret, cause, trackVars, clockVars>>

\* ModePCM delivers the whole sample frames of a datagram.
RecvPCM(kind) ==
    /\ At(Read, "recv") /\ cfg.codec = "pcm"
    /\ conn = "open" /\ arrived < MaxDatagrams
    /\ arrived' = arrived + 1
    /\ stats' = [stats EXCEPT
          !.malformed = IF kind = "own" THEN @ ELSE @ + 1,
          !.packets = IF kind = "bad" THEN @ ELSE @ + 1]
    /\ frames' = IF kind = "bad" THEN frames ELSE frames + 1
    /\ \/ Go(Read, "loop") /\ UNCHANGED <<ret, cause>>
       \/ kind # "bad" /\ Shutdown(Read, "errClosed", "loop")
       \/ kind # "bad" /\ Shutdown(Read, "panic", "exit")
    /\ ReadFrame
    /\ UNCHANGED <<queue, ringVars, stream, frag, pendingGap, unit, origin, seen,
                   reported, clockVars>>

\* processRTP's critical section: a source becomes the media source, and the
\* clock of the one before it is withdrawn.
AdoptKeepsClock(pkt, up) ==
    /\ mediaSSRC' = IF up.reset \/ mediaSSRC = "none" THEN pkt.src
                    ELSE mediaSSRC
    /\ UNCHANGED srClock

AdoptSource(pkt, up) ==
    /\ mediaSSRC' = IF up.reset \/ mediaSSRC = "none" THEN pkt.src
                    ELSE mediaSSRC
    /\ srClock' = IF up.reset THEN "none" ELSE srClock

\* resetReassembly: on a new source and on a gap.
SurvivingAlways(up) == IF up.reset THEN <<>> ELSE frag
Surviving(up) == IF up.reset \/ up.gap > 0 THEN <<>> ELSE frag

\* deliverRTP: a loss is folded into pendingGap and reported by the next frame.
DeliverOwnGap(d, up) ==
    LET pending == (IF up.reset THEN 0 ELSE pendingGap) + up.gap
        old     == IF up.reset THEN 0 ELSE reported
    IN  /\ pendingGap' = 0
        /\ reported' = IF d.unit # <<>> THEN old + pending ELSE old

Deliver(d, up) ==
    LET pending == (IF up.reset THEN 0 ELSE pendingGap) + up.gap
        old     == IF up.reset THEN 0 ELSE reported
    IN  /\ pendingGap' = IF d.unit # <<>> THEN 0 ELSE pending
        /\ reported' = IF d.unit # <<>> THEN old + pending ELSE old

ProcessFrame == /\ queue' = Tail(queue)
                /\ ReadFrame
                /\ UNCHANGED <<ringVars, arrived>>

\* processRTP, payload types first: a foreign one is not observed.
ProcessForeign ==
    /\ At(Read, "drain") /\ queue # <<>> /\ Go(Read, "drain")
    /\ Head(queue).kind = "foreign"
    /\ stats' = Count("malformed")
    /\ ProcessFrame
    /\ UNCHANGED <<ret, cause, trackVars, clockVars>>

ProcessDuplicate ==
    /\ At(Read, "drain") /\ queue # <<>> /\ Go(Read, "drain")
    /\ Head(queue).kind # "foreign" /\ Observe(stream, Head(queue)).dup
    /\ stats' = Count("duplicates")
    /\ ProcessFrame
    /\ UNCHANGED <<ret, cause, trackVars, clockVars>>

\* OnFrame returns, calls Close on this goroutine, or panics.
ProcessPacket ==
    /\ At(Read, "drain") /\ queue # <<>>
    /\ Head(queue).kind # "foreign" /\ ~Observe(stream, Head(queue)).dup
    /\ LET pkt == Head(queue)
           up  == Observe(stream, pkt)
           d   == Depacketize(Surviving(up), pkt)
       IN  /\ stream' = [ssrc |-> pkt.src, high |-> pkt.pos]
           /\ AdoptSource(pkt, up)
           /\ frag' = d.frag
           /\ Deliver(d, up)
           /\ origin' = IF stream.ssrc = pkt.src THEN origin ELSE pkt.pos
           /\ seen' = IF stream.ssrc = pkt.src THEN seen + 1 ELSE 1
           /\ stats' = [stats EXCEPT
                 !.packets = @ + 1,
                 !.resets = IF up.reset THEN @ + 1 ELSE @,
                 !.malformed = IF d.bad THEN @ + 1 ELSE @]
           /\ unit' = d.unit
           /\ frames' = IF d.unit # <<>> THEN frames + 1 ELSE frames
           /\ \/ Go(Read, "drain") /\ UNCHANGED <<ret, cause>>
              \/ d.unit # <<>> /\ Shutdown(Read, "errClosed", "drain")
              \/ d.unit # <<>> /\ Shutdown(Read, "panic", "exit")
    /\ ProcessFrame

DrainEnd ==
    /\ At(Read, "drain") /\ queue = <<>> /\ Go(Read, "loop")
    /\ ReadFrame
    /\ UNCHANGED <<ret, cause, queue, ringVars, trackVars, clockVars, stats,
                   arrived>>

\* classifyReadErr: a recorded cause first.
RecvFails ==
    /\ At(Read, "recv")
    /\ \E c \in {"readTimeout", "connClosed"} :
          /\ conn = "closed" => c = "connClosed"
          /\ Shutdown(Read, IF closing /\ termErr # NoErr THEN termErr ELSE c,
                      "exit")
    /\ ReadFrame
    /\ UNCHANGED <<queue, ringVars, trackVars, clockVars, stats, arrived>>

ReaderExit ==
    /\ At(Read, "exit") /\ Go(Read, "done")
    /\ ReadFrame
    /\ UNCHANGED <<ret, cause, queue, ringVars, trackVars, clockVars, stats,
                   arrived>>

-----------------------------------------------------------------------------
(* RTCP.  A report is published under rtcpMu when it is of the media       *)
(* source; on the shared socket the reader itself handles it.              *)

\* A report without a timestamp withdraws the clock.
Publish(s) ==
    /\ \/ s = mediaSSRC /\ srClock' \in {s, "none"}
       \/ s # mediaSSRC /\ UNCHANGED srClock
    /\ UNCHANGED mediaSSRC

RtcpFrame == UNCHANGED <<cfg, ret, cause, lifeVars, queue, ringVars, trackVars,
                         stats, arrived, result>>

RecvReport(s) ==
    /\ At(Read, "recv") /\ Go(Read, "loop")
    /\ cfg.rtcp = "mux" /\ conn = "open"
    /\ reports < MaxReports
    /\ reports' = reports + 1
    /\ Publish(s)
    /\ RtcpFrame
    /\ UNCHANGED <<rtcpPc, report>>

RtcpLoop ==
    /\ rtcpPc = "loop"
    /\ rtcpPc' = IF closing THEN "off" ELSE "recv"
    /\ RtcpFrame
    /\ UNCHANGED <<pc, clockVars, report, reports>>

RtcpFiltered ==
    /\ rtcpPc = "recv" /\ rtcpConn = "open"
    /\ stats.filtered < MaxFiltered
    /\ stats' = Count("filtered")
    /\ rtcpPc' = "loop"
    /\ UNCHANGED <<cfg, pc, ret, cause, lifeVars, queue, ringVars, trackVars,
                   clockVars, report, reports, arrived, result>>

\* A report is parsed before rtcpMu is taken.
RtcpRecv(s) ==
    /\ rtcpPc = "recv" /\ rtcpConn = "open"
    /\ reports < MaxReports
    /\ reports' = reports + 1
    /\ report' = s
    /\ rtcpPc' = "publish"
    /\ RtcpFrame
    /\ UNCHANGED <<pc, clockVars>>

RtcpPublish ==
    /\ rtcpPc = "publish"
    /\ rtcpPc' = "loop"
    /\ report' = "none"
    /\ Publish(report)
    /\ RtcpFrame
    /\ UNCHANGED <<pc, reports>>

\* A read error ends this goroutine and nothing else.
RtcpFails ==
    /\ rtcpPc = "recv"
    /\ rtcpPc' = "off"
    /\ RtcpFrame
    /\ UNCHANGED <<pc, clockVars, report, reports>>

-----------------------------------------------------------------------------
(* Close and Wait.                                                         *)

CallerFrame == UNCHANGED <<cfg, lifeVars, queue, ringVars, trackVars, clockVars,
                           rtcpVars, stats, arrived>>

CallClose(c) ==
    /\ At(c, "idle")
    /\ Shutdown(c, "errClosed", "returned")
    /\ CallerFrame
    /\ UNCHANGED result

WaitCtx(w) ==
    /\ At(w, "idle")
    /\ Shutdown(w, "ctxErr", "waitDone")
    /\ CallerFrame
    /\ UNCHANGED result

\* Wait joins both goroutines.
JoinReaderOnly == Done
Join == Done /\ rtcpPc = "off"

WaitDone(w) ==
    /\ pc[w] \in {"idle", "waitDone"} /\ Join
    /\ Go(w, "returned")
    /\ result' = [result EXCEPT ![w] = termErr]
    /\ CallerFrame
    /\ UNCHANGED <<ret, cause>>

ReaderStep ==
    \/ ReaderLoop \/ RecvDropped \/ RecvFails \/ ReaderExit
    \/ ProcessForeign \/ ProcessDuplicate \/ ProcessPacket \/ DrainEnd
    \/ \E pkt \in Packets : RecvPacket(pkt)
    \/ \E kind \in Kinds \ {"foreign"} : RecvPCM(kind)
    \/ \E s \in Sources : RecvReport(s)
RtcpStep ==
    \/ RtcpLoop \/ RtcpFiltered \/ RtcpPublish \/ RtcpFails
    \/ \E s \in Sources : RtcpRecv(s)
CallerStep ==
    \/ \E c \in Closers : CallClose(c)
    \/ \E w \in Waiters : WaitCtx(w) \/ WaitDone(w)

Terminated ==
    /\ Done /\ rtcpPc = "off"
    /\ \A c \in Callers : pc[c] \in {"idle", "returned"}
    /\ UNCHANGED vars

Next ==
    \/ ReaderStep \/ RtcpStep \/ CallerStep
    \/ \E a \in Actors : Funnel(a)
    \/ Terminated

Spec == Init /\ [][Next]_vars

-----------------------------------------------------------------------------
(* Properties.                                                             *)

\* The published sender clock is of the source the media comes from: a
\* report of the previous source that races its replacement is never left
\* behind (rtcpMu in processRTP and handleRTCP).
ClockOfSource == srClock \in {mediaSSRC, "none"}

\* A reassembled unit is made of consecutive packets of one source and one
\* unit, up to the one with the marker: a lost or foreign fragment is never
\* spliced over (resetReassembly on a gap and on a new source), and an AAC
\* access unit is complete.
NoSplice == Unspliced(unit, cfg.codec)

\* Summing SeqGap over the frames counts every lost packet of the current
\* source once: what was reported, what waits for the next frame and what
\* was received make up the span of its sequence numbers, whatever packets
\* were duplicates, malformed or completed no frame (pendingGap).
LossAccounted ==
    stream.ssrc # "none" =>
        reported + pendingGap + seen = stream.high - origin + 1

\* A raw UDP source is a Source: the first cause wins, Wait returns it and
\* only after the reader and the RTCP goroutine have both ended, and no
\* frame is delivered after that.
Contract == INSTANCE SourceContract WITH
    NoCause <- NoErr, Deliveries <- 0 .. MaxDatagrams,
    cause <- termErr, ended <- Done /\ rtcpPc = "off", delivered <- frames
ImplementsSource == Contract!Spec
=============================================================================
