------------------------------ MODULE RtpTrack ------------------------------
(***************************************************************************)
(* Package rtsp, pipeline.go, udprecv.go and the packet side of reader.go: *)
(* one set-up track, from the wire to OnFrame.  Over TCP the reader does   *)
(* it all and also keeps the framing of the byte stream (consume); over    *)
(* UDP the RTP and the RTCP goroutine run side by side and share the       *)
(* atomics senderSSRC, baseSet and srClock.  Play stores the RTP-Info seed *)
(* from the caller's goroutine at any time.                                *)
(***************************************************************************)
EXTENDS RtpPackets

CONSTANTS
    Sources,         \* SSRCs
    PayloadTypes, Declared,   \* the type the SDP names for the track
    Configs,         \* AudioSpecificConfigs
    AdoptThreshold,  \* ptAdoptThreshold
    MaxResyncBytes,  \* maxResyncBytes
    Seeds,           \* RTP-Info timestamps, in units
    Setups,          \* the tracks to check
    MaxUnits,        \* bound: packets, messages and garbage bytes read
    MaxReports       \* bound: RTCP compounds read

\* What Setup makes of a track (newTrack): the codecs that deliver one frame
\* per packet are "one", or "pcm" when they are skipped without a callback.
\* A LATM track knows its config from the SDP ("known"), takes it from the
\* stream, or starts from the SDP's and follows the stream ("seeded").
Tracks == [codec : {"one", "pcm", "aac", "flac", "mp3", "latm", "discard"},
           udp : BOOLEAN, onFrame : BOOLEAN,
           sdpPT : {Declared, "unknown"},
           latm : {"none", "known", "inband", "seeded"},
           types : SUBSET PayloadTypes,     \* payload types the peer sends
           strays : BOOLEAN,                \* undeclared ones under any SSRC
           resends : BOOLEAN,               \* over TCP too it repeats packets
                                            \* and sends them out of order
           rtcp : BOOLEAN, info : BOOLEAN]  \* Sender Reports; an RTP-Info

ASSUME TrackAssumption ==
    /\ Setups \subseteq Tracks
    /\ \A t \in Setups : t.codec = "discard" => ~t.rtcp
    /\ Declared \in PayloadTypes /\ {"none", "unknown"} \cap PayloadTypes = {}
    /\ "none" \notin Sources \cup Configs /\ "same" \notin Configs
    /\ AdoptThreshold \in Nat \ {0}
    /\ {MaxResyncBytes, MaxUnits, MaxReports} \subseteq Nat
    /\ Seeds \subseteq Nat

VARIABLES
    cfg,
    alive,                \* FALSE once a framing error ended the session
    resync,               \* bytes discarded by the current resynchronisation
    pc, queue,            \* process, and the packets it has to take
    rbuf, nextPos, lastSSRC,          \* runRTPReceiver's resequencer
    pt,                   \* acceptPayloadType: settled type, candidate and run
    stream, up,           \* rtp.Stream and what Observe returned
    frag, latm, latmASC, pendingGap,
    baseTS, baseSet, baselineFixed, seed, hasSeed,
    senderSSRC, srClock,  \* "none" for zero and nil
    rtcp,                 \* the RTCP goroutine: step and compound or report
    stats,
    unit, pts,            \* the frame delivered last: its packets and PTS
    told,                 \* ghost: the config the consumer decodes with
    arrived, reports,
    episode,              \* ghost: bytes discarded since a unit was usable
    settled, streak, runs, \* ghosts: the declared type came; the current run;
                          \* the types that had a long one
    origin, seen, reported     \* ghosts: as in UdpSource

wireVars == <<alive, resync, episode>>
ringVars == <<rbuf, nextPos, lastSSRC>>
typeVars == <<pt, settled, streak, runs>>
codecVars == <<frag, latm, latmASC, pendingGap, unit, pts, told, reported>>
seedVars == <<seed, hasSeed>>
baseVars == <<baseTS, baseSet, baselineFixed>>
viewVars == <<stream, up, origin, seen>>
vars == <<cfg, wireVars, pc, queue, ringVars, typeVars, codecVars, baseVars,
          viewVars, seedVars, senderSSRC, srClock, rtcp, stats, arrived, reports>>

SdpConfig == CHOOSE c \in Configs : TRUE
NoStats == [packets |-> 0, malformed |-> 0, drops |-> 0, resets |-> 0]
Idle == [step |-> "recv", ssrcs |-> <<>>]

\* latm.New and configureLATM: a config of the SDP is already on the Track.
KnownConfig == IF cfg.latm \in {"known", "seeded"} THEN SdpConfig ELSE "none"

Init ==
    /\ cfg \in Setups
    /\ alive = TRUE /\ resync = 0 /\ episode = 0
    /\ pc = "recv" /\ queue = <<>>
    /\ rbuf = {} /\ nextPos = 0 /\ lastSSRC = "none"
    /\ pt = [type |-> "none", candidate |-> "none", run |-> 0]
    /\ settled = FALSE /\ streak = [type |-> "none", n |-> 0] /\ runs = {}
    /\ stream = NoStream /\ up = [reset |-> FALSE, dup |-> FALSE, gap |-> 0]
    /\ origin = 0 /\ seen = 0
    /\ frag = <<>> /\ pendingGap = 0 /\ unit = <<>> /\ pts = 0 /\ reported = 0
    /\ latm = KnownConfig /\ latmASC = KnownConfig /\ told = KnownConfig
    /\ baseTS = 0 /\ baseSet = FALSE /\ baselineFixed = FALSE
    /\ seed = 0 /\ hasSeed = FALSE
    /\ senderSSRC = "none" /\ srClock = "none" /\ rtcp = Idle
    /\ stats = NoStats
    /\ arrived = 0 /\ reports = 0

\* What a peer sends: payloads are whole or unusable, and those of a LATM
\* track in-band carry a config or rely on the last one.
Packets ==
    [src : Sources, pos : Positions, pt : cfg.types,
     bad : BOOLEAN,
     conf : IF cfg.latm \in {"inband", "seeded"} THEN Configs \cup {"same"}
            ELSE {"same"}]

\* An undeclared type shares the SSRC of the media unless it is a stray, and
\* a server that does not resend sends in order what it sends over TCP; no
\* resequencer stands between a TCP peer and process.
Sent(pkt) ==
    /\ cfg.strays \/ pkt.pt = Declared \/ pkt.src = lastSSRC \/ ~cfg.udp
    /\ (~cfg.udp /\ ~cfg.resends /\ stream.ssrc = pkt.src) => pkt.pos > stream.high

Bump(field) == [stats EXCEPT ![field] = @ + 1]

-----------------------------------------------------------------------------
(* The TCP reader between two packets: consume and resyncOne.              *)

ReadUnit ==
    /\ alive /\ pc = "recv" /\ arrived < MaxUnits
    /\ arrived' = arrived + 1

ReaderFrame == UNCHANGED <<cfg, pc, queue, ringVars, typeVars, codecVars,
                           baseVars, viewVars, seedVars, senderSSRC, srClock, rtcp,
                           reports>>

\* A byte is given up, within the budget.
ResyncOne ==
    /\ resync' = resync + 1
    /\ alive' = (resync' <= MaxResyncBytes)
    /\ episode' = episode + 1

Relocked == resync' = 0 /\ episode' = 0 /\ UNCHANGED alive

\* No unit starts with this byte.
ReadGarbage ==
    /\ ~cfg.udp /\ ReadUnit
    /\ ResyncOne
    /\ ReaderFrame /\ UNCHANGED stats

\* An interleaved frame of no track: taken at its word, but not while
\* resynchronizing (gateResyncFrame).
ReadUnbound ==
    /\ ~cfg.udp /\ ReadUnit
    /\ \/ resync > 0 /\ ResyncOne
       \/ resync = 0 /\ UNCHANGED wireVars
    /\ ReaderFrame /\ UNCHANGED stats

\* Mutant of ReadMalformed: a bound channel alone ends the resynchronisation.
ReadMalformedRelocks ==
    /\ ReadUnit
    /\ stats' = Bump("malformed")
    /\ resync' = 0 /\ UNCHANGED <<alive, episode>>
    /\ ReaderFrame

\* A frame of the track that is no RTP packet; a datagram that is none.
ReadMalformed ==
    /\ ReadUnit
    /\ stats' = Bump("malformed")
    /\ UNCHANGED wireVars
    /\ ReaderFrame

\* A response or request; while resynchronizing one that does not parse is
\* only garbage.
ReadMessage ==
    /\ ~cfg.udp /\ ReadUnit
    /\ \/ Relocked
       \/ resync > 0 /\ ResyncOne
       \/ resync = 0 /\ alive' = FALSE /\ UNCHANGED <<resync, episode>>
    /\ ReaderFrame /\ UNCHANGED stats

\* A discarded track is counted and never parsed.
ReadDiscard ==
    /\ cfg.codec = "discard" /\ ReadUnit
    /\ stats' = Bump("packets")
    /\ IF cfg.udp THEN UNCHANGED wireVars ELSE Relocked
    /\ ReaderFrame

-----------------------------------------------------------------------------
(* Media: a packet goes to process, over UDP through the resequencer.      *)

RecvTcp(pkt) ==
    /\ ~cfg.udp /\ cfg.codec # "discard" /\ ReadUnit /\ Sent(pkt)
    /\ queue' = <<pkt>> /\ pc' = "process"
    /\ UNCHANGED <<cfg, wireVars, ringVars, typeVars, codecVars, baseVars,
                   viewVars, seedVars, senderSSRC, srClock, rtcp, stats, reports>>

\* runRTPReceiver: a new SSRC flushes and resets the resequencer first.
RecvUdp(pkt) ==
    /\ cfg.udp /\ cfg.codec # "discard" /\ ReadUnit /\ Sent(pkt)
    /\ LET fresh == lastSSRC # pkt.src
           r == Push(IF fresh THEN {} ELSE rbuf,
                     IF fresh THEN pkt.pos ELSE nextPos, pkt)
       IN  /\ queue' = (IF fresh THEN InOrder(rbuf) ELSE <<>>) \o r.out
           /\ rbuf' = r.buf /\ nextPos' = r.next
           /\ stats' = [stats EXCEPT !.drops = @ + r.late]
    /\ lastSSRC' = pkt.src
    /\ pc' = IF queue' = <<>> THEN "recv" ELSE "process"
    /\ UNCHANGED <<cfg, wireVars, typeVars, codecVars, baseVars, viewVars, seedVars,
                   senderSSRC, srClock, rtcp, reports>>

-----------------------------------------------------------------------------
(* process: one packet, in the order of its stores.                        *)

\* Mutant of RunOf: packets of different types add up to a run.
RunOfAny(t) == pt.run + 1

\* The run of one undeclared type that t continues or starts.
RunOf(t) == IF pt.run > 0 /\ t = pt.candidate THEN pt.run + 1 ELSE 1

\* acceptPayloadType: its verdict and the track's next view of its type.
AcceptPayloadType(t) ==
    IF cfg.sdpPT = "unknown"
    THEN [pt EXCEPT !.type = IF @ = "none" THEN t ELSE @]
    ELSE CASE t = cfg.sdpPT -> [pt EXCEPT !.type = t, !.run = 0]
           [] t # cfg.sdpPT /\ pt.type # "none" -> pt
           [] OTHER ->
                  [type |-> IF RunOf(t) < AdoptThreshold THEN "none" ELSE t,
                   candidate |-> t, run |-> RunOf(t)]

Classify ==
    /\ pt' = AcceptPayloadType(Head(queue).pt)
    /\ settled' = (settled \/ Head(queue).pt = Declared)
    /\ streak' = [type |-> Head(queue).pt,
                  n |-> IF streak.type = Head(queue).pt THEN streak.n + 1 ELSE 1]
    /\ runs' = IF streak'.n >= AdoptThreshold THEN runs \cup {streak'.type}
               ELSE runs

\* A foreign payload type is dropped before the stream observes it.
ProcessForeign ==
    /\ pc = "process" /\ Classify /\ pt'.type # Head(queue).pt
    /\ queue' = Tail(queue)
    /\ pc' = IF queue' = <<>> THEN "recv" ELSE "process"
    /\ stats' = Bump("malformed")
    /\ UNCHANGED <<cfg, wireVars, ringVars, codecVars, baseVars, viewVars, seedVars,
                   senderSSRC, srClock, rtcp, arrived, reports>>

\* Mutant of Forget: fragments survive a gap.
ForgetOnReset(u) ==
    /\ frag' = IF u.reset THEN <<>> ELSE frag
    /\ pendingGap' = IF u.reset THEN 0 ELSE pendingGap
    /\ reported' = IF u.reset THEN 0 ELSE reported
    /\ latm' = IF u.reset /\ cfg.latm # "known" THEN KnownConfig ELSE latm
    /\ latmASC' = IF u.reset THEN latm' ELSE latmASC

\* resetDepacketizer: fragments go on a gap and on a new source, the pending
\* gap and a config taken from the stream only on a new source.
Forget(u) ==
    /\ frag' = IF u.reset \/ u.gap > 0 THEN <<>> ELSE frag
    /\ pendingGap' = IF u.reset THEN 0 ELSE pendingGap
    /\ reported' = IF u.reset THEN 0 ELSE reported
    /\ latm' = IF u.reset /\ cfg.latm # "known" THEN KnownConfig ELSE latm
    /\ latmASC' = IF u.reset THEN latm' ELSE latmASC

\* Observe, and what a new source or a gap resets.
ProcessObserve ==
    /\ pc = "process" /\ Classify /\ pt'.type = Head(queue).pt
    /\ \E u \in {Observe(stream, Head(queue))} :
          /\ up' = u
          /\ Forget(u)
          /\ baseSet' = (baseSet /\ ~u.reset)
          /\ srClock' = IF u.reset THEN "none" ELSE srClock
          /\ stats' = IF u.reset THEN Bump("resets") ELSE stats
          /\ stream' = IF u.dup THEN stream
                       ELSE [ssrc |-> Head(queue).src, high |-> Head(queue).pos]
          /\ seen' = IF stream.ssrc # Head(queue).src THEN 1
                     ELSE IF u.dup THEN seen ELSE seen + 1
    /\ origin' = IF stream.ssrc # Head(queue).src THEN Head(queue).pos ELSE origin
    /\ pc' = IF baseSet' THEN "deliver" ELSE "sender"
    /\ unit' = <<>>
    /\ UNCHANGED <<cfg, wireVars, queue, ringVars, pts, told, baseTS,
                   baselineFixed, seedVars, senderSSRC, rtcp, arrived, reports>>

ProcessSender ==
    /\ pc = "sender"
    /\ senderSSRC' = Head(queue).src
    /\ pc' = "baseline"
    /\ UNCHANGED <<cfg, wireVars, queue, ringVars, typeVars, codecVars, baseVars,
                   viewVars, seedVars, srClock, rtcp, stats, arrived, reports>>

\* Mutant of SeededOrigin: the seed applies to every new source.
SeededAlways(t) == IF hasSeed /\ seed <= t THEN seed ELSE t

\* seededOrigin: the seed moves the first baseline only, and only back.
SeededOrigin(t) ==
    IF ~baselineFixed /\ hasSeed /\ seed <= t THEN seed ELSE t

ProcessBaseline ==
    /\ pc = "baseline"
    /\ baseTS' = SeededOrigin(UnitOf(Head(queue).pos))
    /\ baseSet' = TRUE /\ baselineFixed' = TRUE
    /\ pc' = "deliver"
    /\ UNCHANGED <<cfg, wireVars, queue, ringVars, typeVars, codecVars, viewVars,
                   seedVars, senderSSRC, srClock, rtcp, stats, arrived, reports>>

\* ptsOf, clamped at the baseline.
PtsOf(t) == IF t < baseTS THEN 0 ELSE t - baseTS

\* latm.Depacketize: a config in the packet replaces the one held, even when
\* the payload after it is unusable.
LatmConfig(pkt) == IF pkt.conf = "same" THEN latm ELSE pkt.conf

Depacketize(pkt) ==
    IF pkt.bad \/ (cfg.codec = "latm" /\ LatmConfig(pkt) = "none") THEN Bad
    ELSE CASE cfg.codec = "aac" -> DepacketizeAac(frag, pkt)
           [] cfg.codec = "flac" -> DepacketizeFlac(frag, pkt)
           [] cfg.codec = "mp3" -> DepacketizeMp3(frag, pkt)
           [] OTHER -> Complete(<<pkt>>)

\* Mutant of Gap: every access unit of a packet reports the loss before it.
GapOnEach(i, pending) == pending

\* The SeqGap of the i-th frame a packet completes.
Gap(i, pending) == IF i = 1 THEN pending ELSE 0

\* A whole AAC, LATM or MP3 packet carries two frames.
Frames(d) ==
    IF d.unit = <<>> THEN 0
    ELSE IF cfg.codec \in {"aac", "latm", "mp3"} /\ Len(d.unit) = 1 THEN 2
    ELSE 1

\* The deliver methods: the gap is folded in first and drained onto the first
\* frame; a track whose callback is nil drains too, unless its codec skips
\* such packets altogether.
Deliver(d, pending) ==
    /\ pendingGap' = IF d.unit = <<>> THEN pending ELSE 0
    /\ reported' = reported + (IF Frames(d) >= 1 THEN Gap(1, pending) ELSE 0)
                            + (IF Frames(d) >= 2 THEN Gap(2, pending) ELSE 0)
    /\ unit' = IF cfg.onFrame THEN d.unit ELSE <<>>

\* Mutant of Announce: a config is reported once per session.
AnnounceOnce(d) ==
    /\ latmASC' = IF ~d.bad /\ cfg.codec = "latm" THEN latm' ELSE latmASC
    /\ told' = IF latmASC = "none" THEN latmASC' ELSE told

\* deliverLATM: OnCodecUpdate, before the frames, when the config is not the
\* one reported last.
Announce(d) ==
    /\ latmASC' = IF ~d.bad /\ cfg.codec = "latm" THEN latm' ELSE latmASC
    /\ told' = IF latmASC' # latmASC THEN latmASC' ELSE told

ProcessDeliver ==
    /\ pc = "deliver"
    /\ \E pkt \in {Head(queue)} : \E d \in {Depacketize(pkt)} :
          /\ frag' = d.frag
          /\ latm' = IF cfg.codec = "latm" THEN LatmConfig(pkt) ELSE latm
          /\ Announce(d)
          /\ IF cfg.codec = "pcm" /\ ~cfg.onFrame
             THEN UNCHANGED <<pendingGap, reported, unit>>
             ELSE Deliver(d, pendingGap + up.gap)
          /\ pts' = PtsOf(UnitOf(pkt.pos))
          /\ stats' = [stats EXCEPT !.packets = @ + 1,
                                    !.malformed = IF d.bad THEN @ + 1 ELSE @]
    /\ queue' = Tail(queue)
    /\ pc' = IF queue' = <<>> THEN "recv" ELSE "process"
    /\ IF cfg.udp THEN UNCHANGED wireVars ELSE Relocked
    /\ UNCHANGED <<cfg, ringVars, typeVars, baseVars, viewVars, seedVars, senderSSRC,
                   srClock, rtcp, arrived, reports>>

-----------------------------------------------------------------------------
(* Play's goroutine.                                                       *)

\* seedFromRTPInfo.
StoreSeed(t) ==
    /\ cfg.info /\ ~hasSeed
    /\ seed' = t /\ hasSeed' = TRUE
    /\ UNCHANGED <<cfg, wireVars, pc, queue, ringVars, typeVars, codecVars,
                   baseVars, viewVars, senderSSRC, srClock, rtcp, stats,
                   arrived, reports>>

-----------------------------------------------------------------------------
(* handleRTCP: a compound of Sender Reports, of several sources when the   *)
(* peer is a mixer.  Over TCP the reader runs it in one piece.             *)

Compounds == {<<s>> : s \in Sources} \cup {<<s, t>> : s, t \in Sources}

\* The report to use when senderSSRC is want, "none" without one.
Wanted(want, ssrcs) ==
    IF want = "none" THEN Head(ssrcs)
    ELSE IF want \in ToSet(ssrcs) THEN want ELSE "none"

RtcpFrame == UNCHANGED <<cfg, pc, queue, ringVars, typeVars, codecVars,
                         baseVars, viewVars, seedVars, stats, arrived>>

\* A report without an NTP time withdraws the clock.
ReadReport(ssrcs) ==
    /\ ~cfg.udp /\ cfg.rtcp /\ alive /\ pc = "recv"
    /\ reports < MaxReports /\ reports' = reports + 1
    /\ \E sr \in {Wanted(senderSSRC, ssrcs)} :
          IF sr = "none" THEN UNCHANGED <<senderSSRC, srClock>>
          ELSE /\ senderSSRC' = sr
               /\ IF baseSet THEN srClock' \in {sr, "none"}
                  ELSE UNCHANGED srClock
    /\ Relocked
    /\ RtcpFrame /\ UNCHANGED rtcp

RtcpRecv(ssrcs) ==
    /\ cfg.udp /\ cfg.rtcp /\ rtcp = Idle
    /\ reports < MaxReports /\ reports' = reports + 1
    /\ rtcp' = [step |-> "load", ssrcs |-> ssrcs]
    /\ RtcpFrame /\ UNCHANGED <<wireVars, senderSSRC, srClock>>

RtcpLoad ==
    /\ rtcp.step = "load"
    /\ \E sr \in {Wanted(senderSSRC, rtcp.ssrcs)} :
          rtcp' = IF sr = "none" THEN Idle
                  ELSE [step |-> "store", ssrcs |-> <<sr>>]
    /\ RtcpFrame /\ UNCHANGED <<wireVars, senderSSRC, srClock, reports>>

RtcpStore ==
    /\ rtcp.step = "store"
    /\ senderSSRC' = Head(rtcp.ssrcs)
    /\ rtcp' = [rtcp EXCEPT !.step = IF baseSet THEN "publish" ELSE "skip"]
    /\ RtcpFrame /\ UNCHANGED <<wireVars, srClock, reports>>

RtcpPublish ==
    /\ rtcp.step \in {"publish", "skip"}
    /\ IF rtcp.step = "publish" THEN srClock' \in {Head(rtcp.ssrcs), "none"}
       ELSE UNCHANGED srClock
    /\ rtcp' = Idle
    /\ RtcpFrame /\ UNCHANGED <<wireVars, senderSSRC, reports>>

Next ==
    \/ ReadGarbage \/ ReadUnbound \/ ReadMalformed \/ ReadMessage \/ ReadDiscard
    \/ \E pkt \in Packets : RecvTcp(pkt) \/ RecvUdp(pkt)
    \/ ProcessForeign \/ ProcessObserve \/ ProcessSender \/ ProcessBaseline
    \/ ProcessDeliver
    \/ \E t \in Seeds : StoreSeed(t)
    \/ \E c \in Compounds : ReadReport(c) \/ RtcpRecv(c)
    \/ RtcpLoad \/ RtcpStore \/ RtcpPublish

Spec == Init /\ [][Next]_vars

-----------------------------------------------------------------------------
(* Properties.                                                             *)

\* The depacketizer sees the packets of a source once each and in order.  A TCP
\* peer that resends reaches it directly; over UDP undeclared types under other
\* SSRCs reset the resequencer and are then dropped, so that Observe never
\* learns of it.
InSequence == IF cfg.udp THEN ~cfg.strays ELSE ~cfg.resends

\* A unit never mixes two sources, and it is made of consecutive fragments: a
\* lost one "cannot be spliced onto the next frame" (resetDepacketizer on a gap
\* and on a new source), whatever else the packets around it do.  A duplicate
\* or late packet resets nothing (process), so AAC and FLAC, which take a
\* fragment for the next one, need their packets in sequence; MP3, which checks
\* the offset of each, does not.
NoSplice ==
    /\ \A i \in 1 .. Len(unit) : unit[i].src = stream.ssrc
    /\ (cfg.codec \in {"aac", "flac"} => InSequence) => Unspliced(unit, cfg.codec)

\* "summing SeqGap across frames counts each loss once": between packets, what
\* the frames of the current source reported, what waits for the next frame
\* and what was received make up the span of its sequence numbers, although
\* malformed packets and fragments complete no frame, one packet completes
\* several, and a new source starts from nothing (pendingGap).
LossAccounted ==
    (cfg.onFrame /\ stream.ssrc # "none" /\ pc \in {"recv", "process"}) =>
        reported + pendingGap + seen = stream.high - origin + 1

\* acceptPayloadType: "a stray packet cannot capture the track": of a payload
\* type other than the declared one a frame is delivered only while the
\* declared type never came and after AdoptThreshold packets in a row of that
\* same type.
NotCaptured ==
    (unit # <<>> /\ cfg.sdpPT = Declared /\ Last(unit).pt # Declared) =>
        ~settled /\ Last(unit).pt \in runs

\* "a later SSRC reset re-baselines cleanly from its first packet rather than
\* re-applying the stale origin", however late Play stored the seed: after a
\* change of source the presentation time counts from its first packet, and an
\* older packet that comes after it is not given a time before it.
PtsRestarts ==
    LET t == UnitOf(Last(unit).pos)
    IN  (unit # <<>> /\ stats.resets > 0) =>
            pts = IF t < UnitOf(origin) THEN 0 ELSE t - UnitOf(origin)

\* OnCodecUpdate "fires BEFORE the OnFrame call for the first access unit
\* decoded under the newly resolved config" and "again if it changes": the
\* consumer never holds another config than the one a frame was parsed with.
CodecTold == (unit # <<>> /\ cfg.codec = "latm") => told = latm

\* resyncOne: the budget "bounds one episode of garbage": a session outlives
\* at most MaxResyncBytes discarded bytes between two usable units, however
\* many frames with a bound channel and no packet in them lie between.
ResyncBounded == alive => episode <= MaxResyncBytes

\* handleRTCP: "a mapping is only ever published for the confirmed media
\* source".
ClockOfMedia == srClock \in {stream.ssrc, "none"}
=============================================================================
