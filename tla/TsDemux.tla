------------------------------ MODULE TsDemux -------------------------------
(***************************************************************************)
(* The MPEG-TS demuxer of the HLS source (hlssource/tsdemux.go): table     *)
(* acquisition, the continuity counter of the audio PID, PES headers, and  *)
(* the ADTS framer that lives across segments.  A packet is a record       *)
(*   [k, pid, start, cc, splice, bad, hdr, at, es, maps, last]             *)
(* k: "pat", "pmt", "audio", "null", "error", "scrambled" or "garbage";    *)
(* start: payload_unit_start; splice: discontinuity_indicator; bad: a      *)
(* start that is no PES header, or whose pointer_field leads past it; hdr: *)
(* the cells of a PES header that run past its packet; es: cells of the    *)
(* elementary stream, the first one at position at of the stream the       *)
(* origin produced, or the stream types a PMT lists; maps: the PID a PAT   *)
(* gives the first program, NoPID without one, or a PMT the AAC stream;    *)
(* last: a table section is complete with this packet.  A continuation     *)
(* without es has no payload.                                              *)
(***************************************************************************)
EXTENDS Framer

CONSTANT CCMod   \* the continuity counter counts modulo this

ASSUME TsAssumption == CCMod \in Nat \ {0, 1}

\* What a packet is taken apart into; see above.
Packet == [k : STRING, pid : Nat, start : BOOLEAN, cc : Nat, splice : BOOLEAN,
           bad : BOOLEAN, hdr : Nat, at : Nat, es : Seq(STRING), maps : Nat,
           last : BOOLEAN]

\* The PAT's own PID: havePMT and haveAudio are a PID other than this.
NoPID == 0

NewTS ==
    [pmtPID |-> NoPID, audioPID |-> NoPID, patSec |-> FALSE, pmtSec |-> FALSE,
     haveCC |-> FALSE, cc |-> 0, skip |-> 0, dropping |-> FALSE,
     buf |-> <<>>, ids |-> <<>>, fs |-> NewStream, asc |-> "none", gaps |-> 0]

\* What a step of the demuxer yields: its state, access units, an error.
Yield(d, aus, err) == [d |-> d, aus |-> aus, err |-> err]

\* The framer's loop at one of its states, and what one call made of it.
Draining(fs, st, aus) == [fs |-> fs, st |-> st, aus |-> aus]

\* An access unit is the cells it was cut from.
CutAU(d, to) ==
    [ids |-> SubSeq(d.ids, to - FrameLen + 1, to), cfg |-> Config(d.buf[to - FrameLen + 1])]

Drew(d, p, r) ==
    Draining(r.s, r.st, IF r.st = "frame" THEN Append(p.aus, CutAU(d, r.s.off)) ELSE p.aus)

DrainStep(d, p) ==
    IF p.st = "wait" THEN p
    ELSE Drew(d, p, NextFrame("aac", p.fs, SubSeq(d.buf, p.fs.off + 1, Len(d.buf))))

\* NextFrame until it has no more; the first frame gives the configuration.
Drain(d) ==
    LET D[k \in 0..(Len(d.buf) + 1)] ==
            IF k = 0 THEN Draining(d.fs, "again", <<>>) ELSE DrainStep(d, D[k - 1])
        Drained(r) ==
            Yield([d EXCEPT !.fs = r.fs,
                            !.asc = IF @ = "none" /\ r.aus # <<>> THEN r.aus[1].cfg ELSE @],
                  r.aus, "ok")
    IN  Drained(D[Len(d.buf) + 1])

Compact(d) ==
    [d EXCEPT !.buf = SubSeq(@, d.fs.off + 1, Len(@)),
              !.ids = SubSeq(@, d.fs.off + 1, Len(@)), !.fs.off = 0]

Compacted(r) == Yield(Compact(r.d), r.aus, "ok")

\* feed.
FeedES(d, es, at) ==
    IF es = <<>> THEN Yield(d, <<>>, "ok")
    ELSE Compacted(Drain([d EXCEPT !.buf = @ \o es,
                                   !.ids = @ \o [i \in 1..Len(es) |-> at + i - 1]]))

Finished(r) ==
    Yield([r.d EXCEPT !.fs = Finish(@, Len(r.d.buf) - r.d.fs.off)], r.aus, "ok")

\* end: the last frame needs no header after it, a truncated one is counted.
EndTS(d) == Finished(Drain([d EXCEPT !.fs = SetEOF(@)]))

GapCountTS(d) == d.gaps + d.fs.gaps

FreshFramer(d) ==
    [d EXCEPT !.gaps = @ + d.fs.gaps, !.buf = <<>>, !.ids = <<>>, !.fs = NewStream,
              !.skip = 0, !.dropping = FALSE]

FreshTables(d) ==
    [d EXCEPT !.patSec = FALSE, !.pmtSec = FALSE, !.pmtPID = NoPID, !.audioPID = NoPID]

\* resetContinuity: flush, then a fresh framer and PES state.  Every caller but
\* the counter's forgets the counter too, resetDomain also the tables.
ResetContinuity(d) ==
    LET Reset(r) == Yield(FreshFramer(r.d), r.aus, "ok")
    IN  Reset(EndTS(d))

ResetDomain(d) ==
    LET Reset(r) == Yield(FreshTables(r.d), r.aus, "ok")
    IN  Reset(ResetContinuity(d))

\* One more step of the demuxer after r.
Then(r, s) == Yield(s.d, r.aus \o s.aus, s.err)

\* handlePES.
HandlePES(d, p) ==
    IF p.start
    THEN LET e == [d EXCEPT !.skip = 0, !.dropping = FALSE]
         IN  IF p.bad THEN Yield([e EXCEPT !.dropping = TRUE], <<>>, "ok")
             ELSE IF p.hdr > 0 THEN Yield([e EXCEPT !.skip = p.hdr], <<>>, "ok")
             ELSE FeedES(e, p.es, p.at)
    ELSE IF d.dropping THEN Yield(d, <<>>, "ok")
    ELSE LET n == IF d.skip < Len(p.es) THEN d.skip ELSE Len(p.es)
         IN  FeedES([d EXCEPT !.skip = @ - n], SubSeq(p.es, n + 1, Len(p.es)), p.at + n)

\* Mutant of CounterBreak: a jump of the counter is not taken for a loss.
CounterBreakNever(d, p) == FALSE

CounterBreak(d, p) == d.haveCC /\ p.cc # d.cc /\ p.cc # (d.cc + 1) % CCMod

Counted(d, cc) == [d EXCEPT !.cc = cc, !.haveCC = TRUE]

\* A lost packet: the framer is reset and the loss counted.
Lost(r) == Yield([r.d EXCEPT !.gaps = @ + 1], r.aus, "ok")

\* The audio PID: a duplicate, a lost packet, or the next one.
AudioPacket(d, p) ==
    LET Fed(r) == Then(r, HandlePES(Counted(r.d, p.cc), p))
    IN  IF d.haveCC /\ p.cc = d.cc THEN Yield(d, <<>>, "ok")
        ELSE Fed(IF CounterBreak(d, p) THEN Lost(ResetContinuity(d)) ELSE Yield(d, <<>>, "ok"))

\* An announced splice comes before the packet's payload, if it has one.
Spliced(d, p) ==
    LET Forget(r) == Yield([r.d EXCEPT !.haveCC = FALSE], r.aus, "ok")
    IN  IF p.splice THEN Forget(ResetContinuity(d)) ELSE Yield(d, <<>>, "ok")

\* psiSection: a start begins a section unless its pointer is bad, which leaves
\* the one begun alone; a continuation needs one begun.
Appends(begun, p) == IF p.start THEN ~p.bad ELSE begun
SectionDone(begun, p) == Appends(begun, p) /\ p.last
SectionOpen(begun, p) == IF Appends(begun, p) THEN ~p.last ELSE begun

\* parsePAT.
ParsePAT(d, p) == IF p.maps = NoPID THEN d.pmtPID ELSE p.maps

\* parsePMT: the audio may move to another PID; framer and PES state stay.
ParsePMT(d, p) ==
    LET types == {p.es[i] : i \in DOMAIN p.es}
    IN  IF "aac" \in types THEN Yield([d EXCEPT !.audioPID = p.maps], <<>>, "ok")
        ELSE Yield(d, <<>>, IF d.audioPID = NoPID /\ "mp3" \in types
                            THEN "unsupportedCodec" ELSE "ok")

\* handlePacket.
HandlePacket(d, p) ==
    IF p.k = "scrambled" THEN Yield(d, <<>>, "unsupportedPlaylist")
    ELSE IF p.k = "pat" THEN Yield([d EXCEPT !.patSec = SectionOpen(@, p),
                                             !.pmtPID = IF SectionDone(d.patSec, p)
                                                        THEN ParsePAT(d, p) ELSE @], <<>>, "ok")
    ELSE IF p.k = "pmt" /\ d.pmtPID = p.pid
      THEN LET e == [d EXCEPT !.pmtSec = SectionOpen(@, p)]
           IN  IF SectionDone(d.pmtSec, p) THEN ParsePMT(e, p) ELSE Yield(e, <<>>, "ok")
    ELSE IF p.k = "audio" /\ d.audioPID = p.pid
      THEN LET Payload(r) == IF p.es = <<>> /\ ~p.start THEN r
                             ELSE Then(r, AudioPacket(r.d, p))
           IN  Payload(Spliced(d, p))
    ELSE Yield(d, <<>>, "ok")

\* demux: one whole segment.
DemuxTS(d, seg, disc) ==
    LET Step(r, p) == IF r.err # "ok" THEN r ELSE Then(r, HandlePacket(r.d, p))
        Run(r) ==
            LET R[i \in 0..Len(seg)] == IF i = 0 THEN r ELSE Step(R[i - 1], seg[i])
            IN  IF \A i \in DOMAIN seg : seg[i].k = "garbage"
                THEN Yield(r.d, r.aus, "malformedSegment") ELSE R[Len(seg)]
        NoCC(r) == Yield([r.d EXCEPT !.haveCC = FALSE], r.aus, "ok")
    IN  Run(NoCC(IF disc THEN ResetDomain(d) ELSE Yield(d, <<>>, "ok")))
=============================================================================
