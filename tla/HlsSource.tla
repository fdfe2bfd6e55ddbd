----------------------------- MODULE HlsSource ------------------------------
(***************************************************************************)
(* The HLS source (package hlssource): Open resolves the playlist and the  *)
(* codec from the first playable segment, the reader delivers that segment *)
(* and then follows the live window, reloading the playlist, until a VOD   *)
(* end, an error, the watchdog, Close or Wait's context ends it.  The      *)
(* origin is the environment: it slides its window of numbered segments at *)
(* any time, so the reader may fall behind it.                             *)
(***************************************************************************)
EXTENDS Lifecycle, Playlist, TsDemux, Fmp4

CONSTANTS
    Streams,     \* what an origin may serve, a sequence; see StreamType
    Window,      \* segments a live playlist lists
    MaxInt,      \* math.MaxInt
    MaxReloads   \* bound: reloads of the playlist

Max2(m, n) == IF m > n THEN m ELSE n

\* A segment has the packets its body has for a transport stream demuxer, and
\* the fragment it is for an fMP4 one.
Segment == [gap : BOOLEAN, disc : BOOLEAN, init : STRING, ts : Seq(Packet),
            frag : Fragment]

\* first: the number of the first segment; segs: the segments; inits: init URI
\* -> initialization segment; vod: it ends after the last one; master: a master
\* playlist comes first; lines: a body served instead of the window's; relist:
\* the body the first reload of the media URL is answered with; update:
\* OnCodecUpdate is set; idle: ReadIdle > 0.
StreamType(s) ==
    /\ {s.vod, s.update, s.idle} \subseteq BOOLEAN
    /\ s.first \in Nat
    /\ s.segs \in Seq(Segment)
    /\ \A u \in DOMAIN s.inits : InitType(s.inits[u])
    /\ Body(s.master) /\ Body(s.lines) /\ Body(s.relist)
    /\ ParsePlaylist(s.master).kind # "media"
    /\ s.master = <<>> => ParsePlaylist(s.lines).kind # "master"

ASSUME HlsAssumption ==
    /\ {Window, MaxInt, MaxReloads} \subseteq Nat \ {0}
    /\ Window <= MaxSegments
    /\ Workers = {"open", "reader", "watchdog"}
    /\ \A i \in DOMAIN Streams : StreamType(Streams[i])

VARIABLES
    scen, lo, hi,        \* the origin: its stream and the window it lists
    ctxDone, verdict,    \* Open's context and result
    media, idx,          \* the playlist in use and the next entry to look at
    fresh, reloads,      \* processNewSegments' delivered; reloads so far
    lastSeq, initURI, demux, malformedBase, malformed,
    told,                \* the codec configuration the consumer was told last
    queue, after,        \* access units to hand over, and where to go then
    pendGap, pendDisc,   \* pendingSeqGap, pendingDisc
    delivered, fetched,  \* what OnFrame got; the segments that were downloaded
    idleConns, stale

worldVars == <<scen, lo, hi, ctxDone>>
listVars == <<media, idx, fresh, reloads>>
demuxVars == <<initURI, demux, malformedBase, malformed, told>>
lossVars == <<lastSeq, pendGap, pendDisc, fetched>>
outVars == <<queue, after, delivered>>
ownVars == <<worldVars, verdict, listVars, demuxVars, lossVars, outVars, idleConns, stale>>
vars == <<lifecycleVars, ownVars>>

\* The stream the origin serves.
Stream == Streams[scen]

NoList == [segs |-> <<>>, endList |-> FALSE]

Init ==
    /\ scen \in DOMAIN Streams
    /\ lo = 1 /\ hi \in 1..Len(Stream.segs)
    /\ IF Stream.vod THEN hi = Len(Stream.segs) ELSE hi <= Window
    /\ LifecycleInit([a \in Workers |-> IF a = "open" THEN "start" ELSE "unborn"])
    /\ ctxDone = FALSE /\ verdict = "none"
    /\ media = NoList /\ idx = 1 /\ fresh = FALSE /\ reloads = 0
    /\ lastSeq = 0 /\ initURI = Blank /\ demux = NewTS
    /\ malformedBase = 0 /\ malformed = 0 /\ told = "none"
    /\ queue = <<>> /\ after = "none"
    /\ pendGap = 0 /\ pendDisc = FALSE
    /\ delivered = <<>> /\ fetched = <<>>
    /\ idleConns = FALSE /\ stale = FALSE

-----------------------------------------------------------------------------
(* The origin.                                                             *)

\* A new segment is listed, or several when the reader was slow to come back.
Slide ==
    /\ ~Stream.vod /\ hi < Len(Stream.segs)
    /\ \E n \in (hi + 1)..Len(Stream.segs) :
        hi' = n /\ lo' = Max2(lo, n - Window + 1)
    /\ UNCHANGED <<lifecycleVars, scen, ctxDone, verdict, listVars, demuxVars, lossVars,
                   outVars, idleConns, stale>>

L(t, v) == [t |-> t, v |-> v]

\* The lines of segment i; a map is repeated at the head of the window.
SegmentLines(i, seg, prevInit) ==
    (IF seg.init \notin {Blank, prevInit} THEN <<L("map", seg.init)>> ELSE <<>>)
    \o (IF seg.disc THEN <<L("disc", Blank)>> ELSE <<>>)
    \o (IF seg.gap THEN <<L("gap", Blank)>> ELSE <<>>)
    \o <<L("extinf", "ok"), L("uri", i)>>

WindowLines(s) ==
    LET prevInit(i) == IF i = lo THEN Blank ELSE s.segs[i - 1].init
        B[i \in (lo - 1)..hi] ==
            IF i = lo - 1
            THEN <<L("m3u", Blank), L("target", "ok"), L("seq", s.first + lo - 1)>>
            ELSE B[i - 1] \o SegmentLines(i, s.segs[i], prevInit(i))
    IN  B[hi] \o (IF s.vod \/ hi = Len(s.segs) THEN <<L("endlist", Blank)>> ELSE <<>>)

MediaLines(s) == IF s.lines # <<>> THEN s.lines ELSE WindowLines(s)
ReloadLines(s) == IF reloads = 1 /\ s.relist # <<>> THEN s.relist ELSE MediaLines(s)

Segments(m) == [segs |-> m.p.segs, endList |-> m.p.endList]

\* What a GET may end in besides its body, as get and classifyRequestErr report it.
OpenFaults ==
    {"invalidURL", "timeout", "badStatus", "tooLarge", IF ctxDone THEN "ctxErr" ELSE "connClosed"}
ReadFaults ==
    {"invalidURL", "timeout", "badStatus", "tooLarge", IF cancelled THEN "canceled" ELSE "connClosed"}

-----------------------------------------------------------------------------
(* Open.                                                                   *)

Opening == pc["open"] \notin {"opened", "failed"}
OpenStep(p) ==
    At("open", p) /\ UNCHANGED <<worldVars, funnelVars, result, lossVars, delivered, stale>>

Fail(v) == Goto("open", "cleanup") /\ verdict' = v

CtxCancel ==
    /\ Opening /\ ~ctxDone /\ ctxDone' = TRUE
    /\ UNCHANGED <<lifecycleVars, scen, lo, hi, verdict, listVars, demuxVars, lossVars,
                   outVars, idleConns, stale>>

OpenStart ==
    /\ OpenStep("start")
    /\ \/ /\ ctxDone /\ Goto("open", "failed") /\ verdict' = "ctxErr"
       \/ /\ ~ctxDone /\ Goto("open", IF Stream.master # <<>> THEN "master" ELSE "media")
          /\ UNCHANGED verdict
    /\ UNCHANGED <<cancelled, listVars, demuxVars, queue, after, idleConns>>

\* A GET of Open fails.
OpenFault ==
    /\ \E p \in {"master", "media", "init", "seg"} : OpenStep(p)
    /\ \E f \in OpenFaults : Fail(f)
    /\ idleConns' \in {idleConns, TRUE}
    /\ UNCHANGED <<cancelled, listVars, demuxVars, queue, after>>

\* A master playlist is followed to the media playlist it selects.
OpenMaster ==
    /\ OpenStep("master") /\ ~ctxDone
    /\ idleConns' = TRUE
    /\ \E m \in {ParsePlaylist(Stream.master)} :
       LET v == IF m.kind = "master" THEN "unsupportedPlaylist" ELSE m.kind
       IN  \/ /\ m.kind = "master" /\ SelectMediaURL(m.p) # Blank
              /\ Goto("open", "media") /\ UNCHANGED verdict
           \/ /\ m.kind # "master" \/ SelectMediaURL(m.p) = Blank
              /\ Fail(v)
    /\ UNCHANGED <<cancelled, listVars, demuxVars, queue, after>>

Playable(segs) == {i \in DOMAIN segs : ~segs[i].gap}

\* The media playlist, its first playable segment, the demuxer that needs.
OpenMedia ==
    /\ OpenStep("media") /\ ~ctxDone
    /\ idleConns' = TRUE
    /\ \E m \in {ParsePlaylist(MediaLines(Stream))} : LET P == Playable(m.p.segs) IN
           \/ /\ m.kind = "media" /\ P # {}
              /\ media' = Segments(m)
              /\ idx' = First(P)
              /\ Goto("open", IF m.p.segs[First(P)].init = Blank THEN "seg" ELSE "init")
              /\ UNCHANGED verdict
           \/ /\ m.kind = "media" /\ P = {}
              /\ Fail(IF m.p.endList THEN "malformedPlaylist" ELSE "noPlayableSegment")
              /\ UNCHANGED <<media, idx>>
           \/ /\ m.kind # "media"
              /\ Fail(IF m.kind = "master" THEN "malformedPlaylist" ELSE m.kind)
              /\ UNCHANGED <<media, idx>>
    /\ UNCHANGED <<cancelled, fresh, reloads, demuxVars, queue, after>>

Entry == media.segs[idx]

\* newFMP4Demux.
NewFmp4(uri) == [init |-> ParseInit(Stream.inits[uri]), gaps |-> 0]

OpenInit ==
    /\ OpenStep("init") /\ ~ctxDone /\ Entry.init \in DOMAIN Stream.inits
    /\ LET d == NewFmp4(Entry.init)
       IN  \/ /\ d.init.err = "ok"
              /\ demux' = d /\ Goto("open", "seg") /\ UNCHANGED verdict
           \/ /\ d.init.err # "ok"
              /\ Fail(d.init.err) /\ UNCHANGED demux
    /\ UNCHANGED <<cancelled, listVars, initURI, malformedBase, malformed, told, queue,
                   after, idleConns>>

\* One segment through the demuxer in use.
Demuxed(d, e, disc) ==
    LET seg == Stream.segs[e.uri]
    IN  IF e.init = Blank THEN DemuxTS(d, seg.ts, disc) ELSE DemuxFragment(d, seg.frag)

GapCount(d, uri) == IF uri = Blank THEN GapCountTS(d) ELSE d.gaps
ASC(d, uri) == IF uri = Blank THEN d.asc ELSE d.init.asc

\* The configuration segment e was really encoded under.
TrueConfig(e, au) == IF e.init = Blank THEN au.cfg ELSE ParseInit(Stream.inits[e.init]).asc

\* Access units as they wait to be handed over, stamped with their segment.
Queued(e, aus) ==
    [i \in DOMAIN aus |-> [ids |-> aus[i].ids, cfg |-> TrueConfig(e, aus[i]),
                           seq |-> e.seq, uri |-> e.uri, fmp4 |-> e.init # Blank]]

\* The first segment resolves the codec; its access units wait for the reader.
OpenSeg ==
    /\ OpenStep("seg") /\ ~ctxDone /\ Entry.uri \in DOMAIN Stream.segs
    /\ \E r \in {Demuxed(demux, Entry, FALSE)} :
          \/ /\ r.err = "ok" /\ ASC(r.d, Entry.init) # "none"
             /\ demux' = r.d /\ queue' = Queued(Entry, r.aus)
             /\ told' = ASC(r.d, Entry.init) /\ initURI' = Entry.init
             /\ Goto("open", "spawn") /\ UNCHANGED verdict
          \/ /\ r.err # "ok" \/ ASC(r.d, Entry.init) = "none"
             /\ Fail(IF r.err # "ok" THEN r.err ELSE "malformedSegment")
             /\ UNCHANGED <<demux, queue, told, initURI>>
    /\ UNCHANGED <<cancelled, listVars, malformedBase, malformed, after, idleConns>>

Spawn ==
    /\ At("open", "spawn")
    /\ pc' = [pc EXCEPT !["open"] = "opened", !["reader"] = "deliver",
                        !["watchdog"] = IF Stream.idle THEN "watch" ELSE @]
    /\ after' = "segments" /\ verdict' = "ok"
    /\ lastSeq' = Entry.seq /\ fetched' = <<Entry.seq>>
    /\ idx' = 1 /\ stale' = FALSE
    /\ UNCHANGED <<ret, cause, funnelVars, cancelled, result, worldVars, media, fresh,
                   reloads, demuxVars, pendGap, pendDisc, queue, delivered, idleConns>>

Cleanup ==
    /\ OpenStep("cleanup")
    /\ cancelled' = TRUE /\ idleConns' = FALSE
    /\ Goto("open", "failed")
    /\ UNCHANGED <<verdict, listVars, demuxVars, queue, after>>

Open ==
    \/ OpenStart \/ OpenFault \/ OpenMaster \/ OpenMedia \/ OpenInit \/ OpenSeg
    \/ Spawn \/ Cleanup

-----------------------------------------------------------------------------
(* The reader.                                                             *)

ReaderStep(p) ==
    At("reader", p) /\ UNCHANGED <<worldVars, verdict, cancelled, result, funnelVars>>

\* syncMalformed.
SyncMalformed(d, uri, base) == malformed' = base + GapCount(d, uri)

\* A callback of the consumer, which may call Close and may panic.
Callback(next) ==
    \/ Goto("reader", next)
    \/ Shutdown("reader", "errClosed", next)
    \/ Shutdown("reader", "panic", "teardown")

\* deliverAU and OnFrame.
DeliverAU ==
    /\ ReaderStep("deliver") /\ queue # <<>>
    /\ delivered' = Append(delivered, [au |-> Head(queue), gap |-> pendGap, told |-> told])
    /\ pendGap' = 0
    /\ queue' = Tail(queue)
    /\ Callback("deliver")
    /\ UNCHANGED <<listVars, demuxVars, lastSeq, pendDisc, fetched, after, idleConns, stale>>

\* The access units of one call are out: the counter is published and the
\* caller goes on, or ends the stream with the error the demuxer returned.
Delivered ==
    /\ ReaderStep("deliver") /\ queue = <<>>
    /\ SyncMalformed(demux, initURI, malformedBase)
    /\ \/ after \in {"segments", "next"} /\ Goto("reader", after)
       \/ after \notin {"segments", "next"} /\ Shutdown("reader", after, "teardown")
    /\ UNCHANGED <<listVars, initURI, demux, malformedBase, told, lossVars, outVars,
                   idleConns, stale>>

\* An int and what is added to it: the sum wraps round to the negative.
AddInt(m, n) == IF m + n > MaxInt THEN m + n - 2 * (MaxInt + 1) ELSE m + n

\* The segments between two numbers, clamped to an int.
Missed(last, seq) == IF seq - last - 1 > MaxInt THEN MaxInt ELSE seq - last - 1

\* processNewSegments: skip what was delivered, note a window that ran ahead.
NextSegment ==
    /\ ReaderStep("segments") /\ idx <= Len(media.segs)
    /\ LET jump == ~fresh /\ Entry.seq > lastSeq + 1
       IN  \/ /\ Entry.seq <= lastSeq
              /\ idx' = idx + 1 /\ Goto("reader", "segments")
              /\ UNCHANGED <<pendGap, pendDisc>>
           \/ /\ Entry.seq > lastSeq
              /\ pendGap' = IF jump THEN AddInt(pendGap, Missed(lastSeq, Entry.seq)) ELSE pendGap
              /\ pendDisc' = (pendDisc \/ jump)
              /\ Goto("reader", IF Entry.gap THEN "gap" ELSE "container")
              /\ UNCHANGED idx
    /\ UNCHANGED <<media, fresh, reloads, demuxVars, lastSeq, fetched, outVars, idleConns, stale>>

\* Mutant of SkipGap: the loss is not put on the next frame.
SkipGapSilently ==
    /\ ReaderStep("gap")
    /\ UNCHANGED pendGap
    /\ Goto("reader", "next")
    /\ UNCHANGED <<listVars, demuxVars, lastSeq, pendDisc, fetched, outVars, idleConns, stale>>

\* An EXT-X-GAP entry is not fetched.
SkipGap ==
    /\ ReaderStep("gap")
    /\ pendGap' = AddInt(pendGap, 1)
    /\ Goto("reader", "next")
    /\ UNCHANGED <<listVars, demuxVars, lastSeq, pendDisc, fetched, outVars, idleConns, stale>>

\* The init URI of the entry: the one in use, another fMP4 one, or a switch of
\* container, which ends the stream.
Container ==
    /\ ReaderStep("container")
    /\ \/ Entry.init = initURI /\ Goto("reader", "get")
       \/ /\ Entry.init # initURI /\ Blank \notin {Entry.init, initURI}
          /\ Goto("reader", "reinit")
       \/ /\ Entry.init # initURI /\ Blank \in {Entry.init, initURI}
          /\ Shutdown("reader", "unsupportedPlaylist", "teardown")
    /\ UNCHANGED <<listVars, demuxVars, lossVars, outVars, idleConns, stale>>

\* A GET of the reader fails.
ReadFault ==
    /\ \E p \in {"reinit", "get", "reload", "follow"} : ReaderStep(p)
    /\ \E f \in ReadFaults : Shutdown("reader", f, "teardown")
    /\ UNCHANGED <<listVars, demuxVars, lossVars, outVars, idleConns, stale>>

\* The retired demuxer's count is carried over.
SwapDemuxer(d, uri) ==
    /\ demux' = d /\ initURI' = uri
    /\ malformedBase' = malformedBase + GapCount(demux, initURI)
    /\ SyncMalformed(d, uri, malformedBase')

\* Mutant of MayChange: a changed configuration needs no one to be told.
MayChangeSilently(changed) == TRUE

MayChange(changed) == changed => Stream.update

\* reinitFMP4: everything that can fail comes before the swap.
Reinit ==
    /\ ReaderStep("reinit") /\ ~cancelled /\ Entry.init \in DOMAIN Stream.inits
    /\ stale' = FALSE
    /\ LET d == NewFmp4(Entry.init)
           changed == d.init.asc # told
       IN  \/ /\ d.init.err = "ok" /\ MayChange(changed)
              /\ SwapDemuxer(d, Entry.init)
              /\ told' = IF changed /\ Stream.update THEN d.init.asc ELSE told
              /\ IF changed /\ Stream.update THEN Callback("get") ELSE Goto("reader", "get")
           \/ /\ d.init.err # "ok" \/ ~MayChange(changed)
              /\ Shutdown("reader", IF d.init.err # "ok" THEN d.init.err
                                    ELSE "unsupportedPlaylist", "teardown")
              /\ UNCHANGED demuxVars
    /\ UNCHANGED <<listVars, lossVars, outVars, idleConns>>

\* Whether the entry starts a new continuity domain.
Break == pendDisc \/ Entry.disc

\* processSegment: the body is read and demuxed, its access units are queued.
GetSegment ==
    /\ ReaderStep("get") /\ ~cancelled /\ Entry.uri \in DOMAIN Stream.segs
    /\ idleConns' = TRUE /\ stale' = FALSE
    /\ fetched' = Append(fetched, Entry.seq)
    /\ \E r \in {Demuxed(demux, Entry, Break)} :
          /\ demux' = r.d /\ queue' = Queued(Entry, r.aus)
          /\ after' = IF r.err = "ok" THEN "next" ELSE r.err
    /\ Goto("reader", "deliver")
    /\ UNCHANGED <<listVars, initURI, malformedBase, malformed, told, lastSeq, pendGap,
                   pendDisc, delivered>>

\* The entry is done; a gap carries the break to the next real segment.
Advance ==
    /\ ReaderStep("next")
    /\ pendDisc' = Entry.gap /\ lastSeq' = Entry.seq
    /\ idx' = idx + 1 /\ fresh' = TRUE
    /\ Goto("reader", IF closing THEN "teardown" ELSE "segments")
    /\ UNCHANGED <<media, reloads, demuxVars, pendGap, fetched, outVars, idleConns, stale>>

\* runSegments, past the last entry: a VOD end flushes the demuxer.
ListDone ==
    /\ ReaderStep("segments") /\ idx > Len(media.segs)
    /\ \/ /\ closing /\ Goto("reader", "teardown")
          /\ UNCHANGED <<demux, queue, after>>
       \/ /\ ~closing /\ media.endList
          /\ \E r \in {IF initURI = Blank THEN EndTS(demux) ELSE Yield(demux, <<>>, "ok")} :
                /\ demux' = r.d
                /\ queue' = Queued([init |-> initURI, seq |-> lastSeq, uri |-> 0], r.aus)
          /\ after' = "streamEnded"
          /\ Goto("reader", "deliver")
       \/ /\ ~closing /\ ~media.endList
          /\ Goto("reader", "wait")
          /\ UNCHANGED <<demux, queue, after>>
    /\ UNCHANGED <<listVars, initURI, malformedBase, malformed, told, lossVars, delivered,
                   idleConns, stale>>

\* reloadWait: the timer, or closing.
ReloadWait ==
    /\ ReaderStep("wait")
    /\ \/ closing /\ Goto("reader", "teardown") /\ UNCHANGED reloads
       \/ reloads < MaxReloads /\ reloads' = reloads + 1 /\ Goto("reader", "reload")
    /\ UNCHANGED <<media, idx, fresh, demuxVars, lossVars, outVars, idleConns, stale>>

\* The media URL again; should it answer with a master playlist now, that is
\* followed, once, as Open follows one.
Reload(p) ==
    /\ ReaderStep(p) /\ ~cancelled
    /\ idleConns' = TRUE
    /\ \E m \in {ParsePlaylist(IF p = "reload" THEN ReloadLines(Stream) ELSE MediaLines(Stream))} :
       LET follow == p = "reload" /\ m.kind = "master" /\ SelectMediaURL(m.p) # Blank
           refusal == IF m.kind # "master" THEN m.kind
                      ELSE IF p = "reload" THEN "unsupportedPlaylist" ELSE "malformedPlaylist"
       IN  \/ /\ m.kind = "media"
              /\ media' = Segments(m)
              /\ idx' = 1 /\ fresh' = FALSE /\ stale' = FALSE
              /\ Goto("reader", "segments")
           \/ /\ follow /\ Goto("reader", "follow")
              /\ UNCHANGED <<media, idx, fresh, stale>>
           \/ /\ m.kind # "media" /\ ~follow
              /\ Shutdown("reader", refusal, "teardown")
              /\ UNCHANGED <<media, idx, fresh, stale>>
    /\ UNCHANGED <<reloads, demuxVars, lossVars, outVars>>

Teardown ==
    /\ ReaderStep("teardown")
    /\ idleConns' = FALSE
    /\ Goto("reader", "join")
    /\ UNCHANGED <<listVars, demuxVars, lossVars, outVars, stale>>

Join ==
    /\ ReaderStep("join")
    /\ pc["watchdog"] \in {"unborn", "exited"}
    /\ Goto("reader", "done")
    /\ UNCHANGED <<listVars, demuxVars, lossVars, outVars, idleConns, stale>>

Reader ==
    \/ DeliverAU \/ Delivered \/ NextSegment \/ SkipGap \/ Container \/ ReadFault
    \/ Reinit \/ GetSegment \/ Advance \/ ListDone \/ ReloadWait \/ Reload("reload") \/ Reload("follow")
    \/ Teardown \/ Join

-----------------------------------------------------------------------------
(* The watchdog, the callers, the whole source.                            *)

Elapse ==
    /\ ~stale /\ At("watchdog", "watch")
    /\ stale' = TRUE
    /\ UNCHANGED <<lifecycleVars, worldVars, verdict, listVars, demuxVars, lossVars,
                   outVars, idleConns>>

Watchdog ==
    /\ At("watchdog", "watch")
    /\ \/ closing /\ Goto("watchdog", "exited")
       \/ stale /\ Shutdown("watchdog", "readTimeout", "exited")
    /\ UNCHANGED <<funnelVars, cancelled, result, ownVars>>

Shutdowns == (\E a \in Actors : Funnel(a)) /\ UNCHANGED ownVars

ApiCalls == At("open", "opened") /\ Calls /\ UNCHANGED ownVars

Terminated ==
    /\ \/ At("open", "failed")
       \/ Done /\ \A a \in Callers : At(a, "returned")
       \/ At("reader", "wait") /\ reloads = MaxReloads /\ ~closing
    /\ UNCHANGED vars

Next ==
    Slide \/ CtxCancel \/ Open \/ Reader \/ Elapse \/ Watchdog \/ Shutdowns \/ ApiCalls
    \/ Terminated

Spec == Init /\ [][Next]_vars

-----------------------------------------------------------------------------
(* Properties.                                                             *)

Gaps(n) == LET S[i \in 0..n] == IF i = 0 THEN 0 ELSE S[i - 1] + delivered[i].gap IN S[n]

\* No segment is lost in silence and none is fetched twice: of the segments
\* numbered after the first one delivered, each was downloaded, in order, or is
\* counted once, in the SeqGap of a frame or in the one that waits for the next,
\* and none of these is negative.  The account is kept in ints: it holds as long
\* as the numbers since the first segment fit one.  Beyond that a jump is
\* clamped, and the sum of a jump and a gap, or of two, can wrap round.
LossReported ==
    /\ \A i, j \in DOMAIN fetched : i < j => fetched[i] < fetched[j]
    /\ fetched # <<>> /\ pc["reader"] = "segments" /\ lastSeq - fetched[1] <= MaxInt =>
          /\ lastSeq - fetched[1] =
                (Len(fetched) - 1) + Gaps(Len(delivered)) + pendGap
          /\ pendGap >= 0 /\ \A i \in 1..Len(delivered) : delivered[i].gap >= 0

\* Breaks that neither a counter nor a flag nor the playlist tells the demuxer
\* of: a start that is no PES header, after which a whole PES packet is dropped
\* (handlePES), and a table that moves the audio to another PID (parsePMT).  The
\* framer keeps its bytes over both.
UntoldBreak(s) ==
    \E i \in DOMAIN s.segs :
        LET In(j) == {s.segs[j].ts[k] : k \in DOMAIN s.segs[j].ts}
            near == In(i) \cup (IF i = 1 \/ s.segs[i].disc THEN {} ELSE In(i - 1))
        IN  \/ \E p \in In(i) : p.k = "audio" /\ p.start /\ p.bad
            \/ \E p \in In(i), q \in near : {p.k, q.k} = {"pmt"} /\ p.maps # q.maps

\* An access unit is never put together from audio on both sides of a break:
\* a lost or spliced packet, a discontinuity, a gap, or segments that left the
\* window while the reader was away (resetContinuity, pendingDisc), in a stream
\* whose breaks the demuxer is told of.
NoSplice ==
    ~UntoldBreak(Stream) => \A i \in DOMAIN delivered :
        LET au == delivered[i].au
        IN  ~au.fmp4 => \A k \in 1..(Len(au.ids) - 1) : au.ids[k + 1] = au.ids[k] + 1

\* Access units come out of a fragment's own bytes, and no more of them than it
\* has bytes, however its runs point at each other (ParseFragment's budget).
FragmentBounded ==
    \A i \in DOMAIN delivered :
        LET au == delivered[i].au
            same == {j \in DOMAIN delivered : delivered[j].au.seq = au.seq}
            len == Stream.segs[au.uri].frag.len
        IN  au.fmp4 => /\ 0 <= au.ids[1] /\ au.ids[1] < au.ids[2] /\ au.ids[2] <= len
                       /\ Cardinality(same) <= len

\* Through a change of initialization segment, no frame reaches a consumer that
\* was told another codec configuration: OnCodecUpdate comes first, or the
\* stream ends (reinitFMP4).
CodecTold ==
    \A i \in DOMAIN delivered :
        delivered[i].au.fmp4 => delivered[i].told = delivered[i].au.cfg

\* The source implements the contract every source promises.
Contract == INSTANCE SourceContract WITH
    Waiters <- Waiters,
    Causes <- {"errClosed", "ctxErr", "streamEnded", "connClosed", "canceled", "timeout",
               "invalidURL", "badStatus", "tooLarge", "readTimeout", "panic", "malformedPlaylist",
               "unsupportedPlaylist", "malformedSegment", "unsupportedCodec"},
    NoCause <- NoErr,
    Deliveries <- Nat,
    cause <- termErr,
    ended <- Done,
    delivered <- Len(delivered),
    result <- result
ImplementsSource == Contract!Spec
=============================================================================
