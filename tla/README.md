# A verification project for go-audio-stream

TLA+ modules that model the capture library in this repository, TLC
configurations that check them on small instances, and TLAPS proofs about them.
Every definition names, in `PROJECT.json` under `map`, the lines it models.

Run a model with `tlc -config MCSupervisor.cfg MCSupervisor` and the proofs with
`tlapm SupervisorProofs.tla` (and the other `...Proofs` modules).

## 1. The system

The library captures live audio from RTSP cameras, UDP/RTP senders, HTTP and HLS
streams. Every transport is a *source* (`source.go`): `Wait` blocks until the
session ends and returns its cause, `Close` ends it, `Stats` can be read at any
time, and frames are delivered on a callback. `supervisor` wraps any source and
reconnects it.

| Component | State it keeps | Operations | Who it talks to |
|---|---|---|---|
| source contract (`source.go`, `errors.go`) | terminal cause, end of session | Wait, Close, Stats | implemented by every source and by the supervisor |
| supervisor | phase, current source, last statistics, terminal cause, attempt count | run loop (connect, wait, capture, close, classify, sleep), Close, Wait, Stats, State, Info, panic recovery | calls Factory, Source, Retryable, OnState |
| supervisor backoff | none | delay of attempt n with jitter | the run loop |
| rtsp session (`client.go`, `describe.go`, `setup.go`, `play.go`) | lifecycle state, session id, pinned transport, published tracks, registered sockets, terminal cause | Dial, Describe, Setup, Play, Close, Wait; the shutdown funnel | lifecycle mutex, reader, keepalive, receivers |
| rtsp requests and authentication (`request.go`) | CSeq, pending map, digest nonce and count | roundTrip, do, authenticate, marshalBareRequest | write mutex, reader |
| rtsp reader (`reader.go`) | accumulation buffer, resynchronisation budget | read, classify, dispatch, terminal sequence | OnFrame, pending map, pipeline |
| rtsp keepalive | none of its own | timed keepalive and Receiver Reports | write mutex |
| rtsp UDP media (`udp.go`, `udprecv.go`) | socket pairs, per-track watchdog anchors | two receivers per track | reorder buffer, pipeline |
| rtsp pipeline (`pipeline.go`) | per-track depacketizer, counters, resolved payload type, timing | handle one RTP packet | rtp stream, depacketizers |
| rtsp wire messages (`message.go`, `transport.go`, `controlurl.go`, `auth.go`) | none | parse, format | reader, requests |
| rtp reorder buffer (`rtp/reorder.go`) | ring, release point, counters | Push, Flush, Reset, Stats | one UDP receiver |
| rtp stream accounting (`rtp/stream.go`) | extended sequence number and timestamp, loss counters | Observe, Stats | pipeline |
| rtp/rtcp wire format, sdp | none | parse, format | receivers, Describe |
| udp source | socket, current source, reorder buffer, reassembly, sender clock, terminal cause | receive, resequence, deliver, RTCP, Close, Wait | the RTP packages |
| http source | response body, framer, open-phase flags, terminal cause | Open (request, challenge, probe), read, frame, watchdog, Close, Wait | mp3, adts, wav framers |
| hls source | playlist, last sequence number, pending gap and break, demultiplexer, codec, terminal cause | Open, reload, fetch, demultiplex, deliver, watchdog, Close, Wait | tsdemux, mp4, adtsframe |
| http authentication (`internal/httpauth`) | none (challenge and credentials) | choose a challenge, compute a response | http, hls, rtsp |
| depacketizers, packetizers | fragment being reassembled | depacketize, reset | pipeline, udp source |
| containers (`internal/mp4`, `mp3`, `adts`, `adtsframe`) | buffered bytes | find and cut frames | http, hls |
| stream-doctor (`cmd/`) | a report | capture, classify, render | every source |

### What is hard here

* One terminal cause for many racing enders: a Close, a cancelled Wait, a lost
  session, a panic, a server TEARDOWN and a watchdog may all happen together
  (`initiateShutdown`, `setTermErr`, `finish`).
* Blocked socket calls are woken by deadlines. A goroutine that re-arms its own
  deadline after the interrupt sleeps through the shutdown.
* A verb's answer and its commit are two critical sections; a shutdown fits
  between them, and what the verb then starts has nobody to stop it.
* Joins: the reader waits for receivers and keepalive, each of which may be
  blocked on a socket, on `writeMu` or inside the funnel.
* Digest nonce counts have to reach the wire in order, from three senders.
* The watchdog anchor may be the zero time when a deadline is computed from it.
* Circular arithmetic: sequence numbers, cycles and timestamps wrap.
* Statistics are read between two critical sections of the loop that replaces
  the source.
* Loss is noticed by one packet and reported on the frame of another; a change of
  source in between must forget some state (fragments, gap, baseline, a
  configuration taken from the stream) and keep other (the declared type).
* A byte stream is cut into reads anywhere; a framer may neither lose a header
  that straddles two reads nor take garbage for one.
* A live HLS window moves while segments are fetched, and the open phase of an
  HTTP source has a timer, a context and reads that race.

`PROJECT.json` lists these, at their lines, under `hazards`. Further ones that no
property covers are in section 5.

## 2. The modules

| Module | Models | Composes |
|---|---|---|
| `SourceContract` | what a source promises: one cause, recorded once and never changed; the end comes after the cause; no frame after the end; a Wait returns the cause after the end | abstract |
| `Supervisor` | `supervisor/supervisor.go` | implements `SourceContract` |
| `RtspSession` | `rtsp/client.go`, `request.go`, `describe.go`, `setup.go`, `play.go`, `reader.go`, `keepalive.go`, `udp.go`, `udprecv.go`: the goroutines of a session | implements `SourceContract` |
| `SeqCircle` | arithmetic on a circle of sequence numbers | |
| `Reorderer` | `rtsp/rtp/reorder.go` | `SeqCircle` |
| `RtpStream` | `rtsp/rtp/stream.go` | `SeqCircle` |
| `RtpPath` | the receiver of `udprecv.go` that puts the two together | `Reorderer`, `RtpStream` |
| `RtpPackets` | packets, `Push` and `Observe` on positions, the reassembly of `depacket/aac`, `flac` and `mp3` | |
| `RtpTrack` | `rtsp/pipeline.go`, the packet side of `reader.go` and `udprecv.go`, `depacket/latm` | `RtpPackets` |
| `UdpSource` | `udpsource/client.go`, `rtcp.go` | `RtpPackets`; implements `SourceContract` |
| `Lifecycle` | the shutdown funnel, Close and Wait that the next two share | |
| `Framer` | `httpsource/mp3.go`, `internal/adtsframe` | |
| `HttpSource` | `httpsource` | `Lifecycle`, `Framer`; implements `SourceContract` |
| `Playlist` | `hlssource/playlist.go` | |
| `TsDemux` | `hlssource/tsdemux.go` | `Framer` |
| `Fmp4` | `hlssource/fmp4demux.go`, `internal/mp4` | |
| `HlsSource` | `hlssource/client.go` | `Lifecycle`, `Playlist`, `TsDemux`, `Fmp4`; implements `SourceContract` |
| `SupervisorProofs`, `RtspSessionProofs`, `RtpPathProofs`, `RtpTrackProofs`, `UdpSourceProofs`, `HttpSourceProofs`, `HlsSourceProofs` | the theorems about the module in their name | extend it |
| `RtpPacketsProofs` | lemmas about `RtpPackets`, shared by `RtpTrackProofs` and `UdpSourceProofs` | extends `RtpPackets` |
| `MC...` | scenarios, model values and symmetry for TLC | extend the module in their name |

### Supervisor

`pc` is the control point of the run goroutine; the four variables `termErr`,
`current`, `lastStats` and `state` are the fields of the same names that `mu`
guards. A step is one critical section, one channel operation or one call out of
the package. So `setState`, which stores the phase and then calls OnState outside
the lock, is two steps, and a Close or a Stats may come between them.
`FactoryOk`/`FactoryErr`, `WaitReturns`, `DeliverFrame` and `Panic` are what the
caller's code may do; `Panic` may strike in the Factory, in the source's Wait, in
Stats and in Retryable. A Close from inside OnState, on the run goroutine itself,
is the caller `Callback`. `closeOnce` is a lock held by one caller (`once`):
`OnceDo`, `RecordCause`, `CancelRun` are the three steps of `initiateShutdown`.
A session is `live` until its Wait returns (`ended`) and is then closed. The Close that
`recoverRun` calls after a panic only initiates: nobody Waits for that source, so it is
left `closing`, may deliver frames still, and stops at a time of its own
(`SessionStops`).
A source's statistics are its number of frames. Info reads the same two fields as
Stats.

### RtspSession

One actor per goroutine: the reader, the caller of the lifecycle verbs
(`lifecycleMu` serialises them), the keepalive timer, two receivers per UDP track
and the callers of Close and Wait. `OnceDo`, `SetTermErr`, `CloseClosing`,
`Interrupt`, `MediaNow` are the five steps of `initiateShutdown`, which any actor
may be executing while the rest of the system goes on. `WriteLock`, `Attach`,
`WriteArm`, `WriteOk`/`WriteFail` are the steps of one message under `writeMu`,
the same for a request, a keepalive, a receiver report, a reply to a server
request and the close-time TEARDOWN, except `teardownRejectedStream`, which
marshals before it locks, as the code does.

Time is abstract: a deadline is `none`, `timeout`, `now` (set by a shutdown),
`teardown`, or `watch`, which has expired exactly while the anchor it was computed
from is idle. An anchor that nobody stamped is the zero time and counts as idle,
so an arm that comes before its stamp is a false timeout in the model too. A
message is its kind; of the credentials it carries the server's nonce, a number, and the
nonce count. `activateAuth` and `refreshNonce` take the nonce of the challenge, whichever
it is, and restart the count; whether a server may issue one again is the constant
`FreshNonces`. What the server sends, drops or closes is free. Bytes are abstracted
to units: one that cannot be framed is `ReadGarbage`.

### Reorderer, RtpStream and RtpPath

The ring and the counters have the names they have in the code; a packet is its
position in the sender's stream, of which the code sees only the remainder modulo
`SeqMod`. The positions and `nextPos`, `base`, `released`, `arrived`, `last`,
`first`, `high`, `span` are ghosts: the properties compare what the code computes
on the circle with the truth on the line. The network may lose, repeat and reorder
packets that stay less than half a circle from the newest. `RtpPath` feeds what the
ring releases to the accounting in the same step, and on a packet of another source
flushes, resets and pushes, as `runRTPReceiver` does; over TCP a packet goes to the
accounting directly. All packets are of the track's payload type: `acceptPayloadType`,
which drops others before the accounting, is in `RtpTrack`.

### RtpTrack

One set-up track. Over TCP one goroutine does everything, in the order of `consume`:
garbage, units of no track, messages, RTCP, RTP. Over UDP the RTP goroutine's
`process` is split at the stores the RTCP goroutine can see between
(`ProcessObserve`, `ProcessSender`, `ProcessBaseline`, `ProcessDeliver`), and
`handleRTCP` at its loads (`RtcpLoad`, `RtcpStore`, `RtcpPublish`). Play stores the
RTP-Info seed at any moment (`StoreSeed`). Timestamps count units, which is enough to
tell a baseline from another. Payloads are usable or not; a whole AAC, LATM or MP3
packet has two access units, and a LATM packet one configuration at most. A TCP peer with
`resends` repeats packets and sends them late, and no resequencer stands before the
depacketizer then; `InSequence` says when the depacketizer sees each packet once and in
order. `told` is
the configuration a consumer holds, `episode` the bytes given up since the last
usable unit; `settled`, `streak`, `runs`, `origin`, `seen`, `reported` are ghosts of
what was sent.

### UdpSource

The actors are the reader, the RTCP goroutine of a separate RTCP socket, and the
callers of Close and Wait; OnFrame may call Close or panic. `queue` is what is left of
one datagram's work: the packet itself, or the run the resequencer released, flushed
packets of the old source first. `Push` and `Observe` (`RtpPackets`) are Reorderer and
RtpStream on positions, which is what `rtp_path` shows them to compute on the circle. A
fragmented unit has all its packets of the same size (so the AAC size check never
helps), and the last packet has the marker. `Publish` is one step under `rtcpMu`; the
report was parsed in an earlier one (`RtcpRecv`). A FLAC frame whose first fragment was
lost is delivered short, as the code does; `NoSplice` asks that it is contiguous.

### HttpSource

A *scenario* fixes what is served and how it is asked for: the content type, the
WAV chunks, the body as a sequence of cells, credentials. Open is one actor; its timer
and the bridge from the caller's context are two more, each in two steps (the event,
then `cancelOpen` under `openMu`). Every request may be answered by any reply, reset,
time out, or fail with the cancellation. The probe follows `resolveFormat`: WAV chunk
by chunk with `wavMaxPreData`, ADTS within `adtsProbeLen`, a leading ID3 tag. The
reader's `Read` returns any number of cells up to its limit together with any error, so
a body is cut in every possible way; `Absorb` and `Drain` are the PCM and the
compressed path, `Drain` one iteration of `NextFrame` at a time. OnFrame may call Close
or panic.

### HlsSource

The origin is the environment: `Slide` moves the window of numbered segments at any
time. A playlist is a sequence of parsed lines that `ParsePlaylist` reads as the code
does, a TS segment a sequence of packets, an fMP4 segment a fragment with its runs; each
*stream* of `MCHlsSource` is one origin with a difficulty: gaps, discontinuities, every
kind of break inside a segment, broken tables, overlapping runs, bad initialization
segments, changed configurations, bad playlists, numbers at the end of their range. A
segment is one step from fetched to demultiplexed, its access units are delivered one by
one, and `Reload` may be answered by another kind of playlist. An access unit carries
the positions of the cells it was cut from, which is what `NoSplice` looks at. The count
of missing segments is an int: a jump is clamped to `MaxInt` (`Missed`) and a sum wraps
(`AddInt`). PIDs are values: a PAT may name no program or another one, and a PMT may move
the audio to another PID. `UntoldBreak` names the two breaks nothing tells the
demultiplexer of.

## 3. The runs

| Run | Shows |
|---|---|
| `supervisor` | phase and cause agree, Wait returns after the one terminal transition with its cause, every source built gets its Close, statistics never go back, a shutdown completes from every point, a lost session is followed by an attempt or an end, the supervisor implements `SourceContract` for every source it joins |
| `rtsp_tcp` | nonce counts reach the wire in order through 401 and stale answers, keepalives and the TEARDOWN, against a server that issues no nonce twice; no false timeout; the session implements `SourceContract` |
| `rtsp_udp` | two tracks with fallback: the transport of the first track that succeeds never changes, in either direction; no UDP socket outlives the session, every goroutine is joined, the deadlines of both tracks stay interrupted |
| `rtsp_live` | over UDP, and over TCP after a fallback: shutdown completes, verbs return, the watchdog ends a silent session |
| `rtp_path` | every packet is released, late or buffered once; the accounting behind the ring is fed in order across wraps and changes of source; extended sequence numbers, gaps and timestamps are the true ones |
| `rtp_track` | a unit never mixes sources and never splices fragments over a loss (AAC and FLAC where packets come in sequence, MP3 in any order), every loss is reported once, strays do not capture the track, presentation times restart with the source, a configuration is announced before its frames, garbage exhausts its budget |
| `udp_source` | units are never spliced over a loss or a change of source, every loss is reported once, the published sender clock is the media source's, Wait joins both goroutines, the source implements `SourceContract` |
| `http_source` | Open names the event that stopped it, no response body is left open, credentials are sent as promised, the frames of a body are delivered exactly, the source implements `SourceContract` |
| `hls_source` | every missing segment is counted once as long as the count fits an int, units do not span a break the demultiplexer is told of, a fragment's samples stay inside it, a configuration is announced before its frames, the source implements `SourceContract` |
| `rtsp_reject`, `rtp_clock`, `rtp_reseed` | the findings, below |

### Bounds

* Supervisor: two sessions (a reconnect and its gap), one failure before the
  bound, one closer, one waiter and the reentrant Close. The loop forgets an earlier
  session except for `lastStats`, so a third adds nothing. That several Waits agree is
  a theorem, for any number of them.
* RtspSession: one track, except where two interact (transport pinning, the
  deadlines of several receivers); one caller of Wait or Close, since the funnel lets
  one in and the session itself is always a second ender (a lost peer, a garbage
  unit, a panic, the watchdog); one keepalive tick or server request, enough to hold
  `writeMu` at any moment of the others. `rtsp_live` has one track and neither ticks nor
  frames: a keepalive that waits for `writeMu` during the join, a Close from inside
  OnFrame, and one silent track of several are outside it. Its three properties were also
  checked over TCP alone with one tick and one frame (`Preference = "TCP"`,
  `Replies = {"ok"}`, `MaxTicks = 1`, `MaxFrames = 1`: 248176 states, no violation);
  ticks together with the fallback take longer than five minutes. `MaxNc` only
  stops further verbs: counts of messages already under way may go past it, so no order is cut off. `RtspSession`
  also knows a redirect, which ends a verb as a refusal does, and a SETUP answer without
  a Session header, which only decides whether a TEARDOWN is sent; no run's `Replies`
  has them, to keep the runs short.
* RtpPath: a circle of twelve, a ring of two, two cycles and timestamps modulo 32 in
  steps of 3, so that the wraps never coincide; five packets of two sources, four of
  them through one ring. The circle is a multiple of the ring and at least twice it, as
  2^16 is of 128; `CircleAssumption` states the relation the code relies on.
* RtpTrack and UdpSource: two senders, so that a source can be replaced and come back;
  a whole unit and fragmented ones, four packets (three datagrams) at any of their
  positions, which is a loss within a unit, or a packet held back (`Window` is two) when
  the source changes; one report. `Setups` names one configuration per codec family,
  with and without resequencing, strays, RTCP, RTP-Info and a TCP peer that resends (LATM,
  MP3 and FLAC). An adoption takes two packets and the resynchronisation budget is one byte, so both are passed.
* HttpSource: frames of three cells with headers of two, reads of at most four: a
  header, a tag and a frame are split everywhere. The scenarios hold each format with
  each way it can be broken; the pre-data limit is met exactly and exceeded.
* HlsSource: a window of two of up to five segments and two reloads, so the reader can
  fall behind by one or more; a continuity counter modulo four; media sequence numbers
  up to nine, met at the end. `MaxInt` is four: a playlist that jumps further, with a gap on
  top, drives the count over it and round to the negative. The audio moves to another PID
  in the middle of a frame without notice, with a discontinuity and over a gap.

### Fairness

The liveness runs assume that goroutines are scheduled and that blocking calls end
as the code arranges. Supervisor: a Factory and a source's Wait return once the run
context is cancelled (their documented contract), a sleep ends, OnState returns.
RtspSession: a write and the TEARDOWN's discard read end by their deadlines, the
request timer fires, a read whose deadline has passed returns. Nobody has to call
anything, the server need not send anything (units read, framing errors included,
are the environment's), and time need not pass: `WatchdogFires` starts from the
moment ReadIdle has passed.

`CHECK_DEADLOCK FALSE` is used for `RtpPath` and `RtpTrack`, where a peer may stop
sending and nothing else has to happen. Elsewhere the only state without a successor of
its own is `Terminated`, when everything has returned (and, for HLS, when the bound on
reloads is reached).

### Findings

1. `rtsp_reject`: the TEARDOWN of a rejected stream allocates its nonce count
   without `writeMu`, against the doc of `marshalBareRequest`; counts can reach the
   wire out of order. `rtsp_tcp` leaves out the answer that leads to it.
2. `rtp_clock`: over UDP `handleRTCP` chooses a report by `senderSSRC` and publishes it
   after the RTP goroutine may have moved to another source, against the comment that a
   mapping is only ever published for the confirmed media source. The window is a few
   instructions wide; the next report of the media source replaces the clock.
3. `rtp_reseed`: a change of source puts an in-band LATM track with a `config=` seed back
   to the seed and records it as reported, also when the consumer was told another
   configuration in the meantime. `rtp_track` leaves such tracks out.

## 4. The proofs

`tlapm <Module>Proofs.tla` checks each of these from nothing. Every theorem holds for
every value of the constants that satisfies the named assumptions: any number of
callers, tracks, senders and packets, any window, any circle. Each module has the same
shape: an inductive invariant `IInv` as a conjunction of named parts, one lemma per
action (or group of actions with the same footprint) and part, `InitIInv`, `StepIInv`,
`Inductive == Spec => []IInv`, and the theorems as consequences. The parts were
checked with TLC before they were proved.

**`SupervisorProofs`.** `TypeCorrect` (`Spec => []TypeOK`): `TypeOK` alone is not
inductive, since the steps that index `session` and `frames` by `src` need that a source
is in hand, and the attempt count stays in range only because it is reset at connect;
`LoopInv` adds both. `TerminalPhase`, `WaitsAgree`, `SourcesClosed` and
`SupervisorIsSource` (`Spec => Contract!Spec`) rest on `SInv`, which extends that by
`CauseInv` (which causes can be recorded at which control point, and that the context is
cancelled only after a cause is recorded), `CallerInv` (where each caller stands relative
to `closeOnce` and `done`) and `SourceInv` (every source built is closed, or is the one
in hand at a point from which the loop or the recovery closes it, or, after a panic, the
one `recoverRun` closed and left to stop by itself). `SupervisorIsSource` counts the frames
of joined sources: what the source whose own Wait panicked delivers is left out
(section 5). They assume
`NoErr \in Retryable`: DefaultRetryable retries a clean end. Without it they are
false (section 5). `StatsNeverGoBack` (the action property `StatsMonotone`) does without: its
`StatsInv` says that sessions are built in order (`CurrentInv`), that the snapshot is the
final count of an ended session and older than the one in hand (`SnapshotInv`), and that
the last answer, the answer a call under way will give and what Stats would say now follow
each other (`AnswerInv`).

**`RtspSessionProofs`.** `SessionJoined`, `SocketsClosed`, `TransportFixed`,
`DeadlinesStick`, `TimeoutEarned`, `CredentialsOrdered`, `SessionIsSource`. `ControlInv`
and `FunnelInv` say where each actor can be and what it may have in hand while one actor is
inside `closeOnce`; `VerbInv`, `PlayInv` and `PinInv` tie the verb under way to the
lifecycle state, the transport and the tracks that were published; `SockInv` gives every
open socket one owner; `JoinInv` says which goroutines the reader still has to wait
for, which is what makes `Joined` survive a Play whose commit races a shutdown;
`DeadlineInv` and `AnchorInv` relate every armed deadline to `closing` and to a stamped
anchor. `TransportFixed` (the action property `TransportPinned`) says that a transport once
chosen never changes; its step `PinKept` needs from `VerbInv` and `PinInv` that a SETUP
under way proposes the transport in force and that no other verb runs.
`CredentialsOrdered` (nonce counts reach the wire in order) needs `NonceInv` and
the hypotheses `"badTransport" \notin Replies` and `FreshNonces`; with that answer it is
false, which is the run `rtsp_reject`, and against a server that repeats a nonce too
(section 5).

**`RtpPathProofs`.** `ReordererConserves`, `ObserverExact`, `ResequencedInOrder`, for every
even circle that the ring divides and is at most half of. The heart is `RingInv`: an
occupied slot holds a packet of the window that starts at the release point, in the slot
its own number has; so no two packets share a slot and none is older than the release
point. `StreamInv` says that the cycle counter is the number of wraps between the
first and the highest position, and where the observer stands on the timestamp circle;
`PathInv` joins the two at the point where the receiver hands a packet over.

**`RtpPacketsProofs`** has no theorem of its own: lemmas about what `Push`, `Flush`, `InOrder`
and the depacketizers return, used by the next two. `InOrder` is defined by ranks, since the
prover cannot look into a sort.

**`UdpSourceProofs`.** `ClockMatchesMedia`, `UnitsUnspliced`, `LossesCounted`, `UdpIsSource`.
`QueueInv` describes what is left of a datagram's work (one source, increasing positions
between the highest observed and the buffered ones), `StreamInv` the sum of reported,
pending and seen packets, `FragInv` the fragments held (consecutive, of the current source,
ending at the highest position observed unless a gap follows). `NoSplice` is only inductive
with all three: a fragment may be appended exactly because what comes next is either the next
position or was preceded by a reset.

**`RtpTrackProofs`.** `GarbageBounded`, `StraysRejected`, `TimeRestarts`, `LossesCounted`,
`ConfigTold`, `UnitsUnspliced`. The parts are `QueueInv`, `ViewInv` (types and the goroutine
between two stores), `WireInv` (the resynchronisation budget), `TypeInv` (the payload type a
track settles on), `BaseInv` (the timestamp baseline), `LossInv`, `CodecInv`, `OrderInv` (what
the ring holds lies above what was observed) and `FragInv`. Two theorems carry the exception
the code has: `ConfigTold` is for tracks other than in-band LATM with a `config=` seed (the
run `rtp_reseed`), and `UnitsUnspliced` asks for packets in sequence when the codec is AAC
or FLAC (section 5). That a unit never mixes sources, and that MP3 fragments are
consecutive in whatever order packets come, it says of every track: an MP3 fragment is
only appended at the offset the unit has reached (`DepacketizePlaced`).

**`HttpSourceProofs`.** `OpenTellsTruth`, `BodiesClosed`, `CredentialsGuarded`, `HttpIsSource`,
from `ControlInv` and `FunnelInv` (as above, for the five goroutines), `VerdictInv` (which
flags of the open phase are set at which point of Open, so that `classifyOpenErr` reads them
right), `BodyInv` (how many response bodies are open at each point), `SentInv` (what was
sent in answer to which challenge) and `DeliveredInv`.
`DeliveredExactly` (`Spec => []DeliveryExact`) holds for every body, however it is cut into
reads, and every size of header, frame, tag, buffer, sample-frame and probe.
`DeliveryExact` speaks of the end of the
stream and of what was delivered, never of the framer, so its invariant has to say what each
point of the reader has made of the cells read so far: `EndInv` (only the reader ends a stream
in order, once, on its way out of the loop; before that a recorded cause is another one, so
`classifyReadErr` cannot turn it into an end), `ProbeInv` (Open leaves a body of which it has
taken whole tags), `ReadInv` (an end of the body means all of it was read), `PcmInv` (what was
read is what was delivered and less than a sample-frame, within the declared chunk) and
`FramedInv` (up to the framer's offset every frame it owes was delivered, and every cell lies in
a frame or a tag unless a gap was counted; a tag being skipped is a real one). The step of the
framer rests on `NextFrameFacts`: one iteration of `NextFrame` from any state of the framer on
any part of any body either returns a frame whose header is where it says, or passes only cells
that owe nothing (`Iterates`), proved by following `Confirm`, `Scan` and `DropUnsynced` with the
fact that a frame that must be delivered hides behind no other frame and no tag (`FrameHides`,
`TagHides`).

**`HlsSourceProofs`.** `NoSilentLoss`, `FragmentsBounded`, `ConfigToldFirst`, `HlsIsSource`,
for every set of streams an origin may serve: any windows and reloads, any packets, any
fragments, and any playlists that state their EXT-X-MEDIA-SEQUENCE before the first segment
(`Body`). `NoSilentLoss` counts in ints: it holds while the numbers since the first segment
fit one. The operators are recursive functions over lines, packets and samples. What they
compute is proved by taking the least index at which a claim fails (`Upwards`), which needs only
that a nonempty set of naturals has a least element; `Recursion` shows that a step function has
a recursive function. From that: `PlaylistFacts` (a parsed media playlist numbers its segments
one after the other), `FragmentFacts` (samples lie in their fragment and are no more than its
cells, however runs overlap) and `DemuxTSFacts` (the demuxer stays in its states, and the
positions of its buffer in step with it). The invariant has a control layer (`ControlInv`,
`FunnelInv`), proved from what each step does to the goroutines (`NextCase`), and a data layer,
proved from the nineteen things a step can do to the data (`DataCase`), whatever point of its
program the reader returns to from a callback (`ReaderAt`): `ListInv` (the entry in hand is
newer than `lastSeq`, and the next one once a segment of this playlist was read), `LossInv`
(segments up to `Settled` were fetched, reported on a frame or are pending, with one formula
for the middle of an entry and the end of it; since `Settled` never falls, an account that
fits an int now fitted one before, so no sum of it was clamped or wrapped), `CodecInv`
(the demuxer is the one of the
initialization segment in use, and the consumer knows it) and `OutInv` (the units handed over
and queued, of segments that never mix).

Only model-checked:

* `ShutdownCompletes`, `ReconnectsOrEnds`, `VerbReturns`, `WatchdogFires`: liveness under
  fairness is out of the prover's reach.
* `NoSplice` of the HLS source: whether a break inside a segment is visible at all depends on
  what the origin sends (a loss of exactly `CCMod` packets is not, nor is an `UntoldBreak`), so a
  theorem would need a
  hypothesis about the streams that relates every pair of packets.

## 5. Not modelled, and what is next

Left out: byte and text formats without state of their own (RTP, RTCP and SDP syntax,
RTSP messages, Transport headers and control URLs, digest computation, packetizers, the
G.711 and G.726 codecs, the bits of ADTS, MP3 and ISO BMFF headers), the floating-point
backoff, URL splitting, the test server and stream-doctor. In `RtspSession` the
allocation of interleaved channel pairs and the read-only `Stats`; in `RtpTrack` the
choice of a codec from the SDP; in HTTP and HLS presentation times. The `map` names the
parsing of `trak`, `stsd` and `esds` boxes for what `ParseInit` makes of them (a track, a
configuration or an error); their bytes are in no property.

Known to be delicate, and without a property:

* A `Retryable` that rejects a nil cause makes the supervisor's `finish` record nil, and
  a later Close then ErrClosed: two Waits disagree. The runs and the theorems assume
  `NoErr \in Retryable`, as the default has it. `ErrorsAssumption` leaves out a Factory or
  a source whose own error is ErrClosed or a context's.
* After a panic in a source's Wait, `recoverRun` closes the source and does not join it
  (`supervisor.go:230-234`), so OnFrame may be called after the supervisor's Wait has
  returned, against `source.go:40-41`. `ImplementsSource` leaves the frames of that one
  source out; with `delivered <- frames` TLC finds it violated.
* `activateAuth` and `refreshNonce` restart the nonce count whatever nonce the challenge
  carries (`request.go:311-349`). A server that answers 401 again with a nonce it issued
  before sees the count of that nonce restart at 1, against `request.go:267-273`: with
  `FreshNonces = FALSE` TLC finds `NonceOrder` violated.
* The reader can see `c.closing` and arm the TEARDOWN's deadlines before the interrupt of
  the same shutdown, which then refuses the write; a SETUP answered but not recorded when
  the reader unwinds is not torn down. TEARDOWN is best effort.
* A UDP track's watchdog anchor is stamped before the datagram is parsed
  (`udprecv.go:72`).
* `runRTPReceiver` flushes and resets the ring on any new SSRC, before the payload-type
  check (`udprecv.go:89`); the raw UDP source guards against this. A stray under an SSRC of
  its own resets the resequencer and is then dropped for its payload type, so Observe
  never learns of it, and a late fragment is released a second time and appended to the
  next unit. Over TCP `process` feeds a repeated or late packet to the depacketizer
  without a reset (`reader.go:385-421`), although `rtp/stream.go` counts both there, and
  AAC and FLAC append it (`depacket/flac/flac.go:126-132`). Without the condition
  `InSequence` TLC finds `NoSplice` violated for AAC and FLAC in both cases; MP3 checks
  the offset and is safe.
* `lastSR` survives a change of source. A LATM packet whose second element changes the
  configuration announces it before the first element's unit.
* An HTTP open cancelled between its last header read and `openFinished` publishes a
  stream whose first read fails.
* An HLS origin that restarts its media sequence below `lastSeq` is never read again while
  reloads keep stamping the watchdog; an AAC configuration that changes within MPEG-TS is
  not announced, nor is content that changes under an unchanged initialization URI; the
  media clock does not advance over segments dropped from the window.
* A start that is no PES header has its packets dropped and leaves the framer's partial
  unit, and so does a PMT that moves the audio to another PID (`tsdemux.go:328-331`); at a
  segment boundary no counter shows it either. The next bytes complete that unit: without
  `~UntoldBreak(Stream)` TLC finds `NoSplice` violated by both. With a discontinuity or a
  gap between the two PIDs the unit is dropped, and the run checks that.
* `pendingSeqGap` is an int (`hlssource/client.go:644-649,680`). A jump of the media sequence
  beyond `math.MaxInt` is clamped, so it is reported short, and a gap entry or a second jump
  before the next frame wraps the sum to a negative SeqGap, which the comment at 642-643
  rules out. Without its condition on `MaxInt` TLC finds `LossReported` violated.
* An EXT-X-MEDIA-SEQUENCE after the first segment is accepted and renumbers only the segments
  that follow it (`playlist.go:205,249`). RFC 8216 forbids such a playlist; `Body` leaves it
  out, and `PlaylistFacts` would be false with it.

Simplified where no property can tell:

* HttpSource: the early returns of `digestRetry` before its request (`auth.go:83-101`; a
  failing random source, a URL that was already used, and a branch the code calls
  unreachable) all end Open as a failed request does, with ErrConnectionClosed or, for the
  URL, ErrInvalidURL. The 401 it answers is closed when the retry returns, which
  the model does in the step of the retry. A body short of its Content-Length
  (io.ErrUnexpectedEOF) is an end, which has the same verdict.
* TsDemux: a PMT on the PAT's own PID cannot be told from none (`NoPID`); the code would
  parse such packets as a PAT.

Next:

1. A module that composes the supervisor with one of its sources through
   `SourceContract`.
2. Anchors with an age, so that the watchdog's promise about malformed traffic can be
   stated.
