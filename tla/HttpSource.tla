----------------------------- MODULE HttpSource -----------------------------
(***************************************************************************)
(* The HTTP source (package httpsource): Open with its open-phase timer,   *)
(* caller-context bridge and challenge-response retries, the probe of the  *)
(* body's format, the reader that cuts the body into frames, the watchdog, *)
(* and Close / Wait.  A session's configuration and the peer's side of it  *)
(* are a scenario: what is served, and with which credentials it is asked. *)
(***************************************************************************)
EXTENDS Lifecycle, Framer

CONSTANTS
    Scenarios,      \* see ScenarioType
    Replies,        \* the statuses and challenge sets a peer answers with
    RBuf,           \* readBufSize, in cells
    FrameBytes,     \* cells in one PCM sample-frame
    MaxPreData,     \* wavMaxPreData
    ProbeLen        \* adtsProbeLen

\* Cells of a RIFF header, a chunk header, and the fmt bodies.
RiffHeaderSize == 1
ChunkHeaderSize == 1
FmtMin == 2
FmtExtMin == 4
Unbounded == 0

\* creds: credentials were configured; safe: TLS or AllowInsecureAuth; type:
\* the Content-Type; riff: the first bytes; chunks: the WAV chunks that follow;
\* shape: Config.Format resolves; idle: ReadIdle > 0; body: the audio.
ScenarioType(s) ==
    /\ {s.creds, s.safe, s.shape, s.idle} \subseteq BOOLEAN
    /\ s.type \in {"wav", "l16", "mp3", "aac", "sniff", "other"}
    /\ s.riff \in {"riff", "rf64", "other"}
    /\ s.chunks \in Seq([id : {"fmt", "data", "junk"}, size : Nat,
                        form : {"pcm", "ext", "unsupported", "malformed"}])
    /\ s.body \in Seq(Cells)

ASSUME HttpAssumption ==
    /\ {RBuf, FrameBytes, MaxPreData, ProbeLen} \subseteq Nat \ {0}
    /\ FrameBytes <= RBuf
    /\ Workers = {"open", "timer", "bridge", "reader", "watchdog"}
    /\ \A s \in Scenarios : ScenarioType(s)
    /\ \A r \in Replies : r.status \in {"200", "3xx", "401", "4xx"}

VARIABLES
    scen,
    ctxDone, timedOut, openFinished,   \* what ends or guards the open phase
    try, reply, bodies, body,   \* requests sent, the answer, open bodies, c.body
    sent,                       \* credentials put on the wire, per request
    verdict, failedBy,          \* what Open returned, and what it really met
    codec, at, consumed,        \* the format probe
    bounded, remaining,
    taken, fill, rerr, fs,      \* the reader: cells read, rbuf, error, framer
    delivered, malformed, stale

openVars == <<ctxDone, timedOut, openFinished>>
authVars == <<try, reply, bodies, body, sent>>
verdictVars == <<verdict, failedBy>>
probeVars == <<codec, at, consumed, bounded>>
readVars == <<remaining, taken, fill, rerr, fs, delivered, malformed, stale>>
ownVars == <<scen, openVars, authVars, verdictVars, probeVars, readVars>>
vars == <<lifecycleVars, ownVars>>

Start(a) == CASE a = "open" -> "start"
              [] a \in {"timer", "bridge"} -> "armed"
              [] OTHER -> "unborn"

Init ==
    /\ scen \in Scenarios
    /\ LifecycleInit([a \in Workers |-> Start(a)])
    /\ ctxDone = FALSE /\ timedOut = FALSE /\ openFinished = FALSE
    /\ try = 0 /\ reply = "none" /\ bodies = {} /\ body = 0 /\ sent = <<>>
    /\ verdict = "none" /\ failedBy = "none"
    /\ codec = "none" /\ at = 1 /\ consumed = 0
    /\ bounded = FALSE /\ remaining = 0
    /\ taken = 0 /\ fill = 0 /\ rerr = NoErr /\ fs = NewStream
    /\ delivered = <<>> /\ malformed = 0 /\ stale = FALSE

-----------------------------------------------------------------------------
(* The open phase.                                                         *)

Opening == pc["open"] \notin {"opened", "failed"}
OpenStep(p) == At("open", p) /\ UNCHANGED <<scen, openVars, funnelVars, result>>

\* Open fails with v after meeting why; the deferred cleanup follows.
Fail(v, why) ==
    /\ Goto("open", "cleanup")
    /\ verdict' = v /\ failedBy' = why

\* classifyOpenErr.
OpenErr(why) ==
    IF timedOut THEN "timeout"
    ELSE IF ctxDone THEN "ctxErr"
    ELSE IF why = "netTimeout" THEN "timeout"
    ELSE "connClosed"

\* What a request or a read of the body may run into besides success.
Faults == {"reset", "netTimeout"} \cup (IF cancelled THEN {"cancel"} ELSE {})

\* Mutant of HeaderErr: every failed read of the header is a bad format.
HeaderErrFormat(v, why) == IF why = "netTimeout" THEN OpenErr(why) ELSE v

\* classifyHeaderReadErr: a clean short read on a quiet stream is left to the
\* parser, which reports v.
HeaderErr(v, why) ==
    IF why = "eof" /\ ~timedOut /\ ~ctxDone THEN v ELSE OpenErr(why)

\* The caller's context ends while Open runs.
CtxCancel ==
    /\ Opening /\ ~ctxDone /\ ctxDone' = TRUE
    /\ UNCHANGED <<lifecycleVars, scen, timedOut, openFinished, authVars,
                   verdictVars, probeVars, readVars>>

\* time.AfterFunc: the flag first, then the guarded cancel.
TimerFire ==
    /\ At("timer", "armed") /\ Opening /\ pc["open"] # "start"
    /\ timedOut' = TRUE
    /\ Goto("timer", "cancelOpen")
    /\ UNCHANGED <<funnelVars, cancelled, result, scen, ctxDone, openFinished,
                   authVars, verdictVars, probeVars, readVars>>

\* context.AfterFunc runs its function in a goroutine of its own.
BridgeFire ==
    /\ At("bridge", "armed") /\ Opening /\ pc["open"] # "start" /\ ctxDone
    /\ Goto("bridge", "cancelOpen")
    /\ UNCHANGED <<funnelVars, cancelled, result, ownVars>>

CancelOpen(a) ==
    /\ At(a, "cancelOpen")
    /\ cancelled' = (cancelled \/ ~openFinished)
    /\ Goto(a, "stopped")
    /\ UNCHANGED <<funnelVars, result, ownVars>>

OpenStart ==
    /\ OpenStep("start")
    /\ IF ctxDone THEN /\ Goto("open", "failed") /\ UNCHANGED sent
                       /\ verdict' = "ctxErr" /\ failedBy' = "cancel"
       ELSE /\ Goto("open", "do")
            \* buildRequest: preemptive Basic where it is safe.
            /\ sent' = <<IF scen.creds /\ scen.safe THEN "basic" ELSE "bare">>
            /\ UNCHANGED verdictVars
    /\ UNCHANGED <<cancelled, try, reply, bodies, body, probeVars, readVars>>

\* Mutant of Supersede: the body of the old answer is left open.
SupersedeKeeps == bodies

\* digestRetry closes the 401 it answers, however the retry ends.
Supersede == bodies \ {try}

\* One request of Open or of digestRetry.
Do ==
    /\ OpenStep("do")
    /\ try' = try + 1
    /\ \/ \E r \in Replies :
            /\ reply' = r /\ bodies' = Supersede \cup {try + 1}
            /\ Goto("open", "answered")
            /\ UNCHANGED verdictVars
       \/ \E why \in Faults :
            /\ bodies' = Supersede
            /\ Fail(OpenErr(why), why)
            /\ UNCHANGED reply
    /\ UNCHANGED <<cancelled, body, sent, probeVars, readVars>>

\* SelectChallenge: SHA-256 Digest, else MD5 Digest, else Basic, else none.
SelectChallenge(cs) ==
    IF cs \cap {"sha256", "md5"} # {} THEN "digest"
    ELSE IF "basic" \in cs THEN "basic" ELSE "none"

\* Mutant of MayRetry: staleness is not looked at.
MayRetryAny == try < 3

\* A first challenge, or a second one for a nonce that only went stale.
MayRetry == try = 1 \/ (try = 2 /\ reply.stale)

\* authorize and answerDigest: a first Digest challenge is answered, a second
\* one only when it is stale; an unsafe Basic challenge is refused.
Answered ==
    /\ OpenStep("answered")
    /\ LET sel == SelectChallenge(reply.challenges)
           ask == reply.status = "401" /\ scen.creds
           retry == ask /\ sel = "digest" /\ MayRetry
           refuse == ask /\ try = 1 /\ sel = "basic" /\ ~scen.safe
       IN  \/ /\ retry
              /\ sent' = Append(sent, "digest")
              /\ Goto("open", "do")
              /\ UNCHANGED <<bodies, body, verdictVars>>
           \/ /\ refuse
              /\ bodies' = bodies \ {try}
              /\ Fail("insecureAuth", "server")
              /\ UNCHANGED <<body, sent>>
           \/ /\ ~retry /\ ~refuse
              /\ body' = try
              /\ Goto("open", "status")
              /\ UNCHANGED <<bodies, sent, verdictVars>>
    /\ UNCHANGED <<cancelled, try, reply, probeVars, readVars>>

\* responseStatusError, then resolveFormat's dispatch on the Content-Type.
Status ==
    /\ OpenStep("status")
    /\ \/ /\ reply.status = "200"
          /\ Goto("open", scen.type)
          /\ UNCHANGED verdictVars
       \/ /\ reply.status # "200"
          /\ Fail(IF reply.status = "3xx" THEN "redirect" ELSE "badStatus", "server")
    /\ UNCHANGED <<cancelled, authVars, probeVars, readVars>>

-----------------------------------------------------------------------------
(* The format probe.                                                       *)

ProbeStep(p) ==
    /\ OpenStep(p)
    /\ UNCHANGED <<cancelled, authVars, fill, rerr, fs, delivered, malformed, stale>>

KeepProbe == UNCHANGED <<codec, at, consumed, bounded, remaining, taken>>

\* The format is settled.
Adopt(c, b, rem) ==
    /\ Goto("open", "publish")
    /\ codec' = c /\ bounded' = b /\ remaining' = rem
    /\ UNCHANGED <<verdictVars, at, consumed, taken>>

\* validateRawShape.
SetupRaw ==
    \/ scen.shape /\ Adopt("pcm", FALSE, 0)
    \/ ~scen.shape /\ Fail("formatUnknown", "server") /\ KeepProbe

SetupL16 == ProbeStep("l16") /\ SetupRaw

\* An MP3 body has no header to parse.
SetupMP3 == ProbeStep("mp3") /\ Adopt("mp3", FALSE, 0)

Unsupported ==
    ProbeStep("other") /\ Fail("unsupported", "server") /\ KeepProbe

\* A failed read of the header that would otherwise be reported as v.
HeaderFault(v, ends) ==
    \E why \in Faults \cup (IF ends THEN {"eof"} ELSE {}) :
        Fail(HeaderErr(v, why), why) /\ KeepProbe

\* setupSniff: the peeked signature, or raw when the body is too short for one.
SetupSniff ==
    /\ ProbeStep("sniff")
    /\ \/ scen.riff = "riff" /\ Goto("open", "wav") /\ UNCHANGED verdictVars /\ KeepProbe
       \/ scen.riff = "rf64" /\ Fail("unsupported", "server") /\ KeepProbe
       \/ scen.riff = "other" /\ (Len(scen.body) > 1 \/ (~timedOut /\ ~ctxDone)) /\ SetupRaw
       \/ HeaderFault("formatUnknown", FALSE)
       \/ /\ Len(scen.body) <= 1 /\ scen.riff = "other" /\ (timedOut \/ ctxDone)
          /\ Fail(OpenErr("eof"), "eof") /\ KeepProbe

\* parseWAVHeader: the RIFF header.  The body may end in it, as in any chunk.
RiffHeader ==
    /\ ProbeStep("wav")
    /\ \/ /\ scen.riff = "riff"
          /\ consumed' = RiffHeaderSize /\ at' = 1
          /\ Goto("open", "chunk")
          /\ UNCHANGED <<verdictVars, codec, bounded, remaining, taken>>
       \/ /\ scen.riff # "riff"
          /\ Fail(IF scen.riff = "rf64" THEN "unsupported" ELSE "malformedWAV", "server")
          /\ KeepProbe
       \/ HeaderFault("malformedWAV", TRUE)

Padded(n) == n + (n % 2)

\* What the fmt chunk c consumes, its trailing bytes included.
FmtRead(c) == IF c.form = "ext" THEN FmtExtMin ELSE FmtMin
FmtVerdict(c, spent) ==
    IF c.size < FmtMin \/ (c.form = "ext" /\ c.size < FmtExtMin) \/ c.form = "malformed"
      THEN "malformedWAV"
    ELSE IF c.form = "unsupported" THEN "unsupported"
    ELSE IF Padded(c.size) > FmtRead(c) /\ spent + Padded(c.size) > MaxPreData
      THEN "malformedWAV"
    ELSE "ok"

HaveFmt == \E i \in 1..(at - 1) : scen.chunks[i].id = "fmt"

\* One turn of the chunk loop; spent counts the chunk header about to be read.
Chunk ==
    LET spent == consumed + ChunkHeaderSize
        c == scen.chunks[at]
        more == at <= Len(scen.chunks)
        Skip == /\ Goto("open", "chunk") /\ at' = at + 1
                /\ consumed' = spent + Padded(c.size)
                /\ UNCHANGED <<verdictVars, codec, bounded, remaining, taken>>
        Reject(v) == Fail(v, "server") /\ KeepProbe
    IN  /\ ProbeStep("chunk")
        /\ IF spent > MaxPreData THEN Reject("malformedWAV")
           ELSE \/ HeaderFault("malformedWAV", TRUE)
                \/ /\ more /\ c.id = "fmt" /\ FmtVerdict(c, spent) = "ok" /\ Skip
                \/ /\ more /\ c.id = "fmt" /\ FmtVerdict(c, spent) # "ok"
                   /\ Reject(FmtVerdict(c, spent))
                \/ /\ more /\ c.id = "junk" /\ spent + Padded(c.size) <= MaxPreData /\ Skip
                \/ /\ more /\ c.id = "junk" /\ spent + Padded(c.size) > MaxPreData
                   /\ Reject("malformedWAV")
                \/ /\ more /\ c.id = "data" /\ ~HaveFmt /\ Reject("malformedWAV")
                \/ /\ more /\ c.id = "data" /\ HaveFmt
                   /\ Adopt("pcm", c.size # Unbounded, c.size)

Rest == SubSeq(scen.body, taken + 1, Len(scen.body))

\* skipLeadingID3: a tag is discarded by its declared length.
SkipID3 ==
    /\ ProbeStep("aac")
    /\ Rest # <<>>
    /\ \/ /\ Head(Rest) = "t" /\ Len(Rest) >= TagLen
          /\ Goto("open", "aac") /\ taken' = taken + TagLen
          /\ UNCHANGED <<verdictVars, codec, at, consumed, bounded, remaining>>
       \/ /\ Head(Rest) = "t"
          /\ HeaderFault("formatUnknown", Len(Rest) < TagLen)
       \/ /\ Head(Rest) = "T"
          /\ Fail("formatUnknown", "server") /\ KeepProbe

\* probeADTS peeks up to ProbeLen cells; a fault may cut the prefix short.
Prefix == SubSeq(Rest, 1, IF Len(Rest) < ProbeLen THEN Len(Rest) ELSE ProbeLen)

SetupAAC ==
    /\ ProbeStep("aac")
    /\ Rest # <<>> => Head(Rest) \notin {"t", "T"}
    /\ \/ /\ ProbeADTS(Prefix) # {} /\ Adopt("aac", FALSE, 0)
       \/ /\ ProbeADTS(Prefix) = {} /\ Len(Prefix) = ProbeLen
          /\ Fail("formatUnknown", "server") /\ KeepProbe
       \/ /\ ProbeADTS(Prefix) = {} /\ Len(Prefix) < ProbeLen
          /\ Fail(HeaderErr("formatUnknown", "eof"), "eof") /\ KeepProbe
       \/ \E n \in 0..(ProbeLen - 1) :
            LET head == SubSeq(Prefix, 1, n)
            IN  /\ n <= Len(Prefix)
                /\ IF ProbeADTS(head) # {}
                   THEN Faults # {} /\ Adopt("aac", FALSE, 0)
                   ELSE HeaderFault("formatUnknown", FALSE)

\* The open-phase cancels are switched off under openMu.
Publish ==
    /\ At("open", "publish")
    /\ openFinished' = TRUE
    /\ Goto("open", "spawn")
    /\ UNCHANGED <<funnelVars, cancelled, result, scen, ctxDone, timedOut, authVars,
                   verdictVars, probeVars, readVars>>

\* lastReadAt is stamped before the watchdog and the reader exist.
Spawn ==
    /\ OpenStep("spawn")
    /\ pc' = [pc EXCEPT !["open"] = "opened", !["reader"] = "loop",
                        !["watchdog"] = IF scen.idle THEN "watch" ELSE @]
    /\ stale' = FALSE /\ verdict' = "ok" /\ fs' = [fs EXCEPT !.off = taken]
    /\ UNCHANGED <<ret, cause, cancelled, authVars, failedBy, probeVars, remaining,
                   taken, fill, rerr, delivered, malformed>>

\* The deferred teardown of a failed Open.
Cleanup ==
    /\ OpenStep("cleanup")
    /\ cancelled' = TRUE /\ bodies' = bodies \ {body}
    /\ Goto("open", "failed")
    /\ UNCHANGED <<try, reply, body, sent, verdictVars, probeVars, readVars>>

Open ==
    \/ OpenStart \/ Do \/ Answered \/ Status
    \/ SetupSniff \/ SetupL16 \/ SetupMP3 \/ Unsupported
    \/ RiffHeader \/ Chunk \/ SkipID3 \/ SetupAAC
    \/ Publish \/ Spawn \/ Cleanup

OpenPhase ==
    \/ CtxCancel \/ TimerFire \/ BridgeFire
    \/ \E a \in {"timer", "bridge"} : CancelOpen(a)
    \/ Open

-----------------------------------------------------------------------------
(* The reader.                                                             *)

ReaderStep(p) ==
    /\ At("reader", p)
    /\ UNCHANGED <<scen, openVars, cancelled, result, verdictVars, probeVars>>

Lesser(m, n) == IF m < n THEN m ELSE n

LoopClosing ==
    /\ ReaderStep("loop") /\ closing
    /\ Goto("reader", "teardown")
    /\ UNCHANGED <<funnelVars, authVars, readVars>>

\* dropPartial.
DropPartial(n) == malformed' = malformed + (IF n > 0 THEN 1 ELSE 0)

\* The declared data chunk is used up.
DataEnd ==
    /\ ReaderStep("loop") /\ ~closing
    /\ codec = "pcm" /\ bounded /\ remaining = 0
    /\ DropPartial(fill)
    /\ Shutdown("reader", "streamEnded", "teardown")
    /\ UNCHANGED <<funnelVars, authVars, remaining, taken, fill, rerr, fs, delivered, stale>>

\* The outcomes of one Read: some cells, an error, or both.
ReadResult(n, err) ==
    /\ n > 0 \/ err # NoErr
    /\ err = "eof" => n = Len(Rest)
    /\ err = "cancel" => cancelled

\* The room rbuf and a bounded budget leave.
Limit == IF codec # "pcm" THEN Lesser(RBuf, Len(Rest))
         ELSE LET room == IF bounded THEN Lesser(RBuf - fill, remaining) ELSE RBuf - fill
              IN  Lesser(room, Len(Rest))

\* br.Read, and what a positive count does before any delivery: the clock is
\* stamped, the budget charged, the framer fed.
Read ==
    /\ ReaderStep("loop") /\ ~closing
    /\ ~(codec = "pcm" /\ bounded /\ remaining = 0)
    /\ \E n \in 0..Limit, err \in {NoErr, "eof", "reset", "cancel"} :
        /\ ReadResult(n, err)
        /\ taken' = taken + n /\ rerr' = err
        /\ stale' = (stale /\ n = 0)
        /\ remaining' = IF bounded THEN remaining - n ELSE remaining
        /\ fill' = IF codec = "pcm" THEN fill + n ELSE fill
        /\ Goto("reader", IF n = 0 THEN "readErr" ELSE IF codec = "pcm" THEN "absorb" ELSE "drain")
    /\ UNCHANGED <<funnelVars, authVars, fs, delivered, malformed>>

\* OnFrame, called with the cells p .. p + n - 1: it may call Close and may panic.
Emit(p, n, next) ==
    /\ delivered' = Append(delivered, [at |-> p, len |-> n])
    /\ \/ Goto("reader", next)
       \/ Shutdown("reader", "errClosed", next)
       \/ Shutdown("reader", "panic", "teardown")

\* absorb: the whole sample-frames go out, the remainder moves to the front.
Absorb ==
    /\ ReaderStep("absorb")
    /\ LET whole == fill - (fill % FrameBytes)
       IN  /\ fill' = fill - whole
           /\ \/ whole > 0 /\ Emit(taken - fill + 1, whole, "readErr")
              \/ whole = 0 /\ Goto("reader", "readErr") /\ UNCHANGED delivered
    /\ UNCHANGED <<funnelVars, authVars, remaining, taken, rerr, fs, malformed, stale>>

Buffered == SubSeq(scen.body, fs.off + 1, taken)

\* drainCompressed, one iteration of the framer at a time.
Drain ==
    /\ ReaderStep("drain")
    /\ LET r == NextFrame(codec, fs, Buffered)
       IN  /\ fs' = r.s
           /\ \/ r.st = "frame" /\ Emit(r.s.off - FrameLen + 1, FrameLen, "drain")
                 /\ UNCHANGED malformed
              \/ r.st = "again" /\ Goto("reader", "drain")
                 /\ UNCHANGED <<delivered, malformed>>
              \/ r.st = "wait" /\ Goto("reader", IF fs.ended THEN "finish" ELSE "readErr")
                 /\ malformed' = r.s.gaps /\ UNCHANGED delivered
    /\ UNCHANGED <<funnelVars, authVars, remaining, taken, fill, rerr, stale>>

\* The error of the last Read is looked at only after its cells were used.
ReadErr ==
    /\ ReaderStep("readErr")
    /\ LET c == ReadCause(IF rerr = "eof" THEN "streamEnded" ELSE "connClosed")
       IN  \/ /\ rerr = NoErr
              /\ Goto("reader", "loop")
              /\ UNCHANGED <<fs, malformed>>
           \/ /\ rerr # NoErr /\ codec # "pcm" /\ c = "streamEnded"
              /\ fs' = SetEOF(fs)
              /\ Goto("reader", "drain")
              /\ UNCHANGED malformed
           \/ /\ rerr # NoErr /\ (codec = "pcm" \/ c # "streamEnded")
              /\ DropPartial(IF c = "streamEnded" THEN fill ELSE 0)
              /\ Shutdown("reader", c, "teardown")
              /\ UNCHANGED fs
    /\ UNCHANGED <<funnelVars, authVars, remaining, taken, fill, rerr, delivered, stale>>

\* A truncated tail is counted once, after the drain at the end of the stream.
FinishStream ==
    /\ ReaderStep("finish")
    /\ fs' = Finish(fs, taken - fs.off) /\ malformed' = fs'.gaps
    /\ Shutdown("reader", "streamEnded", "teardown")
    /\ UNCHANGED <<funnelVars, authVars, remaining, taken, fill, rerr, delivered, stale>>

Teardown ==
    /\ ReaderStep("teardown")
    /\ bodies' = bodies \ {body}
    /\ Goto("reader", "join")
    /\ UNCHANGED <<funnelVars, try, reply, body, sent, readVars>>

Join ==
    /\ ReaderStep("join")
    /\ pc["watchdog"] \in {"unborn", "exited"}
    /\ Goto("reader", "done")
    /\ UNCHANGED <<funnelVars, authVars, readVars>>

Reader ==
    \/ LoopClosing \/ DataEnd \/ Read \/ Absorb \/ Drain \/ ReadErr \/ FinishStream
    \/ Teardown \/ Join

-----------------------------------------------------------------------------
(* The watchdog, the callers, the whole source.                            *)

\* ReadIdle passes without a byte.
Elapse ==
    /\ ~stale /\ At("watchdog", "watch")
    /\ stale' = TRUE
    /\ UNCHANGED <<lifecycleVars, scen, openVars, authVars, verdictVars, probeVars,
                   remaining, taken, fill, rerr, fs, delivered, malformed>>

Watchdog ==
    /\ At("watchdog", "watch")
    /\ \/ closing /\ Goto("watchdog", "exited")
       \/ stale /\ Shutdown("watchdog", "readTimeout", "exited")
    /\ UNCHANGED <<funnelVars, cancelled, result, ownVars>>

Shutdowns == (\E a \in Actors : Funnel(a)) /\ UNCHANGED ownVars

ApiCalls == At("open", "opened") /\ Calls /\ UNCHANGED ownVars

\* A failed Open leaves nothing to run; an opened source is over once its
\* reader is, and every call has returned.
Terminated ==
    /\ At("open", "failed") \/ (Done /\ \A a \in Callers : At(a, "returned"))
    /\ UNCHANGED vars

Next ==
    OpenPhase \/ Reader \/ Elapse \/ Watchdog \/ Shutdowns \/ ApiCalls \/ Terminated

Spec == Init /\ [][Next]_vars

-----------------------------------------------------------------------------
(* Properties.                                                             *)

\* Open tells its caller the truth about a failure: what its own timer or the
\* caller's context cut short is never blamed on the peer or on the format, a
\* broken transport is never reported as a bad format, and no timeout or
\* cancellation is reported that did not happen (classifyHeaderReadErr).
OpenVerdict ==
    /\ failedBy = "cancel" => verdict \in {"timeout", "ctxErr"}
    /\ failedBy \in {"reset", "netTimeout"} =>
          verdict \notin {"malformedWAV", "formatUnknown", "unsupported"}
    /\ verdict = "timeout" => timedOut \/ failedBy = "netTimeout"
    /\ verdict = "ctxErr" => ctxDone

\* No response body outlives the session: not the 401 a retry superseded, not
\* that of an Open that failed on any path, not that of a stream that ended;
\* and a stream that has ended has no watchdog left.
NothingLeaks ==
    /\ Cardinality(bodies) <= 1
    /\ At("open", "failed") => bodies = {} /\ (try > 0 => cancelled)
    /\ Done => bodies = {} /\ pc["watchdog"] \in {"unborn", "exited"}

\* The exchange of credentials: Basic never leaves over an unsafe connection,
\* no more than two retries, and a second one only after a stale challenge.
AuthDiscipline ==
    /\ "basic" \in {sent[i] : i \in DOMAIN sent} => scen.safe
    /\ Len(sent) <= 3
    /\ Len(sent) = 3 /\ try = 2 => reply.status = "401" /\ reply.stale

Orderly == Done /\ termErr = "streamEnded"
Compressed == codec \in {"mp3", "aac"}
Spans == {delivered[i] : i \in DOMAIN delivered}

\* However the body was cut into reads, an orderly end has delivered every
\* frame a framer may not miss, once and in order; a multi-block ADTS frame is
\* never delivered, and when no gap was counted the frames and the tags make up
\* the whole body: nothing is lost in silence.
FramesExact ==
    Compressed =>
        /\ \A i, j \in DOMAIN delivered :
              i < j => delivered[i].at + FrameLen <= delivered[j].at
        /\ \A d \in Spans : /\ HeaderAt(scen.body, d.at)
                            /\ codec = "aac" => scen.body[d.at] # "m"
        /\ Orderly =>
              /\ \A p \in DOMAIN scen.body :
                    MustDeliver(codec, scen.body, p) => \E d \in Spans : d.at = p
              /\ malformed = 0 =>
                    \A p \in DOMAIN scen.body :
                        \/ \E d \in Spans : d.at <= p /\ p < d.at + FrameLen
                        \/ InTag(scen.body, p)

Sum(n) == IF n = 0 THEN 0 ELSE delivered[n].at + delivered[n].len - 1

\* The PCM path delivers whole sample-frames, back to back from the first cell
\* and never past a declared data chunk, and an orderly end leaves less than a
\* sample-frame behind, counted as malformed exactly when there is one.
PcmExact ==
    codec = "pcm" =>
        /\ \A i \in DOMAIN delivered :
              /\ delivered[i].len % FrameBytes = 0
              /\ delivered[i].at = Sum(i - 1) + 1
        /\ pc["reader"] \in {"loop", "readErr"} => taken = Sum(Len(delivered)) + fill
        /\ bounded /\ At("open", "opened") =>
              /\ taken <= scen.chunks[at].size
              /\ taken + remaining = scen.chunks[at].size
        /\ Orderly =>
              /\ taken - Sum(Len(delivered)) < FrameBytes
              /\ malformed = (IF taken > Sum(Len(delivered)) THEN 1 ELSE 0)

\* What an HTTP body holds is what its consumer gets, whatever the codec.
DeliveryExact == FramesExact /\ PcmExact

\* The source implements the contract every source promises.
Contract == INSTANCE SourceContract WITH
    Waiters <- Waiters,
    Causes <- {"errClosed", "ctxErr", "streamEnded", "connClosed", "readTimeout", "panic"},
    NoCause <- NoErr,
    Deliveries <- Nat,
    cause <- termErr,
    ended <- Done,
    delivered <- Len(delivered),
    result <- result
ImplementsSource == Contract!Spec
=============================================================================
